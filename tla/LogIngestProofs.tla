--------------------------- MODULE LogIngestProofs ---------------------------
(***************************************************************************)
(* Theorems about LogIngest, for any number of listeners, workers and       *)
(* failures: its types, and that a transaction is only lost to a rejected   *)
(* add, an error of Redis at its lock, a job that was taken from a slow     *)
(* worker, or a run that meets a lock which a fault left behind.            *)
(***************************************************************************)
EXTENDS LogIngest, TLAPS

\* The end of a job keeps the types of the queue and frees its worker.
LEMMA EndJobType ==
  ASSUME TypeOK, NEW w \in Workers, wpc[w] # "idle", Complete(w) \/ FailJob(w)
  PROVE  /\ job' \in [Txs -> JobState]
         /\ owner' \in [Txs -> Workers \cup {None}]
         /\ attempts' \in [Txs -> Nat]
         /\ stalled' \subseteq Txs
         /\ wpc' = [wpc EXCEPT ![w] = "idle"]
         /\ wtx' = [wtx EXCEPT ![w] = None]
         /\ wpc' \in [Workers -> {"idle", "lock", "save", "unlock"}]
         /\ wtx' \in [Workers -> Txs \cup {None}]
         /\ \A v \in Workers : wpc'[v] # "idle" => wtx'[v] \in Txs
<1>1. wpc' = [wpc EXCEPT ![w] = "idle"] /\ wtx' = [wtx EXCEPT ![w] = None] /\ wtx[w] \in Txs
  BY DEF Complete, FailJob, Idle, TypeOK
<1>2. \/ UNCHANGED redis
      \/ /\ job' \in {[job EXCEPT ![wtx[w]] = s] : s \in {"none", "delayed", "failed"}}
         /\ owner' = [owner EXCEPT ![wtx[w]] = None]
         /\ attempts' \in {[attempts EXCEPT ![wtx[w]] = 0], [attempts EXCEPT ![wtx[w]] = @ + 1]}
         /\ stalled' \subseteq stalled
  BY <1>1 DEF Complete, FailJob
<1>3. /\ job' \in [Txs -> JobState] /\ owner' \in [Txs -> Workers \cup {None}]
      /\ attempts' \in [Txs -> Nat] /\ stalled' \subseteq Txs
  BY <1>1, <1>2 DEF TypeOK, JobState, redis
<1> QED BY <1>1, <1>3 DEF TypeOK

\* The end of a process frees its workers.
LEMMA StopType ==
  ASSUME TypeOK, NEW n, Stop(n)
  PROVE  /\ wpc' \in [Workers -> {"idle", "lock", "save", "unlock"}]
         /\ wtx' \in [Workers -> Txs \cup {None}]
         /\ \A w \in Workers : wpc'[w] # "idle" => wtx'[w] \in Txs
         /\ orphans' \subseteq Txs
<1>1. \A v \in Workers : PastLock(v) => wtx[v] \in Txs
  BY DEF PastLock, TypeOK
<1>2. orphans' \subseteq Txs
  BY <1>1 DEF Stop, Locked, TypeOK
<1> QED BY <1>2 DEF Stop, TypeOK

\* Every state of every run has the types of TypeOK.
THEOREM TypeCorrect == Spec => []TypeOK
<1> USE LogIngestAssumption
<1>1. Init => TypeOK
  BY DEF Init, TypeOK, JobState
<1>2. TypeOK /\ [Next]_vars => TypeOK'
  <2> SUFFICES ASSUME TypeOK, [Next]_vars PROVE TypeOK'
    OBVIOUS
  <2>1. ASSUME NEW l \in Listeners, NEW t \in Txs, Hear(l, t) PROVE TypeOK'
    BY <2>1 DEF Hear, TypeOK, JobState
  <2>2. ASSUME NEW w \in Workers, NEW t \in Txs, Take(w, t) PROVE TypeOK'
    BY <2>2 DEF Take, TypeOK, JobState
  <2>3. ASSUME NEW w \in Workers, Lock(w) PROVE TypeOK'
    <3>1. CASE lock[wtx[w]] = None /\ lock' = [lock EXCEPT ![wtx[w]] = NodeOf[w]]
               /\ wpc' = [wpc EXCEPT ![w] = "save"] /\ UNCHANGED <<wtx, redis, excused>>
      BY <2>3, <3>1 DEF Lock, TypeOK, redis, Nodes
    <3>2. CASE Complete(w) /\ UNCHANGED lock /\ excused' = excused \cup (orphans \cap {wtx[w]})
      BY <2>3, <3>2, EndJobType DEF Lock, TypeOK
    <3> QED BY <2>3, <3>1, <3>2 DEF Lock
  <2>4. ASSUME NEW w \in Workers, Save(w) PROVE TypeOK'
    BY <2>4, EndJobType DEF Save, TypeOK
  <2>5. ASSUME NEW w \in Workers, UnLock(w) \/ UnLockFails(w) PROVE TypeOK'
    <3>1. FailJob(w) /\ wpc[w] # "idle" /\ wtx[w] \in Txs
      BY <2>5 DEF UnLock, UnLockFails, TypeOK
    <3>2. /\ lock' \in [Txs -> Nodes \cup {None}] /\ faults' \in Nat
          /\ excused' \subseteq Txs /\ orphans' \subseteq Txs
      BY <2>5, <3>1 DEF UnLock, UnLockFails, Locked, Fault, TypeOK
    <3> QED BY <2>5, <3>1, <3>2, EndJobType DEF UnLock, UnLockFails, TypeOK
  <2>6. ASSUME NEW w \in Workers, LockFails(w) PROVE TypeOK'
    <3>1. Complete(w) /\ wpc[w] # "idle" /\ wtx[w] \in Txs
      BY <2>6 DEF LockFails, TypeOK
    <3>2. lock' \in [Txs -> Nodes \cup {None}] /\ excused' \subseteq Txs /\ faults' \in Nat
      BY <2>6, <3>1 DEF LockFails, Fault, TypeOK, Nodes
    <3> QED BY <2>6, <3>1, <3>2, EndJobType DEF LockFails, TypeOK
  <2>7. ASSUME NEW w \in Workers, SaveFails(w) PROVE TypeOK'
    BY <2>7 DEF SaveFails, Fault, TypeOK, redis
  <2>8. ASSUME NEW t \in Txs, Retry(t) \/ RecoverJob(t) \/ StealJob(t) \/ ExpireLock(t) PROVE TypeOK'
    BY <2>8 DEF Retry, RecoverJob, StealJob, ExpireLock, Stalled, Fault, TypeOK, JobState, redis
  <2>9. ASSUME NEW n \in Nodes, Crash(n) PROVE TypeOK'
    BY <2>9, StopType DEF Crash, Fault, TypeOK, redis
  <2>10. ASSUME NEW l \in Listeners, NEW t \in Txs, HearFails(l, t) PROVE TypeOK'
    <3>1. job' \in [Txs -> JobState]
      BY <2>10 DEF HearFails, TypeOK, JobState
    <3> QED BY <2>10, <3>1, StopType DEF HearFails, Fault, TypeOK
  <2>11. CASE UNCHANGED vars
    BY <2>11 DEF vars, TypeOK, redis
  <2> QED BY <2>1, <2>2, <2>3, <2>4, <2>5, <2>6, <2>7, <2>8, <2>9, <2>10, <2>11 DEF Next, Work
<1> QED BY <1>1, <1>2, PTL DEF Spec

-----------------------------------------------------------------------------
(* Why nothing is lost silently: while a transaction is not excused, one    *)
(* worker at most is at it and owns its job, and its lock is set only while *)
(* that worker is past the lock, after the bucket is stored, or after a     *)
(* fault has left it behind.                                                *)

SoleRun(t) ==
  /\ \A w \in Workers : wtx[w] = t =>
       /\ owner[t] = w /\ job[t] = "active"
       /\ PastLock(w) => lock[t] \in {None, NodeOf[w]}
  /\ t \notin stored /\ lock[t] # None => t \in orphans \/ \E w \in Workers : wtx[w] = t /\ PastLock(w)
  /\ Heard(t) /\ job[t] = "none" => t \in stored

LossInv ==
  /\ \A w \in Workers : wpc[w] = "idle" => wtx[w] = None
  /\ \A t \in Txs \ excused : SoleRun(t)

\* What is not touched by a step keeps its invariant.
LEMMA UntouchedRun ==
  ASSUME NEW t, SoleRun(t),
         wtx \in [Workers -> Txs \cup {None}],
         \A w \in Workers : wtx[w] = t \/ wtx'[w] = t => wtx'[w] = wtx[w] /\ wpc'[w] = wpc[w],
         lock'[t] = lock[t] \/ lock'[t] = None, t \in orphans => t \in orphans' \/ lock'[t] = None,
         job'[t] = job[t], owner'[t] = owner[t], stored \subseteq stored', Heard(t)' = Heard(t)
  PROVE  SoleRun(t)'
BY DEF SoleRun, PastLock

\* The end of a run changes nothing about other transactions.
LEMMA OtherRun ==
  ASSUME TypeOK, NEW w \in Workers, wpc[w] # "idle", Complete(w) \/ FailJob(w),
         NEW t \in Txs, t # wtx[w], SoleRun(t),
         lock'[t] = lock[t], t \in orphans => t \in orphans',
         stored \subseteq stored', heard' = heard
  PROVE  SoleRun(t)'
<1>1. wpc' = [wpc EXCEPT ![w] = "idle"] /\ wtx' = [wtx EXCEPT ![w] = None]
  BY DEF Complete, FailJob, Idle
<1>2. job'[t] = job[t] /\ owner'[t] = owner[t]
  BY DEF Complete, FailJob, redis, TypeOK
<1>3. t # None
  BY LogIngestAssumption
<1>4. \A v \in Workers : wtx[v] = t \/ wtx'[v] = t => wtx'[v] = wtx[v] /\ wpc'[v] = wpc[v]
  BY <1>1, <1>3 DEF TypeOK
<1>5. Heard(t)' = Heard(t)
  BY DEF Heard
<1> QED BY <1>2, <1>4, <1>5, UntouchedRun DEF TypeOK

\* A worker whose job has ended is at no transaction.
LEMMA IdleStep ==
  ASSUME TypeOK, LossInv, NEW w \in Workers, wpc[w] # "idle", Complete(w) \/ FailJob(w)
  PROVE  \A v \in Workers : wpc'[v] = "idle" => wtx'[v] = None
BY DEF Complete, FailJob, Idle, LossInv, TypeOK

\* No step of the live path breaks LossInv.
LEMMA LossStep ==
  ASSUME TypeOK, LossInv, [Next]_vars
  PROVE  LossInv'
<1> USE LogIngestAssumption
<1>1. ASSUME NEW l \in Listeners, NEW t \in Txs, Hear(l, t) PROVE LossInv'
  <2>1. /\ UNCHANGED <<wpc, wtx, lock, owner, stored, orphans, excused>>
        /\ job'[t] # "none" /\ (job[t] = "active" => job'[t] = "active")
        /\ \A q \in Txs : q # t => job'[q] = job[q] /\ (Heard(q)' <=> Heard(q))
    BY <1>1 DEF Hear, TypeOK, Heard
  <2>2. ASSUME NEW q \in Txs \ excused PROVE SoleRun(q)'
    BY <2>1 DEF LossInv, SoleRun, PastLock
  <2> QED BY <2>1, <2>2 DEF LossInv
<1>2. ASSUME NEW w \in Workers, NEW t \in Txs, Take(w, t) PROVE LossInv'
  <2>1. /\ wpc[w] = "idle" /\ wtx[w] = None /\ job[t] = "waiting"
        /\ job' = [job EXCEPT ![t] = "active"] /\ owner' = [owner EXCEPT ![t] = w]
        /\ wpc' = [wpc EXCEPT ![w] = "lock"] /\ wtx' = [wtx EXCEPT ![w] = t]
        /\ UNCHANGED <<heard, stored, lock, orphans, excused>>
    BY <1>2 DEF Take, LossInv
  <2>2. \A v \in Workers : wpc'[v] = "idle" => wtx'[v] = None
    BY <2>1 DEF LossInv, TypeOK
  <2>3. ASSUME NEW q \in Txs \ excused, q # t PROVE SoleRun(q)'
    <3>1. \A v \in Workers : wtx[v] = q \/ wtx'[v] = q => wtx'[v] = wtx[v] /\ wpc'[v] = wpc[v]
      BY <2>1, <2>3 DEF TypeOK
    <3>2. Heard(q)' = Heard(q)
      BY <2>1 DEF Heard
    <3>3. job'[q] = job[q] /\ owner'[q] = owner[q]
      BY <2>1, <2>3 DEF TypeOK
    <3> QED BY <2>1, <3>1, <3>2, <3>3, UntouchedRun DEF TypeOK, LossInv
  <2>4. ASSUME t \notin excused PROVE SoleRun(t)'
    <3>1. \A v \in Workers : wtx[v] # t
      BY <2>1, <2>4 DEF LossInv, SoleRun
    <3>2. t \notin stored => lock[t] = None \/ t \in orphans
      BY <3>1, <2>4 DEF LossInv, SoleRun
    <3> QED BY <2>1, <3>1, <3>2 DEF SoleRun, PastLock, TypeOK
  <2> QED BY <2>1, <2>2, <2>3, <2>4 DEF LossInv
<1>3. ASSUME NEW w \in Workers, Lock(w), lock[wtx[w]] = None,
             lock' = [lock EXCEPT ![wtx[w]] = NodeOf[w]],
             wpc' = [wpc EXCEPT ![w] = "save"], UNCHANGED <<wtx, redis, excused>>
      PROVE  LossInv'
  <2>1. wpc[w] = "lock" /\ wtx[w] \in Txs /\ UNCHANGED <<heard, stored, orphans, excused, job, owner, wtx>>
    BY <1>3 DEF Lock, TypeOK, redis
  <2>2. \A v \in Workers : wpc'[v] = "idle" => wtx'[v] = None
    BY <1>3, <2>1 DEF LossInv, TypeOK
  <2>3. ASSUME NEW q \in Txs \ excused, q # wtx[w] PROVE SoleRun(q)'
    <3>1. \A v \in Workers : wtx[v] = q \/ wtx'[v] = q => wtx'[v] = wtx[v] /\ wpc'[v] = wpc[v]
      BY <1>3, <2>1, <2>3 DEF TypeOK
    <3>2. lock'[q] = lock[q]
      BY <1>3, <2>1, <2>3 DEF TypeOK
    <3>3. Heard(q)' = Heard(q)
      BY <2>1 DEF Heard
    <3> QED BY <2>1, <3>1, <3>2, <3>3, UntouchedRun DEF TypeOK, LossInv
  <2>4. ASSUME wtx[w] \notin excused PROVE SoleRun(wtx[w])'
    <3>1. SoleRun(wtx[w])
      BY <2>1, <2>4 DEF LossInv
    <3>2. \A v \in Workers : wtx[v] = wtx[w] => v = w
      BY <3>1 DEF SoleRun
    <3>3. Heard(wtx[w])' <=> Heard(wtx[w])
      BY <2>1 DEF Heard
    <3>4. lock'[wtx[w]] = NodeOf[w] /\ PastLock(w)'
      BY <1>3, <2>1 DEF TypeOK, PastLock
    <3> QED BY <2>1, <3>1, <3>2, <3>3, <3>4 DEF SoleRun
  <2> QED BY <2>1, <2>2, <2>3, <2>4 DEF LossInv
<1>4. ASSUME NEW w \in Workers, Lock(w), lock[wtx[w]] # None, Complete(w), UNCHANGED lock,
             excused' = excused \cup (orphans \cap {wtx[w]})
      PROVE  LossInv'
  <2>1. wpc[w] = "lock" /\ wtx[w] \in Txs /\ UNCHANGED <<heard, stored, orphans, lock>>
    BY <1>4 DEF Lock, TypeOK
  <2>2. ASSUME NEW t \in Txs \ excused', t = wtx[w] PROVE SoleRun(t)'
    <3>1. SoleRun(t) /\ t \notin orphans
      BY <1>4, <2>1, <2>2 DEF LossInv
    <3>2. \A v \in Workers : wtx[v] = t => v = w
      BY <2>2, <3>1 DEF SoleRun
    <3>3. t \in stored
      BY <2>2, <1>4, <2>1, <3>1, <3>2 DEF SoleRun, PastLock
    <3>4. \A v \in Workers : wtx'[v] # t
      BY <2>2, <1>4, <2>1, <3>2 DEF Complete, Idle, TypeOK
    <3> QED BY <2>2, <2>1, <3>3, <3>4 DEF SoleRun
  <2> QED BY <1>4, <2>1, <2>2, OtherRun, IdleStep DEF LossInv
<1>5. ASSUME NEW w \in Workers, Save(w) PROVE LossInv'
  <2>1. wpc[w] = "save" /\ wtx[w] \in Txs /\ Complete(w) /\ UNCHANGED <<heard, orphans, excused, lock>>
        /\ stored' = stored \cup {wtx[w]}
    BY <1>5 DEF Save, TypeOK
  <2>2. ASSUME NEW t \in Txs \ excused, t = wtx[w] PROVE SoleRun(t)'
    <3>1. \A v \in Workers : wtx[v] = t => v = w
      BY <2>1, <2>2 DEF LossInv, SoleRun
    <3>2. \A v \in Workers : wtx'[v] # t
      BY <2>2, <2>1, <3>1 DEF Complete, Idle, TypeOK
    <3> QED BY <2>2, <2>1, <3>2 DEF SoleRun
  <2> QED BY <2>1, <2>2, OtherRun, IdleStep DEF LossInv
<1>6. ASSUME NEW w \in Workers, UnLock(w) PROVE LossInv'
  <2>1. /\ wpc[w] = "unlock" /\ wtx[w] \in Txs /\ FailJob(w) /\ UNCHANGED <<heard, stored, excused>>
        /\ lock' = [lock EXCEPT ![wtx[w]] = IF @ = NodeOf[w] THEN None ELSE @]
        /\ orphans' = orphans \ {wtx[w]}
    BY <1>6 DEF UnLock, TypeOK
  <2>2. \A q \in Txs : q # wtx[w] => lock'[q] = lock[q] /\ (q \in orphans => q \in orphans')
    BY <2>1 DEF TypeOK
  <2>3. ASSUME NEW t \in Txs \ excused, t = wtx[w] PROVE SoleRun(t)'
    <3>1. SoleRun(t)
      BY <2>1, <2>3 DEF LossInv
    <3>2. \A v \in Workers : wtx[v] = t => v = w
      BY <2>3, <3>1 DEF SoleRun
    <3>3. \A v \in Workers : wtx'[v] # t
      BY <2>3, <2>1, <3>2 DEF FailJob, Idle, TypeOK
    <3>4. lock'[t] = None
      BY <2>3, <2>1, <3>1 DEF SoleRun, PastLock, TypeOK
    <3>5. owner[t] = w /\ job[t] = "active"
      BY <2>3, <3>1 DEF SoleRun
    <3>6. job'[t] # "none"
      BY <2>3, <2>1, <3>5 DEF FailJob, TypeOK
    <3> QED BY <2>3, <2>1, <3>3, <3>4, <3>6 DEF SoleRun
  <2> QED BY <2>1, <2>2, <2>3, OtherRun, IdleStep DEF LossInv
<1>7. ASSUME NEW w \in Workers, LockFails(w) PROVE LossInv'
  <2>1. /\ wpc[w] # "idle" /\ wtx[w] \in Txs /\ Complete(w)
        /\ UNCHANGED <<heard, stored, orphans>> /\ excused' = excused \cup {wtx[w]}
        /\ lock' \in {lock, [lock EXCEPT ![wtx[w]] = IF @ = None THEN NodeOf[w] ELSE @]}
    BY <1>7 DEF LockFails, TypeOK
  <2>2. \A q \in Txs : q # wtx[w] => lock'[q] = lock[q]
    BY <2>1 DEF TypeOK
  <2> QED BY <2>1, <2>2, OtherRun, IdleStep DEF LossInv
<1>17. ASSUME NEW w \in Workers, UnLockFails(w) PROVE LossInv'
  <2>1. /\ wpc[w] = "unlock" /\ wtx[w] \in Txs /\ FailJob(w)
        /\ UNCHANGED <<heard, stored, lock, excused>>
        /\ orphans \subseteq orphans' /\ (lock[wtx[w]] # None => wtx[w] \in orphans')
    BY <1>17 DEF UnLockFails, Locked, TypeOK
  <2>2. ASSUME NEW t \in Txs \ excused, t = wtx[w] PROVE SoleRun(t)'
    <3>1. SoleRun(t)
      BY <2>1, <2>2 DEF LossInv
    <3>2. \A v \in Workers : wtx[v] = t => v = w
      BY <2>2, <3>1 DEF SoleRun
    <3>3. \A v \in Workers : wtx'[v] # t
      BY <2>2, <2>1, <3>2 DEF FailJob, Idle, TypeOK
    <3>4. owner[t] = w /\ job[t] = "active"
      BY <2>2, <3>1 DEF SoleRun
    <3>5. job'[t] # "none"
      BY <2>2, <2>1, <3>4 DEF FailJob, TypeOK
    <3> QED BY <2>2, <2>1, <3>3, <3>5 DEF SoleRun
  <2> QED BY <2>1, <2>2, OtherRun, IdleStep DEF LossInv
<1>8. ASSUME NEW w \in Workers, SaveFails(w) PROVE LossInv'
  <2>1. /\ wpc[w] = "save" /\ wtx[w] \in Txs /\ wpc' = [wpc EXCEPT ![w] = "unlock"]
        /\ stored \subseteq stored' /\ UNCHANGED <<heard, job, owner, lock, wtx, orphans, excused>>
    BY <1>8 DEF SaveFails, TypeOK, redis
  <2>2. \A v \in Workers : wpc'[v] = "idle" => wtx'[v] = None
    BY <2>1 DEF LossInv, TypeOK
  <2>3. \A v \in Workers : PastLock(v)' <=> PastLock(v)
    BY <2>1 DEF PastLock, TypeOK
  <2>4. ASSUME NEW q \in Txs \ excused PROVE SoleRun(q)'
    <3>1. SoleRun(q) /\ (Heard(q)' <=> Heard(q))
      BY <2>1 DEF LossInv, Heard
    <3> QED BY <2>1, <2>3, <3>1 DEF SoleRun
  <2> QED BY <2>1, <2>2, <2>4 DEF LossInv
<1>9. ASSUME NEW t \in Txs, Retry(t) \/ RecoverJob(t) PROVE LossInv'
  <2>1. /\ UNCHANGED <<heard, stored, lock, wpc, wtx, orphans, excused>>
        /\ \A q \in Txs : q # t => job'[q] = job[q] /\ owner'[q] = owner[q]
        /\ job'[t] # "none"
    BY <1>9 DEF Retry, RecoverJob, Stalled, TypeOK
  <2>2. ASSUME t \notin excused PROVE \A w \in Workers : wtx[w] # t
    BY <1>9, <2>2 DEF Retry, RecoverJob, Abandoned, LossInv, SoleRun
  <2>3. ASSUME NEW q \in Txs \ excused PROVE SoleRun(q)'
    <3>1. SoleRun(q) /\ (Heard(q)' <=> Heard(q))
      BY <2>1 DEF LossInv, Heard
    <3> QED BY <2>1, <2>2, <3>1 DEF SoleRun, PastLock
  <2> QED BY <2>1, <2>3 DEF LossInv
<1>10. ASSUME NEW t \in Txs, StealJob(t) PROVE LossInv'
  <2>1. /\ UNCHANGED <<heard, stored, lock, wpc, wtx, orphans>> /\ excused' = excused \cup {t}
        /\ \A q \in Txs : q # t => job'[q] = job[q] /\ owner'[q] = owner[q]
    BY <1>10 DEF StealJob, Stalled, TypeOK
  <2>2. ASSUME NEW q \in Txs \ excused' PROVE SoleRun(q)'
    <3>1. SoleRun(q) /\ (Heard(q)' <=> Heard(q)) /\ q # t
      BY <2>1, <2>2 DEF LossInv, Heard
    <3> QED BY <2>1, <3>1 DEF SoleRun, PastLock
  <2> QED BY <2>1, <2>2 DEF LossInv
<1>11. ASSUME NEW t \in Txs, ExpireLock(t) PROVE LossInv'
  <2>1. /\ UNCHANGED <<heard, stored, job, owner, wpc, wtx, excused>>
        /\ \A q \in Txs : \/ lock'[q] = lock[q] /\ (q \in orphans => q \in orphans')
                         \/ lock'[q] = None
    BY <1>11 DEF ExpireLock, TypeOK, redis
  <2>2. ASSUME NEW q \in Txs \ excused PROVE SoleRun(q)'
    <3>1. SoleRun(q) /\ (Heard(q)' <=> Heard(q))
      BY <2>1 DEF LossInv, Heard
    <3> QED BY <2>1, <3>1 DEF SoleRun, PastLock
  <2> QED BY <2>1, <2>2 DEF LossInv
<1>12. ASSUME NEW n, Stop(n), excused \subseteq excused', UNCHANGED <<stored, owner, lock>>,
              \A q \in Txs \ excused' :
                /\ job[q] = "active" => job'[q] = "active"
                /\ Heard(q)' /\ job'[q] = "none" => Heard(q) /\ job[q] = "none"
       PROVE  LossInv'
  <2>1. \A v \in Workers : wpc'[v] = "idle" => wtx'[v] = None
    BY <1>12 DEF Stop, LossInv, TypeOK
  <2>2. ASSUME NEW q \in Txs \ excused' PROVE SoleRun(q)'
    <3>1. SoleRun(q) /\ q # None
      BY <1>12, <2>2 DEF LossInv
    <3>2. \A v \in Workers : wtx'[v] = q => wtx[v] = q /\ wpc'[v] = wpc[v]
      BY <1>12, <3>1 DEF Stop, TypeOK
    <3>3. \A v \in Workers : wtx[v] = q /\ NodeOf[v] # n => wtx'[v] = q /\ wpc'[v] = wpc[v]
      BY <1>12, <3>1 DEF Stop, TypeOK
    <3>4. \A v \in Workers :
            wtx[v] = q /\ NodeOf[v] = n /\ PastLock(v) /\ lock[q] # None => q \in orphans'
      BY <1>12 DEF Stop, Locked
    <3>5. orphans \subseteq orphans'
      BY <1>12 DEF Stop
    <3>6. q \notin stored' /\ lock'[q] # None =>
            q \in orphans' \/ \E w \in Workers : wtx'[w] = q /\ PastLock(w)'
      BY <1>12, <3>1, <3>3, <3>4, <3>5 DEF SoleRun, PastLock
    <3>7. \A w \in Workers : wtx'[w] = q =>
            /\ owner'[q] = w /\ job'[q] = "active"
            /\ PastLock(w)' => lock'[q] \in {None, NodeOf[w]}
      BY <1>12, <2>2, <3>1, <3>2 DEF SoleRun, PastLock
    <3>8. Heard(q)' /\ job'[q] = "none" => q \in stored'
      BY <1>12, <2>2, <3>1 DEF SoleRun
    <3> QED BY <3>6, <3>7, <3>8 DEF SoleRun
  <2> QED BY <2>1, <2>2 DEF LossInv
<1>13. ASSUME NEW n \in Nodes, Crash(n) PROVE LossInv'
  <2>1. Stop(n) /\ UNCHANGED <<heard, stored, owner, lock, job, excused>>
    BY <1>13 DEF Crash, redis
  <2>2. \A q \in Txs : Heard(q)' <=> Heard(q)
    BY <2>1 DEF Heard
  <2> QED BY <2>1, <2>2, <1>12
<1>14. ASSUME NEW l \in Listeners, NEW t \in Txs, HearFails(l, t) PROVE LossInv'
  <2>1. /\ Stop(l) /\ UNCHANGED <<stored, owner, lock>>
        /\ heard' = heard \cup {<<l, t>>}
        /\ job' \in {job, [job EXCEPT ![t] = IF @ = "none" THEN "waiting" ELSE @]}
        /\ excused' = IF job'[t] = "none" THEN excused \cup {t} ELSE excused
    BY <1>14 DEF HearFails
  <2>2. \A q \in Txs : q # t => job'[q] = job[q] /\ (Heard(q)' <=> Heard(q))
    BY <2>1 DEF Heard, TypeOK
  <2>3. t \notin excused' => job'[t] # "none"
    BY <2>1
  <2>4. \A q \in Txs : job[q] = "active" => job'[q] = "active"
    BY <2>1 DEF TypeOK
  <2> QED BY <2>1, <2>2, <2>3, <2>4, <1>12
<1>15. CASE UNCHANGED vars
  <2>1. UNCHANGED <<heard, stored, job, owner, lock, wpc, wtx, orphans, excused>>
    BY <1>15 DEF vars, redis
  <2> QED BY <2>1 DEF LossInv, SoleRun, PastLock, Heard
<1>16. ASSUME NEW w \in Workers, Lock(w) PROVE LossInv'
  BY <1>3, <1>4, <1>16 DEF Lock
<1> QED BY <1>1, <1>2, <1>5, <1>6, <1>7, <1>8, <1>9, <1>10, <1>11, <1>13, <1>14, <1>15, <1>16, <1>17 DEF Next, Work

\* A transaction that was heard of is saved, in the queue, or excused, for any
\* number of listeners, workers, retries and failures.
THEOREM NothingLostSilently == Spec => []NoSilentLoss
<1>1. Init => LossInv
  BY LogIngestAssumption DEF Init, LossInv, SoleRun, Heard
<1>2. TypeOK /\ LossInv /\ [Next]_vars => LossInv'
  BY LossStep
<1>3. LossInv => NoSilentLoss
  BY DEF LossInv, SoleRun, NoSilentLoss
<1> QED BY <1>1, <1>2, <1>3, TypeCorrect, PTL DEF Spec
=============================================================================
