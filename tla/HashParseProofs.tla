--------------------------- MODULE HashParseProofs ---------------------------
(***************************************************************************)
(* Theorems about HashParse.                                                *)
(* - A record of status 1 has its events stored, and the parsing refines    *)
(*   EventStore: an update that is called and not awaited is called only    *)
(*   for a record whose events are stored, and events are never removed.    *)
(* - The queue is bounded: while no send outlives its lock, the one that    *)
(*   adds holds the lock alone and has counted below the limit.             *)
(* - A poisoned page stays: the records behind it do not enter it.          *)
(***************************************************************************)
EXTENDS HashParse, FiniteSetTheorems, WellFoundedInduction, TLAPS

\* The end of a job (process of worker.service.ts) keeps the types of the queue and the worker.
LEMMA CompleteType ==
  ASSUME TypeOK, NEW w \in Workers, wrec[w] \in Records, Complete(w) \/ FailJob(w)
  PROVE  /\ job' \in [Records -> JobState]
         /\ owner' \in [Records -> Workers \cup {None}]
         /\ attempts' \in [Records -> Nat]
         /\ stalled' \subseteq Records
         /\ wpc' \in [Workers -> {"idle", "lock", "fetch", "save"}]
         /\ wrec' \in [Workers -> Records \cup {None}]
         /\ \A x \in Workers : wpc'[x] # "idle" => wrec'[x] \in Records
<1>1. wpc' = [wpc EXCEPT ![w] = "idle"] /\ wrec' = [wrec EXCEPT ![w] = None]
  BY DEF Complete, FailJob, Idle
<1>2. /\ wpc' \in [Workers -> {"idle", "lock", "fetch", "save"}]
      /\ wrec' \in [Workers -> Records \cup {None}]
      /\ \A x \in Workers : wpc'[x] # "idle" => wrec'[x] \in Records
  BY <1>1 DEF TypeOK
<1>3. CASE UNCHANGED redis
  BY <1>2, <1>3 DEF TypeOK, redis
<1>4. CASE ~UNCHANGED redis /\ Complete(w)
  <2>1. /\ job' = [job EXCEPT ![wrec[w]] = "none"]
        /\ owner' = [owner EXCEPT ![wrec[w]] = None]
        /\ attempts' = [attempts EXCEPT ![wrec[w]] = 0]
        /\ stalled' = stalled \ {wrec[w]}
    BY <1>4 DEF Complete
  <2> QED BY <1>2, <2>1 DEF TypeOK, JobState
<1>5. CASE ~UNCHANGED redis /\ FailJob(w)
  <2>1. /\ attempts' = [attempts EXCEPT ![wrec[w]] = @ + 1]
        /\ job' = [job EXCEPT ![wrec[w]] =
                     IF attempts[wrec[w]] + 1 < MaxAttempts THEN "delayed" ELSE "failed"]
        /\ owner' = [owner EXCEPT ![wrec[w]] = None]
        /\ UNCHANGED stalled
    BY <1>5 DEF FailJob
  <2> QED BY <1>2, <2>1 DEF TypeOK, JobState
<1> QED BY <1>3, <1>4, <1>5

\* Counting a fault keeps its type.
LEMMA FaultType ==
  ASSUME TypeOK, Fault
  PROVE  faults' \in Nat
BY DEF TypeOK, Fault

\* The catch of dealParsePfHashTask adds its unlock and fails the job.
LEMMA ThrowType ==
  ASSUME TypeOK, NEW w \in Workers, wrec[w] \in Records, Throw(w)
  PROVE  unlocks' \subseteq Nodes \X Txs /\ FailJob(w)
<1>1. <<NodeOf[w], TxOf[wrec[w]]>> \in Nodes \X Txs
  BY HashParseAssumption
<1> QED BY <1>1 DEF TypeOK, Throw

\* The page of sendParsePfHashTask consists of records.
LEMMA OldestType == Oldest \subseteq Records
BY DEF Oldest, Pending

\* Every state of every run has the types of TypeOK.
THEOREM TypeCorrect == Spec => []TypeOK
<1>1. Init => TypeOK
  <2> SUFFICES ASSUME Init PROVE TypeOK
    OBVIOUS
  <2>1. /\ record \in [Records -> {"pending", "done"}] /\ job \in [Records -> JobState]
        /\ owner \in [Records -> Workers \cup {None}] /\ attempts \in [Records -> Nat]
    BY DEF Init, JobState
  <2>2. /\ lock \in [Txs -> Nodes \cup {None}] /\ sendLock \in Nodes \cup {None}
        /\ spc \in [Senders -> {"idle", "count", "query", "add", "unlock"}]
        /\ batch \in [Senders -> SUBSET Records]
    BY DEF Init
  <2>3. /\ wpc \in [Workers -> {"idle", "lock", "fetch", "save"}]
        /\ wrec \in [Workers -> Records \cup {None}]
        /\ \A w \in Workers : wpc[w] # "idle" => wrec[w] \in Records
    BY DEF Init
  <2> QED BY <2>1, <2>2, <2>3 DEF Init, TypeOK
<1>2. TypeOK /\ [Next]_vars => TypeOK'
  <2> SUFFICES ASSUME TypeOK, [Next]_vars PROVE TypeOK'
    OBVIOUS
  <2> USE HashParseAssumption
  <2>1. ASSUME NEW s \in Senders, Send(s) PROVE TypeOK'
    <3>1. CASE SendLock(s)
      BY <3>1 DEF TypeOK, SendLock, redis, workers, asyncs
    <3>2. CASE SendCount(s)
      BY <3>2 DEF TypeOK, SendCount, redis, locks, workers, asyncs
    <3>3. CASE SendQuery(s)
      BY <3>3, OldestType DEF TypeOK, SendQuery, redis, locks, workers, asyncs
    <3>4. CASE SendAdd(s)
      BY <3>4 DEF TypeOK, SendAdd, locks, workers, asyncs, JobState
    <3>5. CASE SendUnlock(s)
      BY <3>5 DEF TypeOK, SendUnlock, redis, workers, asyncs
    <3> QED BY <2>1, <3>1, <3>2, <3>3, <3>4, <3>5 DEF Send
  <2>2. ASSUME NEW s \in Senders, SendFails(s) PROVE TypeOK'
    BY <2>2 DEF TypeOK, SendFails, Fault, redis, workers, asyncs
  <2>3. ASSUME NEW w \in Workers, NEW r \in Records, Take(w, r) PROVE TypeOK'
    BY <2>3 DEF TypeOK, Take, JobState, locks, senders, asyncs
  <2>4. ASSUME NEW w \in Workers, Lock(w) PROVE TypeOK'
    <3>1. wrec[w] \in Records
      BY <2>4 DEF Lock, TypeOK
    <3>2. CASE Complete(w)
      BY <2>4, <3>1, <3>2, CompleteType DEF TypeOK, Lock, senders, asyncs
    <3>3. CASE ~Complete(w)
      <4>1. /\ lock' = [lock EXCEPT ![TxOf[wrec[w]]] = NodeOf[w]]
            /\ wpc' = [wpc EXCEPT ![w] = "fetch"]
            /\ UNCHANGED <<record, stored, wrec, redis, sendLock, senders, asyncs, overrun, faults>>
        BY <2>4, <3>3 DEF Lock
      <4> QED BY <3>1, <4>1 DEF TypeOK, redis, senders, asyncs
    <3> QED BY <3>2, <3>3
  <2>5. ASSUME NEW w \in Workers, LockFails(w) PROVE TypeOK'
    <3>1. wrec[w] \in Records
      BY <2>5 DEF LockFails, TypeOK
    <3>2. lock' \in [Txs -> Nodes \cup {None}]
      BY <2>5, <3>1 DEF LockFails, TypeOK
    <3> QED BY <2>5, <3>1, <3>2, CompleteType DEF TypeOK, LockFails, Fault, senders, asyncs
  <2>6. ASSUME NEW w \in Workers, Fetch(w) PROVE TypeOK'
    <3>1. wrec[w] \in Records
      BY <2>6 DEF Fetch, TypeOK
    <3>2. CASE Complete(w)
      BY <2>6, <3>1, <3>2, CompleteType DEF TypeOK, Fetch, locks, senders, asyncs
    <3>3. CASE ~Complete(w)
      BY <2>6, <3>1, <3>3 DEF TypeOK, Fetch, redis, locks, senders, asyncs
    <3> QED BY <3>2, <3>3
  <2>7. ASSUME NEW w \in Workers, FetchFails(w) PROVE TypeOK'
    <3>1. wrec[w] \in Records
      BY <2>7 DEF FetchFails, TypeOK
    <3>2. unlocks' \subseteq Nodes \X Txs /\ FailJob(w) /\ faults' \in Nat
      BY <2>7, <3>1, ThrowType, FaultType DEF FetchFails
    <3>3. UNCHANGED <<record, stored, locks, senders, fixes, overrun>>
      BY <2>7 DEF FetchFails
    <3> QED BY <3>1, <3>2, <3>3, CompleteType DEF TypeOK, locks, senders
  <2>8. ASSUME NEW w \in Workers, Save(w) PROVE TypeOK'
    <3>1. wrec[w] \in Records
      BY <2>8 DEF Save, TypeOK
    <3> QED BY <2>8, <3>1, CompleteType DEF TypeOK, Save, locks, senders, asyncs
  <2>9. ASSUME NEW w \in Workers, SaveDuplicate(w) PROVE TypeOK'
    <3>1. wrec[w] \in Records
      BY <2>9 DEF SaveDuplicate, TypeOK
    <3> QED BY <2>9, <3>1, CompleteType DEF TypeOK, SaveDuplicate, locks, senders
  <2>10. ASSUME NEW w \in Workers, SaveFails(w) PROVE TypeOK'
    <3>1. wrec[w] \in Records
      BY <2>10 DEF SaveFails, TypeOK
    <3>2. record' \in [Records -> {"pending", "done"}] /\ stored' \subseteq Txs
      <4>1. CASE UNCHANGED <<record, stored>>
        BY <4>1 DEF TypeOK
      <4>2. CASE ~UNCHANGED <<record, stored>>
        <5>1. /\ stored' = stored \cup {TxOf[wrec[w]]}
              /\ record' = [record EXCEPT ![wrec[w]] = "done"]
          BY <2>10, <4>2 DEF SaveFails
        <5> QED BY <3>1, <5>1 DEF TypeOK
      <4> QED BY <4>1, <4>2
    <3>3. unlocks' \subseteq Nodes \X Txs /\ FailJob(w) /\ faults' \in Nat
      BY <2>10, <3>1, ThrowType, FaultType DEF SaveFails
    <3>4. UNCHANGED <<locks, senders, fixes, overrun>>
      BY <2>10 DEF SaveFails
    <3> QED BY <3>1, <3>2, <3>3, <3>4, CompleteType DEF TypeOK, locks, senders
  <2>11. CASE UpdateRecordStatus \/ UpdateRecordStatusFails
    <3>1. fixes' \subseteq fixes /\ faults' \in Nat
      BY <2>11 DEF TypeOK, UpdateRecordStatus, UpdateRecordStatusFails, Fault
    <3>2. record' \in [Records -> {"pending", "done"}]
      BY <2>11 DEF TypeOK, UpdateRecordStatus, UpdateRecordStatusFails
    <3>3. UNCHANGED <<stored, redis, locks, workers, senders, unlocks, overrun>>
      BY <2>11 DEF UpdateRecordStatus, UpdateRecordStatusFails
    <3> QED BY <3>1, <3>2, <3>3 DEF TypeOK, redis, locks, workers, senders
  <2>12. CASE UnLock
    BY <2>12 DEF TypeOK, UnLock, redis, workers, senders
  <2>13. ASSUME NEW r \in Records, Retry(r) \/ CleanFailed(r) PROVE TypeOK'
    <3>1. /\ job' \in [Records -> JobState]
          /\ attempts' \in [Records -> Nat] /\ stalled' \subseteq Records
      <4>1. CASE Retry(r)
        BY <4>1 DEF TypeOK, Retry, JobState
      <4>2. CASE CleanFailed(r)
        BY <4>2 DEF TypeOK, CleanFailed, JobState
      <4> QED BY <2>13, <4>1, <4>2
    <3>2. UNCHANGED <<record, stored, owner, locks, workers, senders, asyncs, overrun, faults>>
      BY <2>13 DEF Retry, CleanFailed
    <3> QED BY <3>1, <3>2 DEF TypeOK, locks, workers, senders, asyncs
  <2>14. ASSUME NEW r \in Records, RecoverJob(r) \/ StealJob(r) PROVE TypeOK'
    <3>1. Stalled(r) /\ faults' \in Nat
      BY <2>14 DEF TypeOK, RecoverJob, StealJob, Fault
    <3>2. /\ job' \in [Records -> JobState] /\ owner' \in [Records -> Workers \cup {None}]
          /\ stalled' \subseteq Records
      BY <3>1 DEF TypeOK, Stalled, JobState
    <3> QED BY <3>1, <3>2 DEF TypeOK, Stalled, locks, workers, senders, asyncs
  <2>15. ASSUME NEW t \in Txs, ExpireLock(t) \/ StoreElsewhere(t) PROVE TypeOK'
    BY <2>15 DEF TypeOK, ExpireLock, StoreElsewhere, redis, locks, workers, senders, asyncs
  <2>16. CASE ExpireSendLock
    <3>1. overrun' \in BOOLEAN /\ faults' \in Nat
      <4>1. CASE SendRunning
        BY <2>16, <4>1, FaultType DEF ExpireSendLock
      <4>2. CASE ~SendRunning
        BY <2>16, <4>2 DEF TypeOK, ExpireSendLock
      <4> QED BY <4>1, <4>2
    <3> QED BY <2>16, <3>1 DEF TypeOK, ExpireSendLock, redis, workers, senders, asyncs
  <2>17. ASSUME NEW n \in Nodes, Crash(n) PROVE TypeOK'
    BY <2>17 DEF TypeOK, Crash, Fault, redis, locks
  <2>18. CASE UNCHANGED vars
    BY <2>18 DEF TypeOK, vars, redis, locks, workers, senders, asyncs
  <2> QED
    BY <2>1, <2>2, <2>3, <2>4, <2>5, <2>6, <2>7, <2>8, <2>9, <2>10, <2>11, <2>12,
       <2>13, <2>14, <2>15, <2>16, <2>17, <2>18 DEF Next, Work
<1> QED BY <1>1, <1>2, PTL DEF Spec

-----------------------------------------------------------------------------
\* An update that was called and not awaited is for a record whose events
\* are stored.
FixesAreStored == \A f \in fixes : TxOf[f[2]] \in stored

DoneInv == DoneHasData /\ FixesAreStored

\* Records of status 1, and the updates still under way, have their events.
THEOREM DoneInvariance == Spec => []DoneInv
<1>1. Init => DoneInv
  BY DEF Init, DoneInv, DoneHasData, FixesAreStored
<1>2. TypeOK /\ DoneInv /\ [Next]_vars => DoneInv'
  <2> SUFFICES ASSUME TypeOK, DoneInv, [Next]_vars PROVE DoneInv'
    OBVIOUS
  <2> USE DEF DoneInv, DoneHasData, FixesAreStored
  <2>1. ASSUME UNCHANGED record, stored \subseteq stored', fixes' \subseteq fixes
        PROVE  DoneInv'
    BY <2>1
  <2>2. ASSUME NEW w \in Workers, Save(w) PROVE DoneInv'
    <3>1. /\ stored' = stored \cup {TxOf[wrec[w]]}
          /\ record' = [record EXCEPT ![wrec[w]] = "done"]
          /\ UNCHANGED fixes
      BY <2>2 DEF Save, asyncs
    <3> QED BY <3>1 DEF TypeOK
  <2>3. ASSUME NEW w \in Workers, SaveFails(w) PROVE DoneInv'
    <3>1. UNCHANGED fixes
      BY <2>3 DEF SaveFails
    <3>2. CASE UNCHANGED <<record, stored>>
      BY <3>1, <3>2
    <3>3. CASE ~UNCHANGED <<record, stored>>
      <4>1. /\ stored' = stored \cup {TxOf[wrec[w]]}
            /\ record' = [record EXCEPT ![wrec[w]] = "done"]
        BY <2>3, <3>3 DEF SaveFails
      <4> QED BY <3>1, <4>1 DEF TypeOK
    <3> QED BY <3>2, <3>3
  <2>4. ASSUME NEW w \in Workers, SaveDuplicate(w) PROVE DoneInv'
    <3>1. TxOf[wrec[w]] \in stored /\ fixes' = fixes \cup {<<NodeOf[w], wrec[w]>>}
      BY <2>4 DEF SaveDuplicate, Duplicate
    <3> QED BY <2>4, <3>1 DEF SaveDuplicate
  <2>5. CASE UpdateRecordStatus
    <3>1. PICK f \in fixes : /\ record' = [record EXCEPT ![f[2]] = "done"]
                             /\ fixes' = fixes \ {f}
                             /\ UNCHANGED stored
      BY <2>5 DEF UpdateRecordStatus
    <3> QED BY <3>1 DEF TypeOK
  <2>6. ASSUME NEW s \in Senders, Send(s) \/ SendFails(s) PROVE DoneInv'
    BY <2>1, <2>6
    DEF Send, SendLock, SendCount, SendQuery, SendAdd, SendUnlock, SendFails, asyncs
  <2>7. ASSUME NEW w \in Workers, NEW r \in Records, Take(w, r) PROVE DoneInv'
    BY <2>1, <2>7 DEF Take, asyncs
  <2>8. ASSUME NEW w \in Workers, Lock(w) \/ LockFails(w) \/ Fetch(w) \/ FetchFails(w)
        PROVE  DoneInv'
    BY <2>1, <2>8 DEF Lock, LockFails, Fetch, FetchFails, asyncs
  <2>9. CASE UpdateRecordStatusFails \/ UnLock \/ ExpireSendLock
    BY <2>1, <2>9 DEF UpdateRecordStatusFails, UnLock, ExpireSendLock, asyncs
  <2>10. ASSUME NEW r \in Records, Retry(r) \/ RecoverJob(r) \/ StealJob(r) \/ CleanFailed(r)
         PROVE  DoneInv'
    BY <2>1, <2>10 DEF Retry, RecoverJob, StealJob, Stalled, CleanFailed, asyncs
  <2>11. ASSUME NEW t \in Txs, ExpireLock(t) \/ StoreElsewhere(t) PROVE DoneInv'
    BY <2>1, <2>11 DEF ExpireLock, StoreElsewhere, asyncs
  <2>12. ASSUME NEW n \in Nodes, Crash(n) PROVE DoneInv'
    BY <2>1, <2>12 DEF Crash
  <2>13. CASE UNCHANGED vars
    BY <2>1, <2>13 DEF vars, asyncs
  <2> QED
    BY <2>2, <2>3, <2>4, <2>5, <2>6, <2>7, <2>8, <2>9, <2>10, <2>11, <2>12, <2>13
    DEF Next, Work
<1> QED BY <1>1, <1>2, TypeCorrect, PTL DEF Spec

\* A record of status 1 has its events stored.
THEOREM DoneRecordsHaveData == Spec => []DoneHasData
<1>1. DoneInv => DoneHasData
  BY DEF DoneInv
<1> QED BY <1>1, DoneInvariance, PTL

-----------------------------------------------------------------------------
(* Records as the units of an event store.                                  *)

\* What a step does to the rows: nothing, a save of a transaction none of whose
\* events is stored, the update of a record whose events are, or an event from
\* elsewhere.
LEMMA RowSteps ==
  ASSUME TypeOK, DoneInv, [Next]_vars
  PROVE  \/ UNCHANGED <<record, stored>>
         \/ \E r \in Records : /\ ~Duplicate(r)
                               /\ stored' = stored \cup {TxOf[r]}
                               /\ record' = [record EXCEPT ![r] = "done"]
         \/ \E r \in Records : /\ TxOf[r] \in stored
                               /\ record' = [record EXCEPT ![r] = "done"]
                               /\ stored' = stored
         \/ \E t \in HasTrades \ stored : stored' = stored \cup {t} /\ record' = record
<1>1. ASSUME NEW s \in Senders, Send(s) \/ SendFails(s) PROVE UNCHANGED <<record, stored>>
  BY <1>1 DEF Send, SendLock, SendCount, SendQuery, SendAdd, SendUnlock, SendFails
<1>2. ASSUME NEW w \in Workers, NEW r \in Records, Take(w, r) PROVE UNCHANGED <<record, stored>>
  BY <1>2 DEF Take
<1>3. ASSUME NEW w \in Workers,
             Lock(w) \/ LockFails(w) \/ Fetch(w) \/ FetchFails(w) \/ SaveDuplicate(w)
      PROVE  UNCHANGED <<record, stored>>
  BY <1>3 DEF Lock, LockFails, Fetch, FetchFails, SaveDuplicate
<1>4. ASSUME NEW w \in Workers, Save(w) \/ SaveFails(w)
      PROVE  \/ UNCHANGED <<record, stored>>
             \/ \E r \in Records : /\ ~Duplicate(r)
                                   /\ stored' = stored \cup {TxOf[r]}
                                   /\ record' = [record EXCEPT ![r] = "done"]
  <2>1. wrec[w] \in Records
    BY <1>4 DEF Save, SaveFails, TypeOK
  <2> QED BY <1>4, <2>1 DEF Save, SaveFails
<1>5. ASSUME UpdateRecordStatus
      PROVE  \E r \in Records : /\ TxOf[r] \in stored
                               /\ record' = [record EXCEPT ![r] = "done"]
                               /\ stored' = stored
  <2>1. PICK f \in fixes : record' = [record EXCEPT ![f[2]] = "done"] /\ stored' = stored
    BY <1>5 DEF UpdateRecordStatus
  <2>2. f[2] \in Records /\ TxOf[f[2]] \in stored
    BY DEF TypeOK, DoneInv, FixesAreStored
  <2> QED BY <2>1, <2>2
<1>6. ASSUME UpdateRecordStatusFails \/ UnLock \/ ExpireSendLock PROVE UNCHANGED <<record, stored>>
  BY <1>6 DEF UpdateRecordStatusFails, UnLock, ExpireSendLock
<1>7. ASSUME NEW r \in Records, Retry(r) \/ RecoverJob(r) \/ StealJob(r) \/ CleanFailed(r)
      PROVE  UNCHANGED <<record, stored>>
  BY <1>7 DEF Retry, RecoverJob, StealJob, Stalled, CleanFailed
<1>8. ASSUME NEW t \in Txs, ExpireLock(t) PROVE UNCHANGED <<record, stored>>
  BY <1>8 DEF ExpireLock
<1>9. ASSUME NEW t \in Txs, StoreElsewhere(t)
      PROVE  \E x \in HasTrades \ stored : stored' = stored \cup {x} /\ record' = record
  BY <1>9 DEF StoreElsewhere
<1>10. ASSUME NEW n \in Nodes, Crash(n) PROVE UNCHANGED <<record, stored>>
  BY <1>10 DEF Crash
<1>11. ASSUME UNCHANGED vars PROVE UNCHANGED <<record, stored>>
  BY <1>11 DEF vars
<1> QED
  BY <1>1, <1>2, <1>3, <1>4, <1>5, <1>6, <1>7, <1>8, <1>9, <1>10, <1>11 DEF Next, Work

\* Jobs, locks and retries refine the event store, for any numbers of workers,
\* senders and processes.
THEOREM ParsingImplementsStore == Spec => ImplementsEventStore
<1> DEFINE Events == stored \cap HasTrades
           Marked == {r \in Records : record[r] = "done"}
           Abs == Store!Next \/ UNCHANGED <<Events, Marked>>
<1> USE HashParseAssumption
<1>1. Init => Store!Init
  BY DEF Init, Store!Init
<1>2. TypeOK /\ DoneInv /\ [Next]_vars => [Store!Next]_(Store!storeVars)
  <2> SUFFICES ASSUME TypeOK, DoneInv, [Next]_vars PROVE Abs
    BY DEF Store!storeVars
  <2>1. CASE UNCHANGED <<record, stored>>
    BY <2>1
  <2>2. ASSUME NEW r \in Records, ~Duplicate(r), stored' = stored \cup {TxOf[r]},
               record' = [record EXCEPT ![r] = "done"]
        PROVE  Abs
    <3>1. Marked' = Marked \cup {r}
      BY <2>2 DEF TypeOK
    <3>2. /\ ({TxOf[r]} \cap HasTrades) \cap Events = {}
          /\ Events' = Events \cup ({TxOf[r]} \cap HasTrades)
      BY <2>2 DEF Duplicate
    <3>3. Store!Save(r)
      BY <3>1, <3>2 DEF Store!Save
    <3> QED BY <3>3 DEF Store!Next
  <2>3. ASSUME NEW r \in Records, TxOf[r] \in stored, stored' = stored,
               record' = [record EXCEPT ![r] = "done"]
        PROVE  Abs
    <3>1. Marked' = Marked \cup {r}
      BY <2>3 DEF TypeOK
    <3>2. {TxOf[r]} \cap HasTrades \subseteq Events /\ Events' = Events
      BY <2>3
    <3>3. Store!Confirm(r)
      BY <3>1, <3>2 DEF Store!Confirm
    <3> QED BY <3>3 DEF Store!Next
  <2>4. ASSUME NEW t \in HasTrades \ stored, stored' = stored \cup {t}, record' = record
        PROVE  Abs
    <3>1. Marked' = Marked /\ {t} \in SUBSET HasTrades
      BY <2>4
    <3>2. {t} \cap Events = {} /\ Events' = Events \cup {t}
      BY <2>4
    <3>3. Store!Arrive({t})
      BY <3>1, <3>2 DEF Store!Arrive
    <3> QED BY <3>1, <3>3 DEF Store!Next
  <2> QED BY <2>1, <2>2, <2>3, <2>4, RowSteps
<1> QED BY <1>1, <1>2, DoneInvariance, TypeCorrect, PTL
        DEF Spec, ImplementsEventStore, Store!Spec
-----------------------------------------------------------------------------
(* The size of the queue.                                                   *)

\* A set of naturals has a least element.
LEMMA LeastNatural ==
  ASSUME NEW T \in SUBSET Nat, T # {}
  PROVE  \E m \in T : \A n \in T : m <= n
<1> DEFINE R == {ss \in Nat \X Nat : ss[1] < ss[2]}
<1>1. IsWellFoundedOn(R, Nat)
  BY NatLessThanWellFounded DEF OpToRel
<1> HIDE DEF R
<1>2. PICK m \in T : \A n \in T : ~(<<n, m>> \in R)
  BY <1>1, WFMin
<1>3. \A n \in T : ~(n < m)
  BY <1>2 DEF R
<1>4. \A n \in T : m \in Nat /\ n \in Nat
  OBVIOUS
<1> QED BY <1>2, <1>3, <1>4

\* The pending records before r, which its place in the page depends on.
Before(r) == {q \in Pending : q < r}

\* Ids are natural numbers.
LEMMA PendingIds == Pending \subseteq Records /\ Pending \subseteq Nat /\ Records \subseteq Nat
BY HashParseAssumption DEF Pending

\* What is before r has smaller ids.
LEMMA BeforeIds ==
  ASSUME NEW r, NEW q
  PROVE  q \in Before(r) <=> q \in Pending /\ q < r
BY DEF Before

\* A record has finitely many before it.
LEMMA BeforeFinite ==
  ASSUME NEW r \in Records
  PROVE  IsFiniteSet(Before(r)) /\ Cardinality(Before(r)) \in Nat
<1>1. Before(r) \in SUBSET Nat /\ r \in Nat
  BY PendingIds, BeforeIds
<1>2. \A q \in Before(r) : q <= r
  <2> TAKE q \in Before(r)
  <2>1. q \in Nat /\ q < r
    BY <1>1, BeforeIds
  <2> QED BY <1>1, <2>1
<1>3. IsFiniteSet(Before(r))
  BY <1>1, <1>2, FS_BoundedSetOfNaturals
<1> QED BY <1>3, FS_CardinalityType

\* The page of sendParsePfHashTask has no more records than it asks for.
LEMMA OldestSize == IsFiniteSet(Oldest) /\ Cardinality(Oldest) <= TaskSize
<1> USE HashParseAssumption
<1>1. \A r \in Oldest : /\ r \in Pending /\ r \in Records /\ r \in Nat
                        /\ Cardinality(Before(r)) < TaskSize /\ Cardinality(Before(r)) \in Nat
  BY BeforeFinite DEF Oldest, Pending, Before
<1>2. CASE Oldest = {}
  BY <1>2, FS_EmptySet
<1>3. CASE Oldest # {}
  <2> DEFINE Room == {TaskSize - Cardinality(Before(r)) : r \in Oldest}
  <2>1. Room \in SUBSET Nat /\ Room # {}
    BY <1>1, <1>3
  <2>2. PICK k \in Room : \A n \in Room : k <= n
    BY <2>1, LeastNatural
  <2>3. PICK m \in Oldest : k = TaskSize - Cardinality(Before(m))
    BY <2>2
  <2>4. \A r \in Oldest : Cardinality(Before(r)) <= Cardinality(Before(m))
    <3> TAKE r \in Oldest
    <3>1. k <= TaskSize - Cardinality(Before(r))
      BY <2>2
    <3>2. TaskSize \in Nat /\ Cardinality(Before(r)) \in Nat /\ Cardinality(Before(m)) \in Nat
      BY <1>1
    <3> QED BY <2>3, <3>1, <3>2
  <2>5. /\ IsFiniteSet(Before(m) \cup {m})
        /\ Cardinality(Before(m) \cup {m}) = Cardinality(Before(m)) + 1
    <3>1. m \notin Before(m)
      BY <1>1, BeforeIds
    <3> QED BY <1>1, <3>1, BeforeFinite, FS_AddElement
  <2>6. Oldest \subseteq Before(m) \cup {m}
    <3> SUFFICES ASSUME NEW r \in Oldest, r \notin Before(m), r # m PROVE FALSE
      OBVIOUS
    <3>1. m < r
      BY <1>1, BeforeIds
    <3>2. Before(m) \cup {m} \subseteq Before(r)
      <4>1. ASSUME NEW q \in Before(m) PROVE q \in Before(r)
        <5>1. q \in Pending /\ q < m /\ q \in Nat
          BY PendingIds, BeforeIds
        <5> QED BY <1>1, <3>1, <5>1, BeforeIds
      <4> QED BY <1>1, <3>1, <4>1, BeforeIds
    <3>3. Cardinality(Before(m) \cup {m}) <= Cardinality(Before(r))
      BY <1>1, <3>2, BeforeFinite, FS_Subset
    <3> QED BY <1>1, <2>4, <2>5, <3>3
  <2>7. IsFiniteSet(Oldest) /\ Cardinality(Oldest) <= Cardinality(Before(m) \cup {m})
    BY <2>5, <2>6, FS_Subset
  <2>8. Cardinality(Oldest) \in Nat
    BY <2>7, FS_CardinalityType
  <2> QED BY <1>1, <2>5, <2>7, <2>8
<1> QED BY <1>2, <1>3
\* The records whose job key exists.
Jobs == {r \in Records : job[r] # "none"}

\* A call of sendParsePfHashTask that is running holds the send lock and is the only one.
Alone(s) == sendLock = NodeOf[s] /\ \A q \in Senders \ {s} : spc[q] = "idle"

BacklogInv ==
  /\ \A s \in Senders : IsFiniteSet(batch[s]) /\ Cardinality(batch[s]) <= TaskSize
  /\ ~overrun =>
       /\ IsFiniteSet(Jobs) /\ Cardinality(Jobs) <= QueueLimit + TaskSize
       /\ \A s \in Senders : spc[s] # "idle" => Alone(s)
       /\ \A s \in Senders : spc[s] \in {"query", "add"} => Cardinality(Jobs) <= QueueLimit

\* Job keys are only added by addBulk.
LEMMA JobsStep ==
  ASSUME TypeOK, [Next]_vars
  PROVE  \/ Jobs' \subseteq Jobs
         \/ \E s \in Senders : SendAdd(s) /\ Jobs' \subseteq Jobs \cup batch[s]
<1>1. ASSUME NEW s \in Senders, SendAdd(s) PROVE Jobs' \subseteq Jobs \cup batch[s]
  BY <1>1 DEF SendAdd, Jobs, TypeOK
<1>2. ASSUME UNCHANGED job PROVE Jobs' \subseteq Jobs
  BY <1>2 DEF Jobs
<1>3. ASSUME NEW s \in Senders, SendLock(s) \/ SendCount(s) \/ SendQuery(s) \/ SendUnlock(s) \/ SendFails(s)
      PROVE  Jobs' \subseteq Jobs
  BY <1>2, <1>3 DEF SendLock, SendCount, SendQuery, SendUnlock, SendFails, redis
<1>4. ASSUME NEW w \in Workers, NEW r \in Records, Take(w, r) PROVE Jobs' \subseteq Jobs
  BY <1>4 DEF Take, Jobs, TypeOK
<1>5. ASSUME NEW w \in Workers, Complete(w) \/ FailJob(w) PROVE Jobs' \subseteq Jobs
  <2>1. CASE UNCHANGED job
    BY <1>2, <2>1
  <2>2. CASE job[wrec[w]] = "active" /\ \E j \in JobState : job' = [job EXCEPT ![wrec[w]] = j]
    BY <2>2 DEF Jobs, TypeOK
  <2> QED BY <1>5, <2>1, <2>2 DEF Complete, FailJob, redis, JobState
<1>6. ASSUME NEW w \in Workers,
             Lock(w) \/ LockFails(w) \/ Fetch(w) \/ FetchFails(w) \/ Save(w) \/ SaveDuplicate(w) \/ SaveFails(w)
      PROVE  Jobs' \subseteq Jobs
  BY <1>2, <1>5, <1>6 DEF Lock, LockFails, Fetch, FetchFails, Save, SaveDuplicate, SaveFails, Throw, redis
<1>7. ASSUME UpdateRecordStatus \/ UpdateRecordStatusFails \/ UnLock \/ ExpireSendLock PROVE Jobs' \subseteq Jobs
  BY <1>2, <1>7 DEF UpdateRecordStatus, UpdateRecordStatusFails, UnLock, ExpireSendLock, redis
<1>8. ASSUME NEW r \in Records, Retry(r) \/ RecoverJob(r) \/ StealJob(r) \/ CleanFailed(r)
      PROVE  Jobs' \subseteq Jobs
  BY <1>8 DEF Retry, RecoverJob, StealJob, Stalled, CleanFailed, Jobs, TypeOK
<1>9. ASSUME NEW t \in Txs, ExpireLock(t) \/ StoreElsewhere(t) PROVE Jobs' \subseteq Jobs
  BY <1>2, <1>9 DEF ExpireLock, StoreElsewhere, redis
<1>10. ASSUME NEW n \in Nodes, Crash(n) PROVE Jobs' \subseteq Jobs
  BY <1>2, <1>10 DEF Crash, redis
<1>11. ASSUME UNCHANGED vars PROVE Jobs' \subseteq Jobs
  BY <1>2, <1>11 DEF vars, redis
<1> QED
  BY <1>1, <1>3, <1>4, <1>6, <1>7, <1>8, <1>9, <1>10, <1>11 DEF Next, Send, Work

\* Where the senders are, the send lock and the overrun change in a few steps only.
LEMMA SenderSteps ==
  ASSUME TypeOK, [Next]_vars
  PROVE  \/ UNCHANGED <<senders, sendLock, overrun>>
         \/ \E s \in Senders : Send(s) \/ SendFails(s)
         \/ ExpireSendLock
         \/ \E n \in Nodes : Crash(n)
<1> DEFINE Same == UNCHANGED <<senders, sendLock, overrun>>
<1>1. ASSUME NEW w \in Workers, Work(w) \/ LockFails(w) \/ FetchFails(w) \/ SaveFails(w) PROVE Same
  BY <1>1 DEF Work, Take, Lock, LockFails, Fetch, FetchFails, Save, SaveDuplicate, SaveFails, locks, senders
<1>2. ASSUME UpdateRecordStatus \/ UpdateRecordStatusFails \/ UnLock PROVE Same
  BY <1>2 DEF UpdateRecordStatus, UpdateRecordStatusFails, UnLock, locks, senders
<1>3. ASSUME NEW r \in Records, Retry(r) \/ RecoverJob(r) \/ StealJob(r) \/ CleanFailed(r) PROVE Same
  BY <1>3 DEF Retry, RecoverJob, StealJob, Stalled, CleanFailed, locks, senders
<1>4. ASSUME NEW t \in Txs, ExpireLock(t) \/ StoreElsewhere(t) PROVE Same
  BY <1>4 DEF ExpireLock, StoreElsewhere, locks, senders
<1>5. ASSUME UNCHANGED vars PROVE Same
  BY <1>5 DEF vars, locks, senders
<1> QED BY <1>1, <1>2, <1>3, <1>4, <1>5 DEF Next

\* Pages are no larger than TaskSize, whatever becomes of them.
LEMMA BatchStep ==
  ASSUME TypeOK, BacklogInv, [Next]_vars
  PROVE  \A s \in Senders : IsFiniteSet(batch'[s]) /\ Cardinality(batch'[s]) <= TaskSize
<1> SUFFICES ASSUME NEW s \in Senders PROVE IsFiniteSet(batch'[s]) /\ Cardinality(batch'[s]) <= TaskSize
  OBVIOUS
<1>1. CASE batch'[s] = batch[s]
  BY <1>1 DEF BacklogInv
<1>2. CASE batch'[s] = {}
  BY <1>2, FS_EmptySet, HashParseAssumption
<1>3. CASE batch'[s] = Oldest
  BY <1>3, OldestSize
<1>4. ASSUME NEW q \in Senders, Send(q) \/ SendFails(q)
      PROVE  batch'[s] = batch[s] \/ batch'[s] = {} \/ batch'[s] = Oldest
  BY <1>4 DEF Send, SendLock, SendCount, SendQuery, SendAdd, SendUnlock, SendFails, TypeOK
<1>5. ASSUME NEW n \in Nodes, Crash(n) PROVE batch'[s] = batch[s] \/ batch'[s] = {}
  BY <1>5 DEF Crash
<1>6. ASSUME ExpireSendLock \/ UNCHANGED <<senders, sendLock, overrun>> PROVE batch'[s] = batch[s]
  BY <1>6 DEF ExpireSendLock, senders
<1> QED BY <1>1, <1>2, <1>3, <1>4, <1>5, <1>6, SenderSteps
\* A send lock that expired under its holder stays remembered.
LEMMA OverrunStays ==
  ASSUME TypeOK, [Next]_vars, ~overrun'
  PROVE  ~overrun
BY SenderSteps
DEF Send, SendLock, SendCount, SendQuery, SendAdd, SendUnlock, SendFails, ExpireSendLock, Crash

\* While no send outlives its lock, sendParsePfHashTask runs alone.
LEMMA AloneStep ==
  ASSUME TypeOK, BacklogInv, [Next]_vars, ~overrun', NEW s \in Senders, spc'[s] # "idle"
  PROVE  Alone(s)'
<1> USE HashParseAssumption
<1>1. \A q \in Senders : spc[q] # "idle" => Alone(q)
  BY OverrunStays DEF BacklogInv
<1>2. \A q \in Senders : NodeOf[q] # None
  OBVIOUS
<1>3. CASE UNCHANGED <<senders, sendLock, overrun>>
  BY <1>1, <1>3 DEF Alone, senders
<1>4. ASSUME NEW q \in Senders, SendLock(q) PROVE Alone(s)'
  <2>1. \A x \in Senders : spc[x] = "idle"
    BY <1>1, <1>2, <1>4 DEF SendLock, Alone
  <2>2. sendLock' = NodeOf[q] /\ spc' = [spc EXCEPT ![q] = "count"]
    BY <1>4 DEF SendLock
  <2>3. s = q
    BY <2>1, <2>2 DEF TypeOK
  <2> QED BY <2>1, <2>2, <2>3 DEF Alone, TypeOK
<1>5. ASSUME NEW q \in Senders, spc[q] # "idle", NEW p, spc' = [spc EXCEPT ![q] = p],
             sendLock' = sendLock \/ p = "idle"
      PROVE  Alone(s)'
  <2>1. Alone(q)
    BY <1>1, <1>5
  <2>2. s = q
    BY <1>5, <2>1 DEF Alone, TypeOK
  <2>3. sendLock' = sendLock
    BY <1>5, <2>2 DEF TypeOK
  <2> QED BY <1>5, <2>1, <2>2, <2>3 DEF Alone, TypeOK
<1>6. ASSUME NEW q \in Senders, SendCount(q) \/ SendQuery(q) \/ SendAdd(q) \/ SendUnlock(q)
      PROVE  \E p : spc[q] # "idle" /\ spc' = [spc EXCEPT ![q] = p] /\ (sendLock' = sendLock \/ p = "idle")
  BY <1>6 DEF SendCount, SendQuery, SendAdd, SendUnlock, locks
<1>7. ASSUME NEW q \in Senders, SendFails(q) PROVE Alone(s)'
  <2>1. CASE spc[q] = "idle"
    <3>1. spc' = spc /\ sendLock = None
      BY <1>7, <2>1 DEF SendFails
    <3> QED BY <1>1, <1>2, <3>1 DEF Alone
  <2>2. CASE spc[q] # "idle"
    <3>1. PICK p : spc' = [spc EXCEPT ![q] = p] /\ sendLock' = sendLock
      BY <1>7, <2>2 DEF SendFails
    <3> QED BY <1>5, <2>2, <3>1
  <2> QED BY <2>1, <2>2
<1>8. CASE ExpireSendLock
  <2>1. ~SendRunning /\ spc' = spc
    BY <1>8 DEF ExpireSendLock, senders
  <2> QED BY <1>1, <2>1 DEF SendRunning, Alone
<1>9. ASSUME NEW n \in Nodes, Crash(n) PROVE Alone(s)'
  <2>1. sendLock' = sendLock /\ \A q \in Senders : spc'[q] \in {spc[q], "idle"}
    BY <1>9 DEF Crash, locks
  <2>2. Alone(s)
    BY <1>1, <2>1
  <2> QED BY <2>1, <2>2 DEF Alone
<1> QED BY <1>3, <1>4, <1>5, <1>6, <1>7, <1>8, <1>9, SenderSteps DEF Send

\* A sender that has counted goes on only below the limit, and nobody adds a key until
\* it does.
LEMMA CountStep ==
  ASSUME TypeOK, BacklogInv, [Next]_vars, ~overrun',
         NEW s \in Senders, spc'[s] \in {"query", "add"}
  PROVE  Cardinality(Jobs') <= QueueLimit
<1> USE HashParseAssumption
<1>1. /\ IsFiniteSet(Jobs) /\ Cardinality(Jobs) \in Nat
      /\ \A q \in Senders : spc[q] # "idle" => Alone(q)
      /\ spc[s] \in {"query", "add"} => Cardinality(Jobs) <= QueueLimit
  BY OverrunStays, FS_CardinalityType DEF BacklogInv
<1>2. ASSUME NEW q \in Senders, SendAdd(q) PROVE FALSE
  <2>1. spc[q] = "add" /\ spc' = [spc EXCEPT ![q] = "unlock"]
    BY <1>2 DEF SendAdd
  <2>2. CASE s = q
    BY <2>1, <2>2 DEF TypeOK
  <2>3. CASE s # q
    BY <1>1, <2>1, <2>3 DEF Alone, TypeOK
  <2> QED BY <2>2, <2>3
<1>3. Jobs' \subseteq Jobs
  BY <1>2, JobsStep
<1>4. Cardinality(Jobs) <= QueueLimit
  <2>1. CASE spc[s] \in {"query", "add"}
    BY <1>1, <2>1
  <2>2. ASSUME SendCount(s) PROVE Cardinality(Jobs) <= QueueLimit
    <3> DEFINE Active == {r \in Records : job[r] = "active"}
    <3>1. Active \subseteq Jobs
      BY DEF Jobs
    <3>2. Cardinality(Active) \in Nat
      BY <1>1, <3>1, FS_Subset, FS_CardinalityType
    <3>3. JobKeys <= QueueLimit
      <4>1. spc' = [spc EXCEPT ![s] = IF JobKeys > QueueLimit THEN "unlock" ELSE "query"]
        BY <2>2 DEF SendCount
      <4>2. JobKeys \in Nat
        BY <1>1, <3>2 DEF JobKeys, Jobs
      <4>3. ~(JobKeys > QueueLimit)
        BY <4>1 DEF TypeOK
      <4> QED BY <4>2, <4>3
    <3> QED BY <1>1, <3>2, <3>3 DEF JobKeys, Jobs
  <2>3. ASSUME spc[s] \notin {"query", "add"} PROVE SendCount(s)
    <3>1. CASE UNCHANGED <<senders, sendLock, overrun>> \/ ExpireSendLock
      BY <2>3, <3>1 DEF senders, ExpireSendLock
    <3>2. ASSUME NEW n \in Nodes, Crash(n) PROVE FALSE
      BY <2>3, <3>2 DEF Crash
    <3>3. ASSUME NEW q \in Senders, Send(q) \/ SendFails(q) PROVE SendCount(s)
      BY <2>3, <3>3
      DEF Send, SendLock, SendCount, SendQuery, SendAdd, SendUnlock, SendFails, TypeOK
    <3> QED BY <3>1, <3>2, <3>3, SenderSteps
  <2> QED BY <2>1, <2>2, <2>3
<1>5. Cardinality(Jobs') <= Cardinality(Jobs) /\ Cardinality(Jobs') \in Nat
  BY <1>1, <1>3, FS_Subset, FS_CardinalityType
<1> QED BY <1>1, <1>4, <1>5

\* The queue holds at most a page more than the limit, as long as no send takes longer than
\* its lock lives (sendParsePfHashTask).
THEOREM QueueIsBounded == Spec => []BacklogBounded
<1> USE HashParseAssumption
<1>1. Init => BacklogInv
  <2> SUFFICES ASSUME Init PROVE BacklogInv
    OBVIOUS
  <2>1. Jobs = {} /\ \A s \in Senders : batch[s] = {} /\ spc[s] = "idle"
    BY DEF Init, Jobs
  <2>2. IsFiniteSet(Jobs) /\ Cardinality(Jobs) = 0
    BY <2>1, FS_EmptySet
  <2>3. ASSUME NEW s \in Senders PROVE IsFiniteSet(batch[s]) /\ Cardinality(batch[s]) = 0
    BY <2>1, FS_EmptySet
  <2> QED BY <2>1, <2>2, <2>3 DEF BacklogInv
<1>2. TypeOK /\ BacklogInv /\ [Next]_vars => BacklogInv'
  <2> SUFFICES ASSUME TypeOK, BacklogInv, [Next]_vars, ~overrun'
               PROVE  IsFiniteSet(Jobs') /\ Cardinality(Jobs') <= QueueLimit + TaskSize
    BY BatchStep, AloneStep, CountStep DEF BacklogInv
  <2>1. IsFiniteSet(Jobs) /\ Cardinality(Jobs) <= QueueLimit + TaskSize /\ Cardinality(Jobs) \in Nat
    BY OverrunStays, FS_CardinalityType DEF BacklogInv
  <2>2. CASE Jobs' \subseteq Jobs
    <3>1. IsFiniteSet(Jobs') /\ Cardinality(Jobs') <= Cardinality(Jobs) /\ Cardinality(Jobs') \in Nat
      BY <2>1, <2>2, FS_Subset, FS_CardinalityType
    <3> QED BY <2>1, <3>1
  <2>3. ASSUME NEW s \in Senders, SendAdd(s), Jobs' \subseteq Jobs \cup batch[s]
        PROVE  IsFiniteSet(Jobs') /\ Cardinality(Jobs') <= QueueLimit + TaskSize
    <3>1. /\ IsFiniteSet(batch[s]) /\ Cardinality(batch[s]) <= TaskSize
          /\ Cardinality(batch[s]) \in Nat /\ Cardinality(Jobs) <= QueueLimit
      BY <2>3, OverrunStays, FS_CardinalityType DEF BacklogInv, SendAdd
    <3>2. /\ IsFiniteSet(Jobs \cup batch[s])
          /\ Cardinality(Jobs \cup batch[s]) =
               Cardinality(Jobs) + Cardinality(batch[s]) - Cardinality(Jobs \cap batch[s])
      BY <2>1, <3>1, FS_Union
    <3>3. Cardinality(Jobs \cap batch[s]) \in Nat
      BY <2>1, FS_Subset, FS_CardinalityType
    <3>4. /\ IsFiniteSet(Jobs') /\ Cardinality(Jobs') <= Cardinality(Jobs \cup batch[s])
          /\ Cardinality(Jobs') \in Nat
      BY <2>3, <3>2, FS_Subset, FS_CardinalityType
    <3> QED BY <2>1, <3>1, <3>2, <3>3, <3>4
  <2> QED BY <2>2, <2>3, JobsStep
<1>3. BacklogInv => BacklogBounded
  BY DEF BacklogInv, BacklogBounded, Jobs
<1> QED BY <1>1, <1>2, <1>3, TypeCorrect, PTL DEF Spec
-----------------------------------------------------------------------------
(* Records behind a page that cannot be parsed.                             *)

\* What is about to be saved could be parsed.
SaveInv == \A w \in Workers : wpc[w] = "save" => TxOf[wrec[w]] \notin Bad

\* A job that dealParsePfHashTask ends, and one that it begins, is not about to be saved.
LEMMA SaveStep ==
  ASSUME TypeOK, SaveInv, [Next]_vars
  PROVE  SaveInv'
<1>1. ASSUME UNCHANGED workers PROVE SaveInv'
  BY <1>1 DEF SaveInv, workers
<1>2. ASSUME NEW w \in Workers, NEW p, NEW r, wpc' = [wpc EXCEPT ![w] = p],
             wrec' = [wrec EXCEPT ![w] = r], p = "save" => TxOf[r] \notin Bad
      PROVE  SaveInv'
  BY <1>2 DEF SaveInv, TypeOK
<1>3. ASSUME NEW w \in Workers, Complete(w) \/ FailJob(w) PROVE SaveInv'
  BY <1>2, <1>3 DEF Complete, FailJob, Idle
<1>4. ASSUME NEW w \in Workers, NEW p, wpc' = [wpc EXCEPT ![w] = p], UNCHANGED wrec,
             p = "save" => TxOf[wrec[w]] \notin Bad
      PROVE  SaveInv'
  BY <1>4 DEF SaveInv, TypeOK
<1>5. ASSUME NEW w \in Workers, NEW r \in Records, Take(w, r) PROVE SaveInv'
  BY <1>2, <1>5 DEF Take
<1>6. ASSUME NEW w \in Workers, Lock(w) \/ Fetch(w) PROVE SaveInv'
  BY <1>3, <1>4, <1>6 DEF Lock, Fetch
<1>7. ASSUME NEW w \in Workers,
             LockFails(w) \/ FetchFails(w) \/ Save(w) \/ SaveDuplicate(w) \/ SaveFails(w)
      PROVE  SaveInv'
  BY <1>3, <1>7 DEF LockFails, FetchFails, Save, SaveDuplicate, SaveFails, Throw
<1>8. ASSUME NEW n \in Nodes, Crash(n) PROVE SaveInv'
  BY <1>8 DEF Crash, SaveInv
<1>9. ASSUME NEW s \in Senders, Send(s) \/ SendFails(s) PROVE SaveInv'
  BY <1>1, <1>9 DEF Send, SendLock, SendCount, SendQuery, SendAdd, SendUnlock, SendFails
<1>10. ASSUME \/ UpdateRecordStatus \/ UpdateRecordStatusFails \/ UnLock \/ ExpireSendLock
              \/ UNCHANGED vars
       PROVE  SaveInv'
  BY <1>1, <1>10 DEF UpdateRecordStatus, UpdateRecordStatusFails, UnLock, ExpireSendLock, vars
<1>11. ASSUME NEW r \in Records, Retry(r) \/ RecoverJob(r) \/ StealJob(r) \/ CleanFailed(r)
       PROVE  SaveInv'
  BY <1>1, <1>11 DEF Retry, RecoverJob, StealJob, Stalled, CleanFailed
<1>12. ASSUME NEW t \in Txs, ExpireLock(t) \/ StoreElsewhere(t) PROVE SaveInv'
  BY <1>1, <1>12 DEF ExpireLock, StoreElsewhere
<1> QED
  BY <1>5, <1>6, <1>7, <1>8, <1>9, <1>10, <1>11, <1>12 DEF Next, Work

\* Which records are read first does not depend on those that come after them.
LEMMA OldestKept ==
  ASSUME NEW q \in Pending \ Oldest, Pending' = Pending \ {q}
  PROVE  Oldest' = Oldest
<1> USE HashParseAssumption
<1>1. \A r : Before(r)' = Before(r) \ {q}
  BY DEF Before
<1>2. \A r : r \in Oldest <=> r \in Pending /\ Cardinality(Before(r)) < TaskSize
  BY DEF Oldest, Before
<1>3. \A r : r \in Oldest' <=> r \in Pending' /\ Cardinality(Before(r)') < TaskSize
  BY DEF Oldest, Before
<1>4. \A r \in Pending : r \in Records /\ r \in Nat
  BY PendingIds
<1>5. ASSUME NEW r \in Oldest PROVE r \in Oldest'
  <2>1. r \in Pending' /\ r \in Records
    BY <1>2, <1>4
  <2>2. /\ IsFiniteSet(Before(r)) /\ Cardinality(Before(r)) \in Nat
        /\ Cardinality(Before(r)') <= Cardinality(Before(r)) /\ Cardinality(Before(r)') \in Nat
    BY <1>1, <2>1, BeforeFinite, FS_Subset, FS_CardinalityType
  <2> QED BY <1>2, <1>3, <2>1, <2>2
<1>6. ASSUME NEW r \in Pending', r \notin Oldest PROVE r \notin Oldest'
  <2>1. r \in Pending /\ r \in Records /\ r \in Nat /\ q \in Records /\ q \in Nat
    BY <1>4
  <2>2. /\ Cardinality(Before(r)) >= TaskSize /\ Cardinality(Before(q)) >= TaskSize
        /\ IsFiniteSet(Before(r)) /\ Cardinality(Before(q)) \in Nat
    BY <1>2, <1>6, <2>1, BeforeFinite
  <2>3. CASE q \notin Before(r)
    <3>1. Before(r)' = Before(r) /\ Cardinality(Before(r)) \in Nat
      BY <1>1, <2>1, <2>3, BeforeFinite
    <3>2. ~(Cardinality(Before(r)) < TaskSize)
      BY <2>2, <3>1
    <3> QED BY <1>3, <3>1, <3>2
  <2>4. CASE q \in Before(r)
    <3>1. q < r
      BY <2>4, BeforeIds
    <3>2. q \notin Before(q)
      BY <2>1, BeforeIds
    <3>3. ASSUME NEW x \in Before(q) PROVE x \in Before(r)
      <4>1. x \in Pending /\ x < q /\ x \in Nat
        BY <1>4, BeforeIds
      <4> QED BY <2>1, <3>1, <4>1, BeforeIds
    <3>4. Before(q) \subseteq Before(r)'
      BY <1>1, <3>2, <3>3
    <3>5. IsFiniteSet(Before(r)')
      BY <1>1, <2>2, FS_Subset
    <3>6. Cardinality(Before(q)) <= Cardinality(Before(r)') /\ Cardinality(Before(r)') \in Nat
      BY <3>4, <3>5, FS_Subset, FS_CardinalityType
    <3> QED BY <1>3, <2>2, <3>6
  <2> QED BY <2>3, <2>4
<1>7. Oldest' \subseteq Pending'
  BY <1>3
<1>8. Oldest \subseteq Pending
  BY <1>2
<1> QED BY <1>5, <1>6, <1>7
\* Behind a poisoned page only records that are neither on it nor r become done.
LEMMA PoisonRows ==
  ASSUME TypeOK, SaveInv, [Next]_vars, NEW r \in Records, Poisoned, Waiting(r)
  PROVE  \/ record' = record
         \/ \E q \in Records : q \notin Oldest /\ q # r /\ record' = [record EXCEPT ![q] = "done"]
<1>1. ASSUME NEW w \in Workers, Save(w) \/ SaveFails(w)
      PROVE  wrec[w] \in Records /\ wrec[w] \notin Oldest /\ wrec[w] # r
  BY <1>1 DEF Save, SaveFails, TypeOK, SaveInv, Poisoned, Waiting
<1>2. ASSUME NEW w \in Workers, Save(w) \/ SaveFails(w)
      PROVE  record' = record \/ record' = [record EXCEPT ![wrec[w]] = "done"]
  BY <1>2 DEF Save, SaveFails
<1>3. ASSUME UpdateRecordStatus
      PROVE  \E q \in Records : q \notin Oldest /\ q # r /\ record' = [record EXCEPT ![q] = "done"]
  <2>1. PICK f \in fixes : record' = [record EXCEPT ![f[2]] = "done"]
    BY <1>3 DEF UpdateRecordStatus
  <2>2. f[2] \in Records /\ f[2] \notin Oldest /\ f[2] # r
    BY DEF TypeOK, Poisoned, Waiting
  <2> QED BY <2>1, <2>2
<1>4. ASSUME NEW s \in Senders, Send(s) \/ SendFails(s) PROVE record' = record
  BY <1>4 DEF Send, SendLock, SendCount, SendQuery, SendAdd, SendUnlock, SendFails
<1>5. ASSUME NEW w \in Workers,
             \/ \E q \in Records : Take(w, q)
             \/ Lock(w) \/ LockFails(w) \/ Fetch(w) \/ FetchFails(w) \/ SaveDuplicate(w)
      PROVE  record' = record
  BY <1>5 DEF Take, Lock, LockFails, Fetch, FetchFails, SaveDuplicate
<1>6. ASSUME UpdateRecordStatusFails \/ UnLock \/ ExpireSendLock \/ UNCHANGED vars
      PROVE  record' = record
  BY <1>6 DEF UpdateRecordStatusFails, UnLock, ExpireSendLock, vars
<1>7. ASSUME NEW q \in Records, Retry(q) \/ RecoverJob(q) \/ StealJob(q) \/ CleanFailed(q)
      PROVE  record' = record
  BY <1>7 DEF Retry, RecoverJob, StealJob, Stalled, CleanFailed
<1>8. ASSUME NEW t \in Txs, ExpireLock(t) \/ StoreElsewhere(t) PROVE record' = record
  BY <1>8 DEF ExpireLock, StoreElsewhere
<1>9. ASSUME NEW n \in Nodes, Crash(n) PROVE record' = record
  BY <1>9 DEF Crash
<1> QED
  BY <1>1, <1>2, <1>3, <1>4, <1>5, <1>6, <1>7, <1>8, <1>9 DEF Next, Work

\* The updates that are under way, or that a duplicate key adds, are for no record of a
\* poisoned page, nor for one that nobody works at.
LEMMA PoisonFixes ==
  ASSUME TypeOK, SaveInv, [Next]_vars, NEW r \in Records, Poisoned, Waiting(r)
  PROVE  \A f \in fixes' : f[2] \notin Oldest /\ f[2] # r
<1>1. \A f \in fixes : f[2] \notin Oldest /\ f[2] # r
  BY DEF Poisoned, Waiting
<1>2. ASSUME NEW w \in Workers, SaveDuplicate(w)
      PROVE  \A f \in fixes' : f[2] \notin Oldest /\ f[2] # r
  <2>1. wrec[w] \notin Oldest /\ wrec[w] # r
    BY <1>2 DEF SaveDuplicate, SaveInv, Poisoned, Waiting
  <2>2. fixes' = fixes \cup {<<NodeOf[w], wrec[w]>>}
    BY <1>2 DEF SaveDuplicate
  <2> QED BY <1>1, <2>1, <2>2
<1>3. ASSUME NEW s \in Senders, Send(s) \/ SendFails(s) PROVE fixes' = fixes
  BY <1>3 DEF Send, SendLock, SendCount, SendQuery, SendAdd, SendUnlock, SendFails, asyncs
<1>4. ASSUME NEW w \in Workers,
             \/ \E q \in Records : Take(w, q)
             \/ Lock(w) \/ LockFails(w) \/ Fetch(w) \/ FetchFails(w) \/ Save(w) \/ SaveFails(w)
      PROVE  fixes' = fixes
  BY <1>4 DEF Take, Lock, LockFails, Fetch, FetchFails, Save, SaveFails, asyncs
<1>5. ASSUME \/ UpdateRecordStatus \/ UpdateRecordStatusFails \/ UnLock \/ ExpireSendLock
             \/ UNCHANGED vars
      PROVE  fixes' \subseteq fixes
  BY <1>5 DEF UpdateRecordStatus, UpdateRecordStatusFails, UnLock, ExpireSendLock, vars, asyncs
<1>6. ASSUME NEW q \in Records, Retry(q) \/ RecoverJob(q) \/ StealJob(q) \/ CleanFailed(q)
      PROVE  fixes' = fixes
  BY <1>6 DEF Retry, RecoverJob, StealJob, Stalled, CleanFailed, asyncs
<1>7. ASSUME NEW t \in Txs, ExpireLock(t) \/ StoreElsewhere(t) PROVE fixes' = fixes
  BY <1>7 DEF ExpireLock, StoreElsewhere, asyncs
<1>8. ASSUME NEW n \in Nodes, Crash(n) PROVE fixes' \subseteq fixes
  BY <1>8 DEF Crash
<1> QED BY <1>1, <1>2, <1>3, <1>4, <1>5, <1>6, <1>7, <1>8 DEF Next, Work

\* No job of a record appears unless a sender has read it, and no worker gets to one without a job.
LEMMA PoisonJobs ==
  ASSUME TypeOK, [Next]_vars, NEW r \in Records, Waiting(r)
  PROVE  /\ job'[r] = "none"
         /\ \A s \in Senders : r \notin batch'[s]
         /\ \A w \in Workers : wrec'[w] # r
<1>1. /\ r \notin Jobs /\ r \notin Oldest
      /\ \A s \in Senders : r \notin batch[s]
      /\ \A w \in Workers : wrec[w] # r
  BY DEF Waiting, Jobs
<1>2. job'[r] = "none"
  <2>1. r \notin Jobs'
    BY <1>1, JobsStep
  <2> QED BY <2>1 DEF Jobs
<1>3. ASSUME NEW s \in Senders PROVE r \notin batch'[s]
  <2>1. ASSUME NEW q \in Senders, Send(q) \/ SendFails(q) PROVE r \notin batch'[s]
    BY <1>1, <2>1 DEF Send, SendLock, SendCount, SendQuery, SendAdd, SendUnlock, SendFails, TypeOK
  <2>2. ASSUME NEW n \in Nodes, Crash(n) PROVE r \notin batch'[s]
    BY <1>1, <2>2 DEF Crash
  <2>3. ASSUME ExpireSendLock \/ UNCHANGED <<senders, sendLock, overrun>> PROVE r \notin batch'[s]
    BY <1>1, <2>3 DEF ExpireSendLock, senders
  <2> QED BY <2>1, <2>2, <2>3, SenderSteps
<1>4. ASSUME NEW w \in Workers PROVE wrec'[w] # r
  <2>1. ASSUME NEW v \in Workers, NEW x, wrec' = [wrec EXCEPT ![v] = x], x # r PROVE wrec'[w] # r
    BY <1>1, <2>1 DEF TypeOK
  <2>2. None # r
    BY HashParseAssumption
  <2>3. ASSUME NEW v \in Workers, NEW q \in Records, Take(v, q) PROVE wrec'[w] # r
    BY <2>1, <2>3 DEF Take, Waiting
  <2>4. ASSUME NEW v \in Workers, Complete(v) \/ FailJob(v) PROVE wrec'[w] # r
    BY <2>1, <2>2, <2>4 DEF Complete, FailJob, Idle
  <2>5. ASSUME NEW v \in Workers,
               \/ Lock(v) \/ LockFails(v) \/ Fetch(v) \/ FetchFails(v)
               \/ Save(v) \/ SaveDuplicate(v) \/ SaveFails(v)
        PROVE  wrec'[w] # r
    BY <1>1, <2>4, <2>5 DEF Lock, LockFails, Fetch, FetchFails, Save, SaveDuplicate, SaveFails, Throw
  <2>6. ASSUME NEW s \in Senders, Send(s) \/ SendFails(s) PROVE wrec' = wrec
    BY <2>6 DEF Send, SendLock, SendCount, SendQuery, SendAdd, SendUnlock, SendFails, workers
  <2>7. ASSUME \/ UpdateRecordStatus \/ UpdateRecordStatusFails \/ UnLock \/ ExpireSendLock
               \/ UNCHANGED vars
        PROVE  wrec' = wrec
    BY <2>7 DEF UpdateRecordStatus, UpdateRecordStatusFails, UnLock, ExpireSendLock, vars, workers
  <2>8. ASSUME NEW q \in Records, Retry(q) \/ RecoverJob(q) \/ StealJob(q) \/ CleanFailed(q)
        PROVE  wrec' = wrec
    BY <2>8 DEF Retry, RecoverJob, StealJob, Stalled, CleanFailed, workers
  <2>9. ASSUME NEW t \in Txs, ExpireLock(t) \/ StoreElsewhere(t) PROVE wrec' = wrec
    BY <2>9 DEF ExpireLock, StoreElsewhere, workers
  <2>10. ASSUME NEW n \in Nodes, Crash(n) PROVE wrec'[w] # r
    BY <1>1, <2>2, <2>10 DEF Crash
  <2> QED
    BY <1>1, <2>3, <2>5, <2>6, <2>7, <2>8, <2>9, <2>10 DEF Next, Work
<1> QED BY <1>2, <1>3, <1>4
\* Once records that cannot be parsed fill the page of sendParsePfHashTask, a record behind
\* them waits for good, for any number of workers, senders and processes.
THEOREM PoisonStays == Spec => PoisonIsFinal
<1>1. Init => SaveInv
  BY DEF Init, SaveInv
<1>2. TypeOK /\ SaveInv /\ [Next]_vars =>
        [\A r \in Records : Poisoned /\ Waiting(r) => Poisoned' /\ Waiting(r)']_vars
  <2> SUFFICES ASSUME TypeOK, SaveInv, [Next]_vars, NEW r \in Records, Poisoned, Waiting(r)
               PROVE  Poisoned' /\ Waiting(r)'
    OBVIOUS
  <2>1. Oldest' = Oldest /\ r \in Pending'
    <3>1. r \in Pending
      BY DEF Waiting
    <3>2. CASE record' = record
      BY <3>1, <3>2 DEF Oldest, Pending
    <3>3. ASSUME NEW q \in Records, q \notin Oldest, q # r, record' = [record EXCEPT ![q] = "done"]
          PROVE  Oldest' = Oldest /\ r \in Pending'
      <4>1. Pending' = Pending \ {q}
        BY <3>3 DEF Pending, TypeOK
      <4>2. CASE q \in Pending
        BY <3>1, <3>3, <4>1, <4>2, OldestKept
      <4>3. CASE q \notin Pending
        <5>1. Pending' = Pending
          BY <4>1, <4>3
        <5> QED BY <3>1, <5>1 DEF Oldest
      <4> QED BY <4>2, <4>3
    <3> QED BY <3>2, <3>3, PoisonRows
  <2>2. \A f \in fixes' : f[2] \notin Oldest /\ f[2] # r
    BY PoisonFixes
  <2>3. Poisoned'
    BY <2>1, <2>2 DEF Poisoned
  <2>4. r \notin Oldest
    BY DEF Waiting
  <2>5. Waiting(r)'
    BY <2>1, <2>2, <2>4, PoisonJobs DEF Waiting
  <2> QED BY <2>3, <2>5
<1> QED BY <1>1, <1>2, SaveStep, TypeCorrect, PTL DEF Spec, PoisonIsFinal
=============================================================================
