--------------------------- MODULE SlotScanProofs ---------------------------
(***************************************************************************)
(* Theorems about SlotScan, for any number of overlapping timer calls and   *)
(* workers: the slot table has no gap, a done slot has its events, which    *)
(* were stored with its mark, a stuck slot stays stuck and a stalled scan   *)
(* stays stalled.                                                           *)
(***************************************************************************)
EXTENDS SlotScan, TLAPS

\* The end of refreshBlockNumber keeps the types of all but its fault counter.
LEMMA EndRefreshType ==
  ASSUME TypeOK, NEW f \in Refreshers, EndRefresh(f), slot' = slot \/ slot' = Inserted(f)
  PROVE  TypeOK' <=> faults' \in Nat
<1>1. slot' \in [Produced -> {"absent", "pending", "done"}]
  BY DEF TypeOK, Inserted
<1>2. rpc' \in [Refreshers -> {"idle", "blocks", "add"}] /\ blocks' \in [Refreshers -> SUBSET Produced]
  BY DEF TypeOK, EndRefresh
<1> QED BY <1>1, <1>2 DEF TypeOK, EndRefresh, senders, queue

\* The end of a slot job keeps the types of the queue and frees its worker.
LEMMA EndJobType ==
  ASSUME TypeOK, NEW w \in Workers, wslot[w] \in Produced, EndJob(w)
  PROVE  /\ job' \in [Produced -> JobState]
         /\ owner' \in [Produced -> Workers \cup {None}]
         /\ wslot' \in [Workers -> Produced \cup {None}]
         /\ UNCHANGED <<foreign, tip, rpc, from, blocks, spc, list>>
BY DEF TypeOK, EndJob, JobState, refreshers, senders

\* Saving the bucket of a slot keeps the types of slots and events.
LEMMA SaveBlockType ==
  ASSUME TypeOK, NEW s \in Produced, SaveBlock(s)
  PROVE  slot' \in [Produced -> {"absent", "pending", "done"}] /\ stored' \subseteq Txs
BY DEF TypeOK, SaveBlock, EventsOf

\* Every state of every run has the types of TypeOK.
THEOREM TypeCorrect == Spec => []TypeOK
<1> USE SlotScanAssumption
<1>1. Init => TypeOK
  BY DEF Init, TypeOK, JobState
<1>2. TypeOK /\ [Next]_vars => TypeOK'
  <2> SUFFICES ASSUME TypeOK, [Next]_vars PROVE TypeOK'
    OBVIOUS
  <2>1. ASSUME NEW f \in Refreshers, ReadLastSlot(f) PROVE TypeOK'
    <3>1. PICK n \in {Start} \cup {s + 1 : s \in Known} : from' = [from EXCEPT ![f] = n]
      BY <2>1 DEF ReadLastSlot
    <3>2. n \in Nat
      BY DEF Known
    <3>3. from' \in [Refreshers -> Nat]
      BY <3>1, <3>2 DEF TypeOK
    <3>4. rpc' \in [Refreshers -> {"idle", "blocks", "add"}]
      BY <2>1 DEF ReadLastSlot, TypeOK
    <3> QED BY <2>1, <3>3, <3>4 DEF ReadLastSlot, TypeOK, senders, queue
  <2>2. ASSUME NEW f \in Refreshers, GetBlocks(f) PROVE TypeOK'
    <3>1. {s \in SlotRange(from[f]) : s <= tip} \in SUBSET Produced
      BY DEF SlotRange
    <3> QED BY <2>2, <3>1 DEF GetBlocks, TypeOK, senders, queue
  <2>3. ASSUME NEW f \in Refreshers, BatchAddSlot(f) PROVE TypeOK'
    <3>1. EndRefresh(f) /\ (slot' = slot \/ slot' = Inserted(f)) /\ faults' = faults
      BY <2>3 DEF BatchAddSlot
    <3> QED BY <3>1, EndRefreshType DEF TypeOK
  <2>4. ASSUME NEW f \in Refreshers, RefreshFails(f) PROVE TypeOK'
    <3>1. EndRefresh(f) /\ (slot' = slot \/ slot' = Inserted(f)) /\ faults' = faults + 1
      BY <2>4 DEF RefreshFails, Fault
    <3> QED BY <3>1, EndRefreshType DEF TypeOK
  <2>5. ASSUME NEW c \in Senders, Send(c) \/ SendFails(c) PROVE TypeOK'
    <3>1. CASE CountJobs(c)
      BY <3>1 DEF CountJobs, TypeOK, refreshers, queue
    <3>2. CASE GetSlots(c)
      <4>1. Oldest \in SUBSET Produced
        BY DEF Oldest, Pending
      <4> QED BY <3>2, <4>1 DEF GetSlots, TypeOK, refreshers, queue
    <3>3. CASE AddBulk(c)
      <4>1. job' \in [Produced -> JobState]
        BY <3>3 DEF AddBulk, TypeOK, JobState
      <4> QED BY <3>3, <4>1 DEF AddBulk, EndSend, TypeOK, refreshers
    <3>4. CASE SendFails(c)
      BY <3>4 DEF SendFails, EndSend, Fault, TypeOK, refreshers, queue
    <3> QED BY <2>5, <3>1, <3>2, <3>3, <3>4 DEF Send
  <2>6. ASSUME NEW w \in Workers, NEW s \in Produced, Take(w, s) PROVE TypeOK'
    BY <2>6 DEF Take, TypeOK, JobState, refreshers, senders
  <2>7. ASSUME NEW w \in Workers, ParseBlock(w) \/ ParseBlockFails(w) PROVE TypeOK'
    <3>1. wslot[w] \in Produced /\ EndJob(w)
      BY <2>7 DEF ParseBlock, ParseBlockFails, TypeOK
    <3>2. UNCHANGED <<slot, stored>> \/ SaveBlock(wslot[w])
      BY <2>7 DEF ParseBlock, ParseBlockFails
    <3>3. faults' \in Nat
      BY <2>7 DEF ParseBlock, ParseBlockFails, Fault, TypeOK
    <3>4. slot' \in [Produced -> {"absent", "pending", "done"}] /\ stored' \subseteq Txs
      BY <3>1, <3>2, SaveBlockType DEF TypeOK
    <3> QED BY <3>1, <3>3, <3>4, EndJobType DEF TypeOK
  <2>8. ASSUME NEW s \in Produced, StealJob(s) PROVE TypeOK'
    <3>1. wslot' \in [Workers -> Produced \cup {None}]
      BY <2>8 DEF StealJob, TypeOK
    <3>2. job' \in [Produced -> JobState] /\ owner' \in [Produced -> Workers \cup {None}]
      BY <2>8 DEF StealJob, TypeOK, JobState
    <3> QED BY <2>8, <3>1, <3>2 DEF StealJob, Fault, TypeOK, refreshers, senders
  <2>9. CASE Finalize
    BY <2>9 DEF Finalize, TypeOK, refreshers, senders, queue
  <2>10. ASSUME NEW t \in Txs, StoreElsewhere(t) PROVE TypeOK'
    BY <2>10 DEF StoreElsewhere, TypeOK, refreshers, senders, queue
  <2>11. CASE UNCHANGED vars
    BY <2>11 DEF vars, TypeOK, refreshers, senders, queue
  <2> QED BY <2>1, <2>2, <2>3, <2>4, <2>5, <2>6, <2>7, <2>8, <2>9, <2>10, <2>11 DEF Next, Refresh
<1> QED BY <1>1, <1>2, PTL DEF Spec

-----------------------------------------------------------------------------
(* What the table can only grow by, and the invariant.                      *)

\* Every block before n has its row.
ScannedBelow(n) == \A q \in Produced : Start <= q /\ q < n => q \in Known

\* A call of refreshBlockNumber starts where the table ended when it read it,
\* and its blocks are all those of the range up to the last of them.
RefreshInv(f) ==
  /\ rpc[f] # "idle" =>
       /\ from[f] = Start \/ \E k \in Known : from[f] = k + 1
       /\ ScannedBelow(from[f])
  /\ rpc[f] = "add" =>
       /\ blocks[f] \subseteq SlotRange(from[f])
       /\ \A s \in blocks[f], q \in Produced : from[f] <= q /\ q <= s => q \in blocks[f]

\* The slots that senders, jobs and workers deal with have a row.
QueueInv ==
  /\ \A c \in Senders : list[c] \subseteq Known
  /\ \A s \in Produced : job[s] # "none" => s \in Known
  /\ \A w \in Workers : wslot[w] # None => wslot[w] \in Known

ScanInv ==
  /\ \A s \in Known : s >= Start
  /\ NoGap
  /\ \A f \in Refreshers : RefreshInv(f)
  /\ QueueInv

\* The blocks of a refresh join the table all at once.
Adds(f) == rpc[f] = "add" /\ blocks[f] \cap Known = {} /\ Known' = Known \cup blocks[f]

\* The INSERT of a refresh adds exactly the slots it has read.
LEMMA InsertedKnown ==
  ASSUME TypeOK, NEW f \in Refreshers, slot' = Inserted(f)
  PROVE  Known' = Known \cup blocks[f]
BY DEF TypeOK, Inserted, Known

\* A step of the queue or of a worker leaves the rows of the table as they are.
LEMMA SaveKnown ==
  ASSUME TypeOK, NEW s \in Known, SaveBlock(s)
  PROVE  Known' = Known
BY DEF TypeOK, SaveBlock, Known

\* The slot table changes its set of slots only by the INSERT of a refresh.
LEMMA KnownGrows ==
  ASSUME TypeOK, QueueInv, [Next]_vars
  PROVE  Known' = Known \/ \E f \in Refreshers : Adds(f)
<1> USE DEF Adds
<1>1. ASSUME NEW f \in Refreshers, Refresh(f) \/ RefreshFails(f)
      PROVE  slot' = slot \/ (rpc[f] = "add" /\ blocks[f] \cap Known = {} /\ slot' = Inserted(f))
  BY <1>1 DEF Refresh, ReadLastSlot, GetBlocks, BatchAddSlot, RefreshFails
<1>2. ASSUME NEW f \in Refreshers, Refresh(f) \/ RefreshFails(f)
      PROVE  Known' = Known \/ Adds(f)
  <2>1. CASE slot' = slot
    BY <2>1 DEF Known
  <2>2. CASE rpc[f] = "add" /\ blocks[f] \cap Known = {} /\ slot' = Inserted(f)
    BY <2>2, InsertedKnown
  <2> QED BY <1>1, <1>2, <2>1, <2>2
<1>3. ASSUME NEW w \in Workers, ParseBlock(w) \/ ParseBlockFails(w) PROVE Known' = Known
  <2>1. wslot[w] \in Known
    BY <1>3 DEF ParseBlock, ParseBlockFails, QueueInv
  <2>2. UNCHANGED <<slot, stored>> \/ SaveBlock(wslot[w])
    BY <1>3 DEF ParseBlock, ParseBlockFails
  <2>3. CASE UNCHANGED <<slot, stored>>
    BY <2>3 DEF Known
  <2> QED BY <2>1, <2>2, <2>3, SaveKnown
<1>4. ASSUME NEW c \in Senders, Send(c) \/ SendFails(c) PROVE slot' = slot
  BY <1>4 DEF Send, CountJobs, GetSlots, AddBulk, SendFails, EndSend
<1>5. ASSUME NEW s \in Produced, StealJob(s) \/ \E w \in Workers : Take(w, s) PROVE slot' = slot
  BY <1>5 DEF StealJob, Take
<1>6. ASSUME Finalize \/ \E t \in Txs : StoreElsewhere(t) PROVE slot' = slot
  BY <1>6 DEF Finalize, StoreElsewhere
<1>7. ASSUME UNCHANGED vars PROVE slot' = slot
  BY <1>7 DEF vars
<1>8. ASSUME slot' = slot PROVE Known' = Known
  BY <1>8 DEF Known
<1> QED BY <1>2, <1>3, <1>4, <1>5, <1>6, <1>7, <1>8 DEF Next

\* A slot that was added stays in the table.
LEMMA KnownKept ==
  ASSUME TypeOK, QueueInv, [Next]_vars
  PROVE  Known \subseteq Known'
BY KnownGrows DEF Adds

\* Everything below the start of the next refresh is in the table.
LEMMA NextStartScanned ==
  ASSUME NoGap, NEW n, IsNextStart(n)
  PROVE  ScannedBelow(n)
<1>1. CASE n = Start
  BY <1>1, SlotScanAssumption DEF ScannedBelow
<1>2. CASE \E s \in Known : n = s + 1
  <2>1. PICK s \in Known : n = s + 1
    BY <1>2
  <2> SUFFICES ASSUME NEW q \in Produced, Start <= q, q < n
               PROVE  q \in Known
    BY DEF ScannedBelow
  <2>2. s \in Nat /\ q \in Nat
    BY SlotScanAssumption DEF Known
  <2>3. q = s \/ q < s
    BY <2>1, <2>2
  <2> QED BY <2>1, <2>3 DEF NoGap
<1> QED BY <1>1, <1>2 DEF IsNextStart

\* The INSERT of a refresh leaves no gap.
LEMMA AddsInv ==
  ASSUME TypeOK, ScanInv, NEW f \in Refreshers, Adds(f)
  PROVE  (\A s \in Known : s >= Start)' /\ NoGap'
<1> USE SlotScanAssumption
<1>1. /\ ScannedBelow(from[f])
      /\ blocks[f] \subseteq SlotRange(from[f])
      /\ \A s \in blocks[f], q \in Produced : from[f] <= q /\ q <= s => q \in blocks[f]
  BY DEF ScanInv, RefreshInv, Adds
<1>2. from[f] \in Nat /\ from[f] >= Start
  <2>1. from[f] = Start \/ \E k \in Known : from[f] = k + 1
    BY DEF ScanInv, RefreshInv, Adds
  <2>2. \A k \in Known : k \in Nat /\ k >= Start
    BY DEF ScanInv, Known
  <2> QED BY <2>1, <2>2 DEF TypeOK
<1>3. \A s \in blocks[f] : s \in Nat /\ s >= from[f]
  BY <1>1 DEF SlotRange
<1>4. (\A s \in Known : s >= Start)'
  <2>1. \A s \in Known' : s >= Start
    BY <1>2, <1>3 DEF Adds, ScanInv
  <2> QED BY <2>1
<1>5. ASSUME NEW s \in Known', NEW q \in Produced, Start <= q, q < s
      PROVE  q \in Known'
  <2>0. q \in Nat /\ s \in Nat
    BY DEF Known
  <2>1. CASE s \in Known
    BY <1>5, <2>1 DEF ScanInv, NoGap, Adds
  <2>2. CASE s \in blocks[f]
    <3>1. CASE q < from[f]
      BY <1>1, <1>5, <3>1 DEF ScannedBelow, Adds
    <3>2. CASE from[f] <= q
      BY <1>1, <1>5, <2>0, <2>2, <3>2 DEF Adds
    <3> QED BY <1>2, <2>0, <3>1, <3>2
  <2> QED BY <1>5, <2>1, <2>2 DEF Adds
<1> QED BY <1>4, <1>5 DEF NoGap

\* What a call read stays true while the table grows.
LEMMA RefreshKept ==
  ASSUME NEW f \in Refreshers, RefreshInv(f), Known \subseteq Known',
         UNCHANGED <<rpc[f], from[f], blocks[f]>>
  PROVE  RefreshInv(f)'
BY DEF RefreshInv, ScannedBelow, SlotRange

\* A refresh keeps what holds of the locals of every overlapping refresh.
LEMMA RefreshStep ==
  ASSUME TypeOK, ScanInv, NEW f \in Refreshers, Refresh(f) \/ RefreshFails(f),
         Known \subseteq Known'
  PROVE  \A g \in Refreshers : RefreshInv(g)'
<1> USE SlotScanAssumption
<1>1. ASSUME NEW g \in Refreshers, g # f PROVE RefreshInv(g)'
  <2>1. UNCHANGED <<rpc[g], from[g], blocks[g]>>
    BY <1>1 DEF TypeOK, Refresh, ReadLastSlot, GetBlocks, BatchAddSlot, RefreshFails, EndRefresh
  <2> QED BY <2>1, RefreshKept DEF ScanInv
<1>2. CASE ReadLastSlot(f)
  <2>1. PICK n \in {Start} \cup {s + 1 : s \in Known} :
          IsNextStart(n) /\ from' = [from EXCEPT ![f] = n]
    BY <1>2 DEF ReadLastSlot
  <2>2. from'[f] = n /\ rpc'[f] = "blocks"
    BY <1>2, <2>1 DEF ReadLastSlot, TypeOK
  <2>3. ScannedBelow(n)
    BY <2>1, NextStartScanned DEF ScanInv
  <2>4. ScannedBelow(n)'
    BY <2>3 DEF ScannedBelow
  <2>5. from'[f] = Start \/ \E k \in Known' : from'[f] = k + 1
    BY <2>1, <2>2
  <2>6. RefreshInv(f)'
    BY <2>2, <2>4, <2>5 DEF RefreshInv, ScannedBelow
  <2> QED BY <1>1, <2>6
<1>3. CASE GetBlocks(f)
  <2>1. /\ blocks'[f] = {s \in SlotRange(from[f]) : s <= tip}
        /\ rpc[f] = "blocks" /\ from' = from
    BY <1>3 DEF GetBlocks, TypeOK
  <2>2. blocks'[f] \subseteq SlotRange(from[f])
    BY <2>1
  <2>3. ASSUME NEW s \in blocks'[f], NEW q \in Produced, from[f] <= q, q <= s
        PROVE  q \in blocks'[f]
    <3>1. s \in Nat /\ q \in Nat /\ tip \in Nat /\ from[f] \in Nat
      BY <2>1 DEF SlotRange, TypeOK
    <3>2. s <= from[f] + Interval /\ s <= tip
      BY <2>1, <2>3 DEF SlotRange
    <3> QED BY <2>1, <2>3, <3>1, <3>2 DEF SlotRange
  <2>4. ScannedBelow(from[f])' /\ (from[f] = Start \/ \E k \in Known' : from[f] = k + 1)
    BY <2>1 DEF ScanInv, RefreshInv, ScannedBelow
  <2>5. RefreshInv(f)'
    BY <2>1, <2>2, <2>3, <2>4 DEF RefreshInv, ScannedBelow, SlotRange
  <2> QED BY <1>1, <2>5
<1>4. CASE BatchAddSlot(f) \/ RefreshFails(f)
  <2>1. rpc'[f] = "idle"
    BY <1>4 DEF BatchAddSlot, RefreshFails, EndRefresh, TypeOK
  <2>2. RefreshInv(f)'
    BY <2>1 DEF RefreshInv
  <2> QED BY <1>1, <2>2
<1> QED BY <1>2, <1>3, <1>4 DEF Refresh

\* Only slots of the table enter the queue or reach a worker.
LEMMA QueueStep ==
  ASSUME TypeOK, ScanInv, [Next]_vars
  PROVE  QueueInv'
<1> USE SlotScanAssumption
<1>1. QueueInv /\ Known \subseteq Known'
  BY KnownKept DEF ScanInv
<1>2. CASE UNCHANGED <<list, job, wslot>>
  BY <1>1, <1>2 DEF QueueInv
<1>3. ASSUME NEW c \in Senders, Send(c) \/ SendFails(c) PROVE QueueInv'
  <2>1. UNCHANGED wslot
    BY <1>3 DEF Send, CountJobs, GetSlots, AddBulk, SendFails, queue
  <2>2. CASE CountJobs(c)
    BY <1>2, <2>2 DEF CountJobs, queue
  <2>3. CASE GetSlots(c)
    <3>1. Oldest \subseteq Known
      BY DEF Oldest, Pending, Known
    <3> QED BY <1>1, <2>3, <3>1 DEF GetSlots, QueueInv, queue, TypeOK
  <2>4. CASE AddBulk(c)
    <3>1. \A d \in Senders : list'[d] \subseteq Known'
      BY <1>1, <2>4 DEF AddBulk, EndSend, QueueInv, TypeOK
    <3>2. \A s \in Produced : job'[s] # "none" => s \in Known'
      BY <1>1, <2>4 DEF AddBulk, QueueInv, TypeOK
    <3> QED BY <1>1, <2>1, <3>1, <3>2 DEF QueueInv
  <2>5. CASE SendFails(c)
    BY <1>1, <2>5 DEF SendFails, EndSend, QueueInv, queue, TypeOK
  <2> QED BY <1>3, <2>2, <2>3, <2>4, <2>5 DEF Send
<1>4. ASSUME NEW w \in Workers, NEW s \in Produced, Take(w, s) PROVE QueueInv'
  BY <1>1, <1>4 DEF Take, QueueInv, senders, TypeOK
<1>5. ASSUME NEW w \in Workers, EndJob(w), wslot[w] # None PROVE QueueInv'
  <2>1. wslot' = [wslot EXCEPT ![w] = None] /\ list' = list
    BY <1>5 DEF EndJob, senders
  <2>2. job' = job \/ job' = [job EXCEPT ![wslot[w]] = "none"]
    BY <1>5 DEF EndJob
  <2> QED BY <1>1, <2>1, <2>2 DEF QueueInv, TypeOK
<1>6. ASSUME NEW w \in Workers, ParseBlock(w) \/ ParseBlockFails(w) PROVE QueueInv'
  BY <1>5, <1>6 DEF ParseBlock, ParseBlockFails
<1>7. ASSUME NEW s \in Produced, StealJob(s) PROVE QueueInv'
  <2>1. job[s] = "active" /\ (\E j \in {"waiting", "none"} : job' = [job EXCEPT ![s] = j]) /\ list' = list
    BY <1>7 DEF StealJob, senders
  <2>2. \A w \in Workers : wslot'[w] # None => wslot'[w] = wslot[w]
    BY <1>7 DEF StealJob
  <2> QED BY <1>1, <2>1, <2>2 DEF QueueInv, TypeOK
<1>8. ASSUME NEW f \in Refreshers, Refresh(f) \/ RefreshFails(f) PROVE UNCHANGED <<list, job, wslot>>
  BY <1>8 DEF Refresh, ReadLastSlot, GetBlocks, BatchAddSlot, RefreshFails, EndRefresh, senders, queue
<1>9. ASSUME Finalize \/ \E t \in Txs : StoreElsewhere(t) PROVE UNCHANGED <<list, job, wslot>>
  BY <1>9 DEF Finalize, StoreElsewhere, senders, queue
<1>10. ASSUME UNCHANGED vars PROVE UNCHANGED <<list, job, wslot>>
  BY <1>10 DEF vars, senders, queue
<1> QED BY <1>2, <1>3, <1>4, <1>6, <1>7, <1>8, <1>9, <1>10 DEF Next

\* No step of the scan breaks ScanInv.
LEMMA ScanInvStep ==
  ASSUME TypeOK, ScanInv, [Next]_vars
  PROVE  ScanInv'
<1>1. QueueInv' /\ Known \subseteq Known'
  BY QueueStep, KnownKept DEF ScanInv
<1>2. (\A s \in Known : s >= Start)' /\ NoGap'
  <2>1. CASE Known' = Known
    BY <2>1 DEF ScanInv, NoGap
  <2>2. CASE \E f \in Refreshers : Adds(f)
    BY <2>2, AddsInv
  <2> QED BY <2>1, <2>2, KnownGrows DEF ScanInv
<1>3. \A f \in Refreshers : RefreshInv(f)'
  <2>1. ASSUME NEW f \in Refreshers, Refresh(f) \/ RefreshFails(f)
        PROVE  \A g \in Refreshers : RefreshInv(g)'
    BY <1>1, <2>1, RefreshStep
  <2>2. ASSUME UNCHANGED refreshers
        PROVE  \A g \in Refreshers : RefreshInv(g)'
    BY <1>1, <2>2, RefreshKept DEF refreshers, ScanInv
  <2>3. ASSUME NEW c \in Senders, Send(c) \/ SendFails(c) PROVE UNCHANGED refreshers
    BY <2>3 DEF Send, CountJobs, GetSlots, AddBulk, SendFails, EndSend
  <2>4. ASSUME NEW w \in Workers,
               (\E s \in Produced : Take(w, s)) \/ ParseBlock(w) \/ ParseBlockFails(w)
        PROVE  UNCHANGED refreshers
    BY <2>4 DEF Take, ParseBlock, ParseBlockFails, EndJob
  <2>5. ASSUME Finalize \/ (\E t \in Txs : StoreElsewhere(t)) \/ (\E s \in Produced : StealJob(s))
        PROVE  UNCHANGED refreshers
    BY <2>5 DEF Finalize, StoreElsewhere, StealJob
  <2>6. ASSUME UNCHANGED vars PROVE UNCHANGED refreshers
    BY <2>6 DEF vars
  <2> QED BY <2>1, <2>2, <2>3, <2>4, <2>5, <2>6 DEF Next
<1> QED BY <1>1, <1>2, <1>3 DEF ScanInv

\* ScanInv holds of the empty table.
LEMMA ScanInvInit ==
  ASSUME Init
  PROVE  ScanInv
<1>1. Known = {}
  BY DEF Init, Known
<1> QED BY <1>1 DEF Init, ScanInv, NoGap, RefreshInv, QueueInv

\* The invariant behind the theorems that follow holds in every reachable state of the
\* scan (refreshBlockNumber, sendTask, parseBlock).
THEOREM ScanInvariance == Spec => [](TypeOK /\ ScanInv)
<1>1. Init => ScanInv
  BY ScanInvInit
<1>2. TypeOK /\ ScanInv /\ [Next]_vars => ScanInv'
  BY ScanInvStep
<1> QED BY <1>1, <1>2, TypeCorrect, PTL DEF Spec

\* No block below the highest id is left out, whatever timer calls overlap.
THEOREM TableHasNoGap == Spec => []NoGap
<1>1. ScanInv => NoGap
  BY DEF ScanInv
<1> QED BY <1>1, ScanInvariance, PTL

-----------------------------------------------------------------------------
(* Slots, their status and their events.                                    *)

\* What a step does to the rows: blocks join as pending, a block without a stored
\* event is saved, or another path stores a transaction.
LEMMA RowSteps ==
  ASSUME TypeOK, [Next]_vars
  PROVE  \/ UNCHANGED <<slot, stored, foreign>>
         \/ \E f \in Refreshers :
              /\ slot' = Inserted(f) /\ rpc[f] = "add" /\ blocks[f] \cap Known = {}
              /\ UNCHANGED <<stored, foreign>>
         \/ \E s \in Produced : SaveBlock(s) /\ EventsOf(s) \cap stored = {} /\ UNCHANGED foreign
         \/ \E t \in Txs : StoreElsewhere(t)
<1>1. ASSUME NEW f \in Refreshers, Refresh(f) \/ RefreshFails(f)
      PROVE  /\ UNCHANGED <<stored, foreign>>
             /\ \/ slot' = slot
                \/ slot' = Inserted(f) /\ rpc[f] = "add" /\ blocks[f] \cap Known = {}
  BY <1>1 DEF Refresh, ReadLastSlot, GetBlocks, BatchAddSlot, RefreshFails, EndRefresh
<1>2. ASSUME NEW w \in Workers, ParseBlock(w) \/ ParseBlockFails(w)
      PROVE  /\ UNCHANGED foreign
             /\ \/ UNCHANGED <<slot, stored>>
                \/ wslot[w] \in Produced /\ SaveBlock(wslot[w]) /\ EventsOf(wslot[w]) \cap stored = {}
  BY <1>2 DEF ParseBlock, ParseBlockFails, EndJob, TypeOK
<1>3. ASSUME NEW c \in Senders, Send(c) \/ SendFails(c) PROVE UNCHANGED <<slot, stored, foreign>>
  BY <1>3 DEF Send, CountJobs, GetSlots, AddBulk, SendFails, EndSend
<1>4. ASSUME NEW s \in Produced, StealJob(s) \/ \E w \in Workers : Take(w, s)
      PROVE  UNCHANGED <<slot, stored, foreign>>
  BY <1>4 DEF StealJob, Take
<1>5. ASSUME Finalize PROVE UNCHANGED <<slot, stored, foreign>>
  BY <1>5 DEF Finalize
<1>6. ASSUME UNCHANGED vars PROVE UNCHANGED <<slot, stored, foreign>>
  BY <1>6 DEF vars
<1> QED BY <1>1, <1>2, <1>3, <1>4, <1>5, <1>6 DEF Next

\* Events are never deleted, and a pending slot with a stored event stays pending.
LEMMA RowsKept ==
  ASSUME TypeOK, [Next]_vars
  PROVE  /\ stored \subseteq stored'
         /\ \A s \in Produced : slot[s] = "pending" /\ EventsOf(s) \cap stored # {} => slot'[s] = "pending"
<1> USE RowSteps
<1>1. CASE UNCHANGED <<slot, stored, foreign>>
  BY <1>1
<1>2. CASE \E f \in Refreshers : slot' = Inserted(f) /\ UNCHANGED <<stored, foreign>>
  BY <1>2 DEF Inserted
<1>3. CASE \E q \in Produced : SaveBlock(q) /\ EventsOf(q) \cap stored = {} /\ UNCHANGED foreign
  BY <1>3 DEF SaveBlock, TypeOK
<1>4. CASE \E t \in Txs : StoreElsewhere(t)
  BY <1>4 DEF StoreElsewhere
<1> QED BY <1>1, <1>2, <1>3, <1>4

\* A transaction belongs to one slot, so no two slots share an event.
LEMMA SlotsAreDisjoint ==
  ASSUME NEW s \in Produced, NEW q \in Produced, s # q
  PROVE  EventsOf(s) \cap EventsOf(q) = {}
BY DEF EventsOf

\* SavedTogether needs to know that what another path stored is in the tables: a
\* job that finds no event of its slot there stores none that is foreign.
SaveInv == foreign \subseteq stored /\ SavedTogether

\* The save of a slot none of whose events is stored keeps SaveInv.
LEMMA SaveBlockStep ==
  ASSUME TypeOK, SaveInv, NEW q \in Produced,
         SaveBlock(q), EventsOf(q) \cap stored = {}, UNCHANGED foreign
  PROVE  SaveInv'
<1>1. slot' = [slot EXCEPT ![q] = "done"] /\ stored' = stored \cup EventsOf(q) /\ foreign' = foreign
  BY DEF SaveBlock
<1>2. ASSUME NEW s \in Produced, s # q
      PROVE  slot'[s] = slot[s] /\ EventsOf(s) \cap stored' = EventsOf(s) \cap stored
  BY <1>1, <1>2, SlotsAreDisjoint DEF TypeOK
<1>3. slot'[q] = "done" /\ EventsOf(q) \subseteq stored' \ foreign'
  BY <1>1 DEF SaveInv, TypeOK
<1>4. ASSUME NEW s \in Produced
      PROVE  IF slot'[s] = "done" THEN EventsOf(s) \subseteq stored' \ foreign'
                                  ELSE EventsOf(s) \cap stored' \subseteq foreign'
  <2>1. CASE s = q
    BY <1>3, <2>1
  <2>2. CASE s # q
    BY <1>1, <1>2, <2>2 DEF SaveInv, SavedTogether
  <2> QED BY <2>1, <2>2
<1>5. SavedTogether'
  BY <1>4 DEF SavedTogether, EventsOf
<1> QED BY <1>1, <1>5 DEF SaveInv

\* The events of a block are stored together and with its mark, or not at all,
\* whichever runs of its job fail, overlap or lose their answer.
THEOREM SavesAreAtomic == Spec => []SavedTogether
<1>1. Init => SaveInv
  BY DEF Init, SaveInv, SavedTogether
<1>2. TypeOK /\ SaveInv /\ [Next]_vars => SaveInv'
  <2> SUFFICES ASSUME TypeOK, SaveInv, [Next]_vars PROVE SaveInv'
    OBVIOUS
  <2>1. CASE UNCHANGED <<slot, stored, foreign>>
    BY <2>1 DEF SaveInv, SavedTogether, EventsOf
  <2>2. CASE \E f \in Refreshers : /\ slot' = Inserted(f) /\ blocks[f] \cap Known = {}
                                  /\ UNCHANGED <<stored, foreign>>
    <3>1. \A s \in Produced : slot'[s] = "done" <=> slot[s] = "done"
      BY <2>2 DEF Inserted, Known
    <3> QED BY <2>2, <3>1 DEF SaveInv, SavedTogether, EventsOf
  <2>3. CASE \E q \in Produced : SaveBlock(q) /\ EventsOf(q) \cap stored = {} /\ UNCHANGED foreign
    BY <2>3, SaveBlockStep
  <2>4. CASE \E t \in Txs : StoreElsewhere(t)
    <3>1. PICK t \in Txs : /\ t \notin stored /\ stored' = stored \cup {t}
                          /\ foreign' = foreign \cup {t} /\ slot' = slot
      BY <2>4 DEF StoreElsewhere
    <3> QED BY <3>1 DEF SaveInv, SavedTogether, EventsOf
  <2> QED BY <2>1, <2>2, <2>3, <2>4, RowSteps
<1>3. SaveInv => SavedTogether
  BY DEF SaveInv
<1> QED BY <1>1, <1>2, <1>3, TypeCorrect, PTL DEF Spec

\* A slot of status 1 has all its events stored.
THEOREM DoneSlotsHaveEvents == Spec => []DoneHasEvents
<1>1. SavedTogether => DoneHasEvents
  BY DEF SavedTogether, DoneHasEvents
<1> QED BY <1>1, SavesAreAtomic, PTL

\* A slot with an event that came in on another path is never done.
THEOREM StuckStaysStuck == Spec => StuckIsFinal
<1>1. TypeOK /\ [Next]_vars => [\A s \in Produced : Stuck(s) => Stuck(s)']_vars
  <2> SUFFICES ASSUME TypeOK, [Next]_vars, NEW s \in Produced, Stuck(s)
               PROVE  Stuck(s)'
    OBVIOUS
  <2>1. slot[s] = "pending" /\ EventsOf(s) \cap stored # {}
    BY DEF Stuck, Pending
  <2>2. slot'[s] = "pending" /\ stored \subseteq stored'
    BY <2>1, RowsKept
  <2> QED BY <2>1, <2>2 DEF Stuck, Pending, EventsOf
<1> QED BY <1>1, TypeCorrect, PTL DEF Spec, StuckIsFinal

\* Once the range after the table holds no block, no refresh adds one.
THEOREM StallStaysStalled == Spec => StallIsFinal
<1> USE SlotScanAssumption
<1>1. TypeOK /\ ScanInv /\ [Next]_vars => [Stalled => Known' = Known]_vars
  <2> SUFFICES ASSUME TypeOK, ScanInv, [Next]_vars, Stalled,
                      NEW f \in Refreshers, Adds(f)
               PROVE  blocks[f] = {}
    BY KnownGrows DEF ScanInv, Adds
  <2> SUFFICES ASSUME NEW s \in blocks[f]
               PROVE  FALSE
    OBVIOUS
  <2>1. PICK n \in {Start} \cup {k + 1 : k \in Known} : IsNextStart(n) /\ SlotRange(n) = {}
    BY DEF Stalled
  <2>2. s \in Produced /\ s \in Nat /\ from[f] <= s /\ s <= from[f] + Interval /\ s \notin Known
    BY DEF ScanInv, RefreshInv, Adds, SlotRange
  <2>3. /\ from[f] \in Nat /\ n \in Nat
        /\ \A k \in Known : k \in Nat /\ k >= Start
    BY <2>1 DEF TypeOK, Known, ScanInv
  <2>4. from[f] = Start \/ \E k \in Known : from[f] = k + 1
    BY DEF ScanInv, RefreshInv, Adds
  <2>5. from[f] <= n /\ Start <= s
    <3>1. CASE Known = {} /\ n = Start
      BY <2>2, <2>3, <2>4, <3>1
    <3>2. CASE \E k \in Known : n = k + 1 /\ \A q \in Known : q <= k
      BY <2>2, <2>3, <2>4, <3>2
    <3> QED BY <2>1, <3>1, <3>2 DEF IsNextStart
  <2>6. CASE n <= s
    BY <2>1, <2>2, <2>3, <2>5, <2>6 DEF SlotRange
  <2>7. CASE s < n
    BY <2>1, <2>2, <2>5, <2>7, NextStartScanned DEF ScanInv, ScannedBelow
  <2> QED BY <2>2, <2>3, <2>6, <2>7
<1> QED BY <1>1, ScanInvariance, PTL DEF Spec, StallIsFinal

=============================================================================
