------------------------------ MODULE SlotScan ------------------------------
(***************************************************************************)
(* The scan of blocks by slot number: refreshBlockNumber adds the slots     *)
(* after the last known one to solana_slot, sendTask puts the oldest slots  *)
(* of status 0 into the queue, and parseBlock saves the events of a slot    *)
(* and sets its status to 1 in one database transaction.                    *)
(*                                                                         *)
(* Both timers fire whether or not an earlier call is still running, here   *)
(* or in another process, and nothing locks them against each other.  The   *)
(* RPC service, Redis and the queue are external; a slot job has a single   *)
(* attempt and is removed when it fails.                                    *)
(***************************************************************************)
EXTENDS Naturals, FiniteSets

CONSTANTS
  Start,       \* SCAN_BLOCK_START
  Interval,    \* SCAN_BLOCK_INTERVAL
  TaskSize,    \* SCAN_BLOCK_TASK_SIZE
  QueueLimit,  \* no task is sent when more job keys than this exist (3)
  Produced,    \* the slots that have a block; the others are skipped on chain
  LastSlot,    \* bound on the slots that become final
  Txs,         \* transactions with events
  SlotOf,      \* the slot of each
  Refreshers,  \* concurrent calls of refreshBlockNumber
  Senders,     \* concurrent calls of sendTask
  Workers,     \* concurrent job executions
  None,
  MaxFaults    \* bound on errors, lost answers and stalled jobs

ASSUME SlotScanAssumption ==
  /\ Start \in Nat /\ Interval \in Nat /\ TaskSize \in Nat /\ QueueLimit \in Nat
  /\ Produced \subseteq Nat
  /\ LastSlot \in Nat
  /\ SlotOf \in [Txs -> Produced]
  /\ None \notin Produced \cup Workers
  /\ MaxFaults \in Nat

VARIABLES
  slot,     \* solana_slot.status: "pending" 0, "done" 1; "absent": no such row
  stored,   \* the transactions whose events are in pf_trade and pf_create
  foreign,  \* history: those of them that another path than parseBlock stored
  tip,      \* the last finalized slot
  rpc,      \* what a call of refreshBlockNumber does next
  from,     \* its lastSlotNumber
  blocks,   \* its blockNumbers
  spc,      \* what a call of sendTask does next
  list,     \* the slots it read
  job,      \* [Produced -> JobState], "none": there is no such key
  owner,    \* the worker whose token holds an active job
  wslot,    \* the slot a worker parses
  faults

refreshers == <<rpc, from, blocks>>
senders    == <<spc, list>>
queue      == <<job, owner, wslot>>
vars == <<slot, stored, foreign, tip, refreshers, senders, queue, faults>>

JobState == {"none", "waiting", "active"}

Known == {s \in Produced : slot[s] # "absent"}

Pending == {s \in Produced : slot[s] = "pending"}

\* where status: 0, order: id ASC, take: taskSize
Oldest == {s \in Pending : Cardinality({q \in Pending : q < s}) < TaskSize}

\* SCAN counts the key of every job, and the lock key of an active one too.
JobKeys == Cardinality({s \in Produced : job[s] # "none"})
           + Cardinality({s \in Produced : job[s] = "active"})

EventsOf(s) == {t \in Txs : SlotOf[t] = s}

Init ==
  /\ slot = [s \in Produced |-> "absent"]
  /\ stored = {}
  /\ foreign = {}
  /\ tip = Start
  /\ rpc = [f \in Refreshers |-> "idle"]
  /\ from = [f \in Refreshers |-> Start]
  /\ blocks = [f \in Refreshers |-> {}]
  /\ spc = [c \in Senders |-> "idle"]
  /\ list = [c \in Senders |-> {}]
  /\ job = [s \in Produced |-> "none"]
  /\ owner = [s \in Produced |-> None]
  /\ wslot = [w \in Workers |-> None]
  /\ faults = 0

Fault == faults < MaxFaults /\ faults' = faults + 1

-----------------------------------------------------------------------------
(* refreshBlockNumber                                                       *)

\* n is the number a refresh starts from: after the highest id, or Start.
IsNextStart(n) ==
  \/ Known = {} /\ n = Start
  \/ /\ Known # {}
     /\ \E s \in Known : n = s + 1 /\ \A q \in Known : q <= s

\* Variant: lastSlot.id without the + 1.
ReadLastSlotId(f) ==
  /\ rpc[f] = "idle"
  /\ \E n \in {Start} \cup Known :
       (\A q \in Known : q <= n) /\ from' = [from EXCEPT ![f] = n]
  /\ rpc' = [rpc EXCEPT ![f] = "blocks"]
  /\ UNCHANGED <<slot, stored, foreign, tip, blocks, senders, queue, faults>>

ReadLastSlot(f) ==
  /\ rpc[f] = "idle"
  /\ \E n \in {Start} \cup {s + 1 : s \in Known} :
       IsNextStart(n) /\ from' = [from EXCEPT ![f] = n]
  /\ rpc' = [rpc EXCEPT ![f] = "blocks"]
  /\ UNCHANGED <<slot, stored, foreign, tip, blocks, senders, queue, faults>>

\* Variant: the range begins one slot later.
RangeLate(n) == {s \in Produced : n + 1 <= s /\ s <= n + Interval}

\* The range of getBlocks: both ends are included.
SlotRange(n) == {s \in Produced : n <= s /\ s <= n + Interval}

\* Variant: no end is given.
GetBlocksOpenEnd(f) ==
  /\ rpc[f] = "blocks"
  /\ LET b == {s \in Produced : from[f] <= s /\ s <= tip}
     IN /\ blocks' = [blocks EXCEPT ![f] = b]
        /\ rpc' = [rpc EXCEPT ![f] = IF b = {} THEN "idle" ELSE "add"]
  /\ UNCHANGED <<slot, stored, foreign, tip, from, senders, queue, faults>>

\* getBlocks: the final blocks of the range; nothing to add when it is empty.
GetBlocks(f) ==
  /\ rpc[f] = "blocks"
  /\ LET b == {s \in SlotRange(from[f]) : s <= tip}
     IN /\ blocks' = [blocks EXCEPT ![f] = b]
        /\ rpc' = [rpc EXCEPT ![f] = IF b = {} THEN "idle" ELSE "add"]
  /\ UNCHANGED <<slot, stored, foreign, tip, from, senders, queue, faults>>

Inserted(f) == [s \in Produced |-> IF s \in blocks[f] THEN "pending" ELSE slot[s]]

EndRefresh(f) ==
  /\ rpc' = [rpc EXCEPT ![f] = "idle"]
  /\ blocks' = [blocks EXCEPT ![f] = {}]
  /\ UNCHANGED <<stored, foreign, tip, from, senders, queue>>

\* One INSERT; one id that is in the table already rolls all of it back.
BatchAddSlot(f) ==
  /\ rpc[f] = "add"
  /\ slot' = IF blocks[f] \cap Known = {} THEN Inserted(f) ELSE slot
  /\ EndRefresh(f)
  /\ UNCHANGED faults

\* An error on the way is logged, or the process stops; the answer to a COMMIT
\* may be what is lost.
RefreshFails(f) ==
  /\ rpc[f] # "idle"
  /\ Fault
  /\ \/ UNCHANGED slot
     \/ rpc[f] = "add" /\ blocks[f] \cap Known = {} /\ slot' = Inserted(f)
  /\ EndRefresh(f)

-----------------------------------------------------------------------------
(* sendTask                                                                 *)

CountJobs(c) ==
  /\ spc[c] = "idle"
  /\ JobKeys <= QueueLimit
  /\ spc' = [spc EXCEPT ![c] = "query"]
  /\ UNCHANGED <<slot, stored, foreign, tip, refreshers, list, queue, faults>>

GetSlots(c) ==
  /\ spc[c] = "query"
  /\ list' = [list EXCEPT ![c] = Oldest]
  /\ spc' = [spc EXCEPT ![c] = IF Oldest = {} THEN "idle" ELSE "add"]
  /\ UNCHANGED <<slot, stored, foreign, tip, refreshers, queue, faults>>

EndSend(c) ==
  /\ spc' = [spc EXCEPT ![c] = "idle"]
  /\ list' = [list EXCEPT ![c] = {}]
  /\ UNCHANGED <<slot, stored, foreign, tip, refreshers>>

\* addBulk: a job id that exists is ignored.
AddBulk(c) ==
  /\ spc[c] = "add"
  /\ job' = [s \in Produced |-> IF s \in list[c] /\ job[s] = "none" THEN "waiting" ELSE job[s]]
  /\ EndSend(c)
  /\ UNCHANGED <<owner, wslot, faults>>

SendFails(c) ==
  /\ spc[c] # "idle"
  /\ Fault
  /\ EndSend(c)
  /\ UNCHANGED queue

-----------------------------------------------------------------------------
(* parseBlock                                                               *)

Take(w, s) ==
  /\ wslot[w] = None /\ job[s] = "waiting"
  /\ job' = [job EXCEPT ![s] = "active"]
  /\ owner' = [owner EXCEPT ![s] = w]
  /\ wslot' = [wslot EXCEPT ![w] = s]
  /\ UNCHANGED <<slot, stored, foreign, tip, refreshers, senders, faults>>

\* removeOnComplete and removeOnFail: the job is gone however it ends, unless
\* it was given to another worker in the meantime.
EndJob(w) ==
  LET s == wslot[w] IN
  /\ IF owner[s] = w /\ job[s] = "active"
       THEN job' = [job EXCEPT ![s] = "none"] /\ owner' = [owner EXCEPT ![s] = None]
       ELSE UNCHANGED <<job, owner>>
  /\ wslot' = [wslot EXCEPT ![w] = None]
  /\ UNCHANGED <<foreign, tip, refreshers, senders>>

SaveBlock(s) ==
  /\ stored' = stored \cup EventsOf(s)
  /\ slot' = [slot EXCEPT ![s] = "done"]

\* Variant: the duplicate key is ignored as on the other paths.
ParseBlockIgnoreDuplicate(w) ==
  /\ wslot[w] # None
  /\ slot' = [slot EXCEPT ![wslot[w]] = "done"]
  /\ stored' = IF EventsOf(wslot[w]) \cap stored = {} THEN stored \cup EventsOf(wslot[w]) ELSE stored
  /\ EndJob(w)
  /\ UNCHANGED faults

\* getBlock and saveDataBucket: one event that is stored already is a
\* duplicate key, which rolls back the events and the status and fails the job.
ParseBlock(w) ==
  /\ wslot[w] # None
  /\ IF EventsOf(wslot[w]) \cap stored = {}
       THEN SaveBlock(wslot[w])
       ELSE UNCHANGED <<slot, stored>>
  /\ EndJob(w)
  /\ UNCHANGED faults

\* Variant: removeOnFail is left out.
ParseBlockFailsKept(w) ==
  /\ wslot[w] # None
  /\ Fault
  /\ wslot' = [wslot EXCEPT ![w] = None]
  /\ UNCHANGED <<slot, stored, foreign, tip, refreshers, senders, job, owner>>

\* Variant: no transaction around the statements of saveDataBucket; the one
\* that fails leaves what the ones before it stored.
ParseBlockFailsInParts(w) ==
  /\ wslot[w] # None
  /\ Fault
  /\ EventsOf(wslot[w]) \cap stored = {}
  /\ \E E \in SUBSET EventsOf(wslot[w]) : stored' = stored \cup E
  /\ UNCHANGED slot
  /\ EndJob(w)

\* The block cannot be read, the save fails, or the answer to its COMMIT is lost.
ParseBlockFails(w) ==
  /\ wslot[w] # None
  /\ Fault
  /\ \/ UNCHANGED <<slot, stored>>
     \/ EventsOf(wslot[w]) \cap stored = {} /\ SaveBlock(wslot[w])
  /\ EndJob(w)

\* The token of an active job runs out: the queue gives the job to the next
\* worker, or drops it the second time, and the first goes on or is gone.
StealJob(s) ==
  /\ job[s] = "active"
  /\ Fault
  /\ \E j \in {"waiting", "none"} : job' = [job EXCEPT ![s] = j]
  /\ wslot' \in {wslot, [w \in Workers |-> IF w = owner[s] THEN None ELSE wslot[w]]}
  /\ owner' = [owner EXCEPT ![s] = None]
  /\ UNCHANGED <<slot, stored, foreign, tip, refreshers, senders>>

-----------------------------------------------------------------------------
\* The next slot becomes final.
Finalize ==
  /\ tip < LastSlot
  /\ tip' = tip + 1
  /\ UNCHANGED <<slot, stored, foreign, refreshers, senders, queue, faults>>

\* The log listener or the parsing of signatures stores a transaction.
StoreElsewhere(t) ==
  /\ t \notin stored
  /\ stored' = stored \cup {t}
  /\ foreign' = foreign \cup {t}
  /\ UNCHANGED <<slot, tip, refreshers, senders, queue, faults>>

Refresh(f) == ReadLastSlot(f) \/ GetBlocks(f) \/ BatchAddSlot(f)
Send(c)    == CountJobs(c) \/ GetSlots(c) \/ AddBulk(c)

Next ==
  \/ \E f \in Refreshers : Refresh(f) \/ RefreshFails(f)
  \/ \E c \in Senders : Send(c) \/ SendFails(c)
  \/ \E w \in Workers : (\E s \in Produced : Take(w, s)) \/ ParseBlock(w) \/ ParseBlockFails(w)
  \/ \E s \in Produced : StealJob(s)
  \/ Finalize
  \/ \E t \in Txs : StoreElsewhere(t)

Spec == Init /\ [][Next]_vars

\* The timers fire again and again, their calls and the workers go on, every
\* waiting job is handed out, and the chain grows.  Nothing makes another path
\* store a transaction.
FairSpec ==
  /\ Spec
  /\ \A f \in Refreshers : WF_vars(Refresh(f))
  /\ \A c \in Senders : WF_vars(Send(c))
  /\ \A s \in Produced : SF_vars(\E w \in Workers : Take(w, s))
  /\ \A w \in Workers : WF_vars(ParseBlock(w))
  /\ WF_vars(Finalize)

-----------------------------------------------------------------------------
(* Properties.                                                              *)

\* Type invariant.
TypeOK ==
  /\ slot \in [Produced -> {"absent", "pending", "done"}]
  /\ stored \subseteq Txs
  /\ foreign \subseteq Txs
  /\ tip \in Nat
  /\ rpc \in [Refreshers -> {"idle", "blocks", "add"}]
  /\ from \in [Refreshers -> Nat]
  /\ blocks \in [Refreshers -> SUBSET Produced]
  /\ spc \in [Senders -> {"idle", "query", "add"}]
  /\ list \in [Senders -> SUBSET Produced]
  /\ job \in [Produced -> JobState]
  /\ owner \in [Produced -> Workers \cup {None}]
  /\ wslot \in [Workers -> Produced \cup {None}]
  /\ faults \in Nat

\* The table has no gap, whatever calls of refreshBlockNumber interleave or
\* fail: a scan that goes on after the highest id has left no block behind.
NoGap ==
  \A s \in Known, q \in Produced : Start <= q /\ q < s => q \in Known

\* A slot of status 1 has all its events stored (parseBlock, saveDataBucket).
DoneHasEvents ==
  \A s \in Produced : slot[s] = "done" => EventsOf(s) \subseteq stored

\* The events of a block are stored together and with the mark of the slot, or
\* not at all (the transaction of parseBlock): however often the job of a slot
\* runs, whichever run of it fails or loses its answer, a slot that is not done
\* has no event of parseBlock's in the tables, where it would be a duplicate key
\* for the next run, and a done one has them all from parseBlock.
SavedTogether ==
  \A s \in Produced :
    IF slot[s] = "done" THEN EventsOf(s) \subseteq stored \ foreign
                        ELSE EventsOf(s) \cap stored \subseteq foreign

\* A pending slot one of whose events came in on another path.
Stuck(s) == s \in Pending /\ EventsOf(s) \cap stored # {}

\* Such a slot is never done: every attempt to parse it is a duplicate key,
\* which parseBlock, unlike the other two paths, does not take for an answer.
StuckIsFinal == [][\A s \in Produced : Stuck(s) => Stuck(s)']_vars

\* No block in the range that follows the highest id.
Stalled == \E n \in {Start} \cup {s + 1 : s \in Known} : IsNextStart(n) /\ SlotRange(n) = {}

\* A run of skipped slots as long as the range ends the scan: the range only
\* moves when a slot is added, so no refresh adds a slot ever again.
StallIsFinal == [][Stalled => Known' = Known]_vars

\* Every final block is added to the table, unless the scan stalls.
ScannedOrStalled ==
  \A s \in Produced : s >= Start /\ s <= tip ~> s \in Known \/ Stalled

\* Every slot is parsed in the end, errors and stalled jobs notwithstanding,
\* unless an event of it or of an older slot came in on another path first:
\* stuck slots are read first and can fill the page of getSlots.
DoneOrStuck ==
  \A s \in Produced : s \in Pending ~> slot[s] = "done" \/ \E q \in Produced : q <= s /\ Stuck(q)
=============================================================================
