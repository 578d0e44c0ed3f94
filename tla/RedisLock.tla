------------------------------ MODULE RedisLock ------------------------------
(***************************************************************************)
(* One lock of RedisService: a key set with NX and a time to live, whose    *)
(* value is the uuid of the process, and a compare-and-delete to unlock.    *)
(* A call is one caller's sequence of lock (or lockOnce), work, unLock; a   *)
(* process may run several.  Time is a countdown: a call works for as long  *)
(* as it likes, and the key goes when its time to live is over.             *)
(***************************************************************************)
EXTENDS Naturals

CONSTANTS
  Calls,      \* concurrent callers
  Nodes,      \* processes, each with one uuid
  NodeOf,     \* the process of each call
  None,       \* the key does not exist
  Expire,     \* the time to live a call asks for
  MaxRetries, \* maxRetryTimes of lock; 0 is lockOnce
  MaxFaults   \* bound on lost answers and crashes

ASSUME RedisLockAssumption ==
  /\ NodeOf \in [Calls -> Nodes]
  /\ None \notin Nodes
  /\ Expire \in Nat \ {0}
  /\ MaxRetries \in Nat
  /\ MaxFaults \in Nat

VARIABLES
  holder,   \* the value of the key
  ttl,      \* what is left of its time to live
  pc,       \* "idle", "try", "work", "unlock"
  retries,  \* retryTimes
  lost,     \* history: the calls inside whose key is gone, see Tick and UnLock
  faults

vars == <<holder, ttl, pc, retries, lost, faults>>

Init ==
  /\ holder = None
  /\ ttl = 0
  /\ pc = [c \in Calls |-> "idle"]
  /\ retries = [c \in Calls |-> 0]
  /\ lost = {}
  /\ faults = 0

Inside(c) == pc[c] \in {"work", "unlock"}

Start(c) ==
  /\ pc[c] = "idle"
  /\ pc' = [pc EXCEPT ![c] = "try"]
  /\ retries' = [retries EXCEPT ![c] = 0]
  /\ lost' = lost \ {c}
  /\ UNCHANGED <<holder, ttl, faults>>

\* SET name uuid PX expire NX, when the key does not exist.
LockOnce(c) ==
  /\ pc[c] = "try" /\ holder = None
  /\ holder' = NodeOf[c]
  /\ ttl' = Expire
  /\ pc' = [pc EXCEPT ![c] = "work"]
  /\ UNCHANGED <<retries, lost, faults>>

\* Variant: retryTimes is not incremented.
RetryForever(c) ==
  /\ pc[c] = "try" /\ holder # None
  /\ UNCHANGED vars

\* The key exists: sleep and try again, or give up.
Retry(c) ==
  /\ pc[c] = "try" /\ holder # None
  /\ IF retries[c] >= MaxRetries
       THEN pc' = [pc EXCEPT ![c] = "idle"] /\ UNCHANGED retries
       ELSE retries' = [retries EXCEPT ![c] = @ + 1] /\ UNCHANGED pc
  /\ UNCHANGED <<holder, ttl, lost, faults>>

\* setTTL: pexpire, whoever the key belongs to.
SetTTL(c) ==
  /\ pc[c] = "work" /\ holder # None /\ ttl # Expire
  /\ ttl' = Expire
  /\ UNCHANGED <<holder, pc, retries, lost, faults>>

EndWork(c) ==
  /\ pc[c] = "work"
  /\ pc' = [pc EXCEPT ![c] = "unlock"]
  /\ UNCHANGED <<holder, ttl, retries, lost, faults>>

\* Variant: DEL without the comparison.
UnLockAny(c) ==
  /\ pc[c] = "unlock"
  /\ holder' = None /\ ttl' = 0
  /\ pc' = [pc EXCEPT ![c] = "idle"]
  /\ UNCHANGED <<retries, lost, faults>>

\* The script deletes the key if its value is the uuid of this process.  A call
\* that has lost its key may so delete that of another call of its process.
UnLock(c) ==
  /\ pc[c] = "unlock"
  /\ IF holder = NodeOf[c]
       THEN /\ holder' = None /\ ttl' = 0
            /\ lost' = IF c \in lost THEN lost \cup {d \in Calls : Inside(d) /\ NodeOf[d] = NodeOf[c]}
                       ELSE lost
       ELSE UNCHANGED <<holder, ttl, lost>>
  /\ pc' = [pc EXCEPT ![c] = "idle"]
  /\ UNCHANGED <<retries, faults>>

Fault == faults < MaxFaults /\ faults' = faults + 1

\* The answer of SET is lost, and the call throws; or that of the script is.
AnswerLost(c) ==
  /\ Fault
  /\ \/ /\ pc[c] = "try" /\ holder = None
        /\ holder' = NodeOf[c] /\ ttl' = Expire
     \/ /\ pc[c] = "unlock"
        /\ UNCHANGED <<holder, ttl>>
  /\ pc' = [pc EXCEPT ![c] = "idle"]
  /\ UNCHANGED <<retries, lost>>

\* A process stops; its key stays until it expires.
Crash(n) ==
  /\ Fault
  /\ pc' = [c \in Calls |-> IF NodeOf[c] = n THEN "idle" ELSE pc[c]]
  /\ UNCHANGED <<holder, ttl, retries, lost>>

Tick ==
  /\ ttl > 0
  /\ ttl' = ttl - 1
  /\ holder' = IF ttl = 1 THEN None ELSE holder
  /\ lost' = IF ttl = 1 THEN lost \cup {c \in Calls : Inside(c) /\ NodeOf[c] = holder}
                ELSE lost
  /\ UNCHANGED <<pc, retries, faults>>

Next ==
  \/ \E c \in Calls : \/ Start(c) \/ LockOnce(c) \/ Retry(c) \/ SetTTL(c)
                      \/ EndWork(c) \/ UnLock(c) \/ AnswerLost(c)
  \/ \E n \in Nodes : Crash(n)
  \/ Tick

Spec == Init /\ [][Next]_vars

\* Callers retry, work ends and time passes.
Fairness ==
  \A c \in Calls : WF_vars(LockOnce(c) \/ Retry(c)) /\ WF_vars(EndWork(c)) /\ WF_vars(UnLock(c))

FairSpec == Spec /\ Fairness

-----------------------------------------------------------------------------
\* Type invariant.
TypeOK ==
  /\ holder \in Nodes \cup {None}
  /\ ttl \in 0 .. Expire
  /\ pc \in [Calls -> {"idle", "try", "work", "unlock"}]
  /\ retries \in [Calls -> 0 .. MaxRetries]
  /\ lost \subseteq Calls
  /\ faults \in Nat

\* Of two calls inside, one has lost its key: it expired while the call worked,
\* or a call of the same process deleted it that had lost its own before
\* (lockOnce, unLock).  No call in time loses its key to another process,
\* however late that one unlocks: this is what the uuid is for.
Exclusion ==
  \A c, d \in Calls : Inside(c) /\ Inside(d) /\ c # d => c \in lost \/ d \in lost

\* Every lock call ends: it gets the lock or gives up.
LockEnds == \A c \in Calls : pc[c] = "try" ~> pc[c] # "try"
=============================================================================
