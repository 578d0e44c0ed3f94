-------------------------- MODULE RedisServiceProofs --------------------------
(***************************************************************************)
(* Theorems about RedisService.                                             *)
(* - The lock excludes the calls that keep their key, for any number of     *)
(*   calls and processes, and a key is only lost when it expires or when a  *)
(*   call of the same process that lost its own unlocks.  A call of lock    *)
(*   ends after maxRetryTimes + 1 attempts.                                 *)
(* - The map delivers what is put into it once, for any number of keys and  *)
(*   puts, as long as linkedHashRemove is called without a range.  With one *)
(*   it returns the oldest entries and removes the newest.                  *)
(***************************************************************************)
EXTENDS RedisService, Sequences, FiniteSetTheorems, TLAPS

\* Every state of every run has the types of TypeOK.
THEOREM TypeCorrect == Spec => []TypeOK
<1> USE RedisLockAssumption
<1>1. Init => TypeOK
  BY DEF Init, TypeOK
<1>2. TypeOK /\ [Next]_vars => TypeOK'
  <2> SUFFICES ASSUME TypeOK, [Next]_vars PROVE TypeOK'
    OBVIOUS
  <2>1. ASSUME NEW c \in Calls, Start(c) PROVE TypeOK'
    BY <2>1 DEF TypeOK, Start
  <2>2. ASSUME NEW c \in Calls, LockOnce(c) PROVE TypeOK'
    BY <2>2 DEF TypeOK, LockOnce
  <2>3. ASSUME NEW c \in Calls, Retry(c) PROVE TypeOK'
    BY <2>3 DEF TypeOK, Retry
  <2>4. ASSUME NEW c \in Calls, SetTTL(c) \/ EndWork(c) \/ UnLock(c) PROVE TypeOK'
    BY <2>4 DEF TypeOK, SetTTL, EndWork, UnLock
  <2>5. ASSUME NEW c \in Calls, AnswerLost(c) PROVE TypeOK'
    BY <2>5 DEF TypeOK, AnswerLost, Fault
  <2>6. ASSUME NEW n \in Nodes, Crash(n) PROVE TypeOK'
    BY <2>6 DEF TypeOK, Crash, Fault
  <2>7. CASE Tick
    BY <2>7 DEF TypeOK, Tick
  <2>8. CASE UNCHANGED vars
    BY <2>8 DEF TypeOK, vars
  <2> QED BY <2>1, <2>2, <2>3, <2>4, <2>5, <2>6, <2>7, <2>8 DEF Next
<1> QED BY <1>1, <1>2, PTL DEF Spec

-----------------------------------------------------------------------------
\* A call that has not lost its key: the key carries the uuid of its process, and
\* no other call is inside with it.
Holds(c) == Inside(c) /\ c \notin lost

Covered ==
  /\ \A c \in Calls : Holds(c) => holder = NodeOf[c]
  /\ \A c, d \in Calls : Holds(c) /\ Holds(d) => c = d

\* A step after which a call holds the key only if it held it before, and in
\* which the key stays, leaves it covered.
LEMMA CoveredKept ==
  ASSUME Covered, holder' = holder, \A c \in Calls : Holds(c)' => Holds(c)
  PROVE  Covered'
BY DEF Covered

\* An unlock takes the key from nobody who holds it, except from the call itself
\* or, by a call that has lost its own, from calls that are then lost too.
LEMMA UnLockKeepsCovered ==
  ASSUME TypeOK, Covered, NEW c \in Calls, UnLock(c)
  PROVE  Covered'
<1> USE DEF Holds, Inside
<1>1. pc' = [pc EXCEPT ![c] = "idle"] /\ lost \subseteq lost'
  BY DEF UnLock
<1>2. \A d \in Calls : Holds(d)' => Holds(d) /\ d # c
  BY <1>1 DEF TypeOK
<1>3. CASE holder = NodeOf[c]
  <2>1. ASSUME NEW d \in Calls, Holds(d)' PROVE FALSE
    <3>1. Holds(d) /\ d # c
      BY <1>2, <2>1
    <3>2. c \in lost /\ NodeOf[d] = NodeOf[c]
      BY <1>3, <3>1 DEF Covered, UnLock
    <3>3. d \in lost'
      BY <1>3, <3>1, <3>2 DEF UnLock
    <3> QED BY <2>1, <3>3
  <2> QED BY <2>1 DEF Covered
<1>4. CASE holder # NodeOf[c]
  <2>1. holder' = holder
    BY <1>4 DEF UnLock
  <2> QED BY <1>2, <2>1, CoveredKept
<1> QED BY <1>3, <1>4

\* When the key is set, nobody holds it, and then the call that set it does.
LEMMA SetCovers ==
  ASSUME TypeOK, Covered, holder = None, NEW c \in Calls,
         holder' = NodeOf[c], \A d \in Calls : Holds(d)' => Holds(d) \/ d = c
  PROVE  Covered'
<1>1. \A d \in Calls : ~Holds(d)
  BY RedisLockAssumption DEF Covered
<1> QED BY <1>1 DEF Covered

\* Calls that keep their key exclude each other, for any number of calls of any
\* number of processes.
THEOREM LockExcludes == Spec => []Exclusion
<1> USE RedisLockAssumption
<1>1. Init => Covered
  BY DEF Init, Covered, Holds, Inside
<1>2. TypeOK /\ Covered /\ [Next]_vars => Covered'
  <2> SUFFICES ASSUME TypeOK, Covered, [Next]_vars PROVE Covered'
    OBVIOUS
  <2> USE DEF Holds, Inside
  <2>1. ASSUME NEW c \in Calls, Start(c) \/ Retry(c) \/ SetTTL(c) \/ EndWork(c) PROVE Covered'
    <3>1. holder' = holder /\ \A d \in Calls : Holds(d)' => Holds(d)
      BY <2>1 DEF TypeOK, Start, Retry, SetTTL, EndWork
    <3> QED BY <3>1, CoveredKept
  <2>2. ASSUME NEW c \in Calls, LockOnce(c) PROVE Covered'
    <3>1. holder = None /\ holder' = NodeOf[c] /\ \A d \in Calls : Holds(d)' => Holds(d) \/ d = c
      BY <2>2 DEF TypeOK, LockOnce
    <3> QED BY <3>1, SetCovers
  <2>3. ASSUME NEW c \in Calls, UnLock(c) PROVE Covered'
    BY <2>3, UnLockKeepsCovered
  <2>4. ASSUME NEW c \in Calls, AnswerLost(c) PROVE Covered'
    <3>1. \A d \in Calls : Holds(d)' => Holds(d)
      BY <2>4 DEF TypeOK, AnswerLost
    <3>2. CASE holder' = holder
      BY <3>1, <3>2, CoveredKept
    <3>3. CASE holder = None /\ holder' = NodeOf[c]
      BY <3>1, <3>3, SetCovers
    <3> QED BY <2>4, <3>2, <3>3 DEF AnswerLost
  <2>5. ASSUME NEW n \in Nodes, Crash(n) PROVE Covered'
    <3>1. holder' = holder /\ \A d \in Calls : Holds(d)' => Holds(d)
      BY <2>5 DEF TypeOK, Crash
    <3> QED BY <3>1, CoveredKept
  <2>6. CASE Tick
    <3>1. CASE ttl = 1
      <4>1. \A d \in Calls : ~Holds(d)'
        BY <2>6, <3>1 DEF Covered, Tick
      <4> QED BY <4>1 DEF Covered
    <3>2. CASE ttl # 1
      BY <2>6, <3>2, CoveredKept DEF Tick
    <3> QED BY <3>1, <3>2
  <2>7. CASE UNCHANGED vars
    BY <2>7, CoveredKept DEF vars
  <2> QED BY <2>1, <2>2, <2>3, <2>4, <2>5, <2>6, <2>7 DEF Next
<1>3. Covered => Exclusion
  BY DEF Covered, Holds, Exclusion
<1> QED BY <1>1, <1>2, <1>3, TypeCorrect, PTL DEF Spec

\* They do so beside the map, too.
THEOREM ServiceLockExcludes == ServiceSpec => []Exclusion
<1>1. ServiceInit => Init
  BY DEF ServiceInit
<1>2. [ServiceNext]_<<vars, mapVars>> => [Next]_vars
  BY DEF ServiceNext
<1> QED BY <1>1, <1>2, LockExcludes, PTL DEF ServiceSpec, Spec

\* The attempts a lock call has left; between calls there is none.
AttemptsLeft(c) == IF pc[c] = "try" THEN MaxRetries + 1 - retries[c] ELSE 0

\* Every attempt uses one up or ends the call, and nothing gives one back.
AttemptsFall ==
  \A c \in Calls : pc[c] = "try" =>
    /\ AttemptsLeft(c) \in 1 .. MaxRetries + 1
    /\ \/ pc'[c] = pc[c] /\ retries'[c] = retries[c]
       \/ AttemptsLeft(c)' \in 0 .. AttemptsLeft(c) - 1
    /\ LockOnce(c) \/ Retry(c) => AttemptsLeft(c)' < AttemptsLeft(c)

\* A call of lock makes maxRetryTimes + 1 attempts at most, whoever takes the key
\* in between and however often it expires.
THEOREM AttemptsAreBounded == ServiceSpec => [][AttemptsFall]_vars
<1> USE RedisLockAssumption
<1>1. TypeOK /\ [Next]_vars => [AttemptsFall]_vars
  <2> SUFFICES ASSUME TypeOK, Next, NEW c \in Calls, pc[c] = "try"
               PROVE  /\ AttemptsLeft(c) \in 1 .. MaxRetries + 1
                      /\ \/ pc'[c] = pc[c] /\ retries'[c] = retries[c]
                         \/ AttemptsLeft(c)' \in 0 .. AttemptsLeft(c) - 1
                      /\ LockOnce(c) \/ Retry(c) => AttemptsLeft(c)' < AttemptsLeft(c)
    BY DEF AttemptsFall
  <2> USE DEF AttemptsLeft
  <2>1. AttemptsLeft(c) \in 1 .. MaxRetries + 1
    BY DEF TypeOK
  <2>2. CASE LockOnce(c) \/ Retry(c)
    BY <2>1, <2>2 DEF TypeOK, LockOnce, Retry
  <2>3. CASE ~(LockOnce(c) \/ Retry(c))
    <3>1. ASSUME NEW d \in Calls,
                 \/ Start(d) \/ LockOnce(d) \/ Retry(d) \/ SetTTL(d)
                 \/ EndWork(d) \/ UnLock(d) \/ AnswerLost(d)
          PROVE  \/ pc'[c] = pc[c] /\ retries'[c] = retries[c]
                 \/ pc'[c] = "idle"
      BY <2>3, <3>1 DEF TypeOK, Start, LockOnce, Retry, SetTTL, EndWork, UnLock, AnswerLost
    <3>2. ASSUME NEW n \in Nodes, Crash(n)
          PROVE  \/ pc'[c] = pc[c] /\ retries'[c] = retries[c]
                 \/ pc'[c] = "idle"
      BY <3>2 DEF TypeOK, Crash
    <3>3. ASSUME Tick PROVE pc'[c] = pc[c] /\ retries'[c] = retries[c]
      BY <3>3 DEF Tick
    <3>4. \/ pc'[c] = pc[c] /\ retries'[c] = retries[c]
          \/ pc'[c] = "idle"
      BY <3>1, <3>2, <3>3 DEF Next
    <3> QED BY <2>1, <2>3, <3>4
  <2> QED BY <2>1, <2>2, <2>3
<1>2. ServiceInit => Init
  BY DEF ServiceInit
<1>3. [ServiceNext]_<<vars, mapVars>> => [Next]_vars
  BY DEF ServiceNext
<1> QED BY <1>1, <1>2, <1>3, TypeCorrect, PTL DEF ServiceSpec, Spec

-----------------------------------------------------------------------------
(* The insertion-ordered map.                                               *)

MapTypeInv ==
  /\ puts \in 0 .. MaxPuts
  /\ keyOf \in Seq(Keys) /\ Len(keyOf) = puts
  /\ at \in [Keys -> 0 .. puts]
  /\ content \in [Keys -> 0 .. puts]
  /\ delivered \in [1 .. MaxPuts -> Nat]

\* A member of the sorted set stands for the last put of its key, which was not
\* returned yet; its content is that put's, unless it ran out of time.
MemberInv ==
  \A k \in Keys :
    at[k] # 0 =>
      /\ keyOf[at[k]] = k
      /\ delivered[at[k]] = 0
      /\ content[k] = at[k] \/ (content[k] = 0 /\ at[k] \in expired)

MapInv ==
  /\ MapTypeInv
  /\ MemberInv
  /\ \A p \in puts + 1 .. MaxPuts : delivered[p] = 0
  /\ DeliveredAtMostOnce
  /\ NothingLost

\* LinkedHash counts as this module does.
LEMMA SameCardinality == \A S : Map!Cardinality(S) = Cardinality(S)
BY DEF Map!Cardinality, Cardinality, Map!IsFiniteSet, IsFiniteSet

\* The members of the sorted set are finitely many, for any set of keys: each
\* stands for a put.
LEMMA MembersFinite == ASSUME MapTypeInv, MemberInv PROVE IsFiniteSet(Map!Members)
<1> DEFINE put == {keyOf[p] : p \in 1 .. puts}
<1>1. IsFiniteSet(1 .. puts)
  BY FS_Interval DEF MapTypeInv
<1>2. IsFiniteSet(put)
  <2>1. keyOf \in Surjection(1 .. puts, put)
    BY DEF Surjection, MapTypeInv
  <2> HIDE DEF put
  <2> QED BY <1>1, <2>1, FS_Surjection
<1>3. Map!Members \subseteq put
  BY DEF Map!Members, MapTypeInv, MemberInv
<1> QED BY <1>2, <1>3, FS_Subset

\* Without a range linkedHashRemove takes and drops every member.
LEMMA AllTaken ==
  ASSUME MapTypeInv, MemberInv
  PROVE  LET n == Cardinality(Map!Members)
         IN Map!Oldest(n) = Map!Members /\ Map!Newest(n) = Map!Members
<1> DEFINE n == Cardinality(Map!Members)
<1>1. \A S \in SUBSET Map!Members : Cardinality(S) <= n
  BY MembersFinite, FS_Subset
<1>2. \A k : {j \in Map!Members : at[j] < at[k]} \in SUBSET Map!Members
  OBVIOUS
<1>3. \A k : {j \in Map!Members : at[j] > at[k]} \in SUBSET Map!Members
  OBVIOUS
<1>4. Map!Oldest(n) = Map!Members
  BY <1>1, <1>2, SameCardinality DEF Map!Oldest
<1>5. Map!Newest(n) = Map!Members
  BY <1>1, <1>3, SameCardinality DEF Map!Newest
<1> QED BY <1>4, <1>5

\* linkedHashMapPut keeps MapInv.
LEMMA PutStep == ASSUME MapInv, NEW k \in Keys, Map!Put(k) PROVE MapInv'
<1> USE RedisServiceAssumption
<1> DEFINE p == puts + 1
<1>1. /\ puts < MaxPuts /\ puts' = p /\ p \in 1 .. MaxPuts
      /\ at' = [at EXCEPT ![k] = p]
      /\ content' = [content EXCEPT ![k] = p]
      /\ keyOf' = Append(keyOf, k)
      /\ expired' = expired /\ delivered' = delivered
  BY DEF Map!Put, MapInv, MapTypeInv
<1>2. /\ keyOf' \in Seq(Keys) /\ Len(keyOf') = p /\ keyOf'[p] = k
      /\ \A q \in 1 .. puts : keyOf'[q] = keyOf[q]
  BY <1>1 DEF MapInv, MapTypeInv
<1>3. MapTypeInv'
  BY <1>1, <1>2 DEF MapInv, MapTypeInv
<1>4. delivered[p] = 0 /\ \A q \in p + 1 .. MaxPuts : delivered[q] = 0
  BY <1>1 DEF MapInv, MapTypeInv
<1>5. MemberInv'
  <2> SUFFICES ASSUME NEW j \in Keys, at'[j] # 0
               PROVE  /\ keyOf'[at'[j]] = j
                      /\ delivered'[at'[j]] = 0
                      /\ content'[j] = at'[j] \/ (content'[j] = 0 /\ at'[j] \in expired')
    BY DEF MemberInv
  <2>1. CASE j = k
    BY <1>1, <1>2, <1>4, <2>1 DEF MapInv, MapTypeInv
  <2>2. CASE j # k
    <3>1. at'[j] = at[j] /\ content'[j] = content[j] /\ at[j] \in 1 .. puts
      BY <1>1, <2>2 DEF MapInv, MapTypeInv
    <3>2. /\ keyOf[at[j]] = j
          /\ delivered[at[j]] = 0
          /\ content[j] = at[j] \/ (content[j] = 0 /\ at[j] \in expired)
      BY <3>1 DEF MapInv, MemberInv
    <3>3. keyOf'[at[j]] = keyOf[at[j]] /\ delivered' = delivered /\ expired' = expired
      BY <1>1, <1>2, <3>1
    <3> QED BY <3>1, <3>2, <3>3
  <2> QED BY <2>1, <2>2
<1>6. DeliveredAtMostOnce'
  BY <1>1, <1>4 DEF MapInv, MapTypeInv, DeliveredAtMostOnce, Map!DeliveredAtMostOnce
<1>7. NothingLost'
  <2> SUFFICES ASSUME NEW q \in 1 .. p, delivered[q] = 0
               PROVE  \/ at'[keyOf'[q]] = q \/ q \in expired'
                      \/ \E r \in q + 1 .. p : keyOf'[r] = keyOf'[q]
    BY <1>1 DEF NothingLost, Map!NothingLost, Map!Overwritten
  <2>1. CASE q = p
    BY <1>1, <1>2, <2>1 DEF MapInv, MapTypeInv
  <2>2. CASE q \in 1 .. puts /\ keyOf[q] = k
    <3>1. p \in q + 1 .. p
      BY <1>1, <2>2 DEF MapInv, MapTypeInv
    <3> QED BY <1>2, <2>2, <3>1
  <2>3. CASE q \in 1 .. puts /\ keyOf[q] # k
    <3>1. keyOf'[q] = keyOf[q] /\ keyOf[q] \in Keys /\ at'[keyOf[q]] = at[keyOf[q]]
      BY <1>1, <1>2, <2>3 DEF MapInv, MapTypeInv
    <3>2. at[keyOf[q]] = q \/ q \in expired \/ \E r \in q + 1 .. puts : keyOf[r] = keyOf[q]
      BY <2>3 DEF MapInv, NothingLost, Map!NothingLost, Map!Overwritten
    <3>3. \A r \in q + 1 .. puts : r \in q + 1 .. p /\ r \in 1 .. puts
      BY <2>3 DEF MapInv, MapTypeInv
    <3> QED BY <1>1, <1>2, <3>1, <3>2, <3>3
  <2> QED BY <1>1, <2>1, <2>2, <2>3 DEF MapInv, MapTypeInv
<1> QED BY <1>1, <1>3, <1>4, <1>5, <1>6, <1>7 DEF MapInv

\* Content that runs out of time keeps MapInv.
LEMMA ExpireStep == ASSUME MapInv, NEW k \in Keys, Map!ExpireKey(k) PROVE MapInv'
<1>1. /\ content[k] # 0
      /\ expired' = expired \cup {content[k]}
      /\ content' = [content EXCEPT ![k] = 0]
      /\ at' = at /\ puts' = puts /\ keyOf' = keyOf /\ delivered' = delivered
  BY DEF Map!ExpireKey
<1>2. MapTypeInv'
  BY <1>1 DEF MapInv, MapTypeInv
<1>3. MemberInv'
  BY <1>1 DEF MapInv, MapTypeInv, MemberInv
<1>4. DeliveredAtMostOnce' /\ NothingLost'
  BY <1>1 DEF MapInv, DeliveredAtMostOnce, Map!DeliveredAtMostOnce,
              NothingLost, Map!NothingLost, Map!Overwritten
<1> QED BY <1>1, <1>2, <1>3, <1>4 DEF MapInv

\* linkedHashRemove without a range keeps MapInv.
LEMMA RemoveStep == ASSUME MapInv, Map!Remove(0) PROVE MapInv'
<1> USE RedisServiceAssumption
<1>1. /\ at' = [k \in Keys |-> IF k \in Map!Members THEN 0 ELSE at[k]]
      /\ delivered' = [p \in 1 .. MaxPuts |->
           delivered[p] + (IF \E k \in Map!Members : content[k] = p THEN 1 ELSE 0)]
      /\ content' = content /\ puts' = puts /\ keyOf' = keyOf /\ expired' = expired
  BY AllTaken, SameCardinality DEF Map!Remove, MapInv
<1>2. \A k \in Keys : at'[k] = 0
  BY <1>1 DEF Map!Members, MapInv, MapTypeInv
<1>3. \A k \in Map!Members, p \in 1 .. MaxPuts :
        content[k] = p => p \in 1 .. puts /\ delivered[p] = 0
  <2> SUFFICES ASSUME NEW k \in Map!Members, NEW p \in 1 .. MaxPuts, content[k] = p
               PROVE  p \in 1 .. puts /\ delivered[p] = 0
    OBVIOUS
  <2>1. k \in Keys /\ at[k] # 0 /\ at[k] \in 0 .. puts
    BY DEF Map!Members, MapInv, MapTypeInv
  <2>2. at[k] = p /\ delivered[at[k]] = 0
    BY <2>1 DEF MapInv, MemberInv
  <2> QED BY <2>1, <2>2 DEF MapInv, MapTypeInv
<1>4. MapTypeInv'
  BY <1>1, <1>2 DEF MapInv, MapTypeInv
<1>5. MemberInv'
  BY <1>2 DEF MemberInv
<1>6. \A p \in puts + 1 .. MaxPuts : delivered'[p] = 0
  BY <1>1, <1>3 DEF MapInv, MapTypeInv
<1>7. DeliveredAtMostOnce'
  <2> SUFFICES ASSUME NEW p \in 1 .. puts PROVE delivered'[p] <= 1
    BY <1>1 DEF DeliveredAtMostOnce, Map!DeliveredAtMostOnce
  <2>1. p \in 1 .. MaxPuts /\ delivered[p] \in Nat /\ delivered[p] <= 1
    BY DEF MapInv, MapTypeInv, DeliveredAtMostOnce, Map!DeliveredAtMostOnce
  <2> QED BY <1>1, <1>3, <2>1
<1>8. NothingLost'
  <2> SUFFICES ASSUME NEW p \in 1 .. puts, delivered'[p] = 0
               PROVE  p \in expired \/ Map!Overwritten(p)
    BY <1>1 DEF NothingLost, Map!NothingLost, Map!Overwritten
  <2>1. p \in 1 .. MaxPuts /\ keyOf[p] \in Keys
    BY DEF MapInv, MapTypeInv
  <2>2. /\ delivered[p] \in Nat
        /\ delivered'[p] =
             delivered[p] + (IF \E k \in Map!Members : content[k] = p THEN 1 ELSE 0)
    BY <1>1, <2>1 DEF MapInv, MapTypeInv
  <2>3. delivered[p] = 0 /\ ~ \E k \in Map!Members : content[k] = p
    BY <2>2
  <2>4. CASE at[keyOf[p]] = p
    BY <2>1, <2>3, <2>4 DEF Map!Members, MapInv, MemberInv
  <2> QED BY <2>3, <2>4 DEF MapInv, NothingLost, Map!NothingLost
<1> QED BY <1>1, <1>4, <1>5, <1>6, <1>7, <1>8 DEF MapInv

\* Without a range the map is never in a state that MapInv excludes.
THEOREM MapInvariance == ASSUME Ranges = {0} PROVE ServiceSpec => []MapInv
<1>1. ServiceInit => MapInv
  <2> SUFFICES ASSUME Map!Init PROVE MapInv
    BY DEF ServiceInit
  <2>1. MapTypeInv
    BY RedisServiceAssumption DEF Map!Init, MapTypeInv
  <2>2. /\ MemberInv
        /\ \A p \in puts + 1 .. MaxPuts : delivered[p] = 0
        /\ DeliveredAtMostOnce /\ NothingLost
    BY DEF Map!Init, MemberInv, DeliveredAtMostOnce, Map!DeliveredAtMostOnce,
           NothingLost, Map!NothingLost
  <2> QED BY <2>1, <2>2 DEF MapInv
<1>2. MapInv /\ [ServiceNext]_<<vars, mapVars>> => MapInv'
  <2> SUFFICES ASSUME MapInv, [ServiceNext]_<<vars, mapVars>> PROVE MapInv'
    OBVIOUS
  <2>1. CASE UNCHANGED mapVars
    BY <2>1 DEF mapVars, MapInv, MapTypeInv, MemberInv, DeliveredAtMostOnce,
                Map!DeliveredAtMostOnce, NothingLost, Map!NothingLost, Map!Overwritten
  <2>2. CASE Map!Next
    BY <2>2, PutStep, ExpireStep, RemoveStep DEF Map!Next
  <2> QED BY <2>1, <2>2 DEF ServiceNext
<1> QED BY <1>1, <1>2, PTL DEF ServiceSpec

\* Calls of linkedHashRemove without a range return every put at most once.
THEOREM MapDeliversOnce == ASSUME Ranges = {0} PROVE ServiceSpec => []DeliveredAtMostOnce
<1>1. MapInv => DeliveredAtMostOnce
  BY DEF MapInv
<1> QED BY <1>1, MapInvariance, PTL

\* A put that they have not returned is in the map, ran out of time, or was
\* replaced.
THEOREM MapLosesNothing == ASSUME Ranges = {0} PROVE ServiceSpec => []NothingLost
<1>1. MapInv => NothingLost
  BY DEF MapInv
<1> QED BY <1>1, MapInvariance, PTL
=============================================================================
