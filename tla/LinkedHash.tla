----------------------------- MODULE LinkedHash -----------------------------
(***************************************************************************)
(* The insertion-ordered map RedisService keeps in a sorted set:            *)
(* linkedHashMapPut adds a member whose score falls as time goes by and     *)
(* sets its content under a key of its own with a time to live, and         *)
(* linkedHashRemove takes the first entries out.  Both are Lua scripts, so  *)
(* one step each.  Puts are numbered in the order of their time, no two in  *)
(* the same millisecond; an entry's content is the number of its put.       *)
(***************************************************************************)
EXTENDS Integers, FiniteSets, Sequences

CONSTANTS
  Keys,     \* hash keys
  Ranges,   \* the ranges linkedHashRemove is called with; 0: none
  MaxPuts   \* bound on the puts

VARIABLES
  at,        \* the put of each member of the sorted set, 0 if it is none
  content,   \* the content of each key, 0 if it is not set
  puts,      \* the number of puts so far
  keyOf,     \* the hash key of each put
  expired,   \* the puts whose content ran out of time
  delivered, \* how often the content of a put was returned
  last       \* the last call: its range, the members it returned and removed

vars == <<at, content, puts, keyOf, expired, delivered, last>>

Members == {k \in Keys : at[k] # 0}

Init ==
  /\ at = [k \in Keys |-> 0]
  /\ content = [k \in Keys |-> 0]
  /\ puts = 0
  /\ keyOf = <<>>
  /\ expired = {}
  /\ delivered = [p \in 1 .. MaxPuts |-> 0]
  /\ last = [range |-> 0, took |-> {}, dropped |-> {}]

\* ZADD moves a member that exists; SET replaces its content.
Put(k) ==
  /\ puts < MaxPuts
  /\ puts' = puts + 1
  /\ at' = [at EXCEPT ![k] = puts + 1]
  /\ content' = [content EXCEPT ![k] = puts + 1]
  /\ keyOf' = Append(keyOf, k)
  /\ UNCHANGED <<expired, delivered, last>>

\* The content's time to live is over; the member stays in the sorted set.
ExpireKey(k) ==
  /\ content[k] # 0
  /\ expired' = expired \cup {content[k]}
  /\ content' = [content EXCEPT ![k] = 0]
  /\ UNCHANGED <<at, puts, keyOf, delivered, last>>

\* ZREVRANGE 0 n: the n + 1 members with the highest scores, the oldest ones.
Oldest(n) == {k \in Members : Cardinality({j \in Members : at[j] < at[k]}) <= n}

\* ZREMRANGEBYRANK 0 n: the n + 1 members with the lowest scores, the newest.
Newest(n) == {k \in Members : Cardinality({j \in Members : at[j] > at[k]}) <= n}

\* Variants: a script that removes, or that returns, one member too few.
RemoveTooFew(range) ==
  /\ LET n == IF range = 0 THEN Cardinality(Members) - 2 ELSE range
         took == Oldest(Cardinality(Members))
     IN /\ at' = [k \in Keys |-> IF k \in Newest(n) THEN 0 ELSE at[k]]
        /\ delivered' = [p \in 1 .. MaxPuts |->
             delivered[p] + (IF \E k \in took : content[k] = p THEN 1 ELSE 0)]
        /\ last' = [range |-> range, took |-> took, dropped |-> Newest(n)]
  /\ UNCHANGED <<content, puts, keyOf, expired>>
ReturnTooFew(range) ==
  /\ LET n == IF range = 0 THEN Cardinality(Members) ELSE range
         took == Oldest(n - 2)
     IN /\ at' = [k \in Keys |-> IF k \in Newest(n) THEN 0 ELSE at[k]]
        /\ delivered' = [p \in 1 .. MaxPuts |->
             delivered[p] + (IF \E k \in took : content[k] = p THEN 1 ELSE 0)]
        /\ last' = [range |-> range, took |-> took, dropped |-> Newest(n)]
  /\ UNCHANGED <<content, puts, keyOf, expired>>

\* linkedHashRemove: without a range, and with range 0, which is falsy too, all
\* members are returned and removed.  The content keys stay.
Remove(range) ==
  /\ Members # {}
  /\ LET n == IF range = 0 THEN Cardinality(Members) ELSE range
         took == Oldest(n)
     IN /\ at' = [k \in Keys |-> IF k \in Newest(n) THEN 0 ELSE at[k]]
        /\ delivered' = [p \in 1 .. MaxPuts |->
             delivered[p] + (IF \E k \in took : content[k] = p THEN 1 ELSE 0)]
        /\ last' = [range |-> range, took |-> took, dropped |-> Newest(n)]
  /\ UNCHANGED <<content, puts, keyOf, expired>>

Next ==
  \/ \E k \in Keys : Put(k) \/ ExpireKey(k)
  \/ \E range \in Ranges : Remove(range)

Spec == Init /\ [][Next]_vars

-----------------------------------------------------------------------------
(* Properties.                                                              *)

Overwritten(p) == \E q \in p + 1 .. puts : keyOf[q] = keyOf[p]

\* A put is returned once and never again, although linkedHashRemove leaves its
\* content behind and the same hash key may be put again.
DeliveredAtMostOnce == \A p \in 1 .. puts : delivered[p] <= 1

\* A put that was not returned is still in the map, ran out of time, or was
\* replaced by a later put of the same key.
NothingLost ==
  \A p \in 1 .. puts :
    delivered[p] = 0 => at[keyOf[p]] = p \/ p \in expired \/ Overwritten(p)

\* The doc comment of linkedHashRemove: the entries it returns are taken out.
TakenIsRemoved == last.took = last.dropped
=============================================================================
