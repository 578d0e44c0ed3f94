---------------------------- MODULE RedisService ----------------------------
(***************************************************************************)
(* The lock and the insertion-ordered map of RedisService on one Redis.     *)
(* They share no key, so that a step of one leaves the other alone.         *)
(***************************************************************************)
EXTENDS RedisLock

CONSTANTS
  Keys,     \* hash keys
  Ranges,   \* the ranges linkedHashRemove is called with; 0: none
  MaxPuts   \* bound on the puts

ASSUME RedisServiceAssumption == MaxPuts \in Nat

VARIABLES at, content, puts, keyOf, expired, delivered, last

mapVars == <<at, content, puts, keyOf, expired, delivered, last>>

Map == INSTANCE LinkedHash

ServiceInit == Init /\ Map!Init

ServiceNext ==
  \/ Next /\ UNCHANGED mapVars
  \/ Map!Next /\ UNCHANGED vars

ServiceSpec == ServiceInit /\ [][ServiceNext]_<<vars, mapVars>>

\* A put is returned once and never again (linkedHashRemove).
DeliveredAtMostOnce == Map!DeliveredAtMostOnce

\* A put that was not returned is in the map, ran out of time, or was replaced
\* (linkedHashMapPut, linkedHashRemove).
NothingLost == Map!NothingLost
=============================================================================
