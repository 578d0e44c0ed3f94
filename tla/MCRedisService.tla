--------------------------- MODULE MCRedisService ---------------------------
(***************************************************************************)
(* Three callers, two of them in one process; three hash keys and four     *)
(* puts, so that a key is put twice.  An initial state chooses which of the *)
(* two parts is used, since neither can see the other.                      *)
(***************************************************************************)
EXTENDS RedisService

CONSTANTS c1, c2, c3, n1, n2

VARIABLE part

MCNodeOf == [c \in {c1, c2, c3} |-> IF c = c3 THEN n2 ELSE n1]

MCInit == part \in {"lock", "map"} /\ ServiceInit

MCNext ==
  /\ ServiceNext
  /\ UNCHANGED part
  /\ part = "lock" => UNCHANGED mapVars
  /\ part = "map" => UNCHANGED vars

MCSpec == MCInit /\ [][MCNext]_<<part, vars, mapVars>> /\ Fairness
=============================================================================
