----------------------------- MODULE DuneImport -----------------------------
(***************************************************************************)
(* The import of creation counts from Dune.  recursionPfCreateFromDuneTask, *)
(* which a controller route starts, calls dealPfCreateFromDuneTask without  *)
(* end: it reads the page number from config, fetches that page with the    *)
(* key DynamicConfigService cached, inserts a user_token row per row of the *)
(* page and stores the page number, in one transaction.                     *)
(*                                                                         *)
(* A round that fails is rolled back and comes again, and so does one whose *)
(* page is empty or whose config row is missing: it changes nothing, and    *)
(* the loop is back at "read".  A COMMIT whose answer is lost differs from  *)
(* one that succeeds by the pause before the next round only.               *)
(*                                                                         *)
(* Dune's result has a row per user.  It is assumed to grow at its end when *)
(* the query is executed again.                                             *)
(***************************************************************************)
EXTENDS UserTokens

CONSTANTS
  Importers,  \* the processes whose route is called
  DuneUsers,  \* the users of the result's rows, once it is complete
  Limit       \* rows in a page (1000)

ASSUME DuneImportAssumption ==
  /\ Importers \subseteq Nodes
  /\ DuneUsers \in Seq(Users)
  /\ \A p, q \in 1 .. Len(DuneUsers) : DuneUsers[p] = DuneUsers[q] => p = q
  /\ Limit \in Nat \ {0}

VARIABLES
  page,    \* config.val under fetch_pumpfun_create_last_page
  cached,  \* dune_api_token as each process has it: "none" before refresh has
           \* run, "stale" once the config row holds another key
  result,  \* how many rows Dune's result has
  imp,     \* where each process's loop is; "off" if it has none
  pageNo,  \* the page its round is at
  rows,    \* the places of the rows it fetched
  loaded   \* history: the places of the rows that were inserted

importVars == <<page, cached, result, imp, pageNo, rows, loaded>>

ImportKey == "fetch_pumpfun_create_last_page"

Places == 1 .. Len(DuneUsers)

\* Variant: the offset is that of the page before.
RowsOfLate(p) ==
  {i \in 1 .. result : p * Limit < i /\ i <= (p + 1) * Limit}

\* Variant: the last row of the page before is fetched again.
RowsOfInclusive(p) == {i \in 1 .. result : (p - 1) * Limit <= i /\ i <= p * Limit}

\* limit and offset of page p, applied to the present result
RowsOf(p) == {i \in 1 .. result : (p - 1) * Limit < i /\ i <= p * Limit}

InitImport ==
  /\ page = 0
  /\ cached = [n \in Importers |-> "none"]
  /\ result \in 0 .. Len(DuneUsers)
  /\ imp = [n \in Importers |-> "off"]
  /\ pageNo = [n \in Importers |-> 0]
  /\ rows = [n \in Importers |-> {}]
  /\ loaded = {}

\* refresh, which onModuleInit calls without awaiting it; its timer is
\* commented out, so it runs once.
Refresh(n) ==
  /\ cached[n] = "none"
  /\ cached' = [cached EXCEPT ![n] = "current"]
  /\ UNCHANGED <<shared, page, result, imp, pageNo, rows, loaded>>

\* The route.
StartImport(n) ==
  /\ imp[n] = "off"
  /\ imp' = [imp EXCEPT ![n] = "read"]
  /\ UNCHANGED <<shared, page, cached, result, pageNo, rows, loaded>>

ReadConfig(n) ==
  /\ imp[n] = "read"
  /\ ImportKey \in configs
  /\ imp' = [imp EXCEPT ![n] = "fetch"]
  /\ pageNo' = [pageNo EXCEPT ![n] = page + 1]
  /\ UNCHANGED <<shared, page, cached, result, rows, loaded>>

\* The round is over and the next one begins.
EndRound(n) ==
  /\ imp' = [imp EXCEPT ![n] = "read"]
  /\ pageNo' = [pageNo EXCEPT ![n] = 0]
  /\ rows' = [rows EXCEPT ![n] = {}]

\* fetchPumpfunCreate.  A key that is not cached yet is a TypeError, one that
\* was replaced is refused.
FetchPage(n) ==
  /\ imp[n] = "fetch"
  /\ LET got == IF cached[n] = "current" THEN RowsOf(pageNo[n]) ELSE {}
     IN \/ got = {} /\ EndRound(n)
        \/ /\ got # {}
           /\ rows' = [rows EXCEPT ![n] = got]
           /\ imp' = [imp EXCEPT ![n] = "insert"]
           /\ UNCHANGED pageNo
  /\ UNCHANGED <<shared, page, cached, result, loaded>>

\* With the index, one user that has a row rejects the page.
Rejected(P) == unique /\ \E i \in P : tokens[DuneUsers[i]] # <<>>

RowFrom(i) == [created |-> [c \in Creates |-> 0], imported |-> i]

\* INSERT, the page number, COMMIT.
InsertPage(n) ==
  /\ imp[n] = "insert"
  /\ \/ /\ Rejected(rows[n])
        /\ UNCHANGED <<tokens, page, loaded>>
     \/ /\ ~Rejected(rows[n])
        /\ tokens' = [u \in Users |->
             IF \E i \in rows[n] : DuneUsers[i] = u
             THEN Append(tokens[u], RowFrom(CHOOSE i \in rows[n] : DuneUsers[i] = u))
             ELSE tokens[u]]
        /\ page' = pageNo[n]
        /\ loaded' = loaded \cup rows[n]
  /\ EndRound(n)
  /\ UNCHANGED <<unique, configs, status, faults, cached, result>>

ImportFails(n) ==
  /\ imp[n] \in {"fetch", "insert"}
  /\ Fault
  /\ EndRound(n)
  /\ UNCHANGED <<unique, configs, status, tokens, page, cached, result, loaded>>

\* What a restart does: the loop has to be started again, the cache is empty.
ImportRestart(n) ==
  /\ imp' = [imp EXCEPT ![n] = "off"]
  /\ pageNo' = [pageNo EXCEPT ![n] = 0]
  /\ rows' = [rows EXCEPT ![n] = {}]
  /\ cached' = [cached EXCEPT ![n] = "none"]
  /\ UNCHANGED <<page, result, loaded>>

\* An operator stores a new key, and Dune refuses the old one.
RotateKey ==
  /\ cached' = [n \in Importers |-> IF cached[n] = "current" THEN "stale" ELSE cached[n]]
  /\ UNCHANGED <<shared, page, result, imp, pageNo, rows, loaded>>

\* Dune executes the query again.
Execute ==
  /\ result < Len(DuneUsers)
  /\ result' \in result + 1 .. Len(DuneUsers)
  /\ UNCHANGED <<shared, page, cached, imp, pageNo, rows, loaded>>

ImportStep(n) == ReadConfig(n) \/ FetchPage(n) \/ InsertPage(n)

ImportTypeOK ==
  /\ page \in Nat
  /\ cached \in [Importers -> {"none", "current", "stale"}]
  /\ result \in 0 .. Len(DuneUsers)
  /\ imp \in [Importers -> {"off", "read", "fetch", "insert"}]
  /\ pageNo \in [Importers -> Nat]
  /\ rows \in [Importers -> SUBSET Places]
  /\ loaded \subseteq Places
=============================================================================
