-------------------------- MODULE TokenTableProofs --------------------------
(***************************************************************************)
(* Theorems about TokenTable, for any number of processes, importers, users *)
(* and creations: types, what an amount is as long as no two calls of       *)
(* mergeToken overlapped, and the three ways in which a page is left behind *)
(* or waited for in vain.                                                   *)
(***************************************************************************)
EXTENDS TokenTable, SequenceTheorems, TLAPS

\* A function on 1 .. l is a sequence of length l.
LEMMA FunctionIsSequence ==
  ASSUME NEW S, NEW l \in Nat, NEW f \in [1 .. l -> S]
  PROVE  f \in Seq(S) /\ Len(f) = l
BY SeqDef

\* What COMMIT of mergeToken leaves of the rows of user u.
LEMMA WrittenTokens ==
  ASSUME TypeOK, NEW n \in Nodes, NEW k \in Coverings(n), WriteTokens(n, k), NEW u \in Users
  PROVE  /\ u \notin PageUsers(n) => tokens'[u] = tokens[u]
         /\ u \in NewUsers(n) =>
              /\ tokens'[u] \in Seq(Row)
              /\ tokens'[u] = Append(tokens[u], [created |-> CountOf(n, u), imported |-> 0])
              /\ Len(tokens'[u]) = Len(tokens[u]) + 1
         /\ u \in PageUsers(n) \ NewUsers(n) =>
              /\ tokens'[u] \in Seq(Row)
              /\ Len(tokens'[u]) = Len(tokens[u])
              /\ \A i \in 1 .. Len(tokens[u]) :
                   i <= k[u] => tokens'[u][i] = Updated(n, u)
<1> USE UserTokensAssumption
<1>1. tokens[u] \in Seq(Row) /\ old[n][u] \in Seq(Row)
  BY DEF TypeOK, SharedTypeOK, MergeTypeOK
<1>2. [created |-> CountOf(n, u), imported |-> 0] \in Row
  BY DEF CountOf, Row
<1>3. CASE u \notin PageUsers(n)
  BY <1>3 DEF WriteTokens, NewUsers
<1>4. CASE u \in NewUsers(n)
  <2>1. tokens'[u] = Append(tokens[u], [created |-> CountOf(n, u), imported |-> 0])
    BY <1>4 DEF WriteTokens, NewUsers
  <2> QED BY <2>1, <1>1, <1>2, <1>4, AppendProperties DEF NewUsers
<1>5. CASE u \in PageUsers(n) \ NewUsers(n)
  <2> DEFINE f == [i \in 1 .. Len(tokens[u]) |-> IF i <= k[u] THEN Updated(n, u) ELSE tokens[u][i]]
  <2>1. tokens'[u] = f
    BY <1>5 DEF WriteTokens
  <2>2. old[n][u] # <<>>
    BY <1>5 DEF NewUsers
  <2>3. old[n][u][1] \in Row
    BY <2>2, <1>1, EmptySeq, ElementOfSeq
  <2>4. Updated(n, u) \in Row
    BY <2>3 DEF Updated, CountOf, Row
  <2>5. f \in [1 .. Len(tokens[u]) -> Row] /\ Len(tokens[u]) \in Nat
    BY <2>4, <1>1, ElementOfSeq, LenProperties
  <2>6. f \in Seq(Row) /\ Len(f) = Len(tokens[u])
    BY <2>5, FunctionIsSequence
  <2> QED BY <2>1, <2>6, <1>5
<1> QED BY <1>3, <1>4, <1>5 DEF NewUsers

\* What INSERT of the import leaves of the rows of user u.
LEMMA InsertedTokens ==
  ASSUME TypeOK, NEW n \in Importers, InsertPage(n), NEW u \in Users
  PROVE  \/ tokens'[u] = tokens[u] /\ loaded' = loaded
         \/ /\ loaded' = loaded \cup rows[n]
            /\ tokens'[u] = tokens[u] /\ \A i \in rows[n] : DuneUsers[i] # u
         \/ /\ loaded' = loaded \cup rows[n]
            /\ tokens'[u] \in Seq(Row) /\ Len(tokens'[u]) = Len(tokens[u]) + 1
            /\ \E i \in rows[n] : DuneUsers[i] = u /\ tokens'[u] = Append(tokens[u], RowFrom(i))
<1> USE UserTokensAssumption, DuneImportAssumption
<1>1. CASE Rejected(rows[n])
  BY <1>1 DEF InsertPage
<1>2. CASE ~Rejected(rows[n])
  <2>0. loaded' = loaded \cup rows[n]
    BY <1>2 DEF InsertPage
  <2>1. CASE \A i \in rows[n] : DuneUsers[i] # u
    BY <2>0, <2>1, <1>2 DEF InsertPage
  <2>2. CASE \E i \in rows[n] : DuneUsers[i] = u
    <3>1. PICK i \in rows[n] : /\ DuneUsers[i] = u
                               /\ i = CHOOSE j \in rows[n] : DuneUsers[j] = u
      BY <2>2
    <3>2. tokens'[u] = Append(tokens[u], RowFrom(CHOOSE j \in rows[n] : DuneUsers[j] = u))
      BY <1>2, <2>2 DEF InsertPage
    <3>5. tokens'[u] = Append(tokens[u], RowFrom(i))
      BY <3>1, <3>2
    <3>3. i \in Nat
      BY DEF TypeOK, ImportTypeOK, Places
    <3>4. RowFrom(i) \in Row /\ tokens[u] \in Seq(Row)
      BY <3>3 DEF RowFrom, Row, TypeOK, SharedTypeOK
    <3>6. tokens'[u] \in Seq(Row) /\ Len(tokens'[u]) = Len(tokens[u]) + 1
      BY <3>4, <3>5, AppendProperties
    <3> QED BY <2>0, <3>1, <3>5, <3>6
  <2> QED BY <2>1, <2>2
<1> QED BY <1>1, <1>2

\* The rows of a page of the import are places of the result.
LEMMA RowsArePlaces ==
  ASSUME TypeOK, NEW p
  PROVE  RowsOf(p) \subseteq Places
<1> USE DuneImportAssumption
<1>1. Len(DuneUsers) \in Nat /\ result \in 0 .. Len(DuneUsers)
  BY LenProperties DEF TypeOK, ImportTypeOK
<1> QED BY <1>1 DEF RowsOf, Places

\* The end of mergeToken keeps the types of its locals.
LEMMA FinishKeepsTypes ==
  ASSUME TypeOK, NEW n \in Nodes, Finish(n), UNCHANGED <<cursor, overlapped>>
  PROVE  MergeTypeOK'
<1>1. NoRows \in [Users -> Seq(Row)]
  BY EmptySeq DEF NoRows
<1>2. overlapped' \in BOOLEAN /\ cursor' \in Nat
  BY Zenon DEF TypeOK, MergeTypeOK
<1>3. /\ pc' \in [Nodes -> {"begin", "query", "find", "commit", "done"}]
      /\ base' \in [Nodes -> Nat]
      /\ found' \in [Nodes -> SUBSET Creates]
      /\ old' \in [Nodes -> [Users -> Seq(Row)]]
  BY <1>1 DEF Finish, TypeOK, MergeTypeOK
<1> QED BY <1>2, <1>3 DEF MergeTypeOK

\* Every step of mergeToken keeps all types.
LEMMA MergeKeepsTypes ==
  ASSUME TypeOK, NEW n \in Nodes, MergeStep(n) \/ MergeFails(n), UNCHANGED importVars
  PROVE  TypeOK'
<1> USE UserTokensAssumption, TokenMergeAssumption
<1>1. ImportTypeOK'
  BY DEF TypeOK, ImportTypeOK, importVars, Places
<1>2. CASE Begin(n)
  <2>1. SharedTypeOK'
    BY <1>2 DEF Begin, shared, TypeOK, SharedTypeOK
  <2>2. CASE MergeKey \notin configs
    <3>1. MergeTypeOK'
      BY <2>2, <1>2, FinishKeepsTypes DEF Begin, shared
    <3> QED BY <3>1, <2>1, <1>1 DEF TypeOK
  <2>3. CASE MergeKey \in configs
    <3>1. overlapped' \in BOOLEAN
      BY <2>3, <1>2, Zenon DEF Begin
    <3>2. MergeTypeOK'
      BY <3>1, <2>3, <1>2 DEF Begin, shared, TypeOK, MergeTypeOK
    <3> QED BY <3>2, <2>1, <1>1 DEF TypeOK
  <2> QED BY <2>2, <2>3
<1>3. CASE Query(n)
  <2>1. {c \in Page(base[n]) : status[c] = "init"} \subseteq Creates
    BY DEF Page
  <2>2. SharedTypeOK'
    BY <1>3 DEF Query, shared, TypeOK, SharedTypeOK
  <2>3. MergeTypeOK'
    <3>1. CASE Finish(n)
      BY <3>1, <1>3, FinishKeepsTypes DEF Query, shared
    <3>2. CASE found' = [found EXCEPT ![n] = {c \in Page(base[n]) : status[c] = "init"}]
               /\ pc' = [pc EXCEPT ![n] = "find"] /\ UNCHANGED <<base, old>>
      BY <3>2, <2>1, <1>3 DEF Query, shared, TypeOK, MergeTypeOK
    <3> QED BY <3>1, <3>2, <1>3 DEF Query
  <2> QED BY <2>2, <2>3, <1>1 DEF TypeOK
<1>4. CASE Find(n)
  <2>1. [u \in Users |-> IF u \in PageUsers(n) THEN tokens[u] ELSE <<>>] \in [Users -> Seq(Row)]
    BY EmptySeq DEF TypeOK, SharedTypeOK
  <2>2. SharedTypeOK'
    BY <1>4 DEF Find, shared, TypeOK, SharedTypeOK
  <2>3. MergeTypeOK'
    <3>1. CASE Finish(n)
      BY <3>1, <1>4, FinishKeepsTypes DEF Find, shared
    <3>2. CASE ~Finish(n)
      BY <3>2, <2>1, <1>4 DEF Find, shared, TypeOK, MergeTypeOK
    <3> QED BY <3>1, <3>2
  <2> QED BY <2>2, <2>3, <1>1 DEF TypeOK
<1>5. CASE Commit(n)
  <2>1. tokens' \in [Users -> Seq(Row)]
    <3>1. CASE UNCHANGED tokens
      BY <3>1 DEF TypeOK, SharedTypeOK
    <3>2. ASSUME NEW k \in Coverings(n), WriteTokens(n, k) PROVE tokens' \in [Users -> Seq(Row)]
      <4>1. \A u \in Users : tokens'[u] \in Seq(Row)
        BY <3>2, WrittenTokens DEF TypeOK, SharedTypeOK
      <4> QED BY <3>2, <4>1 DEF WriteTokens
    <3> QED BY <1>5, <3>1, <3>2 DEF Commit
  <2>2. status' \in [Creates -> {"absent", "init", "merged"}] /\ cursor' \in Nat
    BY <1>5 DEF Commit, TypeOK, SharedTypeOK, MergeTypeOK
  <2> QED BY <2>1, <2>2, <1>1, <1>5 DEF Commit, Finish, NoRows, TypeOK, SharedTypeOK, MergeTypeOK
<1>6. CASE MergeFails(n)
  BY <1>1, <1>6, FinishKeepsTypes DEF MergeFails, Fault, TypeOK, SharedTypeOK
<1> QED BY <1>2, <1>3, <1>4, <1>5, <1>6 DEF MergeStep

\* Every step of the import keeps all types.
LEMMA ImportKeepsTypes ==
  ASSUME TypeOK, NEW n \in Importers, UNCHANGED mergeVars,
         Refresh(n) \/ StartImport(n) \/ ImportStep(n) \/ ImportFails(n)
  PROVE  TypeOK'
<1> USE UserTokensAssumption, DuneImportAssumption
<1>1. MergeTypeOK'
  BY DEF TypeOK, MergeTypeOK, mergeVars
<1>2. CASE Refresh(n) \/ StartImport(n) \/ ReadConfig(n)
  <2>1. SharedTypeOK'
    BY <1>2 DEF Refresh, StartImport, ReadConfig, shared, TypeOK, SharedTypeOK
  <2>2. ASSUME Refresh(n) PROVE ImportTypeOK'
    BY <2>2 DEF Refresh, shared, Places, TypeOK, ImportTypeOK
  <2>3. ASSUME StartImport(n) PROVE ImportTypeOK'
    BY <2>3 DEF StartImport, shared, Places, TypeOK, ImportTypeOK
  <2>4. ASSUME ReadConfig(n) PROVE ImportTypeOK'
    BY <2>4 DEF ReadConfig, shared, Places, TypeOK, ImportTypeOK
  <2> QED BY <2>1, <2>2, <2>3, <2>4, <1>1, <1>2 DEF TypeOK
<1>3. CASE FetchPage(n)
  <2>1. RowsOf(pageNo[n]) \subseteq Places
    BY RowsArePlaces
  <2>2. SharedTypeOK'
    BY <1>3 DEF FetchPage, shared, TypeOK, SharedTypeOK
  <2>3. ImportTypeOK'
    <3>1. CASE EndRound(n)
      BY <3>1, <1>3 DEF FetchPage, EndRound, shared, TypeOK, ImportTypeOK, Places
    <3>2. CASE ~EndRound(n)
      <4>1. PICK got \in SUBSET Places : rows' = [rows EXCEPT ![n] = got]
        BY <3>2, <2>1, <1>3 DEF FetchPage
      <4> QED BY <4>1, <3>2, <1>3 DEF FetchPage, shared, TypeOK, ImportTypeOK, Places
    <3> QED BY <3>1, <3>2
  <2> QED BY <2>2, <2>3, <1>1 DEF TypeOK
<1>4. CASE InsertPage(n)
  <2>1. \A u \in Users : tokens'[u] \in Seq(Row)
    BY <1>4, InsertedTokens DEF TypeOK, SharedTypeOK
  <2>2. tokens' \in [Users -> Seq(Row)]
    BY <2>1, <1>4 DEF InsertPage, TypeOK, SharedTypeOK
  <2>3. page' \in Nat /\ loaded' \subseteq Places
    BY <1>4 DEF InsertPage, TypeOK, ImportTypeOK
  <2> QED BY <2>2, <2>3, <1>1, <1>4 DEF InsertPage, EndRound, TypeOK, SharedTypeOK, ImportTypeOK
<1>5. CASE ImportFails(n)
  BY <1>1, <1>5 DEF ImportFails, Fault, EndRound, TypeOK, SharedTypeOK, ImportTypeOK
<1> QED BY <1>2, <1>3, <1>4, <1>5 DEF ImportStep

\* The end of a process keeps all types.
LEMMA RestartKeepsTypes ==
  ASSUME TypeOK, NEW n \in Nodes, Restart(n)
  PROVE  TypeOK'
<1> USE UserTokensAssumption
<1>1. SharedTypeOK'
  BY DEF Restart, Fault, TypeOK, SharedTypeOK
<1>2. MergeTypeOK'
  BY DEF Restart, MergeRestart, NoRows, TypeOK, SharedTypeOK, MergeTypeOK
<1>3. ImportTypeOK'
  <2>1. CASE UNCHANGED importVars
    BY <2>1 DEF importVars, Places, TypeOK, ImportTypeOK
  <2>2. CASE n \in Importers /\ ImportRestart(n)
    BY <2>2 DEF ImportRestart, Places, TypeOK, ImportTypeOK
  <2> QED BY <2>1, <2>2 DEF Restart
<1> QED BY <1>1, <1>2, <1>3 DEF TypeOK

\* Every state of every run has the types of TypeOK.
THEOREM TypeCorrect == Spec => []TypeOK
<1> USE UserTokensAssumption, DuneImportAssumption, TokenMergeAssumption
<1>1. Init => TypeOK
  <2> SUFFICES ASSUME Init PROVE TypeOK
    OBVIOUS
  <2>1. SharedTypeOK /\ MergeTypeOK
    BY EmptySeq DEF Init, InitShared, InitMerge, NoRows, SharedTypeOK, MergeTypeOK
  <2>2. ImportTypeOK
    BY DEF Init, InitImport, ImportTypeOK
  <2> QED BY <2>1, <2>2 DEF TypeOK
<1>2. TypeOK /\ [Next]_vars => TypeOK'
  <2> SUFFICES ASSUME TypeOK, [Next]_vars PROVE TypeOK'
    OBVIOUS
  <2>1. ASSUME NEW n \in Nodes, MergeStep(n) \/ MergeFails(n), UNCHANGED importVars PROVE TypeOK'
    BY <2>1, MergeKeepsTypes
  <2>2. ASSUME NEW n \in Importers, UNCHANGED mergeVars,
               Refresh(n) \/ StartImport(n) \/ ImportStep(n) \/ ImportFails(n)
        PROVE  TypeOK'
    BY <2>2, ImportKeepsTypes
  <2>3. ASSUME NEW n \in Nodes, Restart(n) PROVE TypeOK'
    BY <2>3, RestartKeepsTypes
  <2>4. ASSUME NEW c \in Creates, CommitCreate(c), UNCHANGED <<mergeVars, importVars>> PROVE TypeOK'
    BY <2>4 DEF CommitCreate, mergeVars, importVars, Places, TypeOK, SharedTypeOK, MergeTypeOK, ImportTypeOK
  <2>5. CASE (RotateKey \/ Execute) /\ UNCHANGED mergeVars
    <3>1. SharedTypeOK' /\ MergeTypeOK'
      BY <2>5 DEF RotateKey, Execute, mergeVars, shared, TypeOK, SharedTypeOK, MergeTypeOK
    <3>2. Len(DuneUsers) \in Nat
      BY LenProperties
    <3>3. ASSUME RotateKey PROVE ImportTypeOK'
      BY <3>3 DEF RotateKey, shared, Places, TypeOK, ImportTypeOK
    <3>4. ASSUME Execute PROVE ImportTypeOK'
      BY <3>2, <3>4 DEF Execute, shared, Places, TypeOK, ImportTypeOK
    <3> QED BY <3>1, <3>3, <3>4, <2>5 DEF TypeOK
  <2>6. CASE UNCHANGED vars
    BY <2>6 DEF vars, shared, mergeVars, importVars, Places, TypeOK, SharedTypeOK, MergeTypeOK, ImportTypeOK
  <2> QED BY <2>1, <2>2, <2>3, <2>4, <2>5, <2>6 DEF Next
<1> QED BY <1>1, <1>2, PTL DEF Spec

-----------------------------------------------------------------------------
(* The page a late row would have been on.                                  *)

\* An importer only holds rows of the page it is at, and only to insert them.
RowsOfPage ==
  \A n \in Importers :
    /\ imp[n] # "insert" => rows[n] = {}
    /\ \A i \in rows[n] : (pageNo[n] - 1) * Limit < i

\* Every step keeps it.
LEMMA RowsOfPageStep ==
  ASSUME TypeOK, RowsOfPage, [Next]_vars
  PROVE  RowsOfPage'
<1> USE DuneImportAssumption
<1>1. ASSUME UNCHANGED importVars PROVE RowsOfPage'
  BY <1>1 DEF RowsOfPage, importVars
<1>2. ASSUME NEW n \in Importers, EndRound(n) PROVE RowsOfPage'
  BY <1>2 DEF EndRound, RowsOfPage, TypeOK, ImportTypeOK
<1>3. ASSUME NEW n \in Importers, ImportRestart(n) PROVE RowsOfPage'
  BY <1>3 DEF ImportRestart, RowsOfPage, TypeOK, ImportTypeOK
<1>4. ASSUME NEW n \in Importers, FetchPage(n) PROVE RowsOfPage'
  <2>1. CASE EndRound(n)
    BY <1>2, <2>1
  <2>2. CASE ~EndRound(n)
    <3>1. PICK got \in SUBSET RowsOf(pageNo[n]) :
            rows' = [rows EXCEPT ![n] = got] /\ pageNo' = pageNo /\ imp' = [imp EXCEPT ![n] = "insert"]
      BY <1>4, <2>2 DEF FetchPage
    <3>2. \A i \in got : (pageNo[n] - 1) * Limit < i
      BY <3>1 DEF RowsOf
    <3> QED BY <3>1, <3>2 DEF RowsOfPage, TypeOK, ImportTypeOK
  <2> QED BY <2>1, <2>2
<1>5. ASSUME NEW n \in Importers, Refresh(n) \/ StartImport(n) \/ ReadConfig(n) PROVE RowsOfPage'
  <2>1. CASE Refresh(n)
    BY <2>1 DEF Refresh, RowsOfPage
  <2>2. CASE StartImport(n)
    BY <2>2 DEF StartImport, RowsOfPage, TypeOK, ImportTypeOK
  <2>3. CASE ReadConfig(n)
    BY <2>3 DEF ReadConfig, RowsOfPage, TypeOK, ImportTypeOK
  <2> QED BY <1>5, <2>1, <2>2, <2>3
<1>6. ASSUME RotateKey \/ Execute PROVE RowsOfPage'
  BY <1>6 DEF RotateKey, Execute, RowsOfPage
<1>7. ASSUME NEW n \in Nodes, Restart(n) PROVE RowsOfPage'
  BY <1>1, <1>3, <1>7 DEF Restart
<1>8. UNCHANGED vars => UNCHANGED importVars
  BY DEF vars
<1> QED BY <1>1, <1>2, <1>4, <1>5, <1>6, <1>7, <1>8 DEF Next, ImportStep, InsertPage, ImportFails

\* A row that the import skipped stays skipped in every step.
LEMMA SkippedStep ==
  ASSUME TypeOK, RowsOfPage, [Next]_vars, NEW i \in Places, Skipped(i)
  PROVE  Skipped(i)'
<1> USE DuneImportAssumption
<1>0. i \in Nat /\ Limit \in Nat /\ page \in Nat /\ \A n \in Importers : pageNo[n] \in Nat
  BY DEF Places, TypeOK, ImportTypeOK
<1>1. ASSUME UNCHANGED <<page, loaded, imp, pageNo>> PROVE Skipped(i)'
  BY <1>1 DEF Skipped
<1>2. ASSUME NEW n \in Importers, EndRound(n), UNCHANGED <<page, loaded>> PROVE Skipped(i)'
  BY <1>2 DEF EndRound, Skipped, TypeOK, ImportTypeOK
<1>3. ASSUME NEW n \in Importers, ImportRestart(n) PROVE Skipped(i)'
  BY <1>3 DEF ImportRestart, Skipped, TypeOK, ImportTypeOK
<1>4. ASSUME NEW n \in Importers, StartImport(n) PROVE Skipped(i)'
  BY <1>4 DEF StartImport, Skipped, TypeOK, ImportTypeOK
<1>5. ASSUME NEW n \in Importers, ReadConfig(n) PROVE Skipped(i)'
  <2>1. (page + 1) - 1 = page
    BY <1>0
  <2>2. /\ UNCHANGED <<page, loaded>>
        /\ imp' = [imp EXCEPT ![n] = "fetch"] /\ pageNo' = [pageNo EXCEPT ![n] = page + 1]
    BY <1>5 DEF ReadConfig
  <2>3. \A m \in Importers : imp'[m] \in {"fetch", "insert"} => i <= (pageNo'[m] - 1) * Limit
    BY <2>1, <2>2 DEF Skipped, TypeOK, ImportTypeOK
  <2> QED BY <2>2, <2>3 DEF Skipped
<1>6. ASSUME NEW n \in Importers, FetchPage(n) PROVE Skipped(i)'
  <2>1. CASE EndRound(n)
    BY <1>2, <1>6, <2>1 DEF FetchPage
  <2>2. CASE ~EndRound(n)
    BY <1>6, <2>2 DEF FetchPage, Skipped, TypeOK, ImportTypeOK
  <2> QED BY <2>1, <2>2
<1>7. ASSUME NEW n \in Importers, InsertPage(n) PROVE Skipped(i)'
  <2>1. CASE UNCHANGED <<page, loaded>>
    BY <1>2, <1>7, <2>1 DEF InsertPage
  <2>2. CASE page' = pageNo[n] /\ loaded' = loaded \cup rows[n]
    <3>1. i <= (pageNo[n] - 1) * Limit
      BY <1>7 DEF InsertPage, Skipped
    <3>2. \A j \in rows[n] : (pageNo[n] - 1) * Limit < j
      BY DEF RowsOfPage
    <3>3. (pageNo[n] - 1) * Limit = pageNo[n] * Limit - Limit
      BY <1>0
    <3>4. i \notin rows[n] /\ i <= pageNo[n] * Limit
      <4>1. pageNo[n] * Limit \in Nat /\ (pageNo[n] - 1) * Limit \in Int
        BY <1>0
      <4>2. i \notin rows[n]
        BY <3>1, <3>2, <4>1, <1>0
      <4> QED BY <3>1, <3>3, <4>1, <4>2, <1>0
    <3>5. \A m \in Importers : imp'[m] \in {"fetch", "insert"} => i <= (pageNo'[m] - 1) * Limit
      BY <1>7 DEF InsertPage, EndRound, Skipped, TypeOK, ImportTypeOK
    <3> QED BY <2>2, <3>4, <3>5 DEF Skipped
  <2> QED BY <1>7, <2>1, <2>2 DEF InsertPage
<1>8. ASSUME UNCHANGED importVars \/ RotateKey \/ Execute \/ \E n \in Importers : Refresh(n)
      PROVE  Skipped(i)'
  BY <1>1, <1>8 DEF importVars, RotateKey, Execute, Refresh
<1>9. ASSUME NEW n \in Nodes, Restart(n) PROVE Skipped(i)'
  BY <1>3, <1>8, <1>9 DEF Restart
<1>10. ASSUME NEW n \in Importers, ImportFails(n) PROVE Skipped(i)'
  BY <1>2, <1>10 DEF ImportFails
<1>11. UNCHANGED vars => UNCHANGED importVars
  BY DEF vars
<1> QED BY <1>4, <1>5, <1>6, <1>7, <1>8, <1>9, <1>10, <1>11 DEF Next, ImportStep

\* A row that Dune's result gains on a page that was imported is never
\* inserted, whatever the page size and however many importers there are.
THEOREM SkippedStaysSkipped == Spec => SkippedIsFinal
<1>1. Init => RowsOfPage
  BY DEF Init, InitImport, RowsOfPage
<1>2. TypeOK /\ RowsOfPage /\ [Next]_vars => RowsOfPage'
  BY RowsOfPageStep
<1>3. TypeOK /\ RowsOfPage /\ [Next]_vars => [\A i \in Places : Skipped(i) => Skipped(i)']_vars
  BY SkippedStep
<1> QED BY <1>1, <1>2, <1>3, TypeCorrect, PTL DEF Spec, SkippedIsFinal

-----------------------------------------------------------------------------
(* The page the merge cannot get past.                                      *)

\* Nothing takes a row away from a user.
LEMMA TokensGrow ==
  ASSUME TypeOK, NEW n \in Importers, InsertPage(n), NEW u \in Users
  PROVE  Len(tokens'[u]) >= Len(tokens[u])
<1>1. Len(tokens[u]) \in Nat
  BY LenProperties DEF TypeOK, SharedTypeOK
<1> QED BY <1>1, InsertedTokens

\* A creation that jams mergeToken goes on doing so in every step.
LEMMA JammedStep ==
  ASSUME TypeOK, [Next]_vars, NEW c \in Creates, Jammed(c)
  PROVE  Jammed(c)'
<1> USE UserTokensAssumption
<1> DEFINE u == Creator[c]
<1>0. u \in Users /\ Len(tokens[u]) \in Nat
  BY LenProperties DEF TypeOK, SharedTypeOK
<1>1. ASSUME UNCHANGED <<status, tokens, cursor>>,
             \A n \in Nodes : MeetsTwoRows(n, c)'
      PROVE  Jammed(c)'
  BY <1>1 DEF Jammed, Page
<1>2. ASSUME NEW n \in Nodes, UNCHANGED <<status, tokens, cursor>>,
             Finish(n) \/ MergeRestart(n)
      PROVE  Jammed(c)'
  <2>1. \A m \in Nodes : MeetsTwoRows(m, c)'
    BY <1>2 DEF Finish, MergeRestart, Jammed, MeetsTwoRows, TypeOK, MergeTypeOK
  <2> QED BY <1>1, <1>2, <2>1
<1>3. ASSUME NEW n \in Nodes, Begin(n) PROVE Jammed(c)'
  <2>1. UNCHANGED <<status, tokens, cursor>>
    BY <1>3 DEF Begin, shared
  <2>2. CASE MergeKey \in configs
    <3>1. \A m \in Nodes : MeetsTwoRows(m, c)'
      BY <1>3, <2>1, <2>2 DEF Begin, Jammed, MeetsTwoRows, TypeOK, MergeTypeOK
    <3> QED BY <1>1, <2>1, <3>1
  <2> QED BY <1>2, <1>3, <2>1, <2>2 DEF Begin
<1>4. ASSUME NEW n \in Nodes, Query(n) PROVE Jammed(c)'
  <2>1. UNCHANGED <<status, tokens, cursor>>
    BY <1>4 DEF Query, shared
  <2>2. CASE ~Finish(n)
    <3>1. base[n] = cursor /\ c \in {d \in Page(base[n]) : status[d] = "init"}
      BY <1>4 DEF Query, Jammed, MeetsTwoRows
    <3>2. \A m \in Nodes : MeetsTwoRows(m, c)'
      BY <1>4, <2>1, <2>2, <3>1 DEF Query, Jammed, MeetsTwoRows, TypeOK, MergeTypeOK
    <3> QED BY <1>1, <2>1, <3>2
  <2> QED BY <1>2, <2>1, <2>2
<1>5. ASSUME NEW n \in Nodes, Find(n) PROVE Jammed(c)'
  <2>1. UNCHANGED <<status, tokens, cursor>>
    BY <1>5 DEF Find, shared
  <2>2. c \in found[n]
    BY <1>5 DEF Find, Jammed, MeetsTwoRows
  <2>3. u \in PageUsers(n) /\ ~(Len(tokens[u]) <= 1)
    BY <1>0, <2>2 DEF PageUsers, Jammed
  <2> QED BY <1>2, <1>5, <2>1, <2>3 DEF Find
<1>6. ASSUME NEW n \in Nodes PROVE ~Commit(n)
  BY DEF Commit, Jammed, MeetsTwoRows
<1>7. ASSUME NEW n \in Nodes, MergeFails(n) \/ Restart(n) PROVE Jammed(c)'
  BY <1>2, <1>7 DEF MergeFails, Restart, MergeRestart
<1>8. ASSUME UNCHANGED mergeVars,
             \/ UNCHANGED <<status, tokens>>
             \/ \E n \in Importers : InsertPage(n)
             \/ \E d \in Creates : CommitCreate(d)
      PROVE  Jammed(c)'
  <2>1. UNCHANGED <<cursor, pc, base, found>>
    BY <1>8 DEF mergeVars
  <2>2. \A n \in Nodes : MeetsTwoRows(n, c)'
    BY <2>1 DEF Jammed, MeetsTwoRows
  <2>3. CASE UNCHANGED <<status, tokens>>
    BY <1>1, <2>1, <2>2, <2>3
  <2>4. ASSUME NEW n \in Importers, InsertPage(n) PROVE Jammed(c)'
    <3>1. Len(tokens'[u]) >= Len(tokens[u])
      BY <1>0, <2>4, TokensGrow
    <3>2. u \in Users /\ Len(tokens'[u]) \in Nat
      BY <1>0, <2>4, InsertedTokens
    <3>3. Len(tokens[u]) > 1
      BY DEF Jammed
    <3>4. Len(tokens'[u]) > 1
      BY <1>0, <3>1, <3>2, <3>3
    <3> QED BY <2>1, <2>2, <2>4, <3>4 DEF InsertPage, Jammed, Page
  <2>5. ASSUME NEW d \in Creates, CommitCreate(d) PROVE Jammed(c)'
    BY <2>1, <2>2, <2>5 DEF CommitCreate, Jammed, Page, TypeOK, SharedTypeOK
  <2> QED BY <1>8, <2>3, <2>4, <2>5
<1>9. UNCHANGED vars => UNCHANGED mergeVars /\ UNCHANGED <<status, tokens>>
  BY DEF vars, shared
<1> QED
  BY <1>3, <1>4, <1>5, <1>6, <1>7, <1>8, <1>9
  DEF Next, MergeStep, ImportStep, Refresh, StartImport, ReadConfig, FetchPage, ImportFails,
      RotateKey, Execute, shared

\* A page without a row of status 0 stays so and holds the cursor, in every step.
LEMMA EmptiedStep ==
  ASSUME TypeOK, [Next]_vars, Emptied
  PROVE  Emptied' /\ cursor' = cursor
<1> USE UserTokensAssumption
<1> DEFINE Waits(n) == pc[n] \in {"begin", "done"} \/ (base[n] = cursor /\ pc[n] = "query")
<1>1. ASSUME UNCHANGED <<status, cursor>>, \A n \in Nodes : Waits(n)'
      PROVE  Emptied' /\ cursor' = cursor
  BY <1>1 DEF Emptied, Page
<1>2. ASSUME NEW n \in Nodes, UNCHANGED <<status, cursor>>, Finish(n) \/ MergeRestart(n)
      PROVE  Emptied' /\ cursor' = cursor
  <2>1. \A m \in Nodes : Waits(m)'
    BY <1>2 DEF Finish, MergeRestart, Emptied, TypeOK, MergeTypeOK
  <2> QED BY <1>1, <1>2, <2>1
<1>3. ASSUME NEW n \in Nodes, Begin(n) PROVE Emptied' /\ cursor' = cursor
  <2>1. UNCHANGED <<status, cursor>>
    BY <1>3 DEF Begin, shared
  <2>2. CASE MergeKey \in configs
    <3>1. \A m \in Nodes : Waits(m)'
      BY <1>3, <2>1, <2>2 DEF Begin, Emptied, TypeOK, MergeTypeOK
    <3> QED BY <1>1, <2>1, <3>1
  <2> QED BY <1>2, <1>3, <2>1, <2>2 DEF Begin
<1>4. ASSUME NEW n \in Nodes, Query(n) PROVE Emptied' /\ cursor' = cursor
  <2>1. UNCHANGED <<status, cursor>>
    BY <1>4 DEF Query, shared
  <2>2. {c \in Page(base[n]) : status[c] = "init"} = {}
    BY <1>4 DEF Query, Emptied
  <2> QED BY <1>2, <1>4, <2>1, <2>2 DEF Query
<1>5. ASSUME NEW n \in Nodes PROVE ~Find(n) /\ ~Commit(n)
  BY DEF Find, Commit, Emptied
<1>6. ASSUME NEW n \in Nodes, MergeFails(n) \/ Restart(n) PROVE Emptied' /\ cursor' = cursor
  BY <1>2, <1>6 DEF MergeFails, Restart, MergeRestart
<1>7. ASSUME UNCHANGED mergeVars, status' = status \/ \E d \in Creates : CommitCreate(d)
      PROVE  Emptied' /\ cursor' = cursor
  <2>1. UNCHANGED <<cursor, pc, base>>
    BY <1>7 DEF mergeVars
  <2>2. \A n \in Nodes : Waits(n)'
    BY <2>1 DEF Emptied
  <2>3. ASSUME NEW d \in Creates, CommitCreate(d) PROVE Emptied'
    BY <2>1, <2>2, <2>3 DEF CommitCreate, Emptied, Page, TypeOK, SharedTypeOK
  <2> QED BY <1>1, <1>7, <2>1, <2>2, <2>3
<1>8. UNCHANGED vars => UNCHANGED mergeVars /\ status' = status
  BY DEF vars, shared
<1> QED
  BY <1>3, <1>4, <1>5, <1>6, <1>7, <1>8
  DEF Next, MergeStep, ImportStep, Refresh, StartImport, ReadConfig, FetchPage, InsertPage, ImportFails,
      RotateKey, Execute, shared

\* The merge never gets past a page with an uncounted creation of a user with
\* two rows, nor past one that holds nothing to count: neither restarts nor any
\* number of processes help.
THEOREM JamStays == Spec => JamIsFinal
<1>1. TypeOK /\ [Next]_vars =>
        [/\ \A c \in Creates : Jammed(c) => Jammed(c)'
         /\ Emptied => Emptied' /\ cursor' = cursor]_vars
  BY JammedStep, EmptiedStep
<1> QED BY <1>1, TypeCorrect, PTL DEF Spec, JamIsFinal

-----------------------------------------------------------------------------
(* Amounts.                                                                 *)

\* What AmountIsExact says of one user.
Exact(u) ==
  /\ tokens[u] = <<>> =>
       LoadedOf(u) = {} /\ \A c \in Creates : Creator[c] = u => status[c] # "merged"
  /\ Len(tokens[u]) = 1 =>
       /\ tokens[u][1].created = MergedOf(u)
       /\ LoadedOf(u) = IF tokens[u][1].imported = 0 THEN {} ELSE {tokens[u][1].imported}

\* What the only call of mergeToken may rely on: what it found is uncounted,
\* and the row it read of a user is still that user's first one.
Isolated(n) ==
  /\ \A m \in Nodes \ {n} : ~InTransaction(m)
  /\ pc[n] \in {"find", "commit"} => \A c \in found[n] : status[c] = "init"
  /\ pc[n] = "commit" =>
       \A u \in PageUsers(n) :
         old[n][u] # <<>> =>
           Len(old[n][u]) = 1 /\ tokens[u] # <<>> /\ tokens[u][1] = old[n][u][1]

ExactInv ==
  ~overlapped =>
    /\ \A u \in Users : Exact(u)
    /\ \A n \in Nodes : InTransaction(n) => Isolated(n)

\* A step that moves no amount leaves the amount of a user exact.
LEMMA ExactKept ==
  ASSUME TypeOK, UNCHANGED <<tokens, loaded>>, NEW u \in Users, Exact(u),
         \A c \in Creates : status'[c] = status[c] \/ {status[c], status'[c]} \subseteq {"absent", "init"}
  PROVE  Exact(u)'
<1>1. \A c \in Creates : status'[c] = "merged" <=> status[c] = "merged"
  OBVIOUS
<1>2. MergedOf(u)' = MergedOf(u) /\ LoadedOf(u)' = LoadedOf(u)
  BY <1>1 DEF MergedOf, LoadedOf
<1> QED BY <1>1, <1>2 DEF Exact

\* The COMMIT of mergeToken leaves the amount of every user exact.
LEMMA ExactCommit ==
  ASSUME TypeOK, NEW n \in Nodes, pc[n] = "commit", Isolated(n), NEW u \in Users, Exact(u),
         NEW k \in Coverings(n), WriteTokens(n, k), loaded' = loaded,
         status' = [c \in Creates |-> IF c \in found[n] THEN "merged" ELSE status[c]]
  PROVE  Exact(u)'
<1> USE UserTokensAssumption
<1>0. /\ tokens[u] \in Seq(Row) /\ old[n][u] \in Seq(Row) /\ found[n] \subseteq Creates
      /\ Len(tokens[u]) \in Nat
      /\ tokens[u] = <<>> <=> Len(tokens[u]) = 0
  BY LenProperties, EmptySeq DEF TypeOK, SharedTypeOK, MergeTypeOK
<1>1. LoadedOf(u)' = LoadedOf(u)
  BY DEF LoadedOf
<1>2. \A c \in found[n] : status[c] = "init"
  BY DEF Isolated
<1>3. CASE u \notin PageUsers(n)
  <2>1. \A c \in Creates : Creator[c] = u => status'[c] = status[c]
    BY <1>3 DEF PageUsers
  <2>2. MergedOf(u)' = MergedOf(u)
    BY <2>1 DEF MergedOf
  <2>3. tokens'[u] = tokens[u]
    BY <1>3, WrittenTokens
  <2> QED BY <1>1, <2>1, <2>2, <2>3 DEF Exact
<1>4. CASE u \in NewUsers(n)
  <2>1. /\ tokens'[u] = Append(tokens[u], [created |-> CountOf(n, u), imported |-> 0])
        /\ Len(tokens'[u]) = Len(tokens[u]) + 1
    BY <1>4, WrittenTokens
  <2>2. tokens'[u] # <<>>
    BY <1>0, <2>1, EmptySeq
  <2>3. ASSUME Len(tokens'[u]) = 1
        PROVE  /\ tokens'[u][1].created = MergedOf(u)'
               /\ tokens'[u][1].imported = 0 /\ LoadedOf(u)' = {}
    <3>1. tokens[u] = <<>> /\ Len(tokens[u]) = 0
      BY <1>0, <2>1, <2>3
    <3>2. tokens'[u][1] = [created |-> CountOf(n, u), imported |-> 0]
      BY <2>1, <3>1
    <3>3. CountOf(n, u) = MergedOf(u)'
      BY <3>1 DEF CountOf, MergedOf, Exact
    <3> QED BY <1>1, <3>1, <3>2, <3>3 DEF Exact
  <2> QED BY <2>2, <2>3 DEF Exact
<1>5. CASE u \in PageUsers(n) \ NewUsers(n)
  <2>1. old[n][u] # <<>>
    BY <1>5 DEF NewUsers
  <2>2. Len(old[n][u]) = 1 /\ tokens[u] # <<>> /\ tokens[u][1] = old[n][u][1]
    BY <1>5, <2>1 DEF Isolated
  <2>3a. /\ Len(tokens'[u]) = Len(tokens[u])
         /\ \A i \in 1 .. Len(tokens[u]) : i <= k[u] => tokens'[u][i] = Updated(n, u)
    BY <1>5, WrittenTokens
  <2>3b. Len(tokens[u]) # 0
    BY <1>0, <2>2
  <2>3. Len(tokens'[u]) = Len(tokens[u]) /\ Len(tokens[u]) >= 1
    BY <1>0, <2>3a, <2>3b
  <2>4. tokens'[u] # <<>>
    BY <1>0, <2>3, EmptySeq
  <2>5. ASSUME Len(tokens'[u]) = 1
        PROVE  /\ tokens'[u][1].created = MergedOf(u)'
               /\ tokens'[u][1].imported = tokens[u][1].imported
    <3>1. k[u] >= 1
      BY <2>2 DEF Coverings
    <3>1a. 1 \in 1 .. Len(tokens[u])
      BY <1>0, <2>3
    <3>2. tokens'[u][1] = Updated(n, u)
      BY <2>3a, <3>1, <3>1a
    <3>3. tokens[u][1].created = MergedOf(u)
      BY <2>3, <2>5 DEF Exact
    <3>4. [c \in Creates |-> MergedOf(u)[c] + CountOf(n, u)[c]] = MergedOf(u)'
      BY <1>0, <1>2 DEF MergedOf, CountOf
    <3>5. Updated(n, u) =
            [created |-> [c \in Creates |-> tokens[u][1].created[c] + CountOf(n, u)[c]],
             imported |-> tokens[u][1].imported]
      BY <2>2 DEF Updated
    <3>6. Updated(n, u).created = MergedOf(u)'
      BY <3>3, <3>4, <3>5
    <3> QED BY <3>2, <3>5, <3>6
  <2> QED BY <1>1, <2>3, <2>4, <2>5 DEF Exact
<1> QED BY <1>3, <1>4, <1>5

\* A page of the import leaves amounts exact and the first row of a user in its place.
LEMMA ExactInsert ==
  ASSUME TypeOK, NEW n \in Importers, InsertPage(n), NEW u \in Users, Exact(u)
  PROVE  /\ Exact(u)'
         /\ tokens[u] # <<>> => tokens'[u] # <<>> /\ tokens'[u][1] = tokens[u][1]
<1> USE UserTokensAssumption, DuneImportAssumption
<1>0. /\ tokens[u] \in Seq(Row) /\ Len(tokens[u]) \in Nat
      /\ tokens[u] = <<>> <=> Len(tokens[u]) = 0
      /\ rows[n] \subseteq Places /\ loaded \subseteq Places
  BY LenProperties, EmptySeq DEF TypeOK, SharedTypeOK, ImportTypeOK
<1>1. MergedOf(u)' = MergedOf(u) /\ status' = status
  BY DEF MergedOf, InsertPage
<1>2. CASE tokens'[u] = tokens[u] /\ (loaded' = loaded \/ (loaded' = loaded \cup rows[n] /\ \A i \in rows[n] : DuneUsers[i] # u))
  <2>1. LoadedOf(u)' = LoadedOf(u)
    BY <1>2 DEF LoadedOf
  <2> QED BY <1>1, <1>2, <2>1 DEF Exact
<1>3. ASSUME NEW i \in rows[n], DuneUsers[i] = u, loaded' = loaded \cup rows[n],
             tokens'[u] = Append(tokens[u], RowFrom(i)), Len(tokens'[u]) = Len(tokens[u]) + 1,
             tokens'[u] \in Seq(Row)
      PROVE  /\ Exact(u)'
             /\ tokens[u] # <<>> => tokens'[u] # <<>> /\ tokens'[u][1] = tokens[u][1]
  <2>1. tokens'[u] # <<>>
    BY <1>0, <1>3, EmptySeq
  <2>2. ASSUME tokens[u] # <<>> PROVE tokens'[u][1] = tokens[u][1]
    BY <1>0, <1>3, <2>2, AppendProperties
  <2>3. ASSUME Len(tokens'[u]) = 1
        PROVE  /\ tokens'[u][1].created = MergedOf(u)'
               /\ tokens'[u][1].imported # 0
               /\ LoadedOf(u)' = {tokens'[u][1].imported}
    <3>1. tokens[u] = <<>> /\ Len(tokens[u]) = 0
      BY <1>0, <1>3, <2>3
    <3>2. tokens'[u][1] = RowFrom(i)
      BY <1>3, <3>1
    <3>3. \A c \in Creates : MergedOf(u)[c] = 0
      BY <3>1 DEF Exact, MergedOf
    <3>4. MergedOf(u) = [c \in Creates |-> 0]
      BY <3>3 DEF MergedOf
    <3>5. i \in Places /\ i # 0
      BY <1>0 DEF Places
    <3>6. \A j \in rows[n] : DuneUsers[j] = u => j = i
      BY <1>0, <1>3 DEF Places
    <3>7. LoadedOf(u)' = {i}
      BY <1>3, <3>1, <3>6 DEF Exact, LoadedOf
    <3> QED BY <1>1, <3>2, <3>4, <3>5, <3>7 DEF RowFrom
  <2> QED BY <2>1, <2>2, <2>3 DEF Exact
<1>4. \/ tokens'[u] = tokens[u] /\ (loaded' = loaded \/ (loaded' = loaded \cup rows[n] /\ \A i \in rows[n] : DuneUsers[i] # u))
      \/ \E i \in rows[n] :
           /\ DuneUsers[i] = u /\ loaded' = loaded \cup rows[n]
           /\ tokens'[u] = Append(tokens[u], RowFrom(i)) /\ Len(tokens'[u]) = Len(tokens[u]) + 1
           /\ tokens'[u] \in Seq(Row)
  <2>1. CASE tokens'[u] = tokens[u] /\ loaded' = loaded
    BY <2>1
  <2>2. CASE /\ loaded' = loaded \cup rows[n]
             /\ tokens'[u] = tokens[u] /\ \A i \in rows[n] : DuneUsers[i] # u
    BY <2>2
  <2>3. CASE /\ loaded' = loaded \cup rows[n]
             /\ tokens'[u] \in Seq(Row) /\ Len(tokens'[u]) = Len(tokens[u]) + 1
             /\ \E i \in rows[n] : DuneUsers[i] = u /\ tokens'[u] = Append(tokens[u], RowFrom(i))
    BY <2>3, Zenon
  <2> QED BY <2>1, <2>2, <2>3, InsertedTokens, Zenon
<1> HIDE DEF Exact
<1> QED BY <1>2, <1>3, <1>4, Zenon

\* A call ends, or never was in a transaction: there is nothing left to rely on.
LEMMA IsolatedEnds ==
  ASSUME TypeOK, NEW n \in Nodes, Finish(n) \/ MergeRestart(n), NEW m \in Nodes, InTransaction(m)'
  PROVE  m # n /\ InTransaction(m)
BY DEF Finish, MergeRestart, InTransaction, TypeOK, MergeTypeOK

\* No step on user_token breaks ExactInv.
LEMMA ExactStep ==
  ASSUME TypeOK, ExactInv, [Next]_vars
  PROVE  ExactInv'
<1> USE UserTokensAssumption
<1>0. SUFFICES ASSUME ~overlapped'
               PROVE  /\ \A u \in Users : Exact(u)'
                      /\ \A n \in Nodes : InTransaction(n)' => Isolated(n)'
  BY DEF ExactInv
<1> DEFINE Goal == /\ \A u \in Users : Exact(u)'
                   /\ \A n \in Nodes : InTransaction(n)' => Isolated(n)'
<1>1. ~overlapped
  BY <1>0 DEF Next, MergeStep, Begin, Query, Find, Commit, MergeFails, Restart, MergeRestart,
              mergeVars, shared, vars
<1>2. (\A u \in Users : Exact(u)) /\ \A n \in Nodes : InTransaction(n) => Isolated(n)
  BY <1>1 DEF ExactInv
<1>3. ASSUME UNCHANGED <<status, tokens, loaded>> PROVE \A u \in Users : Exact(u)'
  BY <1>2, <1>3, ExactKept
<1>4. ASSUME NEW n \in Nodes, InTransaction(n), Finish(n) \/ MergeRestart(n)
      PROVE  \A m \in Nodes : ~InTransaction(m)'
  BY <1>2, <1>4, IsolatedEnds DEF Isolated
<1>5. ASSUME UNCHANGED <<status, tokens, pc, found, old>>
      PROVE  \A n \in Nodes : InTransaction(n)' => Isolated(n)'
  BY <1>2, <1>5 DEF InTransaction, Isolated, PageUsers
<1>6. ASSUME NEW n \in Nodes, ~InTransaction(n), Finish(n) \/ MergeRestart(n), UNCHANGED <<status, tokens>>
      PROVE  \A m \in Nodes : InTransaction(m)' => Isolated(m)'
  <2>1. ASSUME NEW m \in Nodes, InTransaction(m)' PROVE Isolated(m)'
    <3>1. m # n /\ InTransaction(m) /\ Isolated(m)
      BY <1>2, <1>6, <2>1, IsolatedEnds
    <3>2. pc'[m] = pc[m] /\ found'[m] = found[m] /\ old'[m] = old[m]
      BY <1>6, <3>1 DEF Finish, MergeRestart, TypeOK, MergeTypeOK
    <3>3. \A l \in Nodes \ {m} : ~InTransaction(l)'
      BY <1>6, <3>1, IsolatedEnds DEF Isolated
    <3> QED BY <1>6, <3>1, <3>2, <3>3 DEF Isolated, PageUsers
  <2> QED BY <2>1
<1>7. ASSUME NEW n \in Nodes, Begin(n), UNCHANGED importVars PROVE Goal
  <2>1. UNCHANGED <<status, tokens, loaded>> /\ ~InTransaction(n)
    BY <1>7 DEF Begin, shared, importVars, InTransaction
  <2>2. CASE MergeKey \in configs
    <3>1. /\ \A m \in Nodes \ {n} : ~InTransaction(m)
          /\ pc' = [pc EXCEPT ![n] = "query"]
      BY <1>0, <1>7, <2>2 DEF Begin
    <3>2. \A m \in Nodes \ {n} : ~InTransaction(m)'
      BY <3>1 DEF InTransaction, TypeOK, MergeTypeOK
    <3>3. pc'[n] = "query"
      BY <3>1 DEF TypeOK, MergeTypeOK
    <3> QED BY <1>3, <2>1, <3>2, <3>3 DEF Isolated
  <2> QED BY <1>3, <1>6, <1>7, <2>1, <2>2 DEF Begin
<1>8. ASSUME NEW n \in Nodes, Query(n), UNCHANGED importVars PROVE Goal
  <2>1. UNCHANGED <<status, tokens, loaded>> /\ InTransaction(n)
    BY <1>8 DEF Query, shared, importVars, InTransaction
  <2>2. CASE ~Finish(n)
    <3>1. PICK got \in SUBSET {c \in Creates : status[c] = "init"} :
            found' = [found EXCEPT ![n] = got] /\ pc' = [pc EXCEPT ![n] = "find"]
      BY <1>8, <2>2 DEF Query, Page
    <3>2. \A m \in Nodes \ {n} : ~InTransaction(m)'
      BY <1>2, <2>1, <3>1 DEF Isolated, InTransaction, TypeOK, MergeTypeOK
    <3>3. pc'[n] = "find" /\ found'[n] = got
      BY <3>1 DEF TypeOK, MergeTypeOK
    <3> QED BY <1>3, <2>1, <3>1, <3>2, <3>3 DEF Isolated
  <2> QED BY <1>3, <1>4, <2>1, <2>2
<1>9. ASSUME NEW n \in Nodes, Find(n), UNCHANGED importVars PROVE Goal
  <2>1. UNCHANGED <<status, tokens, loaded>> /\ InTransaction(n)
    BY <1>9 DEF Find, shared, importVars, InTransaction
  <2>2. CASE ~Finish(n)
    <3>1. /\ \A u \in PageUsers(n) : Len(tokens[u]) <= 1
          /\ old' = [old EXCEPT ![n] = [u \in Users |-> IF u \in PageUsers(n) THEN tokens[u] ELSE <<>>]]
          /\ pc' = [pc EXCEPT ![n] = "commit"] /\ found' = found
      BY <1>9, <2>2 DEF Find
    <3>2. \A m \in Nodes \ {n} : ~InTransaction(m)'
      BY <1>2, <2>1, <3>1 DEF Isolated, InTransaction, TypeOK, MergeTypeOK
    <3>3. pc'[n] = "commit" /\ PageUsers(n)' = PageUsers(n) /\ PageUsers(n) \subseteq Users
      BY <3>1 DEF PageUsers, TypeOK, MergeTypeOK
    <3>4. \A u \in PageUsers(n) : old'[n][u] = tokens[u]
      BY <3>1, <3>3 DEF TypeOK, MergeTypeOK
    <3>5. ASSUME NEW u \in PageUsers(n), tokens[u] # <<>> PROVE Len(tokens[u]) = 1
      <4>1. tokens[u] \in Seq(Row)
        BY <3>3 DEF TypeOK, SharedTypeOK
      <4>2. Len(tokens[u]) \in Nat /\ Len(tokens[u]) # 0
        BY <3>5, <4>1, EmptySeq, LenProperties
      <4>3. Len(tokens[u]) <= 1
        BY <3>1, <3>5
      <4> DEFINE l == Len(tokens[u])
      <4>4. l \in Nat /\ l # 0 /\ l <= 1
        BY <4>2, <4>3
      <4> HIDE DEF l
      <4>5. l = 1
        BY <4>4
      <4> QED BY <4>5 DEF l
    <3>6. \A c \in found'[n] : status'[c] = "init"
      BY <1>2, <1>9, <2>1, <3>1 DEF Isolated, Find
    <3> QED BY <1>3, <2>1, <3>2, <3>3, <3>4, <3>5, <3>6 DEF Isolated
  <2> QED BY <1>3, <1>4, <2>1, <2>2
<1>10. ASSUME NEW n \in Nodes, Commit(n), UNCHANGED importVars PROVE Goal
  <2>1. loaded' = loaded /\ InTransaction(n) /\ Finish(n) /\ pc[n] = "commit"
    BY <1>10 DEF Commit, importVars, InTransaction
  <2>2. \A m \in Nodes : ~InTransaction(m)'
    BY <1>4, <2>1
  <2>3. CASE UNCHANGED <<tokens, status>>
    BY <1>3, <2>1, <2>2, <2>3
  <2>4. CASE /\ \E k \in Coverings(n) : WriteTokens(n, k)
             /\ status' = [c \in Creates |-> IF c \in found[n] THEN "merged" ELSE status[c]]
    BY <1>2, <2>1, <2>2, <2>4, ExactCommit
  <2> QED BY <1>10, <2>3, <2>4 DEF Commit
<1>11. ASSUME NEW n \in Nodes, MergeFails(n), UNCHANGED importVars PROVE Goal
  BY <1>3, <1>4, <1>11 DEF MergeFails, importVars
<1>12. ASSUME NEW n \in Nodes, Restart(n) PROVE Goal
  <2>1. UNCHANGED <<status, tokens, loaded>> /\ MergeRestart(n)
    BY <1>12 DEF Restart, ImportRestart, importVars
  <2> QED BY <1>3, <1>4, <1>6, <2>1
<1>13. ASSUME UNCHANGED mergeVars, UNCHANGED <<status, tokens, loaded>> PROVE Goal
  BY <1>3, <1>5, <1>13 DEF mergeVars
<1>14. ASSUME UNCHANGED mergeVars, NEW n \in Importers, InsertPage(n) PROVE Goal
  <2>1. \A u \in Users : Exact(u)'
    BY <1>2, <1>14, ExactInsert
  <2>2. ASSUME NEW m \in Nodes, InTransaction(m)' PROVE Isolated(m)'
    <3>1. UNCHANGED <<pc, found, old>> /\ status' = status
      BY <1>14 DEF mergeVars, InsertPage
    <3>2. InTransaction(m) /\ Isolated(m) /\ PageUsers(m)' = PageUsers(m)
      BY <1>2, <2>2, <3>1 DEF InTransaction, PageUsers
    <3>3. PageUsers(m) \subseteq Users
      BY DEF PageUsers, TypeOK, MergeTypeOK
    <3>4. \A u \in PageUsers(m) : tokens[u] # <<>> => tokens'[u] # <<>> /\ tokens'[u][1] = tokens[u][1]
      BY <1>2, <1>14, <3>3, ExactInsert
    <3> QED BY <3>1, <3>2, <3>4 DEF Isolated, InTransaction
  <2> QED BY <2>1, <2>2
<1>15. ASSUME UNCHANGED <<mergeVars, importVars>>, NEW c \in Creates, CommitCreate(c) PROVE Goal
  <2>1. UNCHANGED <<tokens, loaded, pc, found, old>>
    BY <1>15 DEF CommitCreate, mergeVars, importVars
  <2>2. \A d \in Creates : status'[d] = status[d] \/ (d = c /\ status[d] = "absent" /\ status'[d] = "init")
    BY <1>15 DEF CommitCreate, TypeOK, SharedTypeOK
  <2>3. \A u \in Users : Exact(u)'
    BY <1>2, <2>1, <2>2, ExactKept
  <2>4. \A n \in Nodes : found[n] \subseteq Creates
    BY DEF TypeOK, MergeTypeOK
  <2>5. \A n \in Nodes : InTransaction(n)' => Isolated(n)'
    BY <1>2, <2>1, <2>2, <2>4 DEF Isolated, InTransaction, PageUsers
  <2> QED BY <2>3, <2>5
<1>16. ASSUME UNCHANGED mergeVars, NEW n \in Importers,
              Refresh(n) \/ StartImport(n) \/ ReadConfig(n) \/ FetchPage(n) \/ ImportFails(n)
       PROVE  Goal
  BY <1>13, <1>16 DEF Refresh, StartImport, ReadConfig, FetchPage, ImportFails, shared
<1>17. ASSUME UNCHANGED mergeVars, RotateKey \/ Execute PROVE Goal
  BY <1>13, <1>17 DEF RotateKey, Execute, shared
<1>18. ASSUME UNCHANGED vars PROVE Goal
  BY <1>13, <1>18 DEF vars, shared, importVars
<1> HIDE DEF Goal
<1>19. Goal
  BY <1>7, <1>8, <1>9, <1>10, <1>11, <1>12, <1>14, <1>15, <1>16, <1>17, <1>18
  DEF Next, MergeStep, ImportStep
<1> QED BY <1>19 DEF Goal

\* As long as no two calls of mergeToken overlapped, the one row of a user is
\* the counted creations and the imported row of that user, for any page sizes,
\* any number of importers and any moment at which they insert.
THEOREM AmountsExact == Spec => []AmountIsExact
<1>1. Init => ExactInv
  BY EmptySeq DEF Init, InitShared, InitMerge, InitImport, ExactInv, Exact, LoadedOf, InTransaction
<1>2. TypeOK /\ ExactInv /\ [Next]_vars => ExactInv'
  BY ExactStep
<1>3. ExactInv => AmountIsExact
  BY DEF ExactInv, Exact, AmountIsExact
<1> QED BY <1>1, <1>2, <1>3, TypeCorrect, PTL DEF Spec
=============================================================================
