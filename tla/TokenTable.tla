----------------------------- MODULE TokenTable -----------------------------
(***************************************************************************)
(* mergeToken and the Dune import side by side, in the same processes and   *)
(* on the same table.                                                       *)
(***************************************************************************)
EXTENDS TokenMerge, DuneImport

vars == <<shared, mergeVars, importVars>>

Init == InitShared /\ InitMerge /\ InitImport

\* The process starts again: its calls and its cache are gone.
Restart(n) ==
  /\ Fault
  /\ MergeRestart(n)
  /\ \/ n \in Importers /\ ImportRestart(n)
     \/ n \notin Importers /\ UNCHANGED importVars
  /\ UNCHANGED <<unique, configs, status, tokens>>

Next ==
  \/ \E n \in Nodes :
       \/ (MergeStep(n) \/ MergeFails(n)) /\ UNCHANGED importVars
       \/ Restart(n)
  \/ \E n \in Importers :
       /\ Refresh(n) \/ StartImport(n) \/ ImportStep(n) \/ ImportFails(n)
       /\ UNCHANGED mergeVars
  \/ (\E c \in Creates : CommitCreate(c)) /\ UNCHANGED <<mergeVars, importVars>>
  \/ (RotateKey \/ Execute) /\ UNCHANGED mergeVars

Spec == Init /\ [][Next]_vars

\* Awaits return and the import's loop goes on; nobody has to start it, and
\* neither creations nor executions of the query have to come.
FairSpec ==
  /\ Spec
  /\ \A n \in Nodes : WF_vars(MergeStep(n) /\ UNCHANGED importVars)
  /\ \A n \in Importers :
       /\ WF_vars(ImportStep(n) /\ UNCHANGED mergeVars)
       /\ WF_vars(Refresh(n) /\ UNCHANGED mergeVars)

-----------------------------------------------------------------------------
(* Properties.                                                              *)

\* Type invariant.
TypeOK == SharedTypeOK /\ MergeTypeOK /\ ImportTypeOK

\* The creations of u that have been counted, once each.
MergedOf(u) ==
  [c \in Creates |-> IF status[c] = "merged" /\ Creator[c] = u THEN 1 ELSE 0]

LoadedOf(u) == {i \in loaded : DuneUsers[i] = u}

\* As long as no two calls of mergeToken overlapped, the one row of a user is
\* exactly the counted creations and the imported row of that user, and a user
\* without a row has neither: mergeToken's absolute UPDATE does not wipe out
\* what the import inserted, at whatever moment that was, and rollbacks leave no
\* trace.  A user with two rows is JamIsFinal's matter.
AmountIsExact ==
  ~overlapped =>
    \A u \in Users :
      /\ tokens[u] = <<>> =>
           LoadedOf(u) = {} /\ \A c \in Creates : Creator[c] = u => status[c] # "merged"
      /\ Len(tokens[u]) = 1 =>
           /\ tokens[u][1].created = MergedOf(u)
           /\ LoadedOf(u) = IF tokens[u][1].imported = 0 THEN {} ELSE {tokens[u][1].imported}

\* No call is beyond the point where it meets the two rows of c's user.
MeetsTwoRows(n, c) ==
  \/ pc[n] \in {"begin", "done"}
  \/ base[n] = cursor /\ pc[n] = "query"
  \/ base[n] = cursor /\ pc[n] = "find" /\ c \in found[n]

Jammed(c) ==
  /\ status[c] = "init"
  /\ c \in Page(cursor)
  /\ Len(tokens[Creator[c]]) > 1
  /\ \A n \in Nodes : MeetsTwoRows(n, c)

\* Nothing in the page is or will be of status 0: its ids were counted or were
\* drawn by transactions that rolled back.
Emptied ==
  /\ \A c \in Page(cursor) : status[c] = "merged"
  /\ \A n \in Nodes : pc[n] \in {"begin", "done"} \/ (base[n] = cursor /\ pc[n] = "query")

\* Two ways for the merge to stop for good, restarts included: the page holds a
\* creation of a user with two rows, which is a TypeError at each call, or it
\* holds nothing more to count, when the cursor is not moved (mergeToken).
JamIsFinal ==
  [][/\ \A c \in Creates : Jammed(c) => Jammed(c)'
     /\ Emptied => Emptied' /\ cursor' = cursor]_vars

\* The import has passed place i without inserting its row.
Skipped(i) ==
  /\ i \notin loaded
  /\ i <= page * Limit
  /\ \A n \in Importers : imp[n] \in {"fetch", "insert"} => i <= (pageNo[n] - 1) * Limit

\* A last page that is not full counts as imported; the rows that the result
\* gains on it are never inserted (dealPfCreateFromDuneTask).
SkippedIsFinal == [][\A i \in Places : Skipped(i) => Skipped(i)']_vars

\* Row i is ahead of the cursor, and no importer holds a page it fetched before.
Ahead(i) ==
  /\ i <= result /\ i > page * Limit
  /\ \A n \in Importers : imp[n] # "insert"

\* No importer can go on: none is started, its key is not or no longer the
\* one Dune accepts, the config row is missing, or the index rejects the page.
Blocked ==
  \/ ImportKey \notin configs
  \/ \A n \in Importers : imp[n] = "off" \/ cached[n] # "current"
  \/ Rejected(RowsOf(page + 1))

\* A row of the result that is ahead of the cursor is imported unless the import
\* is blocked: failures, lost answers and empty pages only delay it.
ImportedOrBlocked == \A i \in Places : Ahead(i) ~> i \in loaded \/ Blocked
=============================================================================
