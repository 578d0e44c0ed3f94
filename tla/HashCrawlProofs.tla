--------------------------- MODULE HashCrawlProofs ---------------------------
(***************************************************************************)
(* Theorems about HashCrawl, for any chain, page size and number of         *)
(* processes and ranges: no cursor ever leaves a signature behind, a crawl  *)
(* goes back with every page and has recorded its range when it ends, one   *)
(* that is stuck stays stuck until its process restarts, and an undisturbed *)
(* crawl records a signature twice only if two ranges share it.             *)
(***************************************************************************)
EXTENDS HashCrawl, FiniteSetTheorems, WellFoundedInduction, TLAPS

\* A page has no holes: it is what lies between its oldest signature and b.
LEMMA PageIsInterval ==
  ASSUME NEW b \in Sigs, NEW s \in Page(b), NEW q \in Sigs, s <= q, q < b
  PROVE  q \in Page(b)
<1> USE HashCrawlAssumption
<1> DEFINE After(x) == {y \in Sigs : x < y /\ y < b}
<1>1. After(q) \subseteq After(s) /\ IsFiniteSet(After(s))
  <2>1. s \in Nat /\ q \in Nat /\ \A y \in Sigs : y \in Nat
    BY DEF Page
  <2>2. ASSUME NEW y \in Sigs, q < y PROVE s < y
    BY <2>1, <2>2
  <2>3. After(q) \subseteq After(s)
    BY <2>2
  <2>4. IsFiniteSet(After(s))
    BY FS_Subset
  <2> QED BY <2>3, <2>4
<1>2. Cardinality(After(q)) <= Cardinality(After(s))
  BY <1>1, FS_Subset
<1>3. Cardinality(After(s)) \in Nat /\ Cardinality(After(q)) \in Nat
  BY <1>1, FS_Subset, FS_CardinalityType
<1>4. Cardinality(After(s)) < Limit
  BY DEF Page
<1>5. Cardinality(After(q)) < Limit
  BY <1>2, <1>3, <1>4
<1> QED BY <1>5 DEF Page

\* Inserting a page (dealPfHashTask) records its signatures and takes no row away.
LEMMA InsertType ==
  ASSUME TypeOK, NEW P, InsertPage(P)
  PROVE  rows' \in [Sigs -> Nat] /\ \A s \in Sigs : rows'[s] >= rows[s] /\ (s \in P => rows'[s] > 0)
BY DEF TypeOK, InsertPage

\* What one call of dealPfHashTask, successful or not, does to the database.
Advances(n, c) ==
  LET P == Page(task[n][c]) IN
    /\ ~Rejected(P)
    /\ InsertPage(P)
    /\ \E last \in Sigs : IsOldest(last, P) /\ before' = [before EXCEPT ![c] = last]

\* Rows and cursors change only by the COMMIT of a page, for a task some process is at.
LEMMA DatabaseSteps ==
  ASSUME TypeOK, [Next]_vars
  PROVE  \/ UNCHANGED <<rows, before>>
         \/ \E n \in Nodes, c \in Confs : task[n][c] # None /\ Advances(n, c)
<1>1. ASSUME NEW n \in Nodes, NEW c \in Confs, DealPfHashTask(n, c) \/ DealFails(n, c)
      PROVE  UNCHANGED <<rows, before>> \/ (task[n][c] # None /\ Advances(n, c))
  BY <1>1 DEF DealPfHashTask, DealFails, Advances
<1> QED BY <1>1 DEF Next, InitMergePfHashTask, Crash, vars

\* The index is there or not for good.
LEMMA UniqueKept ==
  ASSUME [Next]_vars
  PROVE  unique' = unique
BY DEF Next, InitMergePfHashTask, DealPfHashTask, DealFails, Crash, vars

\* Every state of every run has the types of TypeOK.
THEOREM TypeCorrect == Spec => []TypeOK
<1> USE HashCrawlAssumption
<1>1. Init => TypeOK
  BY DEF Init, TypeOK
<1>2. TypeOK /\ [Next]_vars => TypeOK'
  <2> SUFFICES ASSUME TypeOK, [Next]_vars PROVE TypeOK'
    OBVIOUS
  <2>1. rows' \in [Sigs -> Nat] /\ before' \in [Confs -> Sigs]
    <3>1. CASE UNCHANGED <<rows, before>>
      BY <3>1 DEF TypeOK
    <3>2. ASSUME NEW n \in Nodes, NEW c \in Confs, Advances(n, c)
          PROVE  rows' \in [Sigs -> Nat] /\ before' \in [Confs -> Sigs]
      <4>1. PICK last \in Sigs : before' = [before EXCEPT ![c] = last]
        BY <3>2 DEF Advances
      <4> QED BY <3>2, <4>1, InsertType DEF Advances, TypeOK
    <3> QED BY <3>1, <3>2, DatabaseSteps
  <2>2. started' \subseteq Nodes /\ task' \in [Nodes -> [Confs -> Sigs \cup {None}]] /\ faults' \in Nat
    <3>1. ASSUME NEW n \in Nodes, InitMergePfHashTask(n)
          PROVE  started' \subseteq Nodes /\ task' \in [Nodes -> [Confs -> Sigs \cup {None}]] /\ faults' \in Nat
      BY <3>1 DEF InitMergePfHashTask, TypeOK
    <3>2. ASSUME NEW n \in Nodes, NEW c \in Confs, DealPfHashTask(n, c)
          PROVE  started' \subseteq Nodes /\ task' \in [Nodes -> [Confs -> Sigs \cup {None}]] /\ faults' \in Nat
      <4>1. \/ task' = task
            \/ task' = [task EXCEPT ![n][c] = None]
            \/ \E last \in Sigs : task' = [task EXCEPT ![n][c] = NextTask(c, last)]
        BY <3>2 DEF DealPfHashTask
      <4>2. \A last \in Sigs : NextTask(c, last) \in Sigs \cup {None}
        BY DEF NextTask
      <4>3. task' \in [Nodes -> [Confs -> Sigs \cup {None}]]
        BY <4>1, <4>2 DEF TypeOK
      <4> QED BY <3>2, <4>3 DEF DealPfHashTask, TypeOK
    <3>3. ASSUME NEW n \in Nodes, (\E c \in Confs : DealFails(n, c)) \/ Crash(n)
          PROVE  started' \subseteq Nodes /\ task' \in [Nodes -> [Confs -> Sigs \cup {None}]] /\ faults' \in Nat
      BY <3>3 DEF DealFails, Crash, Fault, TypeOK
    <3>4. CASE UNCHANGED vars
      BY <3>4 DEF vars, TypeOK
    <3> QED BY <3>1, <3>2, <3>3, <3>4 DEF Next
  <2> QED BY <2>1, <2>2, UniqueKept DEF TypeOK
<1> QED BY <1>1, <1>2, PTL DEF Spec

-----------------------------------------------------------------------------
\* Besides the cursors, the tasks have left nothing behind either: a process
\* may be behind or ahead of the cursor that another one writes.
CrawlInv ==
  /\ CursorIsComplete
  /\ \A n \in Nodes, c \in Confs : task[n][c] # None => CrawledFrom(c, task[n][c])

\* A page that follows a complete part of the range extends it.
LEMMA PageExtends ==
  ASSUME TypeOK, NEW c \in Confs, NEW b \in Sigs, CrawledFrom(c, b), InsertPage(Page(b)),
         NEW last \in Sigs, IsOldest(last, Page(b))
  PROVE  CrawledFrom(c, last)'
<1> USE HashCrawlAssumption
<1> SUFFICES ASSUME NEW s \in Sigs, last <= s, s < First[c]
             PROVE  rows'[s] > 0
  BY DEF CrawledFrom
<1>1. s \in Nat /\ b \in Nat
  OBVIOUS
<1>2. CASE b <= s
  <2>1. rows[s] > 0
    BY <1>2 DEF CrawledFrom
  <2>2. rows[s] \in Nat /\ rows'[s] \in Nat /\ rows'[s] >= rows[s]
    BY InsertType DEF TypeOK
  <2> QED BY <2>1, <2>2
<1>3. CASE s < b
  <2>1. s \in Page(b)
    BY <1>3, PageIsInterval DEF IsOldest
  <2> QED BY <2>1, InsertType
<1> QED BY <1>1, <1>2, <1>3

\* Rows that grow keep what a range has crawled.
LEMMA CrawledKept ==
  ASSUME TypeOK, NEW c \in Confs, NEW b \in Sigs, CrawledFrom(c, b),
         \A s \in Sigs : rows'[s] \in Nat /\ rows'[s] >= rows[s]
  PROVE  CrawledFrom(c, b)'
BY DEF CrawledFrom, TypeOK

\* No cursor and no task ever leaves a signature behind.
THEOREM CrawlInvariance == Spec => []CrawlInv
<1> USE HashCrawlAssumption
<1>1. Init => CrawlInv
  <2> SUFFICES ASSUME Init PROVE CrawlInv
    OBVIOUS
  <2>1. \A c \in Confs : CrawledFrom(c, before[c])
    <3> SUFFICES ASSUME NEW c \in Confs, NEW s \in Sigs, First[c] <= s, s < First[c]
                 PROVE  FALSE
      BY DEF Init, CrawledFrom
    <3>1. First[c] \in Nat /\ s \in Nat
      OBVIOUS
    <3> QED BY <3>1
  <2> QED BY <2>1 DEF Init, CrawlInv, CursorIsComplete
<1>2. TypeOK /\ TypeOK' /\ CrawlInv /\ [Next]_vars => CrawlInv'
  <2> SUFFICES ASSUME TypeOK, TypeOK', CrawlInv, [Next]_vars PROVE CrawlInv'
    OBVIOUS
  <2>1. \A s \in Sigs : rows'[s] \in Nat /\ rows'[s] >= rows[s]
    <3>1. CASE UNCHANGED <<rows, before>>
      BY <3>1 DEF TypeOK
    <3>2. CASE \E n \in Nodes, c \in Confs : Advances(n, c)
      BY <3>2, InsertType DEF Advances
    <3> QED BY <3>1, <3>2, DatabaseSteps
  <2>2. \A c \in Confs : CrawledFrom(c, before[c])'
    <3>1. CASE UNCHANGED <<rows, before>>
      BY <3>1 DEF CrawlInv, CursorIsComplete, CrawledFrom
    <3>2. ASSUME NEW n \in Nodes, NEW d \in Confs, task[n][d] # None, Advances(n, d), NEW c \in Confs
          PROVE  CrawledFrom(c, before[c])'
      <4>1. PICK last \in Sigs : IsOldest(last, Page(task[n][d])) /\ before' = [before EXCEPT ![d] = last]
        BY <3>2 DEF Advances
      <4>2. task[n][d] \in Sigs /\ CrawledFrom(d, task[n][d]) /\ InsertPage(Page(task[n][d]))
        BY <3>2 DEF CrawlInv, Advances, TypeOK
      <4>3. CASE c = d
        <5>1. CrawledFrom(d, last)'
          BY <4>1, <4>2, PageExtends
        <5>2. before'[d] = last
          BY <4>1 DEF TypeOK
        <5> QED BY <4>3, <5>1, <5>2 DEF CrawledFrom
      <4>4. CASE c # d
        <5>1. before'[c] = before[c] /\ before[c] \in Sigs
          BY <4>1, <4>4 DEF TypeOK
        <5>2. CrawledFrom(c, before[c])
          BY DEF CrawlInv, CursorIsComplete
        <5> QED BY <2>1, <5>1, <5>2, CrawledKept DEF CrawledFrom
      <4> QED BY <4>3, <4>4
    <3> QED BY <3>1, <3>2, DatabaseSteps
  <2>3. ASSUME NEW n \in Nodes, NEW c \in Confs, task'[n][c] # None
        PROVE  CrawledFrom(c, task[n][c])'
    <3>1. CASE task'[n][c] = task[n][c]
      <4>1. task[n][c] \in Sigs /\ CrawledFrom(c, task[n][c])
        BY <2>3, <3>1 DEF TypeOK, CrawlInv
      <4> QED BY <2>1, <3>1, <4>1, CrawledKept DEF CrawledFrom
    <3>2. CASE task'[n][c] = before[c] /\ before' = before
      BY <2>2, <3>2 DEF CrawledFrom
    <3>3. CASE task'[n][c] = before'[c]
      BY <2>2, <3>3 DEF CrawledFrom
    <3>4. task'[n][c] = task[n][c] \/ task'[n][c] = before'[c] \/ (task'[n][c] = before[c] /\ before' = before)
      <4>1. ASSUME NEW m \in Nodes, InitMergePfHashTask(m)
            PROVE  task'[n][c] = task[n][c] \/ task'[n][c] = before'[c]
        BY <2>3, <4>1 DEF InitMergePfHashTask, TypeOK
      <4>2. ASSUME NEW m \in Nodes, NEW d \in Confs, DealPfHashTask(m, d)
            PROVE  task'[n][c] = task[n][c] \/ task'[n][c] = before'[c]
        <5>1. CASE m = n /\ d = c
          <6>1. \/ task' = task \/ task'[n][c] = None
                \/ \E last \in Sigs : before' = [before EXCEPT ![c] = last]
                                      /\ task'[n][c] = NextTask(c, last)
            BY <4>2, <5>1 DEF DealPfHashTask, TypeOK
          <6> QED BY <2>3, <6>1 DEF NextTask, TypeOK
        <5>2. CASE ~(m = n /\ d = c)
          BY <4>2, <5>2 DEF DealPfHashTask, TypeOK
        <5> QED BY <5>1, <5>2
      <4>3. ASSUME NEW m \in Nodes, (\E d \in Confs : DealFails(m, d)) \/ Crash(m)
            PROVE  task'[n][c] = task[n][c]
        BY <2>3, <4>3 DEF DealFails, Crash, TypeOK
      <4>4. CASE UNCHANGED vars
        BY <4>4 DEF vars
      <4> QED BY <4>1, <4>2, <4>3, <4>4 DEF Next
    <3> QED BY <3>1, <3>2, <3>3, <3>4
  <2> QED BY <2>2, <2>3 DEF CrawlInv, CursorIsComplete
<1> QED BY <1>1, <1>2, TypeCorrect, PTL DEF Spec

\* The cursor of a range has left no signature behind.
THEOREM CursorComplete == Spec => []CursorIsComplete
<1>1. CrawlInv => CursorIsComplete
  BY DEF CrawlInv
<1> QED BY <1>1, CrawlInvariance, PTL

-----------------------------------------------------------------------------
\* No step of the crawl takes a row away.
LEMMA RowsGrow ==
  ASSUME TypeOK, [Next]_vars
  PROVE  \A s \in Sigs : rows[s] \in Nat /\ rows'[s] \in Nat /\ rows'[s] >= rows[s]
<1>1. CASE UNCHANGED <<rows, before>>
  BY <1>1 DEF TypeOK
<1>2. CASE \E n \in Nodes, c \in Confs : Advances(n, c)
  BY <1>2, InsertType DEF Advances, TypeOK
<1> QED BY <1>1, <1>2, DatabaseSteps

\* Only a process that runs has tasks.
TasksRun == \A n \in Nodes, c \in Confs : task[n][c] # None => n \in started

\* A process that has not started a crawl (initMergePfHashTask) is at no task.
THEOREM TasksRunAlways == Spec => []TasksRun
<1>1. Init => TasksRun
  BY DEF Init, TasksRun
<1>2. TypeOK /\ TasksRun /\ [Next]_vars => TasksRun'
  <2> SUFFICES ASSUME TypeOK, TasksRun, [Next]_vars, NEW n \in Nodes, NEW c \in Confs,
                      task'[n][c] # None
               PROVE  n \in started'
    BY DEF TasksRun
  <2>1. ASSUME NEW m \in Nodes, InitMergePfHashTask(m) PROVE n \in started'
    BY <2>1 DEF InitMergePfHashTask, TasksRun, TypeOK
  <2>2. ASSUME NEW m \in Nodes, NEW d \in Confs, DealPfHashTask(m, d) PROVE n \in started'
    <3>1. task[m][d] # None /\ started' = started
      BY <2>2 DEF DealPfHashTask
    <3>2. n = m \/ task'[n] = task[n]
      BY <2>2 DEF DealPfHashTask, TypeOK
    <3> QED BY <3>1, <3>2 DEF TasksRun
  <2>3. ASSUME NEW m \in Nodes, (\E d \in Confs : DealFails(m, d)) \/ Crash(m) PROVE n \in started'
    BY <2>3 DEF DealFails, Crash, TasksRun, TypeOK
  <2>4. CASE UNCHANGED vars
    BY <2>4 DEF vars, TasksRun
  <2> QED BY <2>1, <2>2, <2>3, <2>4 DEF Next
<1> QED BY <1>1, <1>2, TypeCorrect, PTL DEF Spec

\* A crawl at a page that is partly recorded stays there until its process
\* restarts.
THEOREM StuckStaysStuck == Spec => StuckUntilRestart
<1>1. TypeOK /\ TasksRun /\ [Next]_vars =>
        [\A n \in Nodes, c \in Confs : Stuck(n, c) => Stuck(n, c)' \/ n \notin started']_vars
  <2> SUFFICES ASSUME TypeOK, TasksRun, [Next]_vars, NEW n \in Nodes, NEW c \in Confs,
                      Stuck(n, c), n \in started'
               PROVE  Stuck(n, c)'
    OBVIOUS
  <2>1. task'[n][c] = task[n][c]
    <3>1. ASSUME NEW m \in Nodes, InitMergePfHashTask(m) PROVE task'[n][c] = task[n][c]
      BY <3>1 DEF InitMergePfHashTask, TasksRun, Stuck, TypeOK
    <3>2. ASSUME NEW m \in Nodes, NEW d \in Confs, DealPfHashTask(m, d)
          PROVE  task'[n][c] = task[n][c]
      <4>1. CASE m = n /\ d = c
        BY <3>2, <4>1 DEF DealPfHashTask, Stuck, Rejected
      <4>2. CASE ~(m = n /\ d = c)
        BY <3>2, <4>2 DEF DealPfHashTask, TypeOK
      <4> QED BY <4>1, <4>2
    <3>3. ASSUME NEW m \in Nodes, (\E d \in Confs : DealFails(m, d)) \/ Crash(m)
          PROVE  task'[n][c] = task[n][c]
      BY <3>3 DEF DealFails, Crash, TypeOK
    <3>4. CASE UNCHANGED vars
      BY <3>4 DEF vars
    <3> QED BY <3>1, <3>2, <3>3, <3>4 DEF Next
  <2>2. PICK s \in Page(task[n][c]) : rows[s] > 0
    BY DEF Stuck, Rejected
  <2>3. rows'[s] > 0
    <3>1. s \in Sigs
      BY DEF Page
    <3>2. rows[s] \in Nat /\ rows'[s] \in Nat /\ rows'[s] >= rows[s]
      BY <3>1, RowsGrow
    <3> QED BY <2>2, <3>2
  <2>4. Page(task[n][c])' = Page(task[n][c])
    BY <2>1 DEF Page
  <2> QED BY <2>1, <2>2, <2>3, <2>4, UniqueKept DEF Stuck, Rejected
<1> QED BY <1>1, TypeCorrect, TasksRunAlways, PTL DEF Spec, StuckUntilRestart

-----------------------------------------------------------------------------
\* As long as nothing disturbs it, every crawl is at its cursor, and has
\* recorded nothing behind it.
FreshInv ==
  Undisturbed =>
    /\ \A s \in Sigs : rows[s] > 0 => \E c \in Confs : Covers(c, s)
    /\ \A s \in Sigs : rows[s] > 1 => \E c, d \in Confs : c # d /\ Covers(c, s) /\ Covers(d, s)
    /\ \A n \in Nodes, c \in Confs : task[n][c] # None => task[n][c] = before[c]
    /\ \A c \in Confs : before[c] <= First[c]

\* Faults, processes and overlaps of ranges are never undone.
LEMMA UndisturbedBefore ==
  ASSUME TypeOK, [Next]_vars, Undisturbed'
  PROVE  Undisturbed
<1>1. ASSUME NEW n \in Nodes, InitMergePfHashTask(n) PROVE Undisturbed
  BY <1>1 DEF InitMergePfHashTask, Undisturbed
<1>2. ASSUME NEW n \in Nodes, NEW c \in Confs, DealPfHashTask(n, c) PROVE Undisturbed
  BY <1>2 DEF DealPfHashTask, Undisturbed
<1>3. ASSUME NEW n \in Nodes, (\E c \in Confs : DealFails(n, c)) \/ Crash(n) PROVE Undisturbed
  <2>1. faults' = faults + 1 /\ faults' = 0 /\ faults \in Nat
    BY <1>3 DEF DealFails, Crash, Fault, Undisturbed, TypeOK
  <2> QED BY <2>1
<1>4. CASE UNCHANGED vars
  BY <1>4 DEF vars, Undisturbed
<1> QED BY <1>1, <1>2, <1>3, <1>4 DEF Next

\* Undisturbed, a page of dealPfHashTask meets only signatures that are not recorded yet.
LEMMA FreshDeal ==
  ASSUME TypeOK, TasksRun, FreshInv, Undisturbed, NEW n \in Nodes, NEW c \in Confs,
         DealPfHashTask(n, c)
  PROVE  FreshInv'
<1> USE HashCrawlAssumption
<1> DEFINE P == Page(task[n][c])
<1>1. /\ \A s \in Sigs : rows[s] > 0 => \E e \in Confs : Covers(e, s)
      /\ \A s \in Sigs : rows[s] > 1 => \E d, e \in Confs : d # e /\ Covers(d, s) /\ Covers(e, s)
      /\ \A m \in Nodes, e \in Confs : task[m][e] # None => task[m][e] = before[e]
      /\ \A e \in Confs : before[e] <= First[e]
  BY DEF FreshInv
<1>2. CASE UNCHANGED <<rows, before>> /\ (task' = task \/ task' = [task EXCEPT ![n][c] = None])
  <2>1. \A s \in Sigs, e \in Confs : Covers(e, s)' <=> Covers(e, s)
    BY <1>2 DEF Covers
  <2>2. \A m \in Nodes, e \in Confs : task'[m][e] # None => task'[m][e] = before'[e]
    BY <1>1, <1>2 DEF TypeOK
  <2>3. /\ \A s \in Sigs : rows'[s] > 0 => \E e \in Confs : Covers(e, s)'
        /\ \A s \in Sigs : rows'[s] > 1 => \E d, e \in Confs : d # e /\ Covers(d, s)' /\ Covers(e, s)'
        /\ \A e \in Confs : before'[e] <= First[e]
    BY <1>1, <1>2, <2>1
  <2> QED BY <2>2, <2>3 DEF FreshInv
<1>3. ASSUME NEW last \in Sigs, InsertPage(P), IsOldest(last, P),
             before' = [before EXCEPT ![c] = last],
             task' = [task EXCEPT ![n][c] = NextTask(c, last)]
      PROVE  FreshInv'
  <2>1. task[n][c] = before[c] /\ before[c] \in Sigs /\ before[c] \in Nat /\ last \in Nat
        /\ First[c] \in Nat /\ before[c] <= First[c]
    BY <1>1 DEF DealPfHashTask, TypeOK
  <2>2. \A s \in P : s \in Sigs /\ s \in Nat /\ s < before[c] /\ last <= s
    BY <1>3, <2>1 DEF Page, IsOldest
  <2>3. before'[c] = last /\ last < before[c] /\ \A e \in Confs : e # c => before'[e] = before[e]
    BY <1>3, <2>2 DEF IsOldest, TypeOK
  <2>4. \A s \in Sigs, e \in Confs : Covers(e, s) => Covers(e, s)'
    <3> SUFFICES ASSUME NEW s \in Sigs, NEW e \in Confs, Covers(e, s) PROVE before'[e] <= s
      BY DEF Covers
    <3>1. before[e] <= s /\ s \in Nat
      BY DEF Covers
    <3> QED BY <2>1, <2>3, <3>1
  <2>5. \A s \in P : Covers(c, s)' /\ ~Covers(c, s)
    BY <2>1, <2>2, <2>3 DEF Covers
  <2>6. \A s \in Sigs : rows[s] \in Nat /\ rows'[s] = IF s \in P THEN rows[s] + 1 ELSE rows[s]
    BY <1>3 DEF InsertPage, TypeOK
  <2>7. ASSUME NEW s \in Sigs, rows'[s] > 0 PROVE \E e \in Confs : Covers(e, s)'
    <3>1. s \in P \/ rows[s] > 0
      BY <2>6, <2>7
    <3> QED BY <1>1, <2>4, <2>5, <3>1
  <2>8. ASSUME NEW s \in Sigs, rows'[s] > 1
        PROVE  \E d, e \in Confs : d # e /\ Covers(d, s)' /\ Covers(e, s)'
    <3>1. CASE s \in P
      <4>1. rows[s] > 0
        BY <2>6, <2>8, <3>1
      <4>2. PICK e \in Confs : Covers(e, s)
        BY <1>1, <4>1
      <4>3. e # c
        BY <2>5, <3>1, <4>2
      <4> QED BY <2>4, <2>5, <3>1, <4>2, <4>3
    <3>2. CASE s \notin P
      <4>1. rows[s] > 1
        BY <2>6, <2>8, <3>2
      <4>2. PICK d, e \in Confs : d # e /\ Covers(d, s) /\ Covers(e, s)
        BY <1>1, <4>1
      <4> QED BY <2>4, <4>2
    <3> QED BY <3>1, <3>2
  <2>9. ASSUME NEW m \in Nodes, NEW e \in Confs, task'[m][e] # None PROVE task'[m][e] = before'[e]
    <3>1. CASE e # c
      BY <1>1, <1>3, <2>3, <2>9, <3>1 DEF TypeOK
    <3>2. CASE e = c /\ m = n
      BY <1>3, <2>3, <2>9, <3>2 DEF NextTask, TypeOK
    <3>3. CASE e = c /\ m # n
      <4>1. task'[m][c] = task[m][c]
        BY <1>3, <3>3 DEF TypeOK
      <4>2. m \in started /\ n \in started
        BY <2>9, <3>3, <4>1 DEF TasksRun, DealPfHashTask
      <4> QED BY <3>3, <4>2 DEF Undisturbed
    <3> QED BY <3>1, <3>2, <3>3
  <2>10. \A e \in Confs : before'[e] <= First[e]
    <3> SUFFICES ASSUME NEW e \in Confs PROVE before'[e] <= First[e]
      OBVIOUS
    <3>1. CASE e = c
      BY <2>1, <2>3, <3>1
    <3>2. CASE e # c
      BY <1>1, <2>3, <3>2
    <3> QED BY <3>1, <3>2
  <2> QED BY <2>7, <2>8, <2>9, <2>10 DEF FreshInv
<1> QED BY <1>2, <1>3 DEF DealPfHashTask

\* No step of an undisturbed crawl breaks FreshInv.
LEMMA FreshStep ==
  ASSUME TypeOK, TasksRun, FreshInv, [Next]_vars, Undisturbed'
  PROVE  FreshInv'
<1> USE HashCrawlAssumption
<1>1. Undisturbed
  BY UndisturbedBefore
<1>2. ASSUME NEW n \in Nodes, InitMergePfHashTask(n) PROVE FreshInv'
  <2>1. UNCHANGED <<rows, before>> /\ \A s \in Sigs, e \in Confs : Covers(e, s)' <=> Covers(e, s)
    BY <1>2 DEF InitMergePfHashTask, Covers
  <2>2. \A m \in Nodes, e \in Confs : task'[m][e] # None => task'[m][e] = before'[e]
    BY <1>1, <1>2 DEF InitMergePfHashTask, FreshInv, TypeOK
  <2> QED BY <1>1, <2>1, <2>2 DEF FreshInv
<1>3. ASSUME NEW n \in Nodes, NEW c \in Confs, DealPfHashTask(n, c) PROVE FreshInv'
  BY <1>1, <1>3, FreshDeal
<1>4. ASSUME NEW n \in Nodes, (\E c \in Confs : DealFails(n, c)) \/ Crash(n) PROVE FreshInv'
  <2>1. faults' = faults + 1 /\ faults' = 0 /\ faults \in Nat
    BY <1>4 DEF DealFails, Crash, Fault, Undisturbed, TypeOK
  <2> QED BY <2>1
<1>5. CASE UNCHANGED vars
  <2>1. UNCHANGED <<rows, before, task>> /\ \A s \in Sigs, e \in Confs : Covers(e, s)' <=> Covers(e, s)
    BY <1>5 DEF vars, Covers
  <2> QED BY <1>1, <2>1 DEF FreshInv
<1> QED BY <1>2, <1>3, <1>4, <1>5 DEF Next

\* Undisturbed, a signature has two rows only if two ranges share it.
THEOREM NoDuplicates == Spec => []DuplicatesExplained
<1>1. Init => FreshInv
  <2> SUFFICES ASSUME Init PROVE FreshInv
    OBVIOUS
  <2>1. \A s \in Sigs : rows[s] = 0
    BY DEF Init
  <2>2. \A n \in Nodes, c \in Confs : task[n][c] = None
    BY DEF Init
  <2>3. \A c \in Confs : before[c] <= First[c]
    <3> SUFFICES ASSUME NEW c \in Confs PROVE before[c] <= First[c]
      OBVIOUS
    <3>1. before[c] = First[c] /\ First[c] \in Nat
      BY HashCrawlAssumption DEF Init
    <3> QED BY <3>1
  <2> QED BY <2>1, <2>2, <2>3 DEF FreshInv
<1>2. TypeOK /\ TasksRun /\ FreshInv /\ [Next]_vars => FreshInv'
  <2> SUFFICES ASSUME TypeOK, TasksRun, FreshInv, [Next]_vars, ~Undisturbed'
               PROVE  FreshInv'
    BY FreshStep
  <2> QED BY DEF FreshInv
<1>3. FreshInv => DuplicatesExplained
  BY DEF FreshInv, DuplicatesExplained
<1> QED BY <1>1, <1>2, <1>3, TypeCorrect, TasksRunAlways, PTL DEF Spec

-----------------------------------------------------------------------------
(* The end of a crawl.                                                      *)

\* A set of numbers that is not empty has a least one.
LEMMA LeastNatural ==
  ASSUME NEW T \in SUBSET Nat, T # {}
  PROVE  \E m \in T : \A n \in T : m <= n
<1> DEFINE R == {ss \in Nat \X Nat : ss[1] < ss[2]}
<1>1. IsWellFoundedOn(R, Nat)
  BY NatLessThanWellFounded DEF OpToRel
<1> HIDE DEF R
<1>2. PICK m \in T : \A n \in T : ~(<<n, m>> \in R)
  BY <1>1, WFMin
<1>3. ASSUME NEW n \in T PROVE m <= n
  <2>1. m \in Nat /\ n \in Nat /\ ~(<<n, m>> \in R)
    BY <1>2
  <2> QED BY <2>1 DEF R
<1> QED BY <1>3

\* An empty page means that nothing is older (dealPfHashTask takes it for the end
\* of the crawl).
LEMMA EmptyPageIsEnd ==
  ASSUME NEW b \in Sigs, NEW s \in Sigs, s < b
  PROVE  Page(b) # {}
<1> USE HashCrawlAssumption
<1> DEFINE T == {b - q : q \in {x \in Sigs : x < b}}
<1>1. T \in SUBSET Nat /\ b - s \in T
  OBVIOUS
<1>2. PICK m \in T : \A n \in T : m <= n
  <2> HIDE DEF T
  <2> QED BY <1>1, LeastNatural
<1>3. PICK newest \in Sigs : newest < b /\ m = b - newest
  OBVIOUS
<1>4. {q \in Sigs : newest < q /\ q < b} = {}
  <2> SUFFICES ASSUME NEW q \in Sigs, newest < q, q < b PROVE FALSE
    OBVIOUS
  <2>1. b - q \in T
    OBVIOUS
  <2>2. m <= b - q
    BY <1>2, <2>1
  <2> QED BY <1>3, <2>2
<1>5. Cardinality({q \in Sigs : newest < q /\ q < b}) < Limit
  BY <1>4, FS_EmptySet
<1> QED BY <1>3, <1>5 DEF Page

\* A crawl that has reached a signature whose block is not beyond the end of its
\* range has crawled it: older signatures are in older blocks.
LEMMA CursorAtEnd ==
  ASSUME NEW c \in Confs, NEW b \in Sigs, CrawledFrom(c, b), BlockOf[b] <= EndBlock[c]
  PROVE  Crawled(c)
<1> USE HashCrawlAssumption
<1> SUFFICES ASSUME NEW s \in Sigs, BlockOf[s] > EndBlock[c], s < First[c]
             PROVE  rows[s] > 0
  BY DEF Crawled
<1>1. s \in Nat /\ b \in Nat /\ BlockOf[s] \in Nat /\ BlockOf[b] \in Nat /\ EndBlock[c] \in Nat
  OBVIOUS
<1>2. s < b => BlockOf[s] <= BlockOf[b]
  OBVIOUS
<1>3. b <= s
  BY <1>1, <1>2
<1> QED BY <1>3 DEF CrawledFrom

\* What is crawled stays so.
LEMMA CrawledStays ==
  ASSUME TypeOK, [Next]_vars, NEW c \in Confs, Crawled(c)
  PROVE  Crawled(c)'
<1>1. \A s \in Sigs : rows[s] \in Nat /\ rows'[s] \in Nat /\ rows'[s] >= rows[s]
  BY RowsGrow
<1> QED BY <1>1 DEF Crawled

\* A task that a page ends has seen its range crawled.
LEMMA TaskEnds ==
  ASSUME TypeOK, CrawlInv, NEW n \in Nodes, NEW c \in Confs, DealPfHashTask(n, c),
         task'[n][c] = None
  PROVE  Crawled(c)'
<1> USE HashCrawlAssumption
<1> DEFINE b == task[n][c]
<1>1. b \in Sigs /\ b # None /\ CrawledFrom(c, b)
  BY DEF DealPfHashTask, TypeOK, CrawlInv
<1>2. CASE Page(b) = {} /\ UNCHANGED rows
  <2> SUFFICES ASSUME NEW s \in Sigs, s < First[c] PROVE rows[s] > 0
    BY <1>2 DEF Crawled
  <2>1. ~(s < b)
    BY <1>1, <1>2, EmptyPageIsEnd
  <2>2. b <= s
    <3>1. b \in Nat /\ s \in Nat
      BY <1>1
    <3> QED BY <2>1, <3>1
  <2> QED BY <1>1, <2>2 DEF CrawledFrom
<1>3. ASSUME NEW last \in Sigs, InsertPage(Page(b)), IsOldest(last, Page(b)),
             task'[n][c] = NextTask(c, last)
      PROVE  Crawled(c)'
  <2>1. BlockOf[last] <= EndBlock[c]
    <3>1. NextTask(c, last) = None /\ last # None
      BY <1>3
    <3>2. ~(BlockOf[last] > EndBlock[c])
      BY <3>1 DEF NextTask
    <3> QED BY <3>2
  <2>2. CrawledFrom(c, last)'
    BY <1>1, <1>3, PageExtends
  <2> SUFFICES ASSUME NEW s \in Sigs, BlockOf[s] > EndBlock[c], s < First[c]
               PROVE  rows'[s] > 0
    BY DEF Crawled
  <2>3. s < last => BlockOf[s] <= BlockOf[last]
    OBVIOUS
  <2>4. last <= s
    BY <2>1, <2>3
  <2> QED BY <2>2, <2>4 DEF CrawledFrom
<1>4. task'[n][c] # task[n][c]
  BY <1>1
<1> QED BY <1>2, <1>3, <1>4 DEF DealPfHashTask, TypeOK

\* A crawl that ends, on an empty page, at a block that is not beyond the end of
\* its range, or because there is nothing to do when its process starts, leaves
\* nothing of the range unrecorded, whatever other processes do.
THEOREM FinishedCrawlsAreComplete == Spec => []FinishedIsCrawled
<1> USE HashCrawlAssumption
<1>1. Init => FinishedIsCrawled
  BY DEF Init, FinishedIsCrawled
<1>2. TypeOK /\ CrawlInv /\ FinishedIsCrawled /\ [Next]_vars => FinishedIsCrawled'
  <2> SUFFICES ASSUME TypeOK, CrawlInv, FinishedIsCrawled, [Next]_vars,
                      NEW n \in started', NEW c \in Confs, task'[n][c] = None
               PROVE  Crawled(c)'
    BY DEF FinishedIsCrawled
  <2>1. CASE n \in started /\ task[n][c] = None
    BY <2>1, CrawledStays DEF FinishedIsCrawled
  <2>2. ASSUME NEW m \in Nodes, InitMergePfHashTask(m), ~(n \in started /\ task[n][c] = None)
        PROVE  Crawled(c)'
    <3>1. n = m /\ n \notin started
      BY <2>2 DEF InitMergePfHashTask, TypeOK
    <3>2. before[c] \in Sigs /\ before[c] # None /\ CrawledFrom(c, before[c])
      BY DEF TypeOK, CrawlInv, CursorIsComplete
    <3>3. ~Unfinished(c)
      BY <2>2, <3>1, <3>2 DEF InitMergePfHashTask, TypeOK
    <3>4. BlockOf[before[c]] <= EndBlock[c]
      <4>1. BlockOf[before[c]] \in Nat /\ EndBlock[c] \in Nat
        BY <3>2
      <4> QED BY <3>3, <4>1 DEF Unfinished
    <3> QED BY <3>2, <3>4, CursorAtEnd, CrawledStays
  <2>3. ASSUME NEW m \in Nodes, NEW d \in Confs, DealPfHashTask(m, d),
               ~(n \in started /\ task[n][c] = None)
        PROVE  Crawled(c)'
    <3>1. n \in started /\ n \in Nodes /\ task[n][c] # None
      BY <2>3 DEF DealPfHashTask, TypeOK
    <3>2. n = m /\ c = d
      BY <2>3, <3>1 DEF DealPfHashTask, TypeOK
    <3> QED BY <2>3, <3>1, <3>2, TaskEnds
  <2>4. ASSUME NEW m \in Nodes, \E d \in Confs : DealFails(m, d)
        PROVE  n \in started /\ task[n][c] = None
    BY <2>4 DEF DealFails
  <2>5. ASSUME NEW m \in Nodes, Crash(m) PROVE n \in started /\ task[n][c] = None
    BY <2>5 DEF Crash, TypeOK
  <2>6. ASSUME UNCHANGED vars PROVE n \in started /\ task[n][c] = None
    BY <2>6 DEF vars
  <2> QED BY <2>1, <2>2, <2>3, <2>4, <2>5, <2>6 DEF Next
<1> QED BY <1>1, <1>2, TypeCorrect, CrawlInvariance, PTL DEF Spec

\* A crawl under way ends, stays where it is, or goes back to an older signature;
\* a page that was fetched and not rejected does not leave it where it is.
CrawlsGoBack ==
  \A n \in Nodes, c \in Confs : task[n][c] # None =>
    /\ task'[n][c] \in {None, task[n][c]} \cup {s \in Sigs : s < task[n][c]}
    /\ DealPfHashTask(n, c) => task'[n][c] # task[n][c] \/ Stuck(n, c)

\* A process never fetches the same page again unless the page failed or is
\* rejected; there are finitely many signatures to go back to.
THEOREM CrawlsEnd == Spec => [][CrawlsGoBack]_vars
<1> USE HashCrawlAssumption
<1>1. TypeOK /\ TasksRun /\ [Next]_vars => [CrawlsGoBack]_vars
  <2> SUFFICES ASSUME TypeOK, TasksRun, Next, NEW n \in Nodes, NEW c \in Confs, task[n][c] # None
               PROVE  /\ task'[n][c] \in {None, task[n][c]} \cup {s \in Sigs : s < task[n][c]}
                      /\ DealPfHashTask(n, c) => task'[n][c] # task[n][c] \/ Stuck(n, c)
    BY DEF CrawlsGoBack
  <2> DEFINE b == task[n][c]
  <2>1. b \in Sigs /\ n \in started
    BY DEF TypeOK, TasksRun
  <2>2. CASE DealPfHashTask(n, c)
    <3>1. CASE Page(b) # {} /\ Rejected(Page(b)) /\ task' = task
      BY <3>1 DEF Stuck
    <3>2. ASSUME NEW last \in Sigs, IsOldest(last, Page(b)), task'[n][c] = NextTask(c, last)
          PROVE  task'[n][c] = None \/ (task'[n][c] \in Sigs /\ task'[n][c] < b)
      BY <3>2 DEF NextTask, IsOldest, Page
    <3>3. \A s \in Sigs : s < b => s # b
      BY <2>1
    <3>4. \/ task'[n][c] = None
          \/ Page(b) # {} /\ Rejected(Page(b)) /\ task' = task
          \/ \E last \in Sigs : IsOldest(last, Page(b)) /\ task'[n][c] = NextTask(c, last)
      BY <2>2 DEF DealPfHashTask, TypeOK
    <3>5. CASE task'[n][c] = None \/ (task'[n][c] \in Sigs /\ task'[n][c] < b)
      BY <2>1, <3>3, <3>5
    <3>6. CASE task' = task /\ Stuck(n, c)
      BY <3>6
    <3> HIDE DEF b
    <3> QED BY <3>1, <3>2, <3>4, <3>5, <3>6
  <2>3. CASE ~DealPfHashTask(n, c)
    <3>1. ASSUME NEW m \in Nodes, InitMergePfHashTask(m) PROVE task'[n][c] = b
      BY <2>1, <3>1 DEF InitMergePfHashTask, TypeOK
    <3>2. ASSUME NEW m \in Nodes, NEW d \in Confs, DealPfHashTask(m, d) PROVE task'[n][c] = b
      <4>1. m # n \/ d # c
        BY <2>3, <3>2
      <4>2. \/ task' = task
            \/ \E t : task' = [task EXCEPT ![m][d] = t]
        BY <3>2 DEF DealPfHashTask
      <4> QED BY <4>1, <4>2 DEF TypeOK
    <3>3. ASSUME NEW m \in Nodes, \E d \in Confs : DealFails(m, d) PROVE task'[n][c] = b
      BY <3>3 DEF DealFails
    <3>4. ASSUME NEW m \in Nodes, Crash(m) PROVE task'[n][c] \in {None, b}
      BY <3>4 DEF Crash, TypeOK
    <3> QED BY <2>3, <3>1, <3>2, <3>3, <3>4 DEF Next
  <2> QED BY <2>2, <2>3
<1> QED BY <1>1, TypeCorrect, TasksRunAlways, PTL DEF Spec
=============================================================================
