-------------------------- MODULE ProgramLogProofs --------------------------
(***************************************************************************)
(* For every set of programs and of payloads, every depth of calls and      *)
(* every length of the log: what dealLogs takes was written near pump       *)
(* (TakenNear), it makes one row of each event that pump logged             *)
(* (PumpEventsAreFound), and parseLogs agrees with it (ParsersAgree).  The  *)
(* parsers are recursive functions over the log; they are unfolded one line *)
(* at a time, once RecursionExists shows that there are such functions.     *)
(* Also here: the length of base64 that common.dto.ts computes.             *)
(***************************************************************************)
EXTENDS ProgramLog, WellFoundedInduction, TLAPS

Lines == [kind : {"invoke", "consumed", "success", "text", "data", "truncated"},
          prog : Programs \cup {None}, data : Events \cup Foreign \cup {None}]

TypeInv ==
  /\ stack \in Seq(Programs)
  /\ log \in Seq(Lines)
  /\ by \in Seq(Programs)
  /\ callers \in SUBSET Programs
  /\ Len(by) = Len(log)

Near(p) == p \in callers \cup {Pump}

\* Who runs pump called it.
CallersInv == \A i \in 1 .. Len(stack) - 1 : stack[i + 1] = Pump => Near(stack[i])

\* Pump returns to a caller.
SuccessInv == stack # <<>> /\ LastIs(PF_LOG_SUCCESS) => Near(Top)

\* Data is written by the program that runs, which then does something else.
DataInv ==
  log # <<>> /\ log[Len(log)].kind = "data" => stack # <<>> /\ by[Len(log)] = Top

BehindInv ==
  \A i \in 2 .. Len(log) :
    log[i].kind = "data" /\ log[i - 1] = PF_LOG_SUCCESS => Near(by[i])

BeforeInv ==
  \A i \in 1 .. Len(log) - 1 :
    log[i].kind = "data" /\ HasPfPrefix(log[i + 1]) => Near(by[i])

NearInv ==
  TypeInv /\ CallersInv /\ SuccessInv /\ DataInv /\ BehindInv /\ BeforeInv

-----------------------------------------------------------------------------

\* NearInv holds before the first line is logged.
LEMMA InitNear == Init => NearInv
<1> SUFFICES ASSUME Init PROVE NearInv
  OBVIOUS
<1>1. TypeInv
  BY DEF Init, TypeInv
<1>2. CallersInv /\ SuccessInv /\ DataInv /\ BehindInv /\ BeforeInv
  BY DEF Init, CallersInv, SuccessInv, DataInv, BehindInv, BeforeInv
<1> QED
  BY <1>1, <1>2 DEF NearInv

\* What a line adds to the conjuncts about the log.  The first assumption is
\* that of a program that writes data, the second that of a line of pump.
LEMMA WriteNear ==
  ASSUME NearInv,
         TypeInv',
         NEW line \in Lines, NEW p \in Programs,
         Write(line, p),
         callers \subseteq callers',
         line.kind = "data" => (LastIs(PF_LOG_SUCCESS) => Near(p)),
         HasPfPrefix(line) /\ log # <<>> /\ log[Len(log)].kind = "data"
           => by[Len(log)] \in callers' \cup {Pump}
  PROVE  BehindInv' /\ BeforeInv'
<1> DEFINE n == Len(log)
<1>1. /\ n \in Nat
      /\ Len(log') = n + 1 /\ log'[n + 1] = line /\ by'[n + 1] = p
      /\ \A i \in 1 .. n : log'[i] = log[i] /\ by'[i] = by[i]
  BY DEF NearInv, TypeInv, Write
<1>2. \A q : Near(q) => Near(q)'
  BY DEF Near
<1>3. BehindInv'
  <2> SUFFICES ASSUME NEW i \in 2 .. n + 1,
                      log'[i].kind = "data", log'[i - 1] = PF_LOG_SUCCESS
               PROVE  Near(by[i])'
    BY <1>1 DEF BehindInv, Near
  <2>1. CASE i \in 2 .. n
    BY <1>1, <1>2, <2>1 DEF NearInv, BehindInv, Near
  <2>2. CASE i = n + 1
    BY <1>1, <1>2, <2>2 DEF LastIs, Near, NearInv, TypeInv
  <2> QED
    BY <1>1, <2>1, <2>2
<1>4. BeforeInv'
  <2> SUFFICES ASSUME NEW i \in 1 .. n,
                      log'[i].kind = "data", HasPfPrefix(log'[i + 1])
               PROVE  Near(by[i])'
    BY <1>1 DEF BeforeInv, Near
  <2>1. CASE i \in 1 .. n - 1
    BY <1>1, <1>2, <2>1 DEF NearInv, BeforeInv, Near
  <2>2. CASE i = n
    BY <1>1, <2>2 DEF NearInv, TypeInv, Near
  <2> QED
    BY <1>1, <2>1, <2>2
<1> QED
  BY <1>3, <1>4
\* Every line the runtime logs keeps the types of the log and its call stack.
LEMMA TypeStep == NearInv /\ [Next]_vars => TypeInv'
<1> SUFFICES ASSUME NearInv, [Next]_vars PROVE TypeInv'
  OBVIOUS
<1> USE DEF NearInv, TypeInv
<1>1. ASSUME NEW p \in Programs, Invoke(p) PROVE TypeInv'
  <2>1. Line("invoke", p, None) \in Lines
    BY DEF Line, Lines
  <2>2. stack # <<>> => Top \in Programs
    BY DEF Top
  <2>3. stack' \in Seq(Programs) /\ callers' \in SUBSET Programs
    BY <1>1, <2>2 DEF Invoke
  <2> QED
    BY <1>1, <2>1, <2>3 DEF Invoke, Write
<1>2. ASSUME NEW d \in Foreign \cup {None}, WriteText(d) PROVE TypeInv'
  <2>1. Line("text", None, d) \in Lines /\ Top \in Programs
    BY <1>2 DEF Line, Lines, Top, WriteText, Running
  <2> QED
    BY <1>2, <2>1 DEF WriteText, Write
<1>3. ASSUME NEW d \in Foreign, WriteData(d) PROVE TypeInv'
  <2>1. Line("data", None, d) \in Lines /\ Top \in Programs
    BY <1>3 DEF Line, Lines, Top, WriteData, Running
  <2> QED
    BY <1>3, <2>1 DEF WriteData, Write
<1>4. ASSUME NEW e \in Events, LogEvent(e) PROVE TypeInv'
  <2>1. Line("data", None, e) \in Lines /\ Pump \in Programs
    BY ProgramLogAssumption DEF Line, Lines
  <2> QED
    BY <1>4, <2>1 DEF LogEvent, Write
<1>5. ASSUME Consume PROVE TypeInv'
  <2>1. Line("consumed", Pump, None) \in Lines /\ Pump \in Programs
    BY ProgramLogAssumption DEF Line, Lines
  <2> QED
    BY <1>5, <2>1 DEF Consume, Write
<1>6. ASSUME Return PROVE TypeInv'
  <2>1. Top \in Programs
    BY <1>6 DEF Return, Top
  <2>2. Line("success", Top, None) \in Lines
    BY <2>1 DEF Line, Lines
  <2>3. stack' \in Seq(Programs)
    BY <1>6 DEF Return
  <2> QED
    BY <1>6, <2>1, <2>2, <2>3 DEF Return, Write
<1>7. ASSUME Truncate PROVE TypeInv'
  <2>1. Top \in Programs /\ LOG_TRUNCATED \in Lines
    BY <1>7 DEF Truncate, Top, LOG_TRUNCATED, Line, Lines
  <2> QED
    BY <1>7, <2>1 DEF Truncate, Write
<1>8. ASSUME UNCHANGED vars PROVE TypeInv'
  BY <1>8 DEF vars
<1> QED
  BY <1>1, <1>2, <1>3, <1>4, <1>5, <1>6, <1>7, <1>8 DEF Next
\* The last line after a step that writes one.
LEMMA LastLine ==
  ASSUME TypeInv, NEW line, NEW p, Write(line, p)
  PROVE  log' # <<>> /\ log'[Len(log')] = line /\ by'[Len(log')] = p
BY DEF TypeInv, Write

\* A step of the programs that leaves the calls alone.
LEMMA SameStack ==
  ASSUME NearInv, stack' = stack, callers' = callers
  PROVE  CallersInv'
BY DEF NearInv, CallersInv, Near

\* Every line the runtime logs keeps NearInv.
LEMMA NearStep == NearInv /\ [Next]_vars => NearInv'
<1> SUFFICES ASSUME NearInv, [Next]_vars PROVE NearInv'
  OBVIOUS
<1>0. TypeInv /\ TypeInv'
  BY TypeStep DEF NearInv
<1>1. ASSUME NEW p \in Programs, Invoke(p) PROVE NearInv'
  <2> DEFINE line == Line("invoke", p, None)
  <2>1. Write(line, p) /\ line \in Lines /\ line.kind = "invoke" /\ line.prog = p
    BY <1>1 DEF Invoke, Line, Lines
  <2>2. /\ stack \in Seq(Programs) /\ stack' = Append(stack, p)
        /\ callers \subseteq callers'
        /\ p = Pump /\ stack # <<>> => Top \in callers'
    BY <1>0, <1>1 DEF Invoke, TypeInv
  <2>3. CallersInv'
    <3> SUFFICES ASSUME NEW i \in 1 .. Len(stack), Append(stack, p)[i + 1] = Pump
                 PROVE  Append(stack, p)[i] \in callers' \cup {Pump}
      BY <2>2 DEF CallersInv, Near
    <3>1. CASE i < Len(stack)
      BY <2>2, <3>1 DEF NearInv, CallersInv, Near
    <3>2. CASE i = Len(stack)
      BY <2>2, <3>2 DEF Top
    <3> QED
      BY <2>2, <3>1, <3>2
  <2>4. SuccessInv' /\ DataInv'
    BY <1>0, <2>1, LastLine DEF SuccessInv, DataInv, LastIs, PF_LOG_SUCCESS
  <2>5. HasPfPrefix(line) /\ log # <<>> /\ log[Len(log)].kind = "data"
          => by[Len(log)] \in callers' \cup {Pump}
    BY <2>1, <2>2 DEF HasPfPrefix, NearInv, DataInv
  <2>6. BehindInv' /\ BeforeInv'
    BY <1>0, <2>1, <2>2, <2>5, WriteNear
  <2> QED
    BY <1>0, <2>3, <2>4, <2>6 DEF NearInv
<1>2. ASSUME NEW d \in Foreign \cup {None}, WriteText(d) PROVE NearInv'
  <2> DEFINE line == Line("text", None, d)
  <2>1. Write(line, Top) /\ line \in Lines /\ Top \in Programs
    BY <1>0, <1>2, ProgramLogAssumption DEF WriteText, Running, TypeInv, Top, Line, Lines
  <2>2. stack # <<>> /\ stack' = stack /\ callers' = callers
    BY <1>2 DEF WriteText, Running
  <2>3. CallersInv'
    BY <2>2, SameStack
  <2>4. SuccessInv' /\ DataInv'
    BY <1>0, <2>1, LastLine DEF SuccessInv, DataInv, LastIs, PF_LOG_SUCCESS, Line
  <2>5. line.kind = "text" /\ ~HasPfPrefix(line)
    BY DEF Line, HasPfPrefix
  <2>6. BehindInv' /\ BeforeInv'
    BY <1>0, <2>1, <2>2, <2>5, WriteNear
  <2> QED
    BY <1>0, <2>3, <2>4, <2>6 DEF NearInv
<1>3. ASSUME NEW d \in Foreign, WriteData(d) PROVE NearInv'
  <2> DEFINE line == Line("data", None, d)
  <2>1. Write(line, Top) /\ line \in Lines /\ Top \in Programs
    BY <1>0, <1>3, ProgramLogAssumption DEF WriteData, Running, TypeInv, Top, Line, Lines
  <2>2. stack # <<>> /\ stack' = stack /\ callers' = callers
    BY <1>3 DEF WriteData, Running
  <2>3. CallersInv'
    BY <2>2, SameStack
  <2>4. SuccessInv' /\ DataInv'
    BY <1>0, <2>1, <2>2, LastLine DEF SuccessInv, DataInv, LastIs, PF_LOG_SUCCESS, Line, Top
  <2>5. ~HasPfPrefix(line) /\ (LastIs(PF_LOG_SUCCESS) => Near(Top))
    BY <2>2 DEF Line, HasPfPrefix, NearInv, SuccessInv
  <2>6. BehindInv' /\ BeforeInv'
    BY <1>0, <2>1, <2>2, <2>5, WriteNear
  <2> QED
    BY <1>0, <2>3, <2>4, <2>6 DEF NearInv
<1>4. ASSUME NEW e \in Events, LogEvent(e) PROVE NearInv'
  <2> DEFINE line == Line("data", None, e)
  <2>1. Write(line, Pump) /\ line \in Lines /\ Pump \in Programs
    BY <1>0, <1>4, ProgramLogAssumption DEF LogEvent, Running, TypeInv, Top, Line, Lines
  <2>2. stack # <<>> /\ stack' = stack /\ callers' = callers /\ Top = Pump
    BY <1>4 DEF LogEvent, Running
  <2>3. CallersInv'
    BY <2>2, SameStack
  <2>4. SuccessInv' /\ DataInv'
    BY <1>0, <2>1, <2>2, LastLine DEF SuccessInv, DataInv, LastIs, PF_LOG_SUCCESS, Line, Top
  <2>5. ~HasPfPrefix(line) /\ Near(Pump)
    BY DEF Line, HasPfPrefix, Near
  <2>6. BehindInv' /\ BeforeInv'
    BY <1>0, <2>1, <2>2, <2>5, WriteNear
  <2> QED
    BY <1>0, <2>3, <2>4, <2>6 DEF NearInv
<1>5. ASSUME Consume PROVE NearInv'
  <2> DEFINE line == Line("consumed", Pump, None)
  <2>1. Write(line, Pump) /\ line \in Lines /\ Pump \in Programs
    BY <1>0, <1>5, ProgramLogAssumption DEF Consume, Running, TypeInv, Top, Line, Lines
  <2>2. stack # <<>> /\ stack' = stack /\ callers' = callers /\ Top = Pump
    BY <1>5 DEF Consume, Running
  <2>3. CallersInv'
    BY <2>2, SameStack
  <2>4. SuccessInv' /\ DataInv'
    BY <1>0, <2>1, LastLine DEF SuccessInv, DataInv, LastIs, PF_LOG_SUCCESS, Line
  <2>5. /\ line.kind = "consumed"
        /\ log # <<>> /\ log[Len(log)].kind = "data" => by[Len(log)] = Pump
    BY <2>2 DEF Line, NearInv, DataInv
  <2>6. BehindInv' /\ BeforeInv'
    BY <1>0, <2>1, <2>2, <2>5, WriteNear
  <2> QED
    BY <1>0, <2>3, <2>4, <2>6 DEF NearInv
<1>6. ASSUME Return PROVE NearInv'
  <2> DEFINE line == Line("success", Top, None)
  <2>1. Write(line, Top) /\ line \in Lines /\ Top \in Programs
    BY <1>0, <1>6 DEF Return, TypeInv, Top, Line, Lines
  <2>2. /\ stack # <<>> /\ stack' = SubSeq(stack, 1, Len(stack) - 1) /\ callers' = callers
        /\ stack \in Seq(Programs)
    BY <1>0, <1>6 DEF Return, TypeInv
  <2>3. CallersInv'
    BY <2>2 DEF NearInv, CallersInv, Near
  <2>4. SuccessInv'
    <3> SUFFICES ASSUME stack' # <<>>, LastIs(PF_LOG_SUCCESS)' PROVE Near(Top)'
      BY DEF SuccessInv
    <3>1. Top = Pump
      BY <1>0, <2>1, LastLine DEF LastIs, PF_LOG_SUCCESS, Line
    <3>2. Len(stack) > 1 /\ Top' = stack[Len(stack) - 1]
      BY <2>2 DEF Top
    <3> QED
      BY <2>2, <3>1, <3>2 DEF NearInv, CallersInv, Near, Top
  <2>5. DataInv'
    BY <1>0, <2>1, LastLine DEF DataInv, Line
  <2>6. /\ line.kind = "success"
        /\ HasPfPrefix(line) /\ log # <<>> => log[Len(log)].kind # "data"
    BY <1>6 DEF Return, HasPfPrefix, LastIs, Line
  <2>7. BehindInv' /\ BeforeInv'
    BY <1>0, <2>1, <2>2, <2>6, WriteNear
  <2> QED
    BY <1>0, <2>3, <2>4, <2>5, <2>7 DEF NearInv
<1>7. ASSUME Truncate PROVE NearInv'
  <2> DEFINE line == LOG_TRUNCATED
  <2>1. Write(line, Top) /\ line \in Lines /\ Top \in Programs
    BY <1>0, <1>7, ProgramLogAssumption DEF Truncate, TypeInv, Top, LOG_TRUNCATED, Line, Lines
  <2>2. stack # <<>> /\ stack' = stack /\ callers' = callers
    BY <1>7 DEF Truncate
  <2>3. CallersInv'
    BY <2>2, SameStack
  <2>4. SuccessInv' /\ DataInv'
    BY <1>0, <2>1, LastLine DEF SuccessInv, DataInv, LastIs, PF_LOG_SUCCESS, LOG_TRUNCATED, Line
  <2>5. line.kind = "truncated" /\ ~HasPfPrefix(line)
    BY DEF LOG_TRUNCATED, Line, HasPfPrefix
  <2>6. BehindInv' /\ BeforeInv'
    BY <1>0, <2>1, <2>2, <2>5, WriteNear
  <2> QED
    BY <1>0, <2>3, <2>4, <2>6 DEF NearInv
<1>8. ASSUME UNCHANGED vars PROVE NearInv'
  BY <1>8 DEF vars, NearInv, TypeInv, CallersInv, SuccessInv, DataInv, BehindInv, BeforeInv,
    Near, LastIs, Top
<1> QED
  BY <1>1, <1>2, <1>3, <1>4, <1>5, <1>6, <1>7, <1>8 DEF Next

\* What NearInv says of the log bounds what dealLogs takes from it.
LEMMA NearTaken == NearInv => TakenIsNear
<1> SUFFICES ASSUME NearInv, Over, NEW i \in 1 .. Len(log), IsTaken(log, i)
             PROVE  Near(by[i])
  BY DEF TakenIsNear, Near
<1>1. log \in Seq(Lines) /\ i \in 2 .. Len(log) /\ log[i].kind = "data" /\ Adjacent(log, i)
  BY DEF NearInv, TypeInv, IsTaken
<1>2. CASE log[i - 1] = PF_LOG_SUCCESS
  BY <1>1, <1>2 DEF NearInv, BehindInv
<1>3. CASE i = Len(log)
  BY <1>1, <1>3 DEF NearInv, DataInv, Over, Truncated, LastIs, LOG_TRUNCATED, Line
<1>4. CASE i # Len(log) /\ HasPfPrefix(log[i + 1])
  BY <1>1, <1>4 DEF NearInv, BeforeInv
<1> QED
  BY <1>1, <1>2, <1>3, <1>4 DEF Adjacent

\* For every set of programs and every depth of calls: a line that dealLogs takes
\* was written by pump or by a program that called pump.
THEOREM TakenNear == Spec => []TakenIsNear
<1>1. Spec => []NearInv
  BY InitNear, NearStep, PTL DEF Spec
<1> QED
  BY <1>1, NearTaken, PTL

\* The length that common.dto.ts computes for n bytes, with a division that is
\* not one of integers and a mask, is the length of their base64.
THEOREM EncodedLengthIsBase64Length == \A n \in Nat : EncodedLength(n) = Base64Length(n)
<1> SUFFICES ASSUME NEW n \in Nat PROVE EncodedLength(n) = Base64Length(n)
  OBVIOUS
<1> DEFINE q == n \div 3
           r == n % 3
<1>1. q \in Nat /\ r \in 0 .. 2 /\ n = 3 * q + r
  OBVIOUS
<1>2. CASE r = 0
  <2>1. (n + 2) \div 3 = q /\ (4 * n) \div 3 = 4 * q
    BY <1>1, <1>2
  <2> QED
    BY <1>1, <2>1 DEF EncodedLength, Base64Length
<1>3. CASE r = 1
  <2>1. (n + 2) \div 3 = q + 1 /\ (4 * n) \div 3 = 4 * q + 1
    BY <1>1, <1>3
  <2> QED
    BY <1>1, <2>1 DEF EncodedLength, Base64Length
<1>4. CASE r = 2
  <2>1. (n + 2) \div 3 = q + 1 /\ (4 * n) \div 3 = 4 * q + 2
    BY <1>1, <1>4
  <2> QED
    BY <1>1, <2>1 DEF EncodedLength, Base64Length
<1> QED
  BY <1>1, <1>2, <1>3, <1>4

-----------------------------------------------------------------------------
(* Recursion and induction over a sequence.                                 *)

\* Induction up to n.
LEMMA UpTo ==
  ASSUME NEW n \in Nat, NEW S,
         0 \in S, \A i \in 0 .. n : i + 1 \in 0 .. n /\ i \in S => i + 1 \in S
  PROVE  \A i \in 0 .. n : i \in S
<1> SUFFICES ASSUME (0 .. n) \ S # {} PROVE FALSE
  OBVIOUS
<1> DEFINE L == {ss \in Nat \X Nat : ss[1] < ss[2]}
           T == (0 .. n) \ S
<1>1. IsWellFoundedOn(L, Nat)
  BY NatLessThanWellFounded DEF OpToRel
<1>2. T \subseteq Nat /\ T # {}
  OBVIOUS
<1>3. PICK m \in T : \A k \in T : ~(<<k, m>> \in L)
  <2> HIDE DEF L, T
  <2> QED BY <1>1, <1>2, WFMin
<1>4. m # 0 /\ m - 1 \in 0 .. n /\ m \in 0 .. n /\ m \notin S
  OBVIOUS
<1>5. m - 1 \notin T
  <2>1. <<m - 1, m>> \in L
    BY <1>4
  <2> HIDE DEF L, T
  <2> QED BY <1>3, <2>1
<1> QED BY <1>4, <1>5

\* f holds the values up to n that g makes of the first one.
Follows(f, n, T, first, g) ==
  /\ f \in [0 .. n -> T]
  /\ f[0] = first
  /\ \A i \in 1 .. n : f[i] = g[<<i, f[i - 1]>>]

\* Recursion up to n defines a function.
LEMMA RecursionExists ==
  ASSUME NEW n \in Nat, NEW T, NEW first \in T, NEW g \in [(0 .. n) \X T -> T]
  PROVE  \E f : Follows(f, n, T, first, g)
<1> DEFINE Starts(m, f) ==
             /\ f \in [0 .. n -> T]
             /\ f[0] = first
             /\ \A i \in 1 .. m : f[i] = g[<<i, f[i - 1]>>]
           S == {m \in 0 .. n : \E f : Starts(m, f)}
<1>1. 0 \in S
  <2>1. Starts(0, [i \in 0 .. n |-> first])
    OBVIOUS
  <2>2. 0 \in 0 .. n
    OBVIOUS
  <2> HIDE DEF Starts
  <2> QED BY <2>1, <2>2
<1>2. ASSUME NEW m \in 0 .. n, m + 1 \in 0 .. n, m \in S PROVE m + 1 \in S
  <2>1. PICK f : Starts(m, f)
    BY <1>2
  <2> DEFINE h == [f EXCEPT ![m + 1] = g[<<m + 1, f[m]>>]]
  <2>2. h \in [0 .. n -> T]
    BY <1>2, <2>1
  <2>3. h[0] = first
    BY <1>2, <2>1
  <2>4. ASSUME NEW i \in 1 .. m + 1 PROVE h[i] = g[<<i, h[i - 1]>>]
    <3>1. h[i - 1] = f[i - 1]
      BY <1>2, <2>1
    <3>2. CASE i = m + 1
      <4>1. i - 1 = m /\ h[m + 1] = g[<<m + 1, f[m]>>]
        BY <1>2, <2>1, <3>2
      <4> QED BY <3>1, <3>2, <4>1
    <3>3. CASE i \in 1 .. m
      BY <1>2, <2>1, <3>1, <3>3
    <3> QED BY <3>2, <3>3
  <2>5. Starts(m + 1, h)
    BY <2>2, <2>3, <2>4
  <2> QED BY <1>2, <2>5
<1>3. n \in S
  <2> HIDE DEF S
  <2> QED BY <1>1, <1>2, UpTo
<1>4. PICK f : Starts(n, f)
  BY <1>3
<1> QED BY <1>4 DEF Follows

\* What Picked picks, step by step.
LEMMA PickedSteps ==
  ASSUME NEW T, NEW s \in Seq(T), NEW I
  PROVE  /\ PickedUpTo(s, I) \in [0 .. Len(s) -> Seq(T)]
         /\ PickedUpTo(s, I)[0] = <<>>
         /\ \A i \in 1 .. Len(s) :
              PickedUpTo(s, I)[i] =
                IF i \in I THEN Append(PickedUpTo(s, I)[i - 1], s[i])
                ELSE PickedUpTo(s, I)[i - 1]
<1> DEFINE n == Len(s)
           g == [x \in (0 .. n) \X Seq(T) |->
                   IF x[1] \in 1 .. n /\ x[1] \in I THEN Append(x[2], s[x[1]]) ELSE x[2]]
           Step(f) == [i \in 0 .. n |-> IF i = 0 THEN <<>>
                         ELSE IF i \in I THEN Append(f[i - 1], s[i])
                         ELSE f[i - 1]]
<1>1. n \in Nat
  OBVIOUS
<1>2. g \in [(0 .. n) \X Seq(T) -> Seq(T)]
  OBVIOUS
<1>3. <<>> \in Seq(T)
  OBVIOUS
<1>4. PICK f : Follows(f, n, Seq(T), <<>>, g)
  <2> HIDE DEF g, n
  <2> QED BY <1>1, <1>2, <1>3, RecursionExists
<1>5. f = Step(f)
  <2> f \in [0 .. n -> Seq(T)]
    BY <1>4 DEF Follows
  <2>1. ASSUME NEW i \in 0 .. n PROVE f[i] = Step(f)[i]
    <3>1. CASE i = 0
      BY <1>4, <3>1 DEF Follows
    <3>2. CASE i # 0
      <4>1. <<i, f[i - 1]>> \in (0 .. n) \X Seq(T) /\ i \in 1 .. n
        BY <3>2
      <4>2. f[i] = g[<<i, f[i - 1]>>]
        BY <1>4, <4>1 DEF Follows
      <4> QED BY <3>2, <4>1, <4>2
    <3> QED BY <3>1, <3>2
  <2> QED BY <2>1
<1> DEFINE p == PickedUpTo(s, I)
<1>6. p = Step(p)
  <2>1. p = CHOOSE h : h = Step(h)
    BY DEF PickedUpTo
  <2> HIDE DEF Step, p
  <2> QED BY <1>5, <2>1
<1>7. p[0] = <<>> /\ \A i \in 1 .. n : p[i] = IF i \in I THEN Append(p[i - 1], s[i]) ELSE p[i - 1]
  <2> HIDE DEF p
  <2>1. \A i \in 0 .. n : p[i] = Step(p)[i]
    <3> HIDE DEF Step
    <3> QED BY <1>6
  <2>2. \A i \in 0 .. n : Step(p)[i] = IF i = 0 THEN <<>>
                         ELSE IF i \in I THEN Append(p[i - 1], s[i])
                         ELSE p[i - 1]
    OBVIOUS
  <2>3. 0 \in 0 .. n /\ \A i \in 1 .. n : i \in 0 .. n /\ i # 0
    BY <1>1
  <2> HIDE DEF Step
  <2> QED BY <2>1, <2>2, <2>3
<1>8. p \in [0 .. n -> Seq(T)]
  <2> DEFINE S == {i \in 0 .. n : p[i] \in Seq(T)}
  <2> HIDE DEF p
  <2>1. 0 \in S
    <3>1. 0 \in 0 .. n /\ p[0] \in Seq(T)
      BY <1>1, <1>3, <1>7
    <3> HIDE DEF n
    <3> QED BY <3>1
  <2>2. ASSUME NEW i \in 0 .. n, i + 1 \in 0 .. n, i \in S PROVE i + 1 \in S
    <3>1. i + 1 \in 1 .. n /\ (i + 1) - 1 = i /\ s[i + 1] \in T
      BY <1>1, <2>2
    <3>2. p[i + 1] = IF i + 1 \in I THEN Append(p[i], s[i + 1]) ELSE p[i]
      BY <1>7, <3>1
    <3>3. p[i] \in Seq(T)
      BY <2>2
    <3>4. p[i + 1] \in Seq(T)
      BY <3>1, <3>2, <3>3
    <3> HIDE DEF n
    <3> QED BY <2>2, <3>4
  <2>3. \A i \in 0 .. n : i \in S
    <3> HIDE DEF S
    <3> QED BY <1>1, <2>1, <2>2, UpTo
  <2> QED BY <1>6, <2>3
<1> QED BY <1>7, <1>8

\* Picking from a longer sequence agrees up to the length of the shorter one.
LEMMA PickedPrefix ==
  ASSUME NEW T, NEW s \in Seq(T), NEW t \in Seq(T), NEW I, NEW J,
         Len(s) <= Len(t),
         \A i \in 1 .. Len(s) : t[i] = s[i] /\ (i \in J <=> i \in I)
  PROVE  PickedUpTo(t, J)[Len(s)] = Picked(s, I)
<1> DEFINE n == Len(s)
           p == PickedUpTo(s, I)
           q == PickedUpTo(t, J)
           S == {i \in 0 .. n : q[i] = p[i]}
<1>1. n \in Nat /\ \A i \in 1 .. n : i \in 1 .. Len(t)
  OBVIOUS
<1>2. /\ p[0] = <<>>
      /\ \A i \in 1 .. n : p[i] = IF i \in I THEN Append(p[i - 1], s[i]) ELSE p[i - 1]
  BY PickedSteps
<1>3. /\ q[0] = <<>>
      /\ \A i \in 1 .. n : q[i] = IF i \in J THEN Append(q[i - 1], t[i]) ELSE q[i - 1]
  BY <1>1, PickedSteps
<1>4. \A i \in 1 .. n : t[i] = s[i] /\ (i \in J <=> i \in I)
  OBVIOUS
<1> HIDE DEF n, p, q
<1>5. 0 \in S
  BY <1>1, <1>2, <1>3
<1>6. ASSUME NEW i \in 0 .. n, i + 1 \in 0 .. n, i \in S PROVE i + 1 \in S
  <2>1. i + 1 \in 1 .. n /\ (i + 1) - 1 = i
    BY <1>1, <1>6
  <2>2. q[i] = p[i]
    BY <1>6
  <2>3. q[i + 1] = p[i + 1]
    BY <1>2, <1>3, <1>4, <2>1, <2>2
  <2> QED BY <1>6, <2>3
<1>7. \A i \in 0 .. n : i \in S
  <2> HIDE DEF S
  <2> QED BY <1>1, <1>5, <1>6, UpTo
<1>8. q[n] = p[n]
  BY <1>1, <1>7
<1> QED BY <1>8 DEF Picked, n, p, q

\* What one more element adds to what is picked.
LEMMA PickedAppend ==
  ASSUME NEW T, NEW s \in Seq(T), NEW e \in T, NEW I, NEW J,
         \A i \in 1 .. Len(s) : i \in J <=> i \in I
  PROVE  /\ Picked(s, I) \in Seq(T)
         /\ Picked(Append(s, e), J) =
              IF Len(s) + 1 \in J THEN Append(Picked(s, I), e) ELSE Picked(s, I)
<1> DEFINE t == Append(s, e)
           n == Len(s)
<1>1. /\ t \in Seq(T) /\ Len(t) = n + 1 /\ t[n + 1] = e /\ n \in Nat
      /\ \A i \in 1 .. n : t[i] = s[i]
  OBVIOUS
<1> HIDE DEF t
<1>2. PickedUpTo(t, J)[n] = Picked(s, I)
  BY <1>1, PickedPrefix
<1>3. n + 1 \in 1 .. Len(t) /\ (n + 1) - 1 = n
  BY <1>1
<1>4. PickedUpTo(t, J)[n + 1] =
        IF n + 1 \in J THEN Append(PickedUpTo(t, J)[n], e) ELSE PickedUpTo(t, J)[n]
  BY <1>1, <1>3, PickedSteps
<1>5. Picked(s, I) \in Seq(T)
  BY <1>1, PickedSteps DEF Picked
<1> QED BY <1>1, <1>2, <1>4, <1>5 DEF Picked, t

\* Nothing is picked from nothing.
LEMMA PickedEmpty == ASSUME NEW I PROVE Picked(<<>>, I) = <<>>
<1>1. <<>> \in Seq({}) /\ Len(<<>>) = 0
  OBVIOUS
<1> QED BY <1>1, PickedSteps DEF Picked

-----------------------------------------------------------------------------
(* The bucket that dealLogs fills.                                          *)

Payloads == Events \cup Foreign
TradeRows == {TradeRow(p) : p \in Payloads}
CreateRows == {CreateRow(p) : p \in Payloads}
BucketSet ==
  [pfTradeList : Seq(TradeRows), pfCreateList : Seq(CreateRows), thrown : BOOLEAN]

\* The logs whose data lines have payloads.
DataLogs == {logs \in Seq(Lines) :
               \A i \in 1 .. Len(logs) : logs[i].kind = "data" => logs[i].data \in Payloads}

\* handleLogStr leaves a bucket behind.
LEMMA HandleType ==
  ASSUME NEW b \in BucketSet, NEW p \in Payloads
  PROVE  HandleLogStr(b, p) \in BucketSet
<1>1. TradeRow(p) \in TradeRows /\ CreateRow(p) \in CreateRows
  BY DEF TradeRows, CreateRows
<1>2. /\ Append(b.pfTradeList, TradeRow(p)) \in Seq(TradeRows)
      /\ Append(b.pfCreateList, CreateRow(p)) \in Seq(CreateRows)
  BY <1>1 DEF BucketSet
<1> QED BY <1>2 DEF HandleLogStr, BucketSet

\* What dealLogs does with each line.
LEMMA BucketSteps ==
  ASSUME NEW logs \in DataLogs
  PROVE  /\ Buckets(logs) \in [0 .. Len(logs) -> BucketSet]
         /\ Buckets(logs)[0] = EmptyBucket
         /\ \A i \in 1 .. Len(logs) :
              Buckets(logs)[i] =
                IF Buckets(logs)[i - 1].thrown \/ ~IsTaken(logs, i)
                THEN Buckets(logs)[i - 1]
                ELSE HandleLogStr(Buckets(logs)[i - 1], logs[i].data)
<1> DEFINE n == Len(logs)
           Line1(i, b) == IF b.thrown \/ ~IsTaken(logs, i) THEN b
                          ELSE HandleLogStr(b, logs[i].data)
           g == [x \in (0 .. n) \X BucketSet |->
                   IF x[1] \in 1 .. n THEN Line1(x[1], x[2]) ELSE x[2]]
           Step(f) == [i \in 0 .. n |-> IF i = 0 THEN EmptyBucket ELSE Line1(i, f[i - 1])]
           p == Buckets(logs)
<1>1. n \in Nat
  BY DEF DataLogs
<1>2. EmptyBucket \in BucketSet
  BY DEF EmptyBucket, BucketSet
<1>3. ASSUME NEW i \in 1 .. n, NEW b \in BucketSet PROVE Line1(i, b) \in BucketSet
  <2>1. CASE b.thrown \/ ~IsTaken(logs, i)
    BY <2>1
  <2>2. CASE ~(b.thrown \/ ~IsTaken(logs, i))
    <3>1. logs[i].data \in Payloads
      BY <2>2 DEF IsTaken, DataLogs
    <3> QED BY <2>2, <3>1, HandleType
  <2> QED BY <2>1, <2>2
<1> HIDE DEF Line1
<1>4. g \in [(0 .. n) \X BucketSet -> BucketSet]
  BY <1>3
<1>5. PICK f : Follows(f, n, BucketSet, EmptyBucket, g)
  <2> HIDE DEF g, n
  <2> QED BY <1>1, <1>2, <1>4, RecursionExists
<1>6. f = Step(f)
  <2> f \in [0 .. n -> BucketSet]
    BY <1>5 DEF Follows
  <2>1. ASSUME NEW i \in 0 .. n PROVE f[i] = Step(f)[i]
    <3>1. CASE i = 0
      BY <1>5, <3>1 DEF Follows
    <3>2. CASE i # 0
      <4> HIDE DEF n
      <4>1. i \in 1 .. n /\ i - 1 \in 0 .. n
        BY <1>1, <3>2
      <4>2. <<i, f[i - 1]>> \in (0 .. n) \X BucketSet
        BY <4>1
      <4>3. f[i] = g[<<i, f[i - 1]>>]
        BY <1>5, <4>1 DEF Follows
      <4> QED BY <3>2, <4>1, <4>2, <4>3
    <3> QED BY <3>1, <3>2
  <2> QED BY <2>1
<1>7. p = Step(p)
  <2>1. p = CHOOSE h : h = Step(h)
    BY DEF Buckets, Line1
  <2> HIDE DEF Step, p
  <2> QED BY <1>6, <2>1
<1>8. p[0] = EmptyBucket /\ \A i \in 1 .. n : p[i] = Line1(i, p[i - 1])
  <2> HIDE DEF p
  <2>1. \A i \in 0 .. n : p[i] = Step(p)[i]
    <3> HIDE DEF Step
    <3> QED BY <1>7
  <2>2. \A i \in 0 .. n : Step(p)[i] = IF i = 0 THEN EmptyBucket ELSE Line1(i, p[i - 1])
    OBVIOUS
  <2>3. 0 \in 0 .. n /\ \A i \in 1 .. n : i \in 0 .. n /\ i # 0
    BY <1>1
  <2> HIDE DEF Step
  <2> QED BY <2>1, <2>2, <2>3
<1>9. p \in [0 .. n -> BucketSet]
  <2> DEFINE S == {i \in 0 .. n : p[i] \in BucketSet}
  <2> HIDE DEF p, n
  <2>1. 0 \in S
    BY <1>1, <1>2, <1>8
  <2>2. ASSUME NEW i \in 0 .. n, i + 1 \in 0 .. n, i \in S PROVE i + 1 \in S
    <3>1. i + 1 \in 1 .. n /\ (i + 1) - 1 = i /\ p[i] \in BucketSet
      BY <1>1, <2>2
    <3>2. p[i + 1] \in BucketSet
      BY <1>3, <1>8, <3>1
    <3> QED BY <2>2, <3>2
  <2>3. \A i \in 0 .. n : i \in S
    <3> HIDE DEF S
    <3> QED BY <1>1, <2>1, <2>2, UpTo
  <2>4. DOMAIN p = 0 .. n
    <3>1. p = Step(p)
      BY <1>7
    <3> QED BY <3>1
  <2>5. p = [i \in 0 .. n |-> p[i]]
    BY <1>7
  <2> QED BY <2>3, <2>4, <2>5
<1> QED BY <1>8, <1>9 DEF Line1

-----------------------------------------------------------------------------
(* The events of pump, in the log and in the history.                       *)

\* A log begins with a call.
StartInv ==
  /\ log = <<>> => stack = <<>>
  /\ log # <<>> => log[1].kind = "invoke"

\* Pump logs an event after a call to itself.
DataByInv ==
  \A i \in 1 .. Len(log) :
    log[i].kind = "data" =>
      IF by[i] = Pump
      THEN i > 1 /\ log[i - 1] = PF_LOG_SUCCESS /\ log[i].data \in Events
      ELSE log[i].data \in Foreign

\* What pump writes besides has no payload.
QuietInv ==
  \A i \in 1 .. Len(log) : by[i] = Pump /\ log[i].data # None => log[i].kind = "data"

PumpData == {i \in 1 .. Len(log) : by[i] = Pump /\ log[i].kind = "data"}
LogData == [i \in 1 .. Len(log) |-> log[i].data]

\* The history holds the payloads of pump's data lines, in their order.
EmittedInv ==
  /\ emitted \in Seq(Events)
  /\ emitted = Picked(LogData, PumpData)
  /\ \A i \in PumpData : \E k \in 1 .. Len(emitted) : emitted[k] = log[i].data

EventsInv == StartInv /\ DataByInv /\ QuietInv /\ EmittedInv

\* EventsInv holds before the first line is logged.
LEMMA InitEvents == Init => EventsInv
<1> SUFFICES ASSUME Init PROVE EventsInv
  OBVIOUS
<1>1. StartInv /\ DataByInv /\ QuietInv /\ PumpData = {} /\ LogData = <<>> /\ emitted = <<>>
  BY DEF Init, StartInv, DataByInv, QuietInv, PumpData, LogData
<1>2. EmittedInv
  BY <1>1, PickedEmpty DEF EmittedInv
<1> QED BY <1>1, <1>2 DEF EventsInv

\* What a line adds to the events: a data line of pump is one more.
LEMMA WriteEvents ==
  ASSUME TypeInv, EventsInv,
         NEW line \in Lines, NEW p \in Programs,
         Write(line, p),
         log = <<>> => line.kind = "invoke",
         line.kind = "data" =>
           IF p = Pump THEN LastIs(PF_LOG_SUCCESS) /\ line.data \in Events
           ELSE line.data \in Foreign,
         p = Pump /\ line.data # None => line.kind = "data",
         emitted' = IF p = Pump /\ line.kind = "data" THEN Append(emitted, line.data)
                    ELSE emitted
  PROVE  EventsInv'
<1> DEFINE n == Len(log)
           T == Events \cup Foreign \cup {None}
<1>1. /\ n \in Nat
      /\ Len(log') = n + 1 /\ log'[n + 1] = line /\ by'[n + 1] = p
      /\ \A i \in 1 .. n : log'[i] = log[i] /\ by'[i] = by[i]
      /\ log' = Append(log, line) /\ log \in Seq(Lines)
  BY DEF TypeInv, Write
<1>2. StartInv'
  <2>1. log' # <<>>
    BY <1>1
  <2>2. CASE n = 0
    <3>1. log'[1] = line /\ log = <<>>
      BY <1>1, <2>2
    <3> QED BY <2>1, <3>1 DEF StartInv
  <2>3. CASE n # 0
    <3>1. 1 \in 1 .. n /\ log # <<>>
      BY <1>1, <2>3
    <3>2. log'[1] = log[1]
      BY <1>1, <3>1
    <3> QED BY <2>1, <3>1, <3>2 DEF EventsInv, StartInv
  <2> QED BY <2>2, <2>3
<1>3. DataByInv'
  <2> SUFFICES ASSUME NEW i \in 1 .. n + 1, log'[i].kind = "data"
               PROVE  IF by'[i] = Pump
                      THEN i > 1 /\ log'[i - 1] = PF_LOG_SUCCESS /\ log'[i].data \in Events
                      ELSE log'[i].data \in Foreign
    BY <1>1 DEF DataByInv, PF_LOG_SUCCESS
  <2>1. CASE i \in 1 .. n
    BY <1>1, <2>1 DEF EventsInv, DataByInv
  <2>2. CASE i = n + 1
    BY <1>1, <2>2 DEF LastIs
  <2> QED BY <1>1, <2>1, <2>2
<1>4. LogData \in Seq(T) /\ line.data \in T /\ LogData' = Append(LogData, line.data)
  <2>1. line.data \in T /\ \A i \in 1 .. n : log[i].data \in T
    <3>1. \A l \in Lines : l.data \in T
      BY DEF Lines
    <3>2. \A i \in 1 .. n : log[i] \in Lines
      BY <1>1
    <3> QED BY <3>1, <3>2
  <2>2. LogData \in Seq(T) /\ Len(LogData) = n
    BY <1>1, <2>1 DEF LogData
  <2>3. LogData' = [i \in 1 .. n + 1 |-> log'[i].data]
    BY <1>1 DEF LogData
  <2>4. Append(LogData, line.data) = [i \in 1 .. n + 1 |-> IF i = n + 1 THEN line.data ELSE log[i].data]
    BY <2>1, <2>2 DEF LogData
  <2>5. \A i \in 1 .. n + 1 : log'[i].data = IF i = n + 1 THEN line.data ELSE log[i].data
    BY <1>1
  <2> QED BY <2>1, <2>2, <2>3, <2>4, <2>5
<1>5. /\ Len(LogData) = n
      /\ \A i \in 1 .. n : i \in PumpData' <=> i \in PumpData
      /\ n + 1 \in PumpData' <=> p = Pump /\ line.kind = "data"
      /\ \A i \in PumpData' : i \in PumpData \/ i = n + 1
  <2>1. PumpData' = {i \in 1 .. n + 1 : by'[i] = Pump /\ log'[i].kind = "data"}
    BY <1>1 DEF PumpData
  <2> QED BY <1>1, <2>1 DEF PumpData, LogData
<1>6. /\ emitted \in Seq(Events)
      /\ emitted = Picked(LogData, PumpData)
      /\ \A i \in PumpData : \E k \in 1 .. Len(emitted) : emitted[k] = log[i].data
  BY DEF EventsInv, EmittedInv
<1>7. Picked(LogData', PumpData') =
        IF n + 1 \in PumpData' THEN Append(Picked(LogData, PumpData), line.data)
        ELSE Picked(LogData, PumpData)
  <2> DEFINE J == PumpData'
             e == line.data
             s == LogData
             I == PumpData
  <2>1. s \in Seq(T) /\ e \in T /\ \A i \in 1 .. Len(s) : i \in J <=> i \in I
    BY <1>4, <1>5
  <2> HIDE DEF T, J, e, s, I
  <2>2. Picked(Append(s, e), J) =
          IF Len(s) + 1 \in J THEN Append(Picked(s, I), e) ELSE Picked(s, I)
    BY ONLY <2>1, PickedAppend
  <2> QED BY <1>4, <1>5, <2>2 DEF J, e, s, I
<1>8. emitted' = Picked(LogData', PumpData')
  BY <1>5, <1>6, <1>7
<1>9. emitted' \in Seq(Events)
  BY <1>6
<1>10. ASSUME NEW i \in PumpData'
       PROVE  \E k \in 1 .. Len(emitted') : emitted'[k] = log'[i].data
  <2>1. CASE i \in PumpData
    <3>1. i \in 1 .. n
      BY <2>1 DEF PumpData
    <3>2. log'[i] = log[i]
      BY <1>1, <3>1
    <3>3. PICK k \in 1 .. Len(emitted) : emitted[k] = log[i].data
      BY <1>6, <2>1
    <3>4. k \in 1 .. Len(emitted') /\ emitted'[k] = emitted[k]
      BY <1>6, <3>3
    <3> QED BY <3>2, <3>3, <3>4
  <2>2. CASE i = n + 1
    <3>1. emitted' = Append(emitted, line.data) /\ log'[i] = line
      BY <1>1, <1>5, <2>2
    <3>2. /\ Len(emitted) + 1 \in 1 .. Len(emitted')
          /\ emitted'[Len(emitted) + 1] = line.data
      BY <1>6, <3>1
    <3> QED BY <3>1, <3>2
  <2> QED BY <1>5, <2>1, <2>2
<1>11. EmittedInv'
  BY <1>8, <1>9, <1>10 DEF EmittedInv
<1>12. QuietInv'
  <2> SUFFICES ASSUME NEW i \in 1 .. n + 1, by'[i] = Pump, log'[i].data # None
               PROVE  log'[i].kind = "data"
    BY <1>1 DEF QuietInv
  <2>1. CASE i \in 1 .. n
    BY <1>1, <2>1 DEF EventsInv, QuietInv
  <2>2. CASE i = n + 1
    BY <1>1, <2>2
  <2> QED BY <1>1, <2>1, <2>2
<1> QED BY <1>2, <1>3, <1>11, <1>12 DEF EventsInv

\* Every line the runtime logs keeps EventsInv.
LEMMA EventsStep == TypeInv /\ EventsInv /\ [Next]_vars => EventsInv'
<1> SUFFICES ASSUME TypeInv, EventsInv, [Next]_vars PROVE EventsInv'
  OBVIOUS
<1>0. log = <<>> => stack = <<>>
  BY DEF EventsInv, StartInv
<1>1. ASSUME NEW p \in Programs, Invoke(p) PROVE EventsInv'
  <2> DEFINE line == Line("invoke", p, None)
  <2>1. Write(line, p) /\ line \in Lines /\ line.kind = "invoke" /\ line.data = None
        /\ emitted' = emitted
    BY <1>1 DEF Invoke, Line, Lines
  <2> HIDE DEF line
  <2> QED BY <2>1, WriteEvents
<1>2. ASSUME NEW d \in Foreign \cup {None}, WriteText(d) PROVE EventsInv'
  <2> DEFINE line == Line("text", None, d)
  <2>1. /\ Write(line, Top) /\ line \in Lines /\ Top \in Programs /\ line.kind = "text"
        /\ log # <<>> /\ emitted' = emitted /\ Top # Pump
    BY <1>0, <1>2 DEF WriteText, Running, TypeInv, Top, Line, Lines
  <2> HIDE DEF line
  <2> QED BY <2>1, WriteEvents
<1>3. ASSUME NEW d \in Foreign, WriteData(d) PROVE EventsInv'
  <2> DEFINE line == Line("data", None, d)
  <2>1. /\ Write(line, Top) /\ line \in Lines /\ Top \in Programs /\ line.data = d
        /\ log # <<>> /\ emitted' = emitted /\ Top # Pump
    BY <1>0, <1>3 DEF WriteData, Running, TypeInv, Top, Line, Lines
  <2> HIDE DEF line
  <2> QED BY <2>1, WriteEvents
<1>4. ASSUME NEW e \in Events, LogEvent(e) PROVE EventsInv'
  <2> DEFINE line == Line("data", None, e)
  <2>1. /\ Write(line, Pump) /\ line \in Lines /\ Pump \in Programs
        /\ line.kind = "data" /\ line.data = e
        /\ log # <<>> /\ emitted' = Append(emitted, e) /\ LastIs(PF_LOG_SUCCESS)
    BY <1>0, <1>4, ProgramLogAssumption DEF LogEvent, Running, Line, Lines
  <2> HIDE DEF line
  <2> QED BY <2>1, WriteEvents
<1>5. ASSUME Consume PROVE EventsInv'
  <2> DEFINE line == Line("consumed", Pump, None)
  <2>1. /\ Write(line, Pump) /\ line \in Lines /\ Pump \in Programs
        /\ line.kind = "consumed" /\ line.data = None
        /\ log # <<>> /\ emitted' = emitted
    BY <1>0, <1>5, ProgramLogAssumption DEF Consume, Running, Line, Lines
  <2> HIDE DEF line
  <2> QED BY <2>1, WriteEvents
<1>6. ASSUME Return PROVE EventsInv'
  <2> DEFINE line == Line("success", Top, None)
  <2>1. /\ Write(line, Top) /\ line \in Lines /\ Top \in Programs
        /\ line.kind = "success" /\ line.data = None
        /\ log # <<>> /\ emitted' = emitted
    BY <1>0, <1>6 DEF Return, TypeInv, Top, Line, Lines
  <2> HIDE DEF line
  <2> QED BY <2>1, WriteEvents
<1>7. ASSUME Truncate PROVE EventsInv'
  <2> DEFINE line == LOG_TRUNCATED
  <2>1. /\ Write(line, Top) /\ line \in Lines /\ Top \in Programs
        /\ line.kind = "truncated" /\ line.data = None
        /\ log # <<>> /\ emitted' = emitted
    BY <1>0, <1>7 DEF Truncate, TypeInv, Top, LOG_TRUNCATED, Line, Lines
  <2> HIDE DEF line
  <2> QED BY <2>1, WriteEvents
<1>8. ASSUME UNCHANGED vars PROVE EventsInv'
  <2>1. /\ log' = log /\ by' = by /\ stack' = stack /\ emitted' = emitted
        /\ LogData' = LogData /\ PumpData' = PumpData
    BY <1>8 DEF vars, LogData, PumpData
  <2>2. Picked(LogData, PumpData)' = Picked(LogData, PumpData)
    BY <2>1 DEF Picked, PickedUpTo
  <2> QED
    BY <2>1, <2>2 DEF EventsInv, StartInv, DataByInv, QuietInv, EmittedInv,
      PF_LOG_SUCCESS
<1> QED
  BY <1>1, <1>2, <1>3, <1>4, <1>5, <1>6, <1>7, <1>8 DEF Next

-----------------------------------------------------------------------------
(* The rows that dealLogs makes of pump's events.                           *)

\* A row of pump is the last that is picked, another is passed over.
LEMMA OwnAppend ==
  ASSUME NEW T, NEW rows \in Seq(T), NEW r \in T
  PROVE  OwnRows(Append(rows, r)) =
           IF Own(r) THEN Append(OwnRows(rows), r) ELSE OwnRows(rows)
<1> DEFINE t == Append(rows, r)
           I == {k \in 1 .. Len(rows) : Own(rows[k])}
           J == {k \in 1 .. Len(t) : Own(t[k])}
<1>1. /\ \A k \in 1 .. Len(rows) : k \in J <=> k \in I
      /\ Len(rows) + 1 \in J <=> Own(r)
  OBVIOUS
<1>2. OwnRows(rows) = Picked(rows, I) /\ OwnRows(t) = Picked(t, J)
  BY DEF OwnRows
<1> HIDE DEF I, J
<1>3. Picked(Append(rows, r), J) =
        IF Len(rows) + 1 \in J THEN Append(Picked(rows, I), r) ELSE Picked(rows, I)
  BY <1>1, PickedAppend
<1> QED BY <1>1, <1>2, <1>3

\* The events of a kind are events.
LEMMA EventsTyped ==
  ASSUME NEW s \in Seq(Events), NEW disc
  PROVE  EventsOf(s, disc) \in Seq(Events)
BY PickedSteps DEF EventsOf, Picked

\* One more event is one more of its kind.
LEMMA EventsAppend ==
  ASSUME NEW s \in Seq(Events), NEW e \in Events, NEW disc
  PROVE  /\ EventsOf(s, disc) \in Seq(Events)
         /\ EventsOf(Append(s, e), disc) =
              IF e.disc = disc THEN Append(EventsOf(s, disc), e) ELSE EventsOf(s, disc)
<1> DEFINE t == Append(s, e)
           I == {k \in 1 .. Len(s) : s[k].disc = disc}
           J == {k \in 1 .. Len(t) : t[k].disc = disc}
<1>1. /\ \A k \in 1 .. Len(s) : k \in J <=> k \in I
      /\ Len(s) + 1 \in J <=> e.disc = disc
  OBVIOUS
<1>2. EventsOf(s, disc) = Picked(s, I) /\ EventsOf(t, disc) = Picked(t, J)
  BY DEF EventsOf
<1> HIDE DEF I, J
<1>3. /\ Picked(s, I) \in Seq(Events)
      /\ Picked(Append(s, e), J) =
           IF Len(s) + 1 \in J THEN Append(Picked(s, I), e) ELSE Picked(s, I)
  BY <1>1, PickedAppend
<1> QED BY <1>1, <1>2, <1>3

\* One more event is one more row, if it is a trade.
LEMMA TradeRowsAppend ==
  ASSUME NEW s \in Seq(Events), NEW e \in Events
  PROVE  TradeRowsOf(Append(s, e)) =
           IF e.disc = "tradeEvent" THEN Append(TradeRowsOf(s), TradeRow(e))
           ELSE TradeRowsOf(s)
<1> DEFINE t == EventsOf(s, "tradeEvent")
           u == EventsOf(Append(s, e), "tradeEvent")
<1>1. t \in Seq(Events) /\ u = IF e.disc = "tradeEvent" THEN Append(t, e) ELSE t
  BY EventsAppend
<1>2. /\ TradeRowsOf(s) = [k \in 1 .. Len(t) |-> TradeRow(t[k])]
      /\ TradeRowsOf(Append(s, e)) = [k \in 1 .. Len(u) |-> TradeRow(u[k])]
  BY DEF TradeRowsOf
<1> HIDE DEF t, u
<1>3. Append([k \in 1 .. Len(t) |-> TradeRow(t[k])], TradeRow(e))
        = [k \in 1 .. Len(Append(t, e)) |-> TradeRow(Append(t, e)[k])]
  BY <1>1
<1> QED BY <1>1, <1>2, <1>3

\* One more event is one more row, if it is a creation.
LEMMA CreateRowsAppend ==
  ASSUME NEW s \in Seq(Events), NEW e \in Events
  PROVE  CreateRowsOf(Append(s, e)) =
           IF e.disc = "createEvent" THEN Append(CreateRowsOf(s), CreateRow(e))
           ELSE CreateRowsOf(s)
<1> DEFINE t == EventsOf(s, "createEvent")
           u == EventsOf(Append(s, e), "createEvent")
<1>1. t \in Seq(Events) /\ u = IF e.disc = "createEvent" THEN Append(t, e) ELSE t
  BY EventsAppend
<1>2. /\ CreateRowsOf(s) = [k \in 1 .. Len(t) |-> CreateRow(t[k])]
      /\ CreateRowsOf(Append(s, e)) = [k \in 1 .. Len(u) |-> CreateRow(u[k])]
  BY DEF CreateRowsOf
<1> HIDE DEF t, u
<1>3. Append([k \in 1 .. Len(t) |-> CreateRow(t[k])], CreateRow(e))
        = [k \in 1 .. Len(Append(t, e)) |-> CreateRow(Append(t, e)[k])]
  BY <1>1
<1> QED BY <1>1, <1>2, <1>3

\* No rows come of no events.
LEMMA NoRows ==
  /\ OwnRows(<<>>) = <<>>
  /\ TradeRowsOf(<<>>) = <<>>
  /\ CreateRowsOf(<<>>) = <<>>
BY PickedEmpty DEF OwnRows, TradeRowsOf, CreateRowsOf, EventsOf

\* What handleLogStr does to a bucket.
LEMMA HandleRows ==
  ASSUME NEW b \in BucketSet, NEW p \in Payloads, ~b.thrown
  PROVE  /\ HandleLogStr(b, p).thrown <=> Malformed(p)
         /\ ~Malformed(p) =>
              /\ HandleLogStr(b, p).pfTradeList =
                   IF p.disc = "tradeEvent" THEN Append(b.pfTradeList, TradeRow(p))
                   ELSE b.pfTradeList
              /\ HandleLogStr(b, p).pfCreateList =
                   IF p.disc = "createEvent" THEN Append(b.pfCreateList, CreateRow(p))
                   ELSE b.pfCreateList
<1> b = [pfTradeList |-> b.pfTradeList, pfCreateList |-> b.pfCreateList, thrown |-> b.thrown]
  BY DEF BucketSet
<1> QED BY DEF HandleLogStr, BucketSet

\* dealLogs takes every event of pump.
LEMMA PumpIsTaken ==
  ASSUME TypeInv, EventsInv
  PROVE  /\ log \in DataLogs
         /\ \A i \in PumpData : IsTaken(log, i) /\ log[i].data \in Events
         /\ \A i \in (1 .. Len(log)) \ PumpData :
              IsTaken(log, i) => by[i] # Pump /\ log[i].data \in Foreign
<1>1. /\ log \in Seq(Lines)
      /\ log # <<>> => log[1].kind = "invoke"
      /\ \A i \in 1 .. Len(log) :
           log[i].kind = "data" =>
             IF by[i] = Pump
             THEN i > 1 /\ log[i - 1] = PF_LOG_SUCCESS /\ log[i].data \in Events
             ELSE log[i].data \in Foreign
  BY DEF TypeInv, EventsInv, StartInv, DataByInv
<1>2. log \in DataLogs
  BY <1>1 DEF DataLogs, Payloads
<1>3. ASSUME NEW i \in PumpData PROVE IsTaken(log, i) /\ log[i].data \in Events
  <2>1. /\ i \in 1 .. Len(log) /\ log[i].kind = "data"
        /\ i > 1 /\ log[i - 1] = PF_LOG_SUCCESS /\ log[i].data \in Events
    BY <1>1, <1>3 DEF PumpData
  <2>2. log[i - 1].kind = "success" /\ log[1].kind = "invoke"
    BY <1>1, <2>1 DEF PF_LOG_SUCCESS
  <2>3. i - 1 # 1
    BY <2>2
  <2>4. Len(log) >= 3 /\ i \in 2 .. Len(log)
    BY <1>1, <2>1, <2>3
  <2> QED BY <2>1, <2>4 DEF IsTaken, Adjacent
<1>4. ASSUME NEW i \in (1 .. Len(log)) \ PumpData, IsTaken(log, i)
      PROVE  by[i] # Pump /\ log[i].data \in Foreign
  BY <1>1, <1>4 DEF PumpData, IsTaken
<1> QED BY <1>2, <1>3, <1>4

\* The events of pump up to each line.
EventsUpTo == PickedUpTo(LogData, PumpData)

\* A data line of pump adds its event.
LEMMA EventsUpToSteps ==
  ASSUME TypeInv
  PROVE  /\ EventsUpTo[0] = <<>>
         /\ \A i \in 1 .. Len(log) :
              EventsUpTo[i] =
                IF i \in PumpData THEN Append(EventsUpTo[i - 1], log[i].data)
                ELSE EventsUpTo[i - 1]
<1> DEFINE n == Len(log)
           T == Events \cup Foreign \cup {None}
           s == LogData
           I == PumpData
<1>1. n \in Nat
  BY DEF TypeInv
<1>2. \A i \in 1 .. n : log[i].data \in T
  <2>1. \A l \in Lines : l.data \in T
    BY DEF Lines
  <2>2. \A i \in 1 .. n : log[i] \in Lines
    BY DEF TypeInv
  <2> QED BY <2>1, <2>2
<1>3. s \in Seq(T) /\ Len(s) = n /\ \A i \in 1 .. n : s[i] = log[i].data
  BY <1>1, <1>2 DEF LogData
<1> HIDE DEF T, s, I
<1>4. /\ PickedUpTo(s, I)[0] = <<>>
      /\ \A i \in 1 .. Len(s) :
           PickedUpTo(s, I)[i] =
             IF i \in I THEN Append(PickedUpTo(s, I)[i - 1], s[i])
             ELSE PickedUpTo(s, I)[i - 1]
  BY ONLY <1>3, PickedSteps
<1> QED BY <1>3, <1>4 DEF s, I, EventsUpTo

\* The rows of a bucket that are pump's are the rows of the events in s.
Matches(b, s) ==
  /\ OwnRows(b.pfTradeList) = TradeRowsOf(s)
  /\ OwnRows(b.pfCreateList) = CreateRowsOf(s)

\* The rows of a payload of pump are pump's, those of another's are not.
LEMMA OwnPayload ==
  ASSUME TypeInv, EventsInv
  PROVE  /\ \A i \in PumpData : Own(TradeRow(log[i].data)) /\ Own(CreateRow(log[i].data))
         /\ \A d \in Foreign : ~Own(TradeRow(d)) /\ ~Own(CreateRow(d))
<1>1. \A p : TradeRow(p).id = p.id /\ CreateRow(p).id = p.id
  BY DEF TradeRow, CreateRow
<1>2. ASSUME NEW i \in PumpData
      PROVE  Own(TradeRow(log[i].data)) /\ Own(CreateRow(log[i].data))
  <2>1. PICK k \in 1 .. Len(emitted) : emitted[k] = log[i].data
    BY DEF EventsInv, EmittedInv
  <2> QED BY <1>1, <2>1 DEF Own
<1>3. ASSUME NEW d \in Foreign PROVE ~Own(TradeRow(d)) /\ ~Own(CreateRow(d))
  <2>1. \A k \in 1 .. Len(emitted) : emitted[k].id # d.id
    BY PayloadAssumption DEF EventsInv, EmittedInv
  <2> QED BY <1>1, <2>1 DEF Own
<1> QED BY <1>2, <1>3

\* The bucket has matched the events of pump after each line, unless the parser
\* has failed, which it does on lines of others only.
LEMMA BucketMatches ==
  ASSUME TypeInv, EventsInv
  PROVE  \A i \in 0 .. Len(log) :
           /\ EventsUpTo[i] \in Seq(Events)
           /\ IF Buckets(log)[i].thrown
              THEN \E j \in 1 .. Len(log) :
                     by[j] # Pump /\ IsTaken(log, j) /\ Malformed(log[j].data)
              ELSE Matches(Buckets(log)[i], EventsUpTo[i])
<1> DEFINE n == Len(log)
           B == Buckets(log)
           P == EventsUpTo
           Failed == \E j \in 1 .. n :
                       by[j] # Pump /\ IsTaken(log, j) /\ Malformed(log[j].data)
           S == {i \in 0 .. n : /\ P[i] \in Seq(Events)
                                /\ IF B[i].thrown THEN Failed ELSE Matches(B[i], P[i])}
<1>1. /\ log \in DataLogs
      /\ \A i \in PumpData : IsTaken(log, i) /\ log[i].data \in Events
      /\ \A i \in (1 .. n) \ PumpData :
           IsTaken(log, i) => by[i] # Pump /\ log[i].data \in Foreign
  BY PumpIsTaken
<1>2. n \in Nat
  BY DEF TypeInv
<1>3. /\ B \in [0 .. n -> BucketSet]
      /\ B[0] = EmptyBucket
      /\ \A i \in 1 .. n :
           B[i] = IF B[i - 1].thrown \/ ~IsTaken(log, i) THEN B[i - 1]
                  ELSE HandleLogStr(B[i - 1], log[i].data)
  BY <1>1, BucketSteps
<1>4. /\ P[0] = <<>>
      /\ \A i \in 1 .. n :
           P[i] = IF i \in PumpData THEN Append(P[i - 1], log[i].data) ELSE P[i - 1]
  BY EventsUpToSteps
<1>5. 0 \in S
  <2>1. Matches(B[0], <<>>) /\ ~B[0].thrown
    BY <1>3, NoRows DEF Matches, EmptyBucket
  <2>2. <<>> \in Seq(Events) /\ 0 \in 0 .. n
    BY <1>2
  <2> HIDE DEF n, B, P
  <2> QED BY <1>4, <2>1, <2>2
<1> HIDE DEF n, B, P, Failed
<1>6. ASSUME NEW i \in 0 .. n, i + 1 \in 0 .. n, i \in S PROVE i + 1 \in S
  <2> DEFINE d == log[i + 1].data
  <2>1. i + 1 \in 1 .. n /\ (i + 1) - 1 = i
    BY <1>2, <1>6
  <2>2. P[i] \in Seq(Events) /\ IF B[i].thrown THEN Failed ELSE Matches(B[i], P[i])
    BY <1>6
  <2>3. /\ B[i] \in BucketSet
        /\ B[i + 1] = IF B[i].thrown \/ ~IsTaken(log, i + 1) THEN B[i]
                      ELSE HandleLogStr(B[i], d)
    BY <1>3, <1>6, <2>1
  <2>4. P[i + 1] = IF i + 1 \in PumpData THEN Append(P[i], d) ELSE P[i]
    BY <1>4, <2>1
  <2>5. i + 1 \in PumpData => IsTaken(log, i + 1) /\ d \in Events
    BY <1>1
  <2>6. i + 1 \notin PumpData /\ IsTaken(log, i + 1) => by[i + 1] # Pump /\ d \in Foreign
    BY <1>1, <2>1
  <2>7. P[i + 1] \in Seq(Events)
    BY <2>2, <2>4, <2>5
  <2> HIDE DEF d
  <2>8. CASE B[i].thrown
    BY <1>6, <2>2, <2>3, <2>7, <2>8
  <2>9. CASE ~B[i].thrown /\ ~IsTaken(log, i + 1)
    BY <1>6, <2>2, <2>3, <2>4, <2>5, <2>9
  <2>10. CASE ~B[i].thrown /\ i + 1 \in PumpData
    <3>1. d \in Payloads /\ ~Malformed(d) /\ d \in Events
      BY <2>5, <2>10, PayloadAssumption DEF Payloads
    <3>2. B[i + 1] = HandleLogStr(B[i], d) /\ P[i + 1] = Append(P[i], d)
      BY <2>3, <2>4, <2>5, <2>10
    <3>3. /\ ~B[i + 1].thrown
          /\ B[i + 1].pfTradeList = IF d.disc = "tradeEvent"
               THEN Append(B[i].pfTradeList, TradeRow(d)) ELSE B[i].pfTradeList
          /\ B[i + 1].pfCreateList = IF d.disc = "createEvent"
               THEN Append(B[i].pfCreateList, CreateRow(d)) ELSE B[i].pfCreateList
      BY <2>3, <2>10, <3>1, <3>2, HandleRows
    <3>4. Own(TradeRow(d)) /\ Own(CreateRow(d))
      BY <2>10, OwnPayload DEF d
    <3>5. /\ B[i].pfTradeList \in Seq(TradeRows) /\ TradeRow(d) \in TradeRows
          /\ B[i].pfCreateList \in Seq(CreateRows) /\ CreateRow(d) \in CreateRows
      BY <2>3, <3>1 DEF BucketSet, TradeRows, CreateRows
    <3>6. /\ OwnRows(Append(B[i].pfTradeList, TradeRow(d)))
               = Append(OwnRows(B[i].pfTradeList), TradeRow(d))
          /\ OwnRows(Append(B[i].pfCreateList, CreateRow(d)))
               = Append(OwnRows(B[i].pfCreateList), CreateRow(d))
      BY <3>4, <3>5, OwnAppend
    <3>7. /\ TradeRowsOf(Append(P[i], d)) = IF d.disc = "tradeEvent"
               THEN Append(TradeRowsOf(P[i]), TradeRow(d)) ELSE TradeRowsOf(P[i])
          /\ CreateRowsOf(Append(P[i], d)) = IF d.disc = "createEvent"
               THEN Append(CreateRowsOf(P[i]), CreateRow(d)) ELSE CreateRowsOf(P[i])
      BY <2>2, <3>1, TradeRowsAppend, CreateRowsAppend
    <3>8. Matches(B[i], P[i])
      BY <2>2, <2>10
    <3>9. Matches(B[i + 1], P[i + 1])
      BY <3>2, <3>3, <3>6, <3>7, <3>8 DEF Matches
    <3> QED BY <1>6, <2>7, <3>3, <3>9
  <2>11. CASE ~B[i].thrown /\ i + 1 \notin PumpData /\ IsTaken(log, i + 1)
    <3>1. d \in Payloads /\ d \in Foreign /\ by[i + 1] # Pump
      BY <2>6, <2>11 DEF Payloads
    <3>2. B[i + 1] = HandleLogStr(B[i], d) /\ P[i + 1] = P[i]
      BY <2>3, <2>4, <2>11
    <3>3. CASE Malformed(d)
      <4>1. Failed
        BY <2>1, <2>11, <3>1, <3>3 DEF Failed, d
      <4>2. B[i + 1].thrown
        BY <2>3, <2>11, <3>1, <3>2, <3>3, HandleRows
      <4> QED BY <1>6, <2>7, <4>1, <4>2
    <3>4. CASE ~Malformed(d)
      <4>1. /\ ~B[i + 1].thrown
            /\ B[i + 1].pfTradeList = IF d.disc = "tradeEvent"
                 THEN Append(B[i].pfTradeList, TradeRow(d)) ELSE B[i].pfTradeList
            /\ B[i + 1].pfCreateList = IF d.disc = "createEvent"
                 THEN Append(B[i].pfCreateList, CreateRow(d)) ELSE B[i].pfCreateList
        BY <2>3, <2>11, <3>1, <3>2, <3>4, HandleRows
      <4>2. ~Own(TradeRow(d)) /\ ~Own(CreateRow(d))
        BY <3>1, OwnPayload
      <4>3. /\ B[i].pfTradeList \in Seq(TradeRows) /\ TradeRow(d) \in TradeRows
            /\ B[i].pfCreateList \in Seq(CreateRows) /\ CreateRow(d) \in CreateRows
        BY <2>3, <3>1 DEF BucketSet, TradeRows, CreateRows
      <4>4. /\ OwnRows(Append(B[i].pfTradeList, TradeRow(d))) = OwnRows(B[i].pfTradeList)
            /\ OwnRows(Append(B[i].pfCreateList, CreateRow(d))) = OwnRows(B[i].pfCreateList)
        BY <4>2, <4>3, OwnAppend
      <4>5. Matches(B[i], P[i])
        BY <2>2, <2>11
      <4>6. Matches(B[i + 1], P[i + 1])
        BY <3>2, <4>1, <4>4, <4>5 DEF Matches
      <4> QED BY <1>6, <2>7, <4>1, <4>6
    <3> QED BY <3>3, <3>4
  <2> QED BY <2>8, <2>9, <2>10, <2>11
<1>7. \A i \in 0 .. n : i \in S
  <2> HIDE DEF S
  <2> QED BY <1>2, <1>5, <1>6, UpTo
<1> QED BY <1>7 DEF n, B, P, Failed

\* For every set of programs and of payloads, every depth of calls and length of
\* logs: dealLogs makes a row of each trade and creation that pump logs, once and
\* in order, and fails on lines of others only.
THEOREM PumpEventsAreFound == Spec => []PumpEventsFound
<1>1. NearInv /\ EventsInv /\ [Next]_vars => (NearInv /\ EventsInv)'
  BY NearStep, EventsStep DEF NearInv
<1>2. NearInv /\ EventsInv => PumpEventsFound
  <2> SUFFICES ASSUME NearInv, EventsInv PROVE PumpEventsFound
    OBVIOUS
  <2>1. TypeInv /\ Len(log) \in 0 .. Len(log)
    BY DEF NearInv, TypeInv
  <2>2. emitted = EventsUpTo[Len(log)]
    BY <2>1 DEF EventsInv, EmittedInv, EventsUpTo, Picked, LogData, TypeInv
  <2> QED
    BY <2>1, <2>2, BucketMatches DEF PumpEventsFound, DealLogs, Matches
<1>3. Spec => [](NearInv /\ EventsInv)
  BY InitNear, InitEvents, <1>1, PTL DEF Spec
<1> QED
  BY <1>2, <1>3, PTL

-----------------------------------------------------------------------------
(* The bytes that the layouts read.                                         *)

\* A field begins where the one before it ends.
LEMMA OffsetSteps ==
  ASSUME NEW layout,
         Len(layout) \in Nat,
         \A i \in 1 .. Len(layout) : layout[i].span \in Nat
  PROVE  /\ Offset(layout, 1) = 0
         /\ \A k \in 1 .. Len(layout) :
              Offset(layout, k + 1) = Offset(layout, k) + layout[k].span
<1> DEFINE n == Len(layout)
           g == [x \in (0 .. n) \X Nat |->
                   IF x[1] \in 1 .. n THEN x[2] + layout[x[1]].span ELSE x[2]]
           Step(f) == [i \in 0 .. n |-> IF i = 0 THEN 0 ELSE f[i - 1] + layout[i].span]
           p == CHOOSE f : f = Step(f)
<1>1. n \in Nat
  OBVIOUS
<1>2. \A i \in 1 .. n : layout[i].span \in Nat
  OBVIOUS
<1>3. g \in [(0 .. n) \X Nat -> Nat]
  <2> HIDE DEF n
  <2> QED BY <1>2
<1>4. PICK f : Follows(f, n, Nat, 0, g)
  <2> HIDE DEF g, n
  <2> QED BY <1>1, <1>3, RecursionExists
<1>5. f = Step(f)
  <2> HIDE DEF n
  <2> f \in [0 .. n -> Nat]
    BY <1>4 DEF Follows
  <2>1. ASSUME NEW i \in 0 .. n PROVE f[i] = Step(f)[i]
    <3>1. CASE i = 0
      BY <1>4, <3>1 DEF Follows
    <3>2. CASE i # 0
      <4>1. i \in 1 .. n /\ i - 1 \in 0 .. n
        BY <1>1, <3>2
      <4>2. <<i, f[i - 1]>> \in (0 .. n) \X Nat
        BY <4>1
      <4>3. f[i] = g[<<i, f[i - 1]>>]
        BY <1>4, <4>1 DEF Follows
      <4> QED BY <3>2, <4>1, <4>2, <4>3
    <3> QED BY <3>1, <3>2
  <2> QED BY <2>1
<1>6. p = Step(p)
  <2> HIDE DEF Step
  <2> QED BY <1>5
<1> HIDE DEF p
<1>7. \A i \in 0 .. n : p[i] = IF i = 0 THEN 0 ELSE p[i - 1] + layout[i].span
  <2>1. \A i \in 0 .. n : p[i] = Step(p)[i]
    <3> HIDE DEF Step
    <3> QED BY <1>6
  <2> QED BY <2>1
<1>8. \A k : Offset(layout, k) = p[k - 1]
  BY DEF Offset, p
<1> HIDE DEF n
<1>9. Offset(layout, 1) = 0
  BY <1>1, <1>7, <1>8
<1>10. ASSUME NEW k \in 1 .. n PROVE Offset(layout, k + 1) = Offset(layout, k) + layout[k].span
  <2>1. k \in 0 .. n /\ k # 0 /\ (k + 1) - 1 = k
    BY <1>1
  <2> QED BY <1>7, <1>8, <2>1
<1> QED BY <1>9, <1>10 DEF n

\* Where the fields of a trade begin in the IDL's layout.
LEMMA TradeOffsets ==
  /\ Offset(tradeEvent, 1) = 0  /\ Offset(tradeEvent, 2) = 32 /\ Offset(tradeEvent, 3) = 40
  /\ Offset(tradeEvent, 4) = 48 /\ Offset(tradeEvent, 5) = 49 /\ Offset(tradeEvent, 6) = 81
<1> DEFINE l == tradeEvent
<1>1. Len(l) = 8
  BY DEF tradeEvent
<1>2. /\ l[1].span = 32 /\ l[2].span = 8 /\ l[3].span = 8 /\ l[4].span = 1 /\ l[5].span = 32
      /\ l[6].span = 8 /\ l[7].span = 8 /\ l[8].span = 8
  BY DEF tradeEvent, pubkey, u64, i64, bool, Field
<1> HIDE DEF l
<1>3. Offset(l, 1) = 0 /\ \A k \in 1 .. 8 : Offset(l, k + 1) = Offset(l, k) + l[k].span
  <2>1. 1 .. 8 = {1, 2, 3, 4, 5, 6, 7, 8}
    OBVIOUS
  <2>2. \A k \in 1 .. 8 : l[k].span \in Nat
    BY <1>2, <2>1
  <2>3. Len(l) \in Nat /\ \A k \in 1 .. Len(l) : l[k].span \in Nat
    BY <1>1, <2>2
  <2>4. /\ Offset(l, 1) = 0
        /\ \A k \in 1 .. Len(l) : Offset(l, k + 1) = Offset(l, k) + l[k].span
    BY ONLY <2>3, OffsetSteps
  <2> QED BY <1>1, <2>4
<1> QED BY <1>2, <1>3 DEF l

\* The same of the struct in common.dto.ts.
LEMMA StructOffsets ==
  LET l == PfTradeEventLayout IN
  /\ Offset(l, 1) = 0  /\ Offset(l, 2) = 32 /\ Offset(l, 3) = 40  /\ Offset(l, 4) = 48
  /\ Offset(l, 5) = 49 /\ Offset(l, 6) = 81 /\ Offset(l, 7) = 89  /\ Offset(l, 8) = 97
  /\ Offset(l, 9) = 105 /\ Offset(l, 10) = 113 /\ Span(l) = 121
<1> DEFINE l == PfTradeEventLayout
<1>1. Len(l) = 10
  BY DEF PfTradeEventLayout
<1>2. /\ l[1].span = 32 /\ l[2].span = 8 /\ l[3].span = 8 /\ l[4].span = 1 /\ l[5].span = 32
      /\ l[6].span = 8 /\ l[7].span = 8 /\ l[8].span = 8 /\ l[9].span = 8 /\ l[10].span = 8
  BY DEF PfTradeEventLayout, BorshPublicKey, BorshUInt64LE, BorshInt64LE, BorshBoolean, Field
<1> HIDE DEF l
<1>3. Offset(l, 1) = 0 /\ \A k \in 1 .. 10 : Offset(l, k + 1) = Offset(l, k) + l[k].span
  <2>1. 1 .. 10 = {1, 2, 3, 4, 5, 6, 7, 8, 9, 10}
    OBVIOUS
  <2>2. \A k \in 1 .. 10 : l[k].span \in Nat
    BY <1>2, <2>1
  <2>3. Len(l) \in Nat /\ \A k \in 1 .. Len(l) : l[k].span \in Nat
    BY <1>1, <2>2
  <2>4. /\ Offset(l, 1) = 0
        /\ \A k \in 1 .. Len(l) : Offset(l, k + 1) = Offset(l, k) + l[k].span
    BY ONLY <2>3, OffsetSteps
  <2> QED BY <1>1, <2>4
<1>4. /\ Offset(l, 1) = 0  /\ Offset(l, 2) = 32 /\ Offset(l, 3) = 40  /\ Offset(l, 4) = 48
      /\ Offset(l, 5) = 49 /\ Offset(l, 6) = 81 /\ Offset(l, 7) = 89  /\ Offset(l, 8) = 97
      /\ Offset(l, 9) = 105 /\ Offset(l, 10) = 113 /\ Offset(l, 11) = 121
  BY <1>2, <1>3
<1> QED BY <1>1, <1>4 DEF l, Span

\* A field whose name is the kth of the layout is read from where the kth is.
LEMMA DecodeField ==
  ASSUME NEW layout, Len(layout) \in Nat, NEW k \in 1 .. Len(layout),
         \A i \in 1 .. Len(layout) : i # k => layout[i].name # layout[k].name
  PROVE  Decode(layout)[layout[k].name] = <<Offset(layout, k), layout[k].span>>
<1> DEFINE name == layout[k].name
           found == CHOOSE i \in 1 .. Len(layout) : layout[i].name = name
<1>1. name \in {layout[i].name : i \in 1 .. Len(layout)}
  OBVIOUS
<1>2. found = k
  OBVIOUS
<1> QED BY <1>1, <1>2 DEF Decode

\* The struct of common.dto.ts and the IDL read the fields of a row from the same
\* bytes.
LEMMA SameFields ==
  \A f \in {"mint", "solAmount", "tokenAmount", "isBuy", "user", "timestamp"} :
    Decode(PfTradeEventLayout)[f] = Decode(tradeEvent)[f]
<1> DEFINE l == PfTradeEventLayout
           m == tradeEvent
<1>1. /\ Len(l) = 10 /\ Len(m) = 8
      /\ 1 .. 10 = {1, 2, 3, 4, 5, 6, 7, 8, 9, 10}
      /\ 1 .. 8 = {1, 2, 3, 4, 5, 6, 7, 8}
      /\ 1 .. 6 = {1, 2, 3, 4, 5, 6}
  BY DEF PfTradeEventLayout, tradeEvent
<1>2. /\ l[1].name = "mint" /\ l[2].name = "solAmount" /\ l[3].name = "tokenAmount"
      /\ l[4].name = "isBuy" /\ l[5].name = "user" /\ l[6].name = "timestamp"
      /\ l[7].name = "virtualSolReserves" /\ l[8].name = "virtualTokenReserves"
      /\ l[9].name = "realSolReserves" /\ l[10].name = "realTokenReserves"
      /\ l[1].span = 32 /\ l[2].span = 8 /\ l[3].span = 8 /\ l[4].span = 1 /\ l[5].span = 32
      /\ l[6].span = 8
  BY DEF PfTradeEventLayout, BorshPublicKey, BorshUInt64LE, BorshInt64LE, BorshBoolean, Field
<1>3. /\ m[1].name = "mint" /\ m[2].name = "solAmount" /\ m[3].name = "tokenAmount"
      /\ m[4].name = "isBuy" /\ m[5].name = "user" /\ m[6].name = "timestamp"
      /\ m[7].name = "virtualSolReserves" /\ m[8].name = "virtualTokenReserves"
      /\ m[1].span = 32 /\ m[2].span = 8 /\ m[3].span = 8 /\ m[4].span = 1 /\ m[5].span = 32
      /\ m[6].span = 8
  BY DEF tradeEvent, pubkey, u64, i64, bool, Field
<1>4. \A k \in 1 .. 6 : Offset(l, k) = Offset(m, k)
  BY <1>1, TradeOffsets, StructOffsets
<1> HIDE DEF l, m
<1>5. ASSUME NEW k \in 1 .. 6
      PROVE  /\ Decode(l)[l[k].name] = <<Offset(l, k), l[k].span>>
             /\ Decode(m)[m[k].name] = <<Offset(m, k), m[k].span>>
  <2>1. k \in 1 .. Len(l) /\ k \in 1 .. Len(m) /\ Len(l) \in Nat /\ Len(m) \in Nat
    BY <1>1
  <2>2. \A i \in 1 .. Len(l) : i # k => l[i].name # l[k].name
    BY <1>1, <1>2
  <2>3. \A i \in 1 .. Len(m) : i # k => m[i].name # m[k].name
    BY <1>1, <1>3
  <2>4. Decode(l)[l[k].name] = <<Offset(l, k), l[k].span>>
    BY ONLY <2>1, <2>2, DecodeField
  <2>5. Decode(m)[m[k].name] = <<Offset(m, k), m[k].span>>
    BY ONLY <2>1, <2>3, DecodeField
  <2> QED BY <2>4, <2>5
<1>6. ASSUME NEW k \in 1 .. 6 PROVE Decode(l)[l[k].name] = Decode(m)[l[k].name]
  <2>1. l[k].name = m[k].name /\ l[k].span = m[k].span
    BY <1>1, <1>2, <1>3
  <2> QED BY <1>4, <1>5, <2>1
<1>7. ASSUME NEW f \in {"mint", "solAmount", "tokenAmount", "isBuy", "user", "timestamp"}
      PROVE  \E k \in 1 .. 6 : l[k].name = f
  BY <1>1, <1>2
<1> QED BY <1>6, <1>7 DEF l, m

\* The struct can be read from a payload of its length, and that is the length
\* which parseLogs looks for.
LEMMA TradeLength ==
  /\ ~Throws(PfTradeEventLayout, Span(PfTradeEventLayout))
  /\ PREFIX_OF_DATA_Length + Base64Length(DiscriminatorLength + Span(PfTradeEventLayout))
       = PF_LOG_TRADE_TOTAL_LENGTH
<1> DEFINE l == PfTradeEventLayout
<1>1. Len(l) = 10 /\ 1 .. 10 = {1, 2, 3, 4, 5, 6, 7, 8, 9, 10}
  BY DEF PfTradeEventLayout
<1>2. /\ l[1].span = 32 /\ l[2].span = 8 /\ l[3].span = 8 /\ l[4].span = 1 /\ l[5].span = 32
      /\ l[6].span = 8 /\ l[7].span = 8 /\ l[8].span = 8 /\ l[9].span = 8 /\ l[10].span = 8
  BY DEF PfTradeEventLayout, BorshPublicKey, BorshUInt64LE, BorshInt64LE, BorshBoolean, Field
<1>3. /\ Offset(l, 1) = 0  /\ Offset(l, 2) = 32 /\ Offset(l, 3) = 40  /\ Offset(l, 4) = 48
      /\ Offset(l, 5) = 49 /\ Offset(l, 6) = 81 /\ Offset(l, 7) = 89  /\ Offset(l, 8) = 97
      /\ Offset(l, 9) = 105 /\ Offset(l, 10) = 113 /\ Span(l) = 121
  BY StructOffsets
<1> HIDE DEF l
<1>4. \A k \in 1 .. Len(l) : ~(Offset(l, k) + l[k].span > Span(l))
  BY <1>1, <1>2, <1>3
<1>5. EncodedLength(8 + Span(l)) = Base64Length(8 + Span(l))
  BY <1>3, EncodedLengthIsBase64Length
<1> QED
  BY <1>4, <1>5 DEF Throws, l, DiscriminatorLength, PF_LOG_TRADE_TOTAL_LENGTH,
    PF_LOG_TRADE_DATA_ENCODED_LENGTH, PF_LOG_TRADE_DATA_DECODED_LENGTH

-----------------------------------------------------------------------------
(* The trade that parseLogs finds.                                          *)

\* The data lines of pump's trades.
PumpTrades == {i \in PumpData : log[i].data.disc = "tradeEvent"}

\* A set of numbers that is not empty has a least one.
LEMMA LeastElement ==
  ASSUME NEW S, S \subseteq Nat, S # {}
  PROVE  \E m \in S : \A k \in S : m <= k
<1> DEFINE L == {ss \in Nat \X Nat : ss[1] < ss[2]}
<1>1. IsWellFoundedOn(L, Nat)
  BY NatLessThanWellFounded DEF OpToRel
<1>2. PICK m \in S : \A k \in S : ~(<<k, m>> \in L)
  <2> HIDE DEF L
  <2> QED BY <1>1, WFMin
<1>3. ASSUME NEW k \in S PROVE m <= k
  <2>1. ~(<<k, m>> \in L)
    BY <1>2
  <2> QED BY <2>1
<1> QED BY <1>3

\* The events begin with the trade of the first such line.
LEMMA FirstTrade ==
  ASSUME TypeInv, EventsInv
  PROVE  /\ PumpTrades = {} => EventsOf(emitted, "tradeEvent") = <<>>
         /\ \A m \in PumpTrades :
              (\A k \in PumpTrades : m <= k) =>
                /\ EventsOf(emitted, "tradeEvent") # <<>>
                /\ EventsOf(emitted, "tradeEvent")[1] = log[m].data
<1> DEFINE n == Len(log)
           P == EventsUpTo
           t(i) == EventsOf(P[i], "tradeEvent")
<1>1. n \in Nat /\ PumpTrades \subseteq PumpData /\ PumpData \subseteq 1 .. n
  BY DEF TypeInv, PumpTrades, PumpData
<1>2. /\ P[0] = <<>>
      /\ \A i \in 1 .. n :
           P[i] = IF i \in PumpData THEN Append(P[i - 1], log[i].data) ELSE P[i - 1]
  BY EventsUpToSteps
<1>3. \A i \in 0 .. n : P[i] \in Seq(Events)
  BY BucketMatches
<1>4. \A i \in PumpData : log[i].data \in Events
  BY PumpIsTaken
<1>5. t(0) = <<>>
  BY <1>2, PickedEmpty DEF EventsOf
<1>6. emitted = P[n]
  BY <1>1 DEF EventsInv, EmittedInv, EventsUpTo, Picked, LogData, TypeInv
<1> HIDE DEF n, P
<1>7. ASSUME NEW i \in 0 .. n, i + 1 \in 0 .. n
      PROVE  t(i + 1) = IF i + 1 \in PumpTrades THEN Append(t(i), log[i + 1].data) ELSE t(i)
  <2> DEFINE d == log[i + 1].data
  <2>1. /\ i + 1 \in 1 .. n /\ (i + 1) - 1 = i /\ P[i] \in Seq(Events)
        /\ i + 1 \in PumpTrades <=> i + 1 \in PumpData /\ d.disc = "tradeEvent"
    BY <1>1, <1>3, <1>7 DEF PumpTrades
  <2>2. P[i + 1] = IF i + 1 \in PumpData THEN Append(P[i], d) ELSE P[i]
    BY <1>2, <2>1
  <2>3. CASE i + 1 \in PumpData
    <3>1. d \in Events
      BY <1>4, <2>3
    <3> HIDE DEF d
    <3>2. EventsOf(Append(P[i], d), "tradeEvent")
            = IF d.disc = "tradeEvent" THEN Append(t(i), d) ELSE t(i)
      BY <2>1, <3>1, EventsAppend
    <3> QED BY <2>1, <2>2, <2>3, <3>2 DEF d
  <2>4. CASE i + 1 \notin PumpData
    BY <2>1, <2>2, <2>4
  <2> QED BY <2>3, <2>4
<1>8. \A i \in 0 .. n : t(i) \in Seq(Events)
  BY <1>3, <1>4, EventsTyped
<1>9. ASSUME NEW m, m \in PumpTrades \/ (PumpTrades = {} /\ m = n + 1),
             \A k \in PumpTrades : m <= k
      PROVE  \A i \in 0 .. n :
               IF m <= i THEN t(i) # <<>> /\ t(i)[1] = log[m].data ELSE t(i) = <<>>
  <2> DEFINE Begins(i) == IF m <= i THEN t(i) # <<>> /\ t(i)[1] = log[m].data
                          ELSE t(i) = <<>>
             S == {i \in 0 .. n : Begins(i)}
  <2>1. m \in 1 .. n + 1
    <3>1. CASE m \in PumpTrades
      BY <1>1, <3>1
    <3>2. CASE m = n + 1
      BY <1>1, <3>2
    <3> QED BY <1>9, <3>1, <3>2
  <2> HIDE DEF t
  <2>2. 0 \in S
    BY <1>1, <1>5, <2>1
  <2>3. ASSUME NEW i \in 0 .. n, i + 1 \in 0 .. n, i \in S PROVE i + 1 \in S
    <3>1. Begins(i) /\ t(i) \in Seq(Events)
      BY <1>8, <2>3
    <3>2. t(i + 1) = IF i + 1 \in PumpTrades THEN Append(t(i), log[i + 1].data) ELSE t(i)
      BY <1>7, <2>3
    <3>3. CASE i + 1 = m
      <4>1. m \in PumpTrades /\ ~(m <= i) /\ m <= i + 1
        BY <1>1, <1>9, <2>1, <2>3, <3>3
      <4>2. t(i) = <<>> /\ t(i + 1) = Append(t(i), log[m].data)
        BY <3>1, <3>2, <3>3, <4>1
      <4>3. t(i + 1) # <<>> /\ t(i + 1)[1] = log[m].data
        BY <4>2
      <4> QED BY <2>3, <4>1, <4>3
    <3>4. CASE i + 1 < m
      <4>1. i + 1 \notin PumpTrades /\ ~(m <= i) /\ ~(m <= i + 1)
        BY <1>9, <2>1, <2>3, <3>4
      <4> QED BY <2>3, <3>1, <3>2, <4>1
    <3>5. CASE m < i + 1
      <4>1. m <= i /\ m <= i + 1
        BY <2>1, <2>3, <3>5
      <4>2. t(i) # <<>> /\ t(i)[1] = log[m].data
        BY <3>1, <4>1
      <4>3. Len(t(i)) >= 1
        BY <3>1, <4>2
      <4>4. t(i + 1) # <<>> /\ t(i + 1)[1] = log[m].data
        <5>1. CASE i + 1 \in PumpTrades
          <6> DEFINE d == log[i + 1].data
          <6>1. d \in Events
            BY <1>1, <1>4, <5>1
          <6> HIDE DEF d
          <6>2. t(i + 1) = Append(t(i), d)
            BY <3>2, <5>1 DEF d
          <6> QED BY <3>1, <4>2, <4>3, <6>1, <6>2
        <5>2. CASE i + 1 \notin PumpTrades
          BY <3>2, <4>2, <5>2
        <5> QED BY <5>1, <5>2
      <4> QED BY <2>3, <4>1, <4>4
    <3> QED BY <2>1, <2>3, <3>3, <3>4, <3>5
  <2>4. \A i \in 0 .. n : i \in S
    <3> HIDE DEF S
    <3> QED BY <1>1, <2>2, <2>3, UpTo
  <2> QED BY <2>4
<1>10. n \in 0 .. n /\ ~(n + 1 <= n)
  BY <1>1
<1>11. PumpTrades = {} => t(n) = <<>>
  <2> HIDE DEF t
  <2> QED BY <1>9, <1>10
<1>12. ASSUME NEW m \in PumpTrades, \A k \in PumpTrades : m <= k
       PROVE  t(n) # <<>> /\ t(n)[1] = log[m].data
  <2>1. m <= n
    BY <1>1
  <2> HIDE DEF t
  <2> QED BY <1>9, <1>10, <1>12, <2>1
<1> QED BY <1>6, <1>11, <1>12

\* The lines that parseLogs takes are those of pump's trades, unless another line
\* looks like one.
LEMMA CandidatesArePump ==
  ASSUME TypeInv, EventsInv, ~Disguised
  PROVE  Candidates(log) = PumpTrades
<1>1. ASSUME NEW i \in PumpTrades PROVE i \in Candidates(log)
  <2> DEFINE d == log[i].data
  <2>1. i \in PumpData /\ d.disc = "tradeEvent"
    BY DEF PumpTrades
  <2>2. IsTaken(log, i) /\ d \in Events
    BY <2>1, PumpIsTaken
  <2>3. d # None /\ d.size = Span(PfTradeEventLayout)
    BY <2>1, <2>2, PayloadAssumption
  <2>4. LooksLikeTrade(log[i])
    BY <2>1, <2>3, TradeLength DEF LooksLikeTrade
  <2> QED BY <2>2, <2>4 DEF IsTaken, Candidates
<1>2. ASSUME NEW i \in Candidates(log) PROVE i \in PumpTrades
  <2>1. /\ i \in 1 .. Len(log) /\ by[i] = Pump /\ log[i].data # None
        /\ log[i].data.disc \in {"tradeEvent", "near"}
    BY DEF Candidates, Disguised, LooksLikeTrade, TypeInv
  <2>2. log[i].kind = "data"
    BY <2>1 DEF EventsInv, QuietInv
  <2>3. i \in PumpData
    BY <2>1, <2>2 DEF PumpData
  <2>4. log[i].data.disc \in DOMAIN Layouts
    BY <2>3, PumpIsTaken, PayloadAssumption
  <2>5. log[i].data.disc = "tradeEvent"
    BY <2>1, <2>4 DEF Layouts
  <2> QED BY <2>3, <2>5 DEF PumpTrades
<1> QED BY <1>1, <1>2

\* For every set of programs and of payloads, every depth of calls and length of
\* logs: parseLogs finds the trade that dealLogs finds first and reads its fields
\* from the same bytes, unless a line of another program looks like a trade.
THEOREM ParsersAgree == Spec => []ParseLogsAgrees
<1>1. NearInv /\ EventsInv /\ [Next]_vars => (NearInv /\ EventsInv)'
  BY NearStep, EventsStep DEF NearInv
<1>2. ASSUME NearInv, EventsInv PROVE ParseLogsAgrees
  <2> SUFFICES ASSUME Over, ~Disguised, ~DealLogs(log).thrown
               PROVE  LET found == ParseLogs(log)
                          rows  == OwnRows(DealLogs(log).pfTradeList)
                      IN IF found = None
                         THEN rows = <<>>
                         ELSE /\ rows # <<>>
                              /\ found.id = rows[1].id
                              /\ found.fields["user"] = rows[1].userAdr
                              /\ \A f \in {"mint", "solAmount", "tokenAmount", "isBuy", "timestamp"} :
                                   found.fields[f] = rows[1][f]
    BY DEF ParseLogsAgrees
  <2> DEFINE found == ParseLogs(log)
             rows  == OwnRows(DealLogs(log).pfTradeList)
             t == EventsOf(emitted, "tradeEvent")
  <2>1. TypeInv /\ Len(log) \in Nat
    BY <1>2 DEF NearInv, TypeInv
  <2>2. emitted = EventsUpTo[Len(log)] /\ emitted \in Seq(Events)
    BY <1>2, <2>1 DEF EventsInv, EmittedInv, EventsUpTo, Picked, LogData, TypeInv
  <2>3. rows = TradeRowsOf(emitted)
    BY <1>2, <2>1, <2>2, BucketMatches DEF DealLogs, Matches
  <2>4. rows = [k \in 1 .. Len(t) |-> TradeRow(t[k])]
    BY <2>3 DEF TradeRowsOf
  <2>5. Candidates(log) = PumpTrades
    BY <1>2, <2>1, CandidatesArePump
  <2>6. t \in Seq(Events)
    BY <2>2, EventsTyped
  <2>7. CASE PumpTrades = {}
    <3>1. found = None
      BY <2>5, <2>7 DEF ParseLogs
    <3>2. t = <<>>
      BY <1>2, <2>1, <2>7, FirstTrade
    <3> QED BY <2>4, <3>1, <3>2
  <2>8. CASE PumpTrades # {}
    <3>1. PumpTrades \subseteq Nat
      BY <2>1 DEF PumpTrades, PumpData
    <3>2. \E m \in PumpTrades : \A k \in PumpTrades : m <= k
      BY <2>8, <3>1, LeastElement
    <3> DEFINE i == CHOOSE j \in PumpTrades : \A k \in PumpTrades : j <= k
    <3>3. i \in PumpTrades /\ \A k \in PumpTrades : i <= k
      BY <3>2
    <3> HIDE DEF i
    <3>4. /\ IsTaken(log, i) /\ log[i].data \in Events
          /\ log[i].data.disc = "tradeEvent"
      BY <1>2, <2>1, <3>3, PumpIsTaken DEF PumpTrades
    <3>5. log[i].data.size = Span(PfTradeEventLayout)
      BY <3>4, PayloadAssumption
    <3>6. Len(log) >= 3
      BY <3>4 DEF IsTaken
    <3>7. found = ParsedTrade(log[i].data) /\ found # None
      <4>1. found = ParsedTrade(log[i].data)
        BY <2>5, <2>8, <3>5, <3>6, TradeLength DEF ParseLogs, i
      <4>2. ParsedTrade(log[i].data) # None
        BY <3>4, PayloadAssumption
      <4> QED BY <4>1, <4>2
    <3>8. t # <<>> /\ t[1] = log[i].data
      BY <1>2, <2>1, <3>3, FirstTrade
    <3>9. rows # <<>> /\ rows[1] = TradeRow(log[i].data)
      BY <2>4, <2>6, <3>8
    <3> HIDE DEF found, rows, t
    <3>10. /\ found.id = rows[1].id
           /\ found.fields["user"] = rows[1].userAdr
           /\ \A f \in {"mint", "solAmount", "tokenAmount", "isBuy", "timestamp"} :
                found.fields[f] = rows[1][f]
      BY <3>7, <3>9, SameFields DEF TradeRow, ParsedTrade
    <3> QED BY <3>7, <3>9, <3>10 DEF found, rows
  <2> QED BY <2>7, <2>8
<1>3. Spec => [](NearInv /\ EventsInv)
  BY InitNear, InitEvents, <1>1, PTL DEF Spec
<1> QED
  BY <1>2, <1>3, PTL
=============================================================================
