----------------------------- MODULE ProgramLog -----------------------------
(***************************************************************************)
(* The log of a transaction as Solana writes it, and what the parsers make  *)
(* of it.  The runtime and the pump program are not part of the repository: *)
(* programs call each other, write text and data, and return; pump logs an  *)
(* event after a call to itself, as in the logs of parseTx2; a log that is  *)
(* too long is cut off.  Transactions that fail are not parsed and are left *)
(* out.                                                                     *)
(***************************************************************************)
EXTENDS EventParser

CONSTANTS
  Programs,    \* Pump and others
  Events,      \* the payloads that pump may log
  Foreign,     \* the payloads that others may log
  MaxDepth,    \* bound on nested calls
  MaxWritten,  \* bound on the lines of text and data of others
  MaxLines     \* bound on the lines of a log

ASSUME ProgramLogAssumption ==
  /\ Pump \in Programs
  /\ None \notin Programs
  /\ MaxDepth \in Nat
  /\ MaxWritten \in Nat
  /\ MaxLines \in Nat

\* Pump logs events that its IDL describes, a trade as long as the struct of
\* common.dto.ts; ids tell pump's payloads from those of others.
ASSUME PayloadAssumption ==
  /\ None \notin Events \cup {ParsedTrade(e) : e \in Events}
  /\ \A e \in Events : e.disc \in DOMAIN Layouts /\ ~Malformed(e)
  /\ \A e \in Events : e.disc = "tradeEvent" => e.size = Span(PfTradeEventLayout)
  /\ \A e \in Events, d \in Foreign : e.id # d.id

VARIABLES
  stack,    \* the programs that run, the innermost last
  log,      \* the lines
  by,       \* history: the program that was running when each line was written
  callers,  \* history: the programs that called pump
  emitted   \* history: the events pump logged, in their order

vars == <<stack, log, by, callers, emitted>>

Line(kind, prog, data) == [kind |-> kind, prog |-> prog, data |-> data]

Init ==
  /\ stack = <<>>
  /\ log = <<>>
  /\ by = <<>>
  /\ callers = {}
  /\ emitted = <<>>

Top == stack[Len(stack)]

LastIs(line) == log # <<>> /\ log[Len(log)] = line

\* "Log truncated"
LOG_TRUNCATED == Line("truncated", None, None)
Truncated == LastIs(LOG_TRUNCATED)

\* The log is complete: no program runs, or the rest of it is lost.
Over == log # <<>> /\ (stack = <<>> \/ Truncated)

\* Leaves room for the programs that run to return.
Write(line, program) ==
  /\ ~Truncated
  /\ log' = Append(log, line)
  /\ by' = Append(by, program)
  /\ Len(log') + Len(stack') <= MaxLines

\* The units that pump consumed are written last.
Running == stack # <<>> /\ ~LastIs(Line("consumed", Top, None))

\* An instruction of the transaction, or a call; a program that runs already may
\* be called by itself only.
Invoke(p) ==
  /\ Len(stack) < MaxDepth
  /\ stack # <<>> => Running
  /\ \A i \in 1 .. Len(stack) : stack[i] = p => Top = p
  /\ stack' = Append(stack, p)
  /\ callers' = IF p = Pump /\ stack # <<>> THEN callers \cup {Top} ELSE callers
  /\ Write(Line("invoke", p, None), p)
  /\ UNCHANGED emitted

Written == Cardinality({i \in 1 .. Len(log) : by[i] # Pump /\ log[i].kind \in {"text", "data"}})

\* "Program log: " and "Program return: "; the units that a program other than
\* pump consumed are such a line for the parsers.
WriteText(data) ==
  /\ Running
  /\ Top # Pump /\ Written < MaxWritten
  /\ stack' = stack
  /\ Write(Line("text", None, data), Top)
  /\ UNCHANGED <<callers, emitted>>

WriteData(data) ==
  /\ Running
  /\ Top # Pump /\ Written < MaxWritten
  /\ stack' = stack
  /\ Write(Line("data", None, data), Top)
  /\ UNCHANGED <<callers, emitted>>

LogEvent(e) ==
  /\ Running
  /\ Top = Pump /\ LastIs(PF_LOG_SUCCESS)
  /\ \A i \in 1 .. Len(emitted) : emitted[i] # e
  /\ emitted' = Append(emitted, e)
  /\ stack' = stack
  /\ Write(Line("data", None, e), Pump)
  /\ UNCHANGED callers

Consume ==
  /\ Running
  /\ Top = Pump
  /\ stack' = stack
  /\ Write(Line("consumed", Pump, None), Pump)
  /\ UNCHANGED <<callers, emitted>>

Return ==
  /\ stack # <<>>
  /\ Top = Pump => LastIs(Line("consumed", Pump, None))
  /\ stack' = SubSeq(stack, 1, Len(stack) - 1)
  /\ Write(Line("success", Top, None), Top)
  /\ UNCHANGED <<callers, emitted>>

\* What is written from here on is lost.
Truncate ==
  /\ stack # <<>>
  /\ stack' = stack
  /\ Write(LOG_TRUNCATED, Top)
  /\ UNCHANGED <<callers, emitted>>

Next ==
  \/ \E p \in Programs : Invoke(p)
  \/ \E d \in Foreign \cup {None} : WriteText(d)
  \/ \E d \in Foreign : WriteData(d)
  \/ \E e \in Events : LogEvent(e)
  \/ Consume
  \/ Return
  \/ Truncate

Spec == Init /\ [][Next]_vars

-----------------------------------------------------------------------------
(* Properties.                                                              *)

\* A line that dealLogs takes was written by pump or by a program that called
\* pump itself: no other program of the transaction can put a row into the
\* tables, although the parser does not follow the calls and looks at the lines
\* before and behind only.  That the last line is always taken is harmless.
TakenIsNear ==
  Over => \A i \in 1 .. Len(log) : IsTaken(log, i) => by[i] \in callers \cup {Pump}

\* The elements of s at the indices in I, up to each place of s and in all.
PickedUpTo(s, I) ==
  LET picked[i \in 0 .. Len(s)] ==
        IF i = 0 THEN <<>>
        ELSE IF i \in I THEN Append(picked[i - 1], s[i])
        ELSE picked[i - 1]
  IN picked

Picked(s, I) == PickedUpTo(s, I)[Len(s)]

\* A payload, or a row, that is pump's.
Own(p) == \E i \in 1 .. Len(emitted) : emitted[i].id = p.id
OwnRows(rows) == Picked(rows, {k \in 1 .. Len(rows) : Own(rows[k])})

\* The rows of a sequence of events.
EventsOf(s, disc) == Picked(s, {k \in 1 .. Len(s) : s[k].disc = disc})
TradeRowsOf(s) ==
  LET trades == EventsOf(s, "tradeEvent")
  IN [k \in 1 .. Len(trades) |-> TradeRow(trades[k])]
CreateRowsOf(s) ==
  LET creates == EventsOf(s, "createEvent")
  IN [k \in 1 .. Len(creates) |-> CreateRow(creates[k])]

\* Of the events of pump in the log every trade and creation becomes a row, once
\* and in order, whatever else is in the log and wherever it is cut off.  The
\* parser fails on lines of others only.
PumpEventsFound ==
  Over =>
    LET bucket == DealLogs(log)
    IN IF bucket.thrown
       THEN \E i \in 1 .. Len(log) : by[i] # Pump /\ IsTaken(log, i) /\ Malformed(log[i].data)
       ELSE /\ OwnRows(bucket.pfTradeList) = TradeRowsOf(emitted)
            /\ OwnRows(bucket.pfCreateList) = CreateRowsOf(emitted)

\* A line of another program that parseLogs takes for a trade.
Disguised == \E i \in Candidates(log) : by[i] # Pump

\* parseLogs finds the trade that dealLogs finds first, in a log that is not
\* disguised and that dealLogs does not fail on, and reads its fields from the
\* same bytes, although one decodes with the struct of common.dto.ts and the
\* other with the IDL.
ParseLogsAgrees ==
  Over /\ ~Disguised /\ ~DealLogs(log).thrown =>
    LET found == ParseLogs(log)
        rows  == OwnRows(DealLogs(log).pfTradeList)
    IN IF found = None
       THEN rows = <<>>
       ELSE /\ rows # <<>>
            /\ found.id = rows[1].id
            /\ found.fields["user"] = rows[1].userAdr
            /\ \A f \in {"mint", "solAmount", "tokenAmount", "isBuy", "timestamp"} :
                 found.fields[f] = rows[1][f]
=============================================================================
