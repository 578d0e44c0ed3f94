--------------------------- MODULE ParserFixtures ---------------------------
(***************************************************************************)
(* The two logs of parseTx2: a sale, and the creation of a token with its   *)
(* first purchase.  An entry is a line and the program that wrote it.       *)
(***************************************************************************)
EXTENDS ProgramLog

CONSTANTS
  Fees, ComputeBudget, System, Token, AssociatedToken, Metadata,  \* programs
  sell, create, buy  \* the payloads of the three events

\* One line of program p, a call of p and what it writes in between, and calls
\* of p that write nothing.
Entry(line, p) == <<[line |-> line, by |-> p]>>
Text(p) == Entry(Line("text", None, None), p)
Consumed(p) == IF p = Pump THEN Entry(Line("consumed", Pump, None), Pump) ELSE Text(p)
Data(e) == Entry(Line("data", None, e), Pump)
Call(p, inner) ==
  Entry(Line("invoke", p, None), p) \o inner \o Entry(Line("success", p, None), p)

\* A call of a builtin program, one that logs its name, and pump's of itself.
Builtin(p) == Call(p, <<>>)
Instruction(p) == Call(p, Text(p) \o Consumed(p))
Event(e) == Call(Pump, Consumed(Pump)) \o Data(e)

RecordFees == Call(Fees, Text(Fees) \o Builtin(System) \o Consumed(Fees))

SellLog ==
  RecordFees \o Builtin(ComputeBudget)
  \o Call(Pump, Text(Pump) \o Instruction(Token) \o Event(sell) \o Consumed(Pump))
  \o Builtin(ComputeBudget) \o RecordFees

GetAccountDataSize == Call(Token, Text(Token) \o Consumed(Token) \o Text(Token))

InitializeImmutableOwner == Call(Token, Text(Token) \o Text(Token) \o Consumed(Token))

CreateAssociated ==
  Call(AssociatedToken,
    Text(AssociatedToken) \o GetAccountDataSize \o Builtin(System) \o Text(AssociatedToken)
    \o InitializeImmutableOwner \o Instruction(Token) \o Consumed(AssociatedToken))

CreateMetadata ==
  Call(Metadata,
    Text(Metadata) \o Builtin(System) \o Text(Metadata) \o Builtin(System)
    \o Text(Metadata) \o Builtin(System) \o Consumed(Metadata))

CreateBuyLog ==
  Builtin(ComputeBudget) \o Builtin(ComputeBudget)
  \o Call(Pump,
       Text(Pump) \o Builtin(System) \o Instruction(Token) \o Builtin(System)
       \o CreateAssociated \o CreateMetadata \o Instruction(Token) \o Instruction(Token)
       \o Event(create) \o Consumed(Pump))
  \o CreateAssociated
  \o Call(Pump,
       Text(Pump) \o Instruction(Token) \o Builtin(System) \o Builtin(System)
       \o Event(buy) \o Consumed(Pump))

\* The state that a log of parseTx2 leaves behind.
Logged(entries, events) ==
  /\ stack = <<>>
  /\ log = [i \in 1 .. Len(entries) |-> entries[i].line]
  /\ by = [i \in 1 .. Len(entries) |-> entries[i].by]
  /\ callers = {}
  /\ emitted = events

Fixture == Logged(SellLog, <<sell>>) \/ Logged(CreateBuyLog, <<create, buy>>)
=============================================================================
