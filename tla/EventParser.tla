----------------------------- MODULE EventParser -----------------------------
(***************************************************************************)
(* EventParser, which turns the log of a transaction into the rows of a     *)
(* bucket, and parseLogs, which finds the first trade of a log for parseTx. *)
(*                                                                         *)
(* A line is its kind, the program it names, if any, and its payload: the   *)
(* bytes that decoding base64 gives, for a text the base64 behind the       *)
(* position where a data line has it.  A payload is its discriminator,      *)
(* "near" for one that agrees with a trade's in the 60 bits which ten       *)
(* characters of base64 stand for, the size of its body, the contents of    *)
(* its strings and an id that tells it from the others.                     *)
(***************************************************************************)
EXTENDS BorshLayout, FiniteSets

CONSTANTS
  Pump,    \* PF_PROGRAM_ID
  None,
  NUL,     \* the character 0
  Lengths  \* what dealLogs cuts name, symbol and uri to: 500, 300 and 600

\* What starts with PF_LOG_PREFIX; no log that is parsed has a failed call.
HasPfPrefix(line) == line.prog = Pump /\ line.kind \in {"invoke", "consumed", "success"}

PF_LOG_SUCCESS == [kind |-> "success", prog |-> Pump, data |-> None]

\* Variant: the line before is not looked at.
AdjacentBefore(logs, i) == i = Len(logs) \/ HasPfPrefix(logs[i + 1])

\* Next to something pump did: both parsers pass over other lines.
Adjacent(logs, i) ==
  logs[i - 1] = PF_LOG_SUCCESS \/ i = Len(logs) \/ HasPfPrefix(logs[i + 1])

\* Variant: every data line is taken.
IsTakenAnywhere(logs, i) == Len(logs) >= 3 /\ i \in 2 .. Len(logs) /\ logs[i].kind = "data"

\* The lines that dealLogs hands to handleLogStr.
IsTaken(logs, i) ==
  /\ Len(logs) >= 3 /\ i \in 2 .. Len(logs)
  /\ Adjacent(logs, i)
  /\ logs[i].kind = "data"

FormatStr(str, length) ==
  LET newStr == SelectSeq(str, LAMBDA c : c # NUL)
  IN IF Len(newStr) > length THEN SubSeq(newStr, 1, length) ELSE newStr

TradeRow(p) ==
  LET data == Decode(tradeEvent)
  IN [id |-> p.id, mint |-> data["mint"], solAmount |-> data["solAmount"],
      tokenAmount |-> data["tokenAmount"], isBuy |-> data["isBuy"],
      userAdr |-> data["user"], timestamp |-> data["timestamp"]]

CreateRow(p) ==
  LET data == Decode(createEvent)
  IN [id |-> p.id, mint |-> data["mint"], bondingCurve |-> data["bondingCurve"],
      userAdr |-> data["user"],
      strs |-> [s \in DOMAIN Lengths |-> FormatStr(p.strs[s], Lengths[s])]]

EmptyBucket == [pfTradeList |-> <<>>, pfCreateList |-> <<>>, thrown |-> FALSE]

Malformed(p) == p.disc \in DOMAIN Layouts /\ Throws(Layouts[p.disc], p.size)

HandleLogStr(bucket, p) ==
  IF Malformed(p)
    THEN [bucket EXCEPT !.thrown = TRUE]
  ELSE IF p.disc = "tradeEvent"
    THEN [bucket EXCEPT !.pfTradeList = Append(@, TradeRow(p))]
  ELSE IF p.disc = "createEvent"
    THEN [bucket EXCEPT !.pfCreateList = Append(@, CreateRow(p))]
  ELSE bucket

\* The bucket after each line.  An error leaves the loop, and the caller with it.
Buckets(logs) ==
  LET bucket[i \in 0 .. Len(logs)] ==
        IF i = 0 THEN EmptyBucket
        ELSE LET before == bucket[i - 1]
             IN IF before.thrown \/ ~IsTaken(logs, i) THEN before
                ELSE HandleLogStr(before, logs[i].data)
  IN bucket

DealLogs(logs) == Buckets(logs)[Len(logs)]

\* As long as a line of a trade, and the base64 of a trade where a data line has
\* it.  What a line begins with is not compared.
LooksLikeTrade(line) ==
  /\ line.data # None
  /\ PREFIX_OF_DATA_Length + Base64Length(DiscriminatorLength + line.data.size)
       = PF_LOG_TRADE_TOTAL_LENGTH
  /\ line.data.disc \in {"tradeEvent", "near"}

Candidates(logs) == {i \in 2 .. Len(logs) : LooksLikeTrade(logs[i]) /\ Adjacent(logs, i)}

\* What parseLogs makes of a payload.
ParsedTrade(p) == [id |-> p.id, fields |-> Decode(PfTradeEventLayout)]

\* The first of them, or null if it cannot be decoded.
ParseLogs(logs) ==
  IF Len(logs) < 3 \/ Candidates(logs) = {} THEN None
  ELSE LET i == CHOOSE j \in Candidates(logs) : \A k \in Candidates(logs) : j <= k
       IN IF Throws(PfTradeEventLayout, logs[i].data.size) THEN None
          ELSE ParsedTrade(logs[i].data)
=============================================================================
