----------------------------- MODULE BorshLayout -----------------------------
(***************************************************************************)
(* The two descriptions of pump's events that the program decodes them      *)
(* with: the struct of common.dto.ts, and the IDL, whose layouts the        *)
(* anchor library makes.  What a field decodes to is where it is read from: *)
(* its first byte and its number of bytes.  A string is its length prefix;  *)
(* the contents of strings are left out of every size.  The names are those *)
(* of pump.ts, and a flag byte is 0 or 1: anchor refuses any other.         *)
(***************************************************************************)
EXTENDS Naturals, Sequences

\* strict: reading the field beyond the end of the buffer throws.
Field(name, span, strict) == [name |-> name, span |-> span, strict |-> strict]

\* The classes of common.dto.ts.  A missing byte is undefined, that is false; a
\* key takes what is left.
BorshBoolean(name)   == Field(name, 1, FALSE)
BorshUInt64LE(name)  == Field(name, 8, TRUE)
BorshInt64LE(name)   == Field(name, 8, TRUE)
BorshPublicKey(name) == Field(name, 32, FALSE)

\* The layouts of anchor.  Its numbers and keys take what is left.
pubkey(name) == Field(name, 32, FALSE)
u64(name)    == Field(name, 8, FALSE)
i64(name)    == Field(name, 8, FALSE)
bool(name)   == Field(name, 1, TRUE)
string(name) == Field(name, 4, TRUE)

PfTradeEventLayout ==
  << BorshPublicKey("mint"), BorshUInt64LE("solAmount"), BorshUInt64LE("tokenAmount"),
     BorshBoolean("isBuy"), BorshPublicKey("user"), BorshInt64LE("timestamp"),
     BorshUInt64LE("virtualSolReserves"), BorshUInt64LE("virtualTokenReserves"),
     BorshUInt64LE("realSolReserves"), BorshUInt64LE("realTokenReserves") >>

completeEvent ==
  << pubkey("user"), pubkey("mint"), pubkey("bondingCurve"), i64("timestamp") >>

createEvent ==
  << string("name"), string("symbol"), string("uri"),
     pubkey("mint"), pubkey("bondingCurve"), pubkey("user") >>

setParamsEvent ==
  << pubkey("feeRecipient"), u64("initialVirtualTokenReserves"),
     u64("initialVirtualSolReserves"), u64("initialRealTokenReserves"),
     u64("tokenTotalSuply"), u64("feeBasisPoints") >>

\* Variant: a layout that puts the flag before the amounts.
tradeEventReordered ==
  << pubkey("mint"), bool("isBuy"), u64("solAmount"), u64("tokenAmount"),
     pubkey("user"), i64("timestamp"), u64("virtualSolReserves"),
     u64("virtualTokenReserves") >>

tradeEvent ==
  << pubkey("mint"), u64("solAmount"), u64("tokenAmount"), bool("isBuy"),
     pubkey("user"), i64("timestamp"), u64("virtualSolReserves"),
     u64("virtualTokenReserves") >>

\* The layout of each event, by its discriminator.
Layouts ==
  [completeEvent |-> completeEvent, createEvent |-> createEvent,
   setParamsEvent |-> setParamsEvent, tradeEvent |-> tradeEvent]

\* The bytes before field k.
Offset(layout, k) ==
  LET sum[i \in 0 .. Len(layout)] == IF i = 0 THEN 0 ELSE sum[i - 1] + layout[i].span
  IN sum[k - 1]

Span(layout) == Offset(layout, Len(layout) + 1)

Throws(layout, size) ==
  \E k \in 1 .. Len(layout) :
    layout[k].strict /\ Offset(layout, k) + layout[k].span > size

Decode(layout) ==
  [name \in {layout[k].name : k \in 1 .. Len(layout)} |->
     LET k == CHOOSE i \in 1 .. Len(layout) : layout[i].name = name
     IN <<Offset(layout, k), layout[k].span>>]

-----------------------------------------------------------------------------
(* The lengths of a logged trade.                                           *)

DiscriminatorLength == 8

PREFIX_OF_DATA_Length == 14   \* "Program data: "

\* Node: n bytes in base64.
Base64Length(n) == 4 * ((n + 2) \div 3)

\* ((4 * (n / 3)) + 3) & ~3: the division is not one of integers, & cuts off
\* what is behind the point.
EncodedLength(n) == 4 * (((4 * n) \div 3 + 3) \div 4)

\* 8 + 121, 172 and 186
PF_LOG_TRADE_DATA_DECODED_LENGTH == DiscriminatorLength + Span(PfTradeEventLayout)
PF_LOG_TRADE_DATA_ENCODED_LENGTH == EncodedLength(PF_LOG_TRADE_DATA_DECODED_LENGTH)
PF_LOG_TRADE_TOTAL_LENGTH == PREFIX_OF_DATA_Length + PF_LOG_TRADE_DATA_ENCODED_LENGTH
=============================================================================
