---------------------------- MODULE MCProgramLog ----------------------------
(***************************************************************************)
(* Pump and two other programs, three calls deep.  Pump may log a trade and *)
(* a creation; the others a copy of a trade's layout, one that ends before  *)
(* its flag, or one that resembles it.  The two logs of parseTx2 are parsed *)
(* as well.                                                                 *)
(***************************************************************************)
EXTENDS ParserFixtures, TLC

CONSTANTS a, b

Others == Permutations({a, b})

MCLengths == [name |-> 2, symbol |-> 1, uri |-> 2]

NoStrs == [s \in {"name", "symbol", "uri"} |-> <<>>]

Trade(id, size) == [disc |-> "tradeEvent", size |-> size, strs |-> NoStrs, id |-> id]

Create(id) ==
  [disc |-> "createEvent", size |-> Span(createEvent), id |-> id,
   strs |-> [name |-> <<"x", NUL, "y", "z">>, symbol |-> <<NUL>>, uri |-> <<"x">>]]

MCsell == Trade("sell", 121)
MCbuy == Trade("buy", 121)
MCcreate == Create("create")

MCEvents == {Trade("trade", Span(PfTradeEventLayout)), Create("created")}

MCForeign ==
  { Trade("copy", Span(PfTradeEventLayout)),
    Trade("stub", 40),
    [Trade("near", Span(PfTradeEventLayout)) EXCEPT !.disc = "near"] }

MCInit == Init \/ Fixture

MCSpec == MCInit /\ [][Next]_vars
=============================================================================
