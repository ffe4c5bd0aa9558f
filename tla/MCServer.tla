------------------------------ MODULE MCServer ------------------------------
(* Instances of Server for TLC.                                            *)
EXTENDS Server, Functions

MCWeight == [docstrings |-> 4, signatures |-> 2, details |-> 2, rows |-> 4, rest |-> 2]

MCTokens == [parts \in SUBSET Parts |-> SumFunctionOnSet(MCWeight, parts)]

MCNumber(text) == CASE text = "1" -> 1 [] text = "3" -> 3

Q(over, method, given, about, flag, budget) ==
  [over |-> over, method |-> method, given |-> given, about |-> about, tail |-> <<>>,
   flag |-> flag, token_budget |-> budget]

(* Four searches that differ in quotes alone: with use_like as a boolean   *)
(* and as a string, the budget as a string, and both in the query's text.  *)
MCSearch(flag, budget) == Q("http", "search", {"query"}, "f", flag, budget)

MCLike == MCSearch(Json("boolean", "true"), Json("number", "3"))

MCRequests ==
  {MCLike, MCSearch(Json("string", "true"), Json("number", "3")),
   MCSearch(Json("boolean", "true"), Json("string", "3")),
   [MCSearch(Absent, Absent) EXCEPT !.tail = Params(MCLike)],
   MCSearch(Absent, Json("number", "3")),
   Q("http", "stats", {}, "", Absent, Absent),
   Q("http", "impact", {"symbol"}, "f", Json("boolean", "true"), Absent),
   Q("rest", "neighbors", {"symbol"}, "f", Absent, Absent),
   Q("stdio", "cross_module_move", {"symbol", "target_module"}, "g", Absent, Json("number", "1")),
   Q("stdio", "list_file_symbols", {}, "", Absent, Absent)}

MCSymbols == {"f", "g"}
MCSymbolsAt(v) == IF v = 0 THEN {"f", "g"} ELSE {"f"}
=============================================================================
