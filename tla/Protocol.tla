------------------------------ MODULE Protocol ------------------------------
(***************************************************************************)
(* What the two MCP servers (HTTP: mcp/mod.rs, stdio: mcp/stdio.rs) do     *)
(* with a request of each method, the key a result is cached under, and    *)
(* how a result is reduced to a token budget.                              *)
(*                                                                         *)
(* A result is abstracted to the parts of it a budget can remove, the      *)
(* request it is of, and when its statements ran.                          *)
(***************************************************************************)
EXTENDS Sequences, Integers

CONSTANTS Tokens,   \* the tokens of the text of a result with these parts
          Number(_), \* the natural number a text is, if it is one
          NoBudget  \* the budget of a request without one

Parts == {"docstrings", "signatures", "details", "rows", "rest"}

ASSUME TokensAreNat == Tokens \in [SUBSET Parts -> Nat]

-----------------------------------------------------------------------------
(* Handlers.  needs: the parameters that may not be missing; statements:   *)
(* the SELECTs the answer takes, those in a row that fail alike as one;    *)
(* cached: the cache is asked and filled; budgeted: token_budget is        *)
(* enforced; hides: the statements that give a default value when they     *)
(* fail, where the others give an error; parts: what the result has that a *)
(* budget can remove.  impact_deep takes the two of its first layer again  *)
(* for every further one.                                                  *)

Handler(needs, statements, cached, budgeted, hides, parts) ==
  [needs |-> needs, statements |-> statements, cached |-> cached, budgeted |-> budgeted,
   hides |-> hides, parts |-> parts \cup {"rest"}]

Records == {"docstrings", "signatures", "rows"}

handle_read      == Handler({"file"}, 1, TRUE, TRUE, {}, Records)
handle_neighbors == Handler({"symbol"}, 1, TRUE, TRUE, {}, {"rows"})
handle_impact    == Handler({"symbol"}, 2, TRUE, TRUE, {1}, Records)
handle_search    == Handler({"query"}, 1, TRUE, TRUE, {}, Records)
handle_stats     == Handler({}, 2, TRUE, FALSE, {1, 2}, {})
handle_edit_plan == Handler({"symbol"}, 2, FALSE, FALSE, {1}, {})
handle_verify    == Handler({"file_path"}, 1, FALSE, FALSE, {1}, {})
handle_impact_deep == Handler({"symbol"}, 2, FALSE, FALSE, {1}, {"rows"})
handle_dead_code_verify == Handler({"symbol"}, 2, FALSE, FALSE, {1, 2}, {})
handle_cross_module_move ==
  Handler({"symbol", "target_module"}, 2, FALSE, FALSE, {2}, {"details"})
handle_signature_migration_check ==
  Handler({"symbol", "new_signature"}, 2, FALSE, FALSE, {2}, {})

jsonrpc_handler ==
  [read |-> handle_read, neighbors |-> handle_neighbors, impact |-> handle_impact,
   search |-> handle_search, stats |-> handle_stats, edit_plan |-> handle_edit_plan,
   verify |-> handle_verify, impact_deep |-> handle_impact_deep,
   dead_code_verify |-> handle_dead_code_verify,
   cross_module_move |-> handle_cross_module_move,
   signature_migration_check |-> handle_signature_migration_check]

tool_stats             == Handler({}, 2, FALSE, TRUE, {1, 2}, {})
tool_search            == Handler({"query"}, 1, FALSE, TRUE, {}, Records)
tool_list_file_symbols == Handler({"file"}, 1, FALSE, TRUE, {}, Records)
tool_neighbors         == Handler({"symbol"}, 1, FALSE, TRUE, {}, {"rows"})
tool_impact            == Handler({"symbol"}, 2, FALSE, TRUE, {1}, Records)
tool_edit_plan         == Handler({"symbol"}, 2, FALSE, TRUE, {1}, {})
tool_verify            == Handler({"file_path"}, 1, FALSE, FALSE, {1}, {})
tool_impact_deep       == Handler({"symbol"}, 2, FALSE, TRUE, {1}, {"rows"})
tool_dead_code_verify  == Handler({"symbol"}, 2, FALSE, TRUE, {1, 2}, {})
tool_cross_module_move ==
  Handler({"symbol", "target_module"}, 2, FALSE, TRUE, {2}, {"details"})
tool_signature_migration_check ==
  Handler({"symbol", "new_signature"}, 2, FALSE, TRUE, {2}, {})

handle_tools_call ==
  [stats |-> tool_stats, search |-> tool_search,
   list_file_symbols |-> tool_list_file_symbols, neighbors |-> tool_neighbors,
   impact |-> tool_impact, edit_plan |-> tool_edit_plan, verify |-> tool_verify,
   impact_deep |-> tool_impact_deep, dead_code_verify |-> tool_dead_code_verify,
   cross_module_move |-> tool_cross_module_move,
   signature_migration_check |-> tool_signature_migration_check]

rest_stats     == Handler({}, 2, FALSE, FALSE, {1, 2}, {})
rest_search    == Handler({"symbol"}, 1, FALSE, FALSE, {}, Records)
rest_neighbors == Handler({"symbol"}, 1, FALSE, FALSE, {}, {"rows"})

create_router == [stats |-> rest_stats, search |-> rest_search, neighbors |-> rest_neighbors]

Handlers == [http |-> jsonrpc_handler, stdio |-> handle_tools_call, rest |-> create_router]

(* tools/list: the parameters each tool says are required.                 *)
handle_tools_list ==
  [stats |-> {}, search |-> {"query"}, list_file_symbols |-> {"file"},
   neighbors |-> {"symbol"}, impact |-> {"symbol"}, edit_plan |-> {"symbol"},
   verify |-> {"file_path"}, impact_deep |-> {"symbol"}, dead_code_verify |-> {"symbol"},
   cross_module_move |-> {"symbol", "target_module"},
   signature_migration_check |-> {"symbol", "new_signature"}]
-----------------------------------------------------------------------------
(* A request: over http, rest or stdio, its method, the parameters that    *)
(* are there and not empty strings, the symbol or file asked about, and    *)
(* two parameters as they are in its JSON, that stand for all booleans and *)
(* numbers.  flag: use_like of search, with_string_refs of impact and      *)
(* impact_deep (REST says the first the other way round: fuzzy=false).     *)
(* token_budget: min_score and limit are read and written in the same way. *)
(* tail: what the string asked about holds behind a comma, as the pieces   *)
(* "name=text" it looks like in a key.                                     *)

Json(as, text) == [as |-> as, text |-> text]

Absent == Json("absent", "")

Piece == [name : {"token_budget", "flag"}, text : STRING]

RequestType ==
  [over : {"http", "stdio", "rest"}, method : STRING, given : SUBSET STRING, about : STRING,
   tail : Seq(Piece), flag : [as : STRING, text : STRING],
   token_budget : [as : STRING, text : STRING]]

Unknown(q) == q.method \notin DOMAIN Handlers[q.over]

HandlerOf(q) == Handlers[q.over][q.method]

Refused(q) == Unknown(q) \/ ~(HandlerOf(q).needs \subseteq q.given)

(* as_bool and as_u64: a string is neither, and a budget of 0 is none.     *)
Set(q) == q.flag = Json("boolean", "true")

get_token_budget(q) ==
  IF q.token_budget.as = "number" THEN Number(q.token_budget.text) ELSE NoBudget

(* The search with LIKE alone.                                             *)
Like(q) == q.method = "search" /\ Set(q)

(* The potential references by name, a statement more.                     *)
WithStringRefs(q) == q.over = "http" /\ q.method \in {"impact", "impact_deep"} /\ Set(q)

Statements(q) == HandlerOf(q).statements + (IF WithStringRefs(q) THEN 1 ELSE 0)

StringRefs(q) == IF WithStringRefs(q) THEN {Statements(q)} ELSE {}

(* A search with LIKE gives no results if its statement fails, and no      *)
(* docstrings; potential references that fail are left out.                *)
HiddenFailures(q) == IF Like(q) THEN {1} ELSE HandlerOf(q).hides \cup StringRefs(q)

PartsOf(q) == HandlerOf(q).parts \ (IF Like(q) THEN {"docstrings"} ELSE {})

(* cross_module_move and signature_migration_check of what no symbol of    *)
(* the index has as its name is an error.                                  *)
MustExist(q) == q.method \in {"cross_module_move", "signature_migration_check"}

(* canonicalize: the parameters by name, each "name=text", with no quotes  *)
(* around a string and no escape for a comma in one.  token_budget and the *)
(* flags come behind the strings that the cached methods need.             *)
Written(name, json) == IF json.as = "absent" THEN <<>> ELSE <<[name |-> name, text |-> json.text]>>

Params(q) == Written("token_budget", q.token_budget) \o Written("flag", q.flag)

Key(q, text) == [method |-> q.method, given |-> q.given, about |-> q.about, text |-> text]

make_key_NoFlags(q) == Key(q, q.tail \o Written("token_budget", q.token_budget))

make_key(q) == Key(q, q.tail \o Params(q))
-----------------------------------------------------------------------------
(* Token budget.                                                           *)

(* An estimate of the serialized text, not a sum over the parts.           *)
estimate_json_tokens(parts) == Tokens[parts]

Strategies_Three == <<"docstrings", "signatures", "details">>

Strategies == <<"docstrings", "signatures", "details", "rows">>

(* BudgetStrategy::apply: each strategy removes one kind of part; what the *)
(* first n of them leave.                                                  *)
After(n, parts) == parts \ {Strategies[i] : i \in 1 .. n}

(* The strategies in order, until the result fits; the last one applied is *)
(* named.  The result may still not fit.                                   *)
Stops(n, parts, budget) ==
  n = Len(Strategies) \/ estimate_json_tokens(After(n, parts)) <= budget

Applied(parts, budget) == CHOOSE n \in 0 .. Len(Strategies) :
                            /\ Stops(n, parts, budget)
                            /\ \A m \in 0 .. n - 1 : ~Stops(m, parts, budget)

enforce_budget(parts, budget) ==
  LET n == Applied(parts, budget)
  IN [parts |-> After(n, parts), applied |-> IF n = 0 THEN "none" ELSE Strategies[n]]

(* apply_budget over HTTP, ok_with_budget over stdio.  What is said of a   *)
(* reduced result: over HTTP it is truncated if it still does not fit.     *)
Reply(parts, says, applied) == [parts |-> parts, truncated |-> says, applied |-> applied]

Untouched(parts) == Reply(parts, FALSE, "none")

apply_budget(parts, budget) ==
  LET r == enforce_budget(parts, budget)
  IN IF budget = NoBudget THEN Untouched(parts)
     ELSE Reply(r.parts, r.applied # "none" /\ estimate_json_tokens(r.parts) > budget, r.applied)

ok_with_budget(parts, budget) ==
  LET r == enforce_budget(parts, budget)
  IN IF budget = NoBudget THEN Untouched(parts)
     ELSE Reply(r.parts, r.applied # "none", r.applied)

Budgeted(q, parts) ==
  IF ~HandlerOf(q).budgeted THEN Untouched(parts)
  ELSE IF q.over = "stdio" THEN ok_with_budget(parts, get_token_budget(q))
  ELSE apply_budget(parts, get_token_budget(q))
=============================================================================
