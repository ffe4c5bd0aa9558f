------------------------------- MODULE Queries -------------------------------
(***************************************************************************)
(* The questions asked of an index: the queries of IndexDb                 *)
(* (src/src/database/mod.rs) and the analyses of graph/mod.rs made of      *)
(* them.  An index is the set of its symbol rows and the set of its        *)
(* reference rows; NULL is None.  A text is the sequence of the names its  *)
(* dots divide, so a plain name x is <<x>>, and qualified_name is          *)
(* <<module, parent, name>>, or without the parent.                        *)
(*                                                                         *)
(* Left out: LIMIT 100 of neighbors and LIMIT 50 of the searches, the      *)
(* wording of answers, and token estimates.  Two rows without a caller are *)
(* never equal to a UNIQUE constraint; how often each is there is left     *)
(* out, for no answer below depends on it.                                 *)
(***************************************************************************)
EXTENDS Naturals, Sequences, FiniteSets

CONSTANTS
  CallersLimit,  \* LIMIT of impact (50 in the code)
  PartOf,      \* pairs of names, the first a proper part of the second
  NameOrder,     \* the names in the order of the alphabet
  TestFiles      \* files whose path has test or _spec in it

ASSUME QueriesAssumption == CallersLimit \in Nat \ {0}

KindOrder == <<"class", "enum", "export", "field", "function", "import", "interface",
               "method", "module", "struct", "variable">>

Position(x, order) == CHOOSE i \in DOMAIN order : order[i] = x

(* SQL's LIMIT without ORDER BY: any of that many rows.                    *)
Limited(rows, n) ==
  IF Cardinality(rows) <= n THEN rows
  ELSE CHOOSE some \in SUBSET rows : Cardinality(some) = n

QualifiedName(s) ==
  <<s.file>> \o (IF s.parent = "" THEN <<>> ELSE <<s.parent>>) \o <<s.name>>
-----------------------------------------------------------------------------
(* The queries.                                                            *)

Neighbors(db, text) == {r \in db.references : <<r.caller>> = text \/ r.callee = text}

(* A dotted text is looked up as a qualified name, and is kept as it is    *)
(* when there is none; the callers are those of the bare name.             *)
Resolved(db, text) ==
  IF Len(text) > 1 /\ \E s \in db.symbols : QualifiedName(s) = text
  THEN <<text[Len(text)]>> ELSE text

(* All symbols of a caller's name, whatever file the call is in.           *)
Callers(db, text) ==
  {s \in db.symbols : \E r \in db.references : /\ r.callee = Resolved(db, text)
                                               /\ r.caller = s.name}

Impact(db, text) == [callers    |-> Limited(Callers(db, text), CallersLimit),
                     references |-> Neighbors(db, Resolved(db, text))]

(* LIKE '%x%' on the name and the qualified name.                          *)
SearchSymbol(db, x) ==
  {s \in db.symbols : \E y \in {s.name, s.parent, s.file} : y = x \/ <<x, y>> \in PartOf}

(* ORDER BY kind, name.                                                    *)
Before(s, t) ==
  LET k == Position(s.kind, KindOrder)
      l == Position(t.kind, KindOrder)
  IN \/ k < l
     \/ k = l /\ Position(s.name, NameOrder) <= Position(t.name, NameOrder)

FirstFound(db, x) ==
  CHOOSE s \in SearchSymbol(db, x) : \A t \in SearchSymbol(db, x) : Before(s, t)
-----------------------------------------------------------------------------
(* The analyses.  ok: the queries succeed; an error reads as no rows where *)
(* the code says unwrap_or_else.                                           *)

Ask(rows, ok) == IF ok THEN rows ELSE {}

FilesOf(symbols) == {s.file : s \in symbols}

EditPlan_OtherFiles(db, x, changes) ==
  LET callers == Impact(db, <<x>>).callers
      breaking == callers \X (changes \ {"rename without names"})
  IN [affected |-> {<<x>>} \cup {<<c.name>> : c \in callers}
                   \cup {r.callee : r \in Neighbors(db, <<x>>)},
      files    |-> FilesOf(callers) \ FilesOf({s \in db.symbols : s.name = x}),
      breaking |-> breaking,
      safe     |-> \A b \in breaking : b[2] = "rename"]

(* changes: rename needs both names, and is dropped without a word         *)
(* otherwise.                                                              *)
EditPlan(db, x, changes) ==
  LET callers == Impact(db, <<x>>).callers
      breaking == callers \X (changes \ {"rename without names"})
  IN [affected |-> {<<x>>} \cup {<<c.name>> : c \in callers}
                   \cup {r.callee : r \in Neighbors(db, <<x>>)},
      files    |-> FilesOf(callers),
      breaking |-> breaking,
      safe     |-> \A b \in breaking : b[2] = "rename"]

Layers_Revisit(db, text, depth, tests) ==
  LET next(layer) == {<<s.name>> : s \in {t \in UNION {Impact(db, c).callers : c \in layer} :
                                            tests \/ t.file \notin TestFiles}}
      reached[d \in 0 .. depth] ==
        IF d = 0 THEN {text} ELSE next(reached[d - 1]) \ reached[d - 1]
  IN [d \in 1 .. depth |-> reached[d]]

(* One layer per step away from the target, breadth first.                 *)
Layers(db, text, depth, tests) ==
  LET next(layer) == {<<s.name>> : s \in {t \in UNION {Impact(db, c).callers : c \in layer} :
                                            tests \/ t.file \notin TestFiles}}
      reached[d \in 0 .. depth] ==
        IF d = 0 THEN [layer |-> {text}, visited |-> {text}]
        ELSE LET new == next(reached[d - 1].layer) \ reached[d - 1].visited
             IN [layer |-> new, visited |-> reached[d - 1].visited \cup new]
  IN [d \in 1 .. depth |-> reached[d].layer]

TestCoverageGaps(db, layers) ==
  {x \in UNION {layers[d] : d \in DOMAIN layers \ {1}} :
     FilesOf(Impact(db, x).callers) \cap TestFiles = {}}

Risk(d) == CASE d = 1 -> "low" [] d = 2 -> "medium" [] OTHER -> "high"

Recommendation(db, layers) ==
  LET depths == {d \in DOMAIN layers : layers[d] # {}}
  IN CASE depths = {} -> "safe to modify"
       [] \E d \in depths : Risk(d) = "high" -> "caution"
       [] OTHER -> IF TestCoverageGaps(db, layers) # {} THEN "care" ELSE "low risk"

(* The HTTP service asks for no stage, and gets the first; stdio asks for  *)
(* all.  A stage that warns blocks nothing.                                *)
DeadCode(db, x, asked, ok) ==
  LET stages == IF asked = {} THEN {"static_refs"} ELSE asked
      callers == Ask(Impact(db, <<x>>).callers, ok)
      found == [static_refs  |-> callers,
                dynamic_refs |-> Ask({r \in Neighbors(db, <<x>>) : r.dynamic}, ok),
                string_refs  |-> Ask({s \in SearchSymbol(db, x) : s.name # x}, ok),
                test_refs    |-> {s \in callers : s.file \in TestFiles}]
      blocks(stage) == stage \in {"static_refs", "dynamic_refs"}
  IN [stages |-> [s \in stages |-> IF found[s] = {} THEN "pass"
                                   ELSE IF blocks(s) THEN "fail" ELSE "warn"],
      safe   |-> \A s \in stages : blocks(s) => found[s] = {}]

(* The symbol moved is the first the search finds.                         *)
CrossModuleMove(db, x, updateImports, ok) ==
  LET callers == Ask(Impact(db, <<x>>).callers, ok)
      dynamic == Ask({r \in Neighbors(db, <<x>>) : r.dynamic}, ok)
      unresolved == dynamic \cup (IF updateImports THEN {} ELSE callers)
      moved == FirstFound(db, x)
  IN IF Ask(SearchSymbol(db, x), ok) = {} THEN [found |-> FALSE]
     ELSE [found  |-> TRUE,
           moved  |-> moved,
           modify |-> {moved.file} \cup (IF updateImports THEN FilesOf(callers) ELSE {}),
           safe   |-> unresolved = {}]

(* A signature is how many arguments it requires, and what it returns.     *)
(* How many it takes at most is counted and not compared.                  *)
SignatureMigration(db, x, old, new, ok) ==
  LET callers == Ask(Impact(db, <<x>>).callers, ok)
      breaks == new.required > old.required \/ new.returns # old.returns
      breaking == IF breaks THEN callers ELSE {}
  IN IF Ask(SearchSymbol(db, x), ok) = {} THEN [found |-> FALSE]
     ELSE [found |-> TRUE, breaking |-> breaking, compatible |-> breaking = {}]
=============================================================================
