------------------------------- MODULE Answers -------------------------------
(***************************************************************************)
(* From the source to the answers: a project in one language is written    *)
(* node by node, each file indexed as it is saved (Parsers, through        *)
(* ProjectIndexer::index_file), and Queries answer from the rows.  The     *)
(* question is what the answers say of the calls that are in the source.   *)
(*                                                                         *)
(* index_file is one step here; its steps are in Indexer, and the queries  *)
(* are asked when it is done.                                              *)
(***************************************************************************)
EXTENDS Parsers, Queries, FiniteSetsExt

CONSTANTS Names,        \* names the project declares and calls
          ProgramNames, \* names whole programs declare and call
          Programs,     \* the whole programs there are, for each language
          Elsewhere,    \* a name that is not declared
          Depth,        \* how far impact_deep is asked to look
          MaxNodes      \* bound: declarations and calls written one by one

VARIABLES language, source, db

vars == <<language, source, db>>

Files == {"lib", "test"}
AllNames == Names \cup ProgramNames
p == Parser[language]
-----------------------------------------------------------------------------
(* Which kinds of node a file, a class and a function may hold, and which  *)
(* kinds are functions.  Everything else holds nothing.                    *)

Syntax(top, class, functions, body) ==
  [top |-> top, class |-> class, functions |-> functions, body |-> body]

Grammar ==
  [python |-> LET all == {"function_definition", "class_definition", "expression_statement", "call"}
              IN Syntax(all \cup {"import_from_statement"}, all, {"function_definition"}, all),
   javascript |->
     LET body == {"function_declaration", "class_declaration", "lexical_declaration",
                  "call_expression"}
     IN Syntax(body \cup {"import_statement", "export_statement"},
               {"method_definition", "call_expression"},
               {"function_declaration", "method_definition"}, body),
   typescript |->
     LET body == {"function_declaration", "class_declaration", "interface_declaration",
                  "enum_declaration", "type_alias_declaration", "call_expression"}
     IN Syntax(body \cup {"import_statement"}, {"method_definition", "call_expression"},
               {"function_declaration", "method_definition"}, body),
   go |-> LET body == {"type_spec", "var_declaration", "call_expression"}
          IN Syntax(body \cup {"function_declaration", "method_declaration", "import_declaration"},
                    {}, {"function_declaration", "method_declaration"}, body),
   rust |-> LET items == {"function_item", "struct_item", "enum_item", "impl_item", "trait_item",
                          "use_declaration"}
            IN Syntax(items, {"function_item"}, {"function_item"}, items \cup {"call_expression"}),
   java |-> LET types == {"class_declaration", "interface_declaration", "enum_declaration"}
            IN Syntax(types \cup {"import_declaration"},
                      types \cup {"method_declaration", "constructor_declaration",
                                  "field_declaration"},
                      {"method_declaration", "constructor_declaration"},
                      {"class_declaration", "method_invocation"}),
   c   |-> Syntax({"function_definition", "struct_specifier"}, {}, {"function_definition"},
                  {"struct_specifier", "call_expression"}),
   cpp |-> LET all == {"function_definition", "class_specifier", "struct_specifier"}
           IN Syntax(all \cup {"namespace_definition"}, all, {"function_definition"},
                     {"class_specifier", "struct_specifier", "call_expression"}),
   csharp |-> LET types == {"class_declaration", "struct_declaration", "interface_declaration",
                            "delegate_declaration"}
              IN Syntax(types \cup {"namespace_declaration"},
                        types \cup {"method_declaration", "constructor_declaration",
                                    "property_declaration"},
                        {"method_declaration", "constructor_declaration"},
                        {"invocation_expression"}),
   scala |-> LET all == {"function_definition", "class_definition", "object_definition",
                         "trait_definition", "call_expression"}
             IN Syntax(all, all, {"function_definition"}, all),
   php |-> LET top == {"function_definition", "class_declaration", "enum_declaration",
                       "function_call_expression"}
           IN Syntax(top, {"method_declaration", "property_element"},
                     {"function_definition", "method_declaration"}, top),
   ruby |-> LET all == {"method", "class", "module", "call"}
            IN Syntax(all, all, {"method"}, {"method", "call"}),
   swift |-> LET all == {"function_declaration", "class_declaration", "property_declaration"}
             IN Syntax(all \cup {"protocol_declaration", "call_expression"}, all,
                       {"function_declaration"}, all \cup {"call_expression"}),
   lua |-> LET all == {"function_declaration", "function_call"}
           IN Syntax(all, {}, {"function_declaration"}, all)]

HeldBy(l, tree, i) ==
  LET syntax == Grammar[l]
  IN IF i = 0 THEN syntax.top
     ELSE IF tree[i].kind \in syntax.functions THEN syntax.body
     ELSE IF tree[i].kind \in Parser[l].walk.opens THEN syntax.class
     ELSE {}

(* The second names a node of a kind may carry.                            *)
Withs(l, names, kind, name) ==
  CASE kind = Parser[l].calls.kind        -> {None, Elsewhere}
    [] kind \in DOMAIN Parser[l].imports  -> {Elsewhere}
    [] kind \in DOMAIN Parser[l].inherits -> {None} \cup (names \ {name})
    [] kind = "method_declaration" /\ l = "go" -> names
    [] OTHER -> {None}

(* What a file may be continued with.                                      *)
Nodes(l, names, tree) ==
  UNION {UNION {{[kind |-> k, name |-> x, with |-> w, up |-> u] : w \in Withs(l, names, k, x)} :
                  k \in HeldBy(l, tree, u), x \in names} : u \in 0 .. Len(tree)}

Kinds == UNION {Grammar[l].top \cup Grammar[l].class \cup Grammar[l].body : l \in Languages}

NodeType == [kind : Kinds, name : AllNames, with : AllNames \cup {None, Elsewhere}, up : Nat]

IsTree(l, tree) ==
  /\ tree \in Seq(NodeType)
  /\ \A i \in DOMAIN tree : tree[i] \in Nodes(l, AllNames, SubSeq(tree, 1, i - 1))

IsProject(l, files) == DOMAIN files = Files /\ \A f \in Files : IsTree(l, files[f])

ASSUME AnswersAssumption ==
  /\ None \notin AllNames \cup {Elsewhere}
  /\ \A l \in Languages : \A files \in Programs[l] : IsProject(l, files)
  /\ MaxNodes \in Nat /\ Depth \in Nat \ {0}
-----------------------------------------------------------------------------
(* index_file: the rows of the file are deleted, and those of its parse    *)
(* inserted.  The callee's file is not looked for.                         *)

SymbolRow(f, s) == [file |-> f, line |-> s.line, name |-> s.name, kind |-> s.kind,
                    parent |-> s.parent]

ReferenceRow(f, r) == [file |-> f, line |-> r.line, caller |-> r.caller, callee |-> r.callee,
                       kind |-> r.kind, dynamic |-> r.kind \notin StaticKinds]

IndexFile(index, f, tree) ==
  [symbols    |-> {s \in index.symbols : s.file # f}
                  \cup {SymbolRow(f, s) : s \in Symbols(p, tree)},
   references |-> {r \in index.references : r.file # f}
                  \cup {ReferenceRow(f, r) : r \in References(p, tree)}]

Init == /\ language \in Languages
        /\ source = [f \in Files |-> <<>>]
        /\ db = [symbols |-> {}, references |-> {}]

(* The files are written one after the other.                              *)
Save(f) ==
  /\ Len(source["lib"]) + Len(source["test"]) < MaxNodes
  /\ f = "lib" => source["test"] = <<>>
  /\ \E n \in Nodes(language, Names, source[f]) : source' = [source EXCEPT ![f] = Append(@, n)]
  /\ db' = IndexFile(db, f, source'[f])
  /\ UNCHANGED language

Checkout ==
  /\ \A f \in Files : source[f] = <<>>
  /\ source' \in Programs[language]
  /\ db' = IndexFile(IndexFile(db, "lib", source'["lib"]), "test", source'["test"])
  /\ UNCHANGED language

Next == Checkout \/ \E f \in Files : Save(f)

Spec == Init /\ [][Next]_vars
-----------------------------------------------------------------------------
(* What is in the source, said of the trees alone.                         *)

syntax == Grammar[language]

InFunctions(tree, i) == {j \in Above(tree, i) : j # 0 /\ tree[j].kind \in syntax.functions}
InClasses(tree, i)   == {j \in Above(tree, i) : j # 0 /\ tree[j].kind \in p.walk.opens}

Around(tree, i) == {tree[j].name : j \in InFunctions(tree, i) \cup InClasses(tree, i)}

IsCall(tree, i, x) == tree[i].kind = p.calls.kind /\ tree[i].name = x

(* The languages whose calls are kept with the function they are in, if    *)
(* they name it without a receiver.                                        *)
ByFunction == {"python", "go", "rust", "lua"}

(* A call some row gives a caller to.  In TypeScript the name of a method  *)
(* is never found; in Scala the caller is the class.                       *)
Attributed(tree, i) ==
  \/ language \in ByFunction /\ tree[i].with = None /\ InFunctions(tree, i) # {}
  \/ /\ language = "typescript" /\ tree[i].with = None
     /\ \E j \in InFunctions(tree, i) : tree[j].kind = "function_declaration"
  \/ language = "scala" /\ InClasses(tree, i) # {}

AttributedCalls(f, x) == {i \in DOMAIN source[f] : IsCall(source[f], i, x)
                                                   /\ Attributed(source[f], i)}

Declares(x) == \E s \in db.symbols : s.name = x

(* A class that has x for its base, where the base's text is its name.     *)
Derived(x) ==
  /\ language \in {"python", "javascript"}
  /\ \E f \in Files : \E i \in DOMAIN source[f] :
       source[f][i].kind \in p.walk.opens /\ source[f][i].with = x

(* impl x for Type, and impl Trait for x.                                  *)
Impls == {n \in UNION {{source[f][i] : i \in DOMAIN source[f]} : f \in Files} :
            n.kind = "impl_item" /\ n.with # None}
-----------------------------------------------------------------------------
(* A recorded caller is the innermost function the call is in (the class   *)
(* in Scala), and never one it is not in; in TypeScript, any of the        *)
(* functions it is in.  What impact says calls a symbol does call it.      *)
CallerIsInnermost ==
  \A r \in db.references : r.kind = "call" /\ r.caller # None =>
    LET tree == source[r.file]
        within == IF language = "scala" THEN InClasses(tree, r.line)
                  ELSE InFunctions(tree, r.line)
        named == {j \in within : tree[j].name = r.caller}
    IN named # {} /\ (language # "typescript" => Max(within) \in named)

(* dead_code_verify says a symbol is safe to delete exactly when no call   *)
(* of it is attributed, no class is known to derive from it and, where all *)
(* stages are asked for, it is on neither side of an impl: a call at the   *)
(* top of a file, through a receiver, from another language or in an       *)
(* import counts for nothing.  So it says when the query fails.            *)
DeadIsUnattributed ==
  \A x \in AllNames, ok \in BOOLEAN,
     asked \in {{}, {"static_refs", "dynamic_refs", "string_refs", "test_refs"}} :
    DeadCode(db, x, asked, ok).safe <=>
      \/ ~ok
      \/ /\ \A f \in Files : AttributedCalls(f, x) = {}
         /\ ~Derived(x)
         /\ \A n \in Impls : n.with = x => ~Declares(n.name) /\ asked = {}
         /\ \A n \in Impls : n.name = x => asked = {}

Signature(n) == [required |-> n, returns |-> "unit"]

(* A file with an attributed call is in the files of an edit plan and of a *)
(* move, and the move is not safe if its imports are to stay; a signature  *)
(* that requires more breaks a symbol of that file; and impact_deep does   *)
(* not call it safe to modify, if the file is no test and the call is in   *)
(* something else.  Unless there are more callers than the query's limit.  *)
PlansCoverCalls ==
  \A x \in AllNames, f \in Files :
    /\ AttributedCalls(f, x) # {}
    /\ Cardinality(Callers(db, <<x>>)) <= CallersLimit
    => /\ f \in EditPlan(db, x, {"add_param"}).files
       /\ ~EditPlan(db, x, {"rename", "add_param"}).safe
       /\ EditPlan(db, x, {"rename", "rename without names"}).safe
       /\ \/ f \in TestFiles
          \/ \A i \in AttributedCalls(f, x) : x \in Around(source[f], i)
          \/ Recommendation(db, Layers(db, <<x>>, Depth, FALSE)) # "safe to modify"
       /\ Declares(x) => /\ f \in CrossModuleMove(db, x, TRUE, TRUE).modify
                         /\ ~CrossModuleMove(db, x, FALSE, TRUE).safe
                         /\ f \in FilesOf(SignatureMigration(db, x, Signature(1),
                                                   Signature(2), TRUE).breaking)

(* The layers of impact_deep are the symbols at each distance from the     *)
(* target: those a chain of that many calls, and no shorter one, leads     *)
(* from, through symbols that have a row outside the tests if tests are    *)
(* left out.                                                               *)
Chain(x, tests) ==
  LET step(X) == {s.name : s \in {t \in db.symbols :
                    /\ tests \/ t.file \notin TestFiles
                    /\ \E r \in db.references, y \in X : r.callee = <<y>> /\ r.caller = t.name}}
      chain[d \in 0 .. Depth] == IF d = 0 THEN {x} ELSE step(chain[d - 1])
  IN chain

LayersAreDistances ==
  (\A x \in AllNames : Cardinality(Callers(db, <<x>>)) <= CallersLimit) =>
    \A x \in AllNames, tests \in BOOLEAN, d \in 1 .. Depth :
      Layers(db, <<x>>, Depth, tests)[d]
        = {<<y>> : y \in Chain(x, tests)[d] \ UNION {Chain(x, tests)[k] : k \in 0 .. d - 1}}
=============================================================================
