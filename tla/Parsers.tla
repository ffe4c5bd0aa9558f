------------------------------- MODULE Parsers -------------------------------
(***************************************************************************)
(* The language parsers (src/src/indexer/<language>.rs): which symbols and *)
(* references each makes of a syntax tree.                                 *)
(*                                                                         *)
(* Every parser is one walk of the tree that carries two names down: the   *)
(* enclosing class (parent) and the enclosing function (current_function). *)
(* They differ in which nodes set those names, and on which side of the    *)
(* node; in which field of the node the name is looked for; in what they   *)
(* record of a declaration, a call and an import.  Context, Symbols and    *)
(* References are the walk; <Language>_Walk, _Declares, _Inherits,         *)
(* _Imports and _Calls are the differences.                                *)
(*                                                                         *)
(* A tree is the sequence of its nodes in the order of the walk, each      *)
(* after the one it is in (up; 0 is the root).  Nodes without a case in    *)
(* the walk are left out, and so are the kinds a parser has a case for and *)
(* its grammar never produces.  with is the second name a node may carry:  *)
(* the receiver of a call or a method, the base of a class, the trait of   *)
(* an impl, the module of an import.  Signatures, docstrings and positions *)
(* are left out; line stands for the node.                                 *)
(***************************************************************************)
EXTENDS Naturals, Sequences

None == ""

(* How a declaration is recorded: as what, and in what parent.             *)
Declared(as, in) == [as |-> as, in |-> in]

(* How an import is recorded: with which text, and whether its module is   *)
(* a symbol too.                                                           *)
Imported(text, symbol) == [text |-> text, symbol |-> symbol]
-----------------------------------------------------------------------------
(* A name that is set for a node is set before the node is handled (the    *)
(* child's kind is looked at), so that a class is its own parent; or it is *)
(* set only for what is below it (the node's own kind is looked at).  A    *)
(* node whose name is asked for under a field its grammar does not have    *)
(* sets the name to None.                                                  *)

Python_Walk == [opens |-> {"class_definition"}, side |-> "node",
                enters |-> {"function_definition"}, misnamed |-> {}]
Python_Declares == [function_definition  |-> Declared("byParent", "walk"),
                    class_definition     |-> Declared("class", "other")]
Python_Variables == [expression_statement |-> Declared("variable", "top")]
Python_Inherits == [class_definition |-> [kind |-> "inherit", text |-> "with"]]
Python_Imports == [import_from_statement |-> Imported("each", TRUE)]
Python_Calls == [kind |-> "call", at |-> "once", text |-> "whole", by |-> "function"]

(* The names of functions and methods are asked for as id and key.         *)
JavaScript_Walk == [opens |-> {"class_declaration"}, side |-> "node",
                    enters |-> {"function_declaration", "method_definition"},
                    misnamed |-> {"function_declaration", "method_definition"}]
(* Methods are those of a class's body, taken with the class.              *)
JavaScript_Declares == [function_declaration |-> Declared("byParent", "walk"),
                        method_definition    |-> Declared("method", "member"),
                        class_declaration    |-> Declared("class", "other")]
JavaScript_Variables == [export_statement    |-> Declared("export", "none"),
                         lexical_declaration |-> Declared("variable", "top")]
JavaScript_Inherits == [class_declaration |-> [kind |-> "inherit", text |-> "with"]]
JavaScript_Imports == [import_statement |-> Imported("last", TRUE)]
JavaScript_Calls == [kind |-> "call_expression", at |-> "once", text |-> "whole",
                     by |-> "function"]

TypeScript_Walk == [opens |-> {"class_declaration"}, side |-> "node",
                    enters |-> {"function_declaration", "method_definition"},
                    misnamed |-> {"method_definition"}]
TypeScript_Declares == [function_declaration |-> Declared("function", "walk"),
                        class_declaration    |-> Declared("class", "other"),
                        method_definition    |-> Declared("method", "walk")]
TypeScript_Types == [type_alias_declaration |-> Declared("class", "walk"),
                     enum_declaration       |-> Declared("enum", "other"),
                     interface_declaration  |-> Declared("class", "other")]
TypeScript_Imports == [import_statement |-> Imported("last", TRUE)]
(* extract_calls takes every call below the node, and runs at every node.  *)
TypeScript_Calls == [kind |-> "call_expression", at |-> "everyAbove", text |-> "whole",
                     by |-> "function"]

Go_Walk == [opens |-> {}, side |-> "node",
            enters |-> {"function_declaration", "method_declaration"}, misnamed |-> {}]
Go_Declares == [function_declaration |-> Declared("function", "walk"),
                type_spec            |-> Declared("class", "other")]
Go_Methods == [var_declaration    |-> Declared("variable", "top"),
               method_declaration |-> Declared("method", "with")]
Go_Imports == [import_declaration |-> Imported("whole", FALSE)]
Go_Calls == [kind |-> "call_expression", at |-> "once", text |-> "whole", by |-> "function"]

Rust_Walk == [opens |-> {"impl_item", "trait_item"}, side |-> "node",
              enters |-> {"function_item"}, misnamed |-> {}]
Rust_Declares == [function_item |-> Declared("byParent", "walk"),
                  struct_item   |-> Declared("class", "other"),
                  enum_item     |-> Declared("enum", "other"),
                  trait_item    |-> Declared("class", "other")]
Rust_Implements_Inherit == [impl_item |-> [kind |-> "inherit", text |-> "with"]]

(* impl Trait for Type, in a kind the confidence table does not have.      *)
Rust_Implements == [impl_item |-> [kind |-> "implement", text |-> "with"]]
Rust_Imports == [use_declaration |-> Imported("whole", FALSE)]
Rust_Calls == [kind |-> "call_expression", at |-> "once", text |-> "whole", by |-> "function"]

Java_Walk == [opens |-> {"class_declaration", "interface_declaration", "enum_declaration"},
              side |-> "below",
              enters |-> {"method_declaration", "constructor_declaration"}, misnamed |-> {}]
Java_Declares == [method_declaration    |-> Declared("method", "walk"),
                  class_declaration     |-> Declared("class", "other"),
                  interface_declaration |-> Declared("class", "other"),
                  enum_declaration      |-> Declared("enum", "other")]
Java_Members == [field_declaration       |-> Declared("variable", "walk"),
                 constructor_declaration |-> Declared("method", "walk")]
(* The text of the field is the clause, "extends Base".                    *)
Java_Inherits == [class_declaration |-> [kind |-> "inherit", text |-> "clause"]]
Java_Imports == [import_declaration |-> Imported("whole", FALSE)]
(* The method called is asked for as selector, which a call does not have. *)
Java_Calls == [kind |-> "method_invocation", at |-> "never", text |-> "whole",
               by |-> "function"]
-----------------------------------------------------------------------------
(* The name of a struct is asked for as type_identifier; extract_calls is  *)
(* given the function's node, which is no call and has no call as a child. *)
C_Walk == [opens |-> {"struct_specifier"}, side |-> "below",
           enters |-> {"function_definition"}, misnamed |-> {"struct_specifier"}]
C_Declares == [function_definition |-> Declared("function", "walk"),
               struct_specifier    |-> Declared("class", "other")]
C_Calls == [kind |-> "call_expression", at |-> "never", text |-> "whole", by |-> "function"]

Cpp_Walk == [opens |-> {"class_specifier", "struct_specifier", "namespace_definition"},
             side |-> "below", enters |-> {"function_definition"}, misnamed |-> {}]
Cpp_Declares == [function_definition |-> Declared("function", "walk"),
                 class_specifier     |-> Declared("class", "other"),
                 struct_specifier    |-> Declared("class", "walk")]
Cpp_Namespaces == [namespace_definition |-> Declared("module", "walk")]
Cpp_Calls == [kind |-> "call_expression", at |-> "never", text |-> "whole", by |-> "function"]

CSharp_Walk == [opens |-> {"class_declaration", "interface_declaration", "struct_declaration"},
                side |-> "node",
                enters |-> {"method_declaration", "constructor_declaration"}, misnamed |-> {}]
CSharp_Declares == [class_declaration     |-> Declared("class", "other"),
                    struct_declaration    |-> Declared("struct", "other"),
                    interface_declaration |-> Declared("interface", "other")]
CSharp_Members == [method_declaration      |-> Declared("method", "walk"),
                   constructor_declaration |-> Declared("method", "walk"),
                   property_declaration    |-> Declared("field", "walk")]
CSharp_Namespaces == [delegate_declaration  |-> Declared("function", "walk"),
                      namespace_declaration |-> Declared("module", "none")]
(* The method called is asked for as name, which a call does not have.     *)
CSharp_Calls == [kind |-> "invocation_expression", at |-> "never", text |-> "whole",
                 by |-> "function"]

Scala_Walk == [opens |-> {"class_definition", "object_definition", "trait_definition"},
               side |-> "below", enters |-> {}, misnamed |-> {}]
Scala_Declares == [function_definition |-> Declared("function", "walk"),
                   class_definition    |-> Declared("class", "other"),
                   object_definition   |-> Declared("module", "other"),
                   trait_definition    |-> Declared("class", "other")]
Scala_Calls == [kind |-> "call_expression", at |-> "once", text |-> "last", by |-> "parent"]

Php_Walk == [opens |-> {"class_declaration", "enum_declaration"}, side |-> "below",
             enters |-> {}, misnamed |-> {}]
Php_Declares == [function_definition |-> Declared("function", "walk"),
                 class_declaration   |-> Declared("class", "other"),
                 enum_declaration    |-> Declared("enum", "other"),
                 method_declaration  |-> Declared("method", "walk")]
Php_Properties == [property_element |-> Declared("variable", "walk")]
Php_Calls == [kind |-> "function_call_expression", at |-> "once", text |-> "last",
              by |-> "nobody"]

Ruby_Walk == [opens |-> {"class", "module"}, side |-> "below", enters |-> {}, misnamed |-> {}]
Ruby_Declares == [method |-> Declared("method", "walk"),
                  class  |-> Declared("class", "other"),
                  module |-> Declared("module", "walk")]
Ruby_Inherits == [class |-> [kind |-> "inherit", text |-> "clause"]]
(* The first child of obj.f(x) is obj.                                     *)
Ruby_Calls == [kind |-> "call", at |-> "once", text |-> "first", by |-> "nobody"]

Swift_Walk == [opens |-> {"class_declaration"}, side |-> "below", enters |-> {},
               misnamed |-> {}]
Swift_Declares == [function_declaration |-> Declared("function", "walk"),
                   class_declaration    |-> Declared("class", "walk"),
                   protocol_declaration |-> Declared("class", "walk"),
                   property_declaration |-> Declared("variable", "walk")]
Swift_Calls == [kind |-> "call_expression", at |-> "once", text |-> "last", by |-> "nobody"]

Lua_Walk == [opens |-> {}, side |-> "node", enters |-> {"function_declaration"},
             misnamed |-> {}]
Lua_Declares == [function_declaration |-> Declared("function", "walk")]
Lua_Calls == [kind |-> "function_call", at |-> "once", text |-> "whole", by |-> "function"]
-----------------------------------------------------------------------------
Nothing == <<>>

Both(r, s) == [k \in DOMAIN r \cup DOMAIN s |-> IF k \in DOMAIN r THEN r[k] ELSE s[k]]

LanguageParser(walk, declares, inherits, imports, calls) ==
  [walk |-> walk, declares |-> declares, inherits |-> inherits, imports |-> imports,
   calls |-> calls]

Parser ==
  [python     |-> LanguageParser(Python_Walk, Both(Python_Declares, Python_Variables),
                                 Python_Inherits, Python_Imports, Python_Calls),
   javascript |-> LanguageParser(JavaScript_Walk, Both(JavaScript_Declares, JavaScript_Variables),
                                 JavaScript_Inherits, JavaScript_Imports, JavaScript_Calls),
   typescript |-> LanguageParser(TypeScript_Walk, Both(TypeScript_Declares, TypeScript_Types),
                                 Nothing, TypeScript_Imports, TypeScript_Calls),
   go     |-> LanguageParser(Go_Walk, Both(Go_Declares, Go_Methods), Nothing, Go_Imports, Go_Calls),
   rust   |-> LanguageParser(Rust_Walk, Rust_Declares, Rust_Implements, Rust_Imports, Rust_Calls),
   java   |-> LanguageParser(Java_Walk, Both(Java_Declares, Java_Members), Java_Inherits,
                             Java_Imports, Java_Calls),
   c      |-> LanguageParser(C_Walk, C_Declares, Nothing, Nothing, C_Calls),
   cpp    |-> LanguageParser(Cpp_Walk, Both(Cpp_Declares, Cpp_Namespaces), Nothing, Nothing, Cpp_Calls),
   csharp |-> LanguageParser(CSharp_Walk, Both(CSharp_Declares, Both(CSharp_Members, CSharp_Namespaces)),
                             Nothing, Nothing, CSharp_Calls),
   scala  |-> LanguageParser(Scala_Walk, Scala_Declares, Nothing, Nothing, Scala_Calls),
   php    |-> LanguageParser(Php_Walk, Both(Php_Declares, Php_Properties), Nothing, Nothing, Php_Calls),
   ruby   |-> LanguageParser(Ruby_Walk, Ruby_Declares, Ruby_Inherits, Nothing, Ruby_Calls),
   swift  |-> LanguageParser(Swift_Walk, Swift_Declares, Nothing, Nothing, Swift_Calls),
   lua    |-> LanguageParser(Lua_Walk, Lua_Declares, Nothing, Nothing, Lua_Calls)]

Languages == DOMAIN Parser

Context_NotRestored(p, tree) ==
  LET context[i \in 0 .. Len(tree)] ==
        IF i = 0 THEN [parent |-> None, function |-> None]
        ELSE [parent   |-> IF tree[i].kind \in p.walk.opens THEN tree[i].name
                           ELSE context[tree[i].up].parent,
              function |-> IF tree[i].kind \in p.walk.enters THEN tree[i].name
                           ELSE context[i - 1].function]
  IN context

(* What the walk carries to each node, and to the root (0).                *)
Context(p, tree) ==
  LET named(i) == IF tree[i].kind \in p.walk.misnamed THEN None ELSE tree[i].name
      opens(i) == i # 0 /\ tree[i].kind \in p.walk.opens
      context[i \in 0 .. Len(tree)] ==
        IF i = 0 THEN [parent |-> None, function |-> None]
        ELSE LET up == tree[i].up IN
             [parent   |-> IF p.walk.side = "node" /\ opens(i) THEN named(i)
                           ELSE IF p.walk.side = "below" /\ opens(up) THEN named(up)
                           ELSE context[up].parent,
              function |-> IF tree[i].kind \in p.walk.enters THEN named(i)
                           ELSE context[up].function]
  IN context

(* The nodes node i is in, the root among them.                            *)
Above(tree, i) ==
  LET above[j \in 0 .. Len(tree)] ==
        IF j = 0 THEN {} ELSE {tree[j].up} \cup above[tree[j].up]
  IN above[i]

Text(rule, n) ==
  CASE rule = "with"   -> {<<n.with>>}
    [] rule = "clause" -> {<<"extends", n.with>>}
    [] rule = "each"   -> {<<n.with>>, <<n.name>>}
    [] rule = "first" /\ n.with # None -> {<<n.with>>}
    [] rule = "whole" /\ n.with # None -> {<<n.with, n.name>>}
    [] OTHER -> {<<n.name>>}

Symbol(i, name, kind, parent) == [line |-> i, name |-> name, kind |-> kind, parent |-> parent]

(* A declaration, in the parent its rule gives it.  A class that is its    *)
(* own parent has none ("BUG-011").                                        *)
DeclaredSymbol(p, tree, i) ==
  LET rule == p.declares[tree[i].kind]
      parent == Context(p, tree)[i].parent
      as == IF rule.as # "byParent" THEN rule.as
            ELSE IF parent = None THEN "function" ELSE "method"
      in(s) == {Symbol(i, tree[i].name, as, s)}
      up == tree[i].up
  IN CASE rule.in = "walk"   -> in(parent)
       [] rule.in = "other"  -> in(IF parent = tree[i].name THEN None ELSE parent)
       [] rule.in = "with"   -> in(tree[i].with)
       [] rule.in = "none"   -> in(None)
       [] rule.in = "top"    -> IF parent = None THEN in(None) ELSE {}
       [] rule.in = "member" -> IF up # 0 /\ tree[up].kind \in p.walk.opens
                                THEN in(tree[up].name) ELSE {}

Symbols(p, tree) ==
  (UNION {DeclaredSymbol(p, tree, i) : i \in {j \in DOMAIN tree : tree[j].kind \in DOMAIN p.declares}})
  \cup {Symbol(i, tree[i].with, "import", None) :
          i \in {j \in DOMAIN tree : /\ tree[j].kind \in DOMAIN p.imports
                                     /\ p.imports[tree[j].kind].symbol}}

Reference(i, caller, callee, kind) ==
  [line |-> i, caller |-> caller, callee |-> callee, kind |-> kind]

CallReferences(p, tree, i) ==
  LET context == Context(p, tree)
      seen == CASE p.calls.at = "once"       -> {context[i]}
                [] p.calls.at = "everyAbove" -> {context[a] : a \in Above(tree, i)}
                [] p.calls.at = "never"      -> {}
      caller(s) == CASE p.calls.by = "function" -> s.function
                     [] p.calls.by = "parent"   -> s.parent
                     [] p.calls.by = "nobody"   -> None
  IN {Reference(i, caller(s), x, "call") : s \in seen, x \in Text(p.calls.text, tree[i])}

References(p, tree) ==
  UNION ({CallReferences(p, tree, i) : i \in {j \in DOMAIN tree : tree[j].kind = p.calls.kind}}
         \cup {{Reference(i, None, x, "import") : x \in Text(p.imports[tree[i].kind].text, tree[i])} :
                 i \in {j \in DOMAIN tree : tree[j].kind \in DOMAIN p.imports}}
         \cup {{Reference(i, tree[i].name, x, p.inherits[tree[i].kind].kind) :
                   x \in Text(p.inherits[tree[i].kind].text, tree[i])} :
                 i \in {j \in DOMAIN tree : /\ tree[j].kind \in DOMAIN p.inherits
                                            /\ tree[j].with # None}})

(* ParsedReference::confidence is 1 for these kinds only, and index_file   *)
(* calls the rest dynamic.                                                 *)
StaticKinds == {"call", "import", "inherit", "export", "use", "require", "include"}
=============================================================================
