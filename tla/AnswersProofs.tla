---------------------------- MODULE AnswersProofs ----------------------------
(***************************************************************************)
(* Proofs about module Answers, for projects of any size and any names, in *)
(* each of the languages of module Parsers.  The walks and the searches    *)
(* are recursive, and what they compute takes induction: over the numbers, *)
(* by the finite subsets of them (Least), as the induction rules of the    *)
(* libraries cannot be applied by the provers there are.                   *)
(***************************************************************************)
EXTENDS Answers, FiniteSetTheorems, WellFoundedInduction, TLAPS

(* Induction.                                                              *)
LEMMA Least ==
  ASSUME NEW S \in SUBSET Nat, S # {} PROVE \E m \in S : \A k \in S : m <= k
<1> DEFINE F == FiniteSubsetsOf(Nat)
           R == StrictSubsetOrdering(Nat)
           T == {0 .. n : n \in S}
<1>1. \A n \in S : 0 .. n \in F
  <2> TAKE n \in S
  <2>1. n \in Nat /\ 0 .. n \in SUBSET Nat
    OBVIOUS
  <2>2. IsFiniteSet(0 .. n)
    BY <2>1, FS_Interval
  <2> QED BY <2>1, <2>2 DEF FiniteSubsetsOf
<1>2. T \subseteq F /\ T # {}
  BY <1>1
<1>3. IsWellFoundedOn(R, F)
  BY FS_StrictSubsetOrderingWellFounded
<1>4. PICK x \in T : \A y \in T : ~(<<y, x>> \in R)
  <2> HIDE DEF T, F, R
  <2> QED BY <1>2, <1>3, WFMin
<1>5. PICK m \in S : x = 0 .. m
  BY <1>4
<1>6. ASSUME NEW k \in S, ~(m <= k) PROVE FALSE
  <2>1. k \in Nat /\ m \in Nat /\ k < m
    BY <1>6
  <2>2. <<0 .. k, 0 .. m>> \in R
    <3>1. 0 .. k \in SUBSET Nat /\ 0 .. m \in SUBSET Nat /\ 0 .. k \subseteq 0 .. m
      BY <2>1
    <3>2. 0 .. k # 0 .. m
      BY <2>1
    <3> QED BY <3>1, <3>2 DEF StrictSubsetOrdering
  <2> QED BY <1>4, <1>5, <2>2
<1> QED BY <1>6

LEMMA Induction ==
  ASSUME NEW n \in Nat, NEW G,
         \A i \in 0 .. n : (\A j \in 0 .. n : j < i => j \in G) => i \in G
  PROVE  \A i \in 0 .. n : i \in G
<1> DEFINE Bad == {i \in 0 .. n : i \notin G}
<1> SUFFICES ASSUME Bad # {} PROVE FALSE
  OBVIOUS
<1>1. PICK m \in Bad : \A k \in Bad : m <= k
  <2>1. Bad \in SUBSET Nat
    OBVIOUS
  <2> HIDE DEF Bad
  <2> QED BY <2>1, Least
<1>2. \A j \in 0 .. n : j < m => j \in G
  BY <1>1
<1> QED BY <1>1, <1>2

(* A function whose value at i is made of that at up[i], which is before   *)
(* i, exists.                                                              *)
Follows(f, n, b, up, step) == f[0] = b /\ \A i \in 1 .. n : f[i] = step[i][f[up[i]]]

LEMMA Recursion ==
  ASSUME NEW n \in Nat, NEW S, NEW b \in S, NEW up \in [1 .. n -> Nat],
         \A i \in 1 .. n : up[i] < i,
         NEW step \in [1 .. n -> [S -> S]]
  PROVE  \E f \in [0 .. n -> S] : Follows(f, n, b, up, step)
<1> DEFINE Fits(f, m) == Follows(f, m, b, up, step)
           G == {m \in 0 .. n : \E f \in [0 .. m -> S] : Fits(f, m)}
<1>1. ASSUME NEW m \in 0 .. n, \A j \in 0 .. n : j < m => j \in G PROVE m \in G
  <2>1. CASE m = 0
    <3> DEFINE f == [i \in 0 .. 0 |-> b]
    <3>1. f \in [0 .. m -> S] /\ Fits(f, m)
      BY <2>1 DEF Follows
    <3> QED BY <3>1
  <2>2. CASE m # 0
    <3>1. m - 1 \in G /\ m \in 1 .. n
      <4>1. m - 1 \in 0 .. n /\ m - 1 < m /\ m \in 1 .. n
        BY <2>2
      <4> HIDE DEF G
      <4> QED BY <1>1, <4>1
    <3>2. PICK f \in [0 .. m - 1 -> S] : Fits(f, m - 1)
      BY <3>1
    <3> DEFINE g == [i \in 0 .. m |-> IF i = m THEN step[m][f[up[m]]] ELSE f[i]]
    <3>3. up[m] \in 0 .. m - 1 /\ step[m][f[up[m]]] \in S
      BY <3>1
    <3>4. g \in [0 .. m -> S]
      BY <3>1, <3>3
    <3>5. g[0] = b
      BY <3>1, <3>2 DEF Follows
    <3>6. ASSUME NEW i \in 1 .. m PROVE g[i] = step[i][g[up[i]]]
      <4>1. up[i] \in 0 .. m - 1 /\ g[up[i]] = f[up[i]]
        BY <3>1
      <4>2. CASE i = m
        BY <4>1, <4>2
      <4>3. CASE i # m
        BY <3>2, <4>1, <4>3 DEF Follows
      <4> QED BY <4>2, <4>3
    <3>7. Fits(g, m)
      BY <3>5, <3>6 DEF Follows
    <3> QED BY <3>4, <3>7
  <2> QED BY <2>1, <2>2
<1>2. n \in G
  <2>1. n \in 0 .. n
    OBVIOUS
  <2> HIDE DEF G
  <2>2. \A i \in 0 .. n : (\A j \in 0 .. n : j < i => j \in G) => i \in G
    BY <1>1
  <2>3. \A i \in 0 .. n : i \in G
    BY <2>2, Induction
  <2> QED BY <2>1, <2>3
<1> QED BY <1>2
-----------------------------------------------------------------------------
(* The languages, read off their tables.                                   *)
LEMMA LanguagesAre ==
  Languages = {"python", "javascript", "typescript", "go", "rust", "java", "c", "cpp", "csharp",
               "scala", "php", "ruby", "swift", "lua"}
BY DEF Languages, Parser

(* Whose callers are the functions of the source, and which of them.       *)
Named(l) == l \in ByFunction \cup {"javascript", "typescript"}

CallsAre(l) ==
  LET q == Parser[l]
      functions == Grammar[l].functions
  IN  /\ q.calls.kind \notin functions \cup q.walk.opens \cup DOMAIN q.imports
      /\ Named(l) => /\ q.calls.by = "function" /\ q.calls.text = "whole"
                     /\ q.calls.at = IF l = "typescript" THEN "everyAbove" ELSE "once"
                     /\ q.walk.enters = functions
                     /\ q.walk.misnamed = CASE l = "javascript" -> functions
                                            [] l = "typescript" -> {"method_definition"}
                                            [] OTHER -> {}
      /\ l = "typescript" => functions = {"function_declaration", "method_definition"}
      /\ l = "scala" => /\ q.calls.by = "parent" /\ q.calls.text = "last" /\ q.calls.at = "once"
                        /\ q.walk.side = "below" /\ q.walk.misnamed = {}
      /\ ~Named(l) /\ l # "scala" => q.calls.at = "never" \/ q.calls.by = "nobody"

LEMMA CallTable == \A l \in Languages : CallsAre(l)
<1> USE DEF CallsAre, Named, ByFunction, Parser, LanguageParser, Grammar, Syntax
<1>1. CallsAre("python")
  BY DEF Python_Calls, Python_Walk, Python_Imports
<1>2. CallsAre("javascript")
  BY DEF JavaScript_Calls, JavaScript_Walk, JavaScript_Imports
<1>3. CallsAre("typescript")
  BY DEF TypeScript_Calls, TypeScript_Walk, TypeScript_Imports
<1>4. CallsAre("go")
  BY DEF Go_Calls, Go_Walk, Go_Imports
<1>5. CallsAre("rust")
  BY DEF Rust_Calls, Rust_Walk, Rust_Imports
<1>6. CallsAre("java")
  BY DEF Java_Calls, Java_Walk, Java_Imports
<1>7. CallsAre("c")
  BY DEF C_Calls, C_Walk, Nothing
<1>8. CallsAre("cpp")
  BY DEF Cpp_Calls, Cpp_Walk, Nothing
<1>9. CallsAre("csharp")
  BY DEF CSharp_Calls, CSharp_Walk, Nothing
<1>10. CallsAre("scala")
  BY DEF Scala_Calls, Scala_Walk, Nothing
<1>11. CallsAre("php")
  BY DEF Php_Calls, Php_Walk, Nothing
<1>12. CallsAre("ruby")
  BY DEF Ruby_Calls, Ruby_Walk, Nothing
<1>13. CallsAre("swift")
  BY DEF Swift_Calls, Swift_Walk, Nothing
<1>14. CallsAre("lua")
  <2> DEFINE q == Parser["lua"]
  <2>1. q.calls = Lua_Calls /\ q.walk = Lua_Walk /\ q.imports = Nothing
    OBVIOUS
  <2>2. Grammar["lua"].functions = {"function_declaration"}
    OBVIOUS
  <2>3. DOMAIN Nothing = {}
    BY DEF Nothing
  <2> HIDE DEF Parser, Grammar
  <2> QED BY <2>1, <2>2, <2>3 DEF Lua_Calls, Lua_Walk
<1> HIDE DEF CallsAre
<1> QED BY LanguagesAre, <1>1, <1>2, <1>3, <1>4, <1>5, <1>6, <1>7, <1>8, <1>9,
       <1>10, <1>11, <1>12, <1>13, <1>14

(* Which declarations are always recorded.                                 *)
Recorded(l, k) == /\ k \in DOMAIN Parser[l].declares
                  /\ Parser[l].declares[k].in \in {"walk", "other", "with"}

LEMMA DeclareTable ==
  /\ \A l \in ByFunction : \A k \in Grammar[l].functions : Recorded(l, k)
  /\ Recorded("typescript", "function_declaration")
  /\ \A l \in {"python", "javascript", "scala"} : \A k \in Parser[l].walk.opens : Recorded(l, k)
<1> USE DEF Recorded, Declared, Both, Parser, LanguageParser, Grammar, Syntax
<1>1. \A k \in Grammar["python"].functions \cup Parser["python"].walk.opens : Recorded("python", k)
  BY DEF Python_Declares, Python_Variables, Python_Walk
<1>2. \A k \in Grammar["go"].functions : Recorded("go", k)
  BY DEF Go_Declares, Go_Methods
<1>3. \A k \in Grammar["rust"].functions : Recorded("rust", k)
  BY DEF Rust_Declares
<1>4. \A k \in Grammar["lua"].functions : Recorded("lua", k)
  BY DEF Lua_Declares
<1>5. Recorded("typescript", "function_declaration")
  BY DEF TypeScript_Declares, TypeScript_Types
<1>6. \A k \in Parser["javascript"].walk.opens : Recorded("javascript", k)
  BY DEF JavaScript_Declares, JavaScript_Variables, JavaScript_Walk
<1>7. \A k \in Parser["scala"].walk.opens : Recorded("scala", k)
  BY DEF Scala_Declares, Scala_Walk
<1> HIDE DEF Recorded, Parser, Grammar
<1> QED BY <1>1, <1>2, <1>3, <1>4, <1>5, <1>6, <1>7 DEF ByFunction

(* What is recorded of a base: its name, or the words of the clause.       *)
BasesAre(l) ==
  LET q == Parser[l] IN
  /\ DOMAIN q.imports \cap DOMAIN q.inherits = {}
  /\ l \in {"python", "javascript"} => DOMAIN q.inherits = q.walk.opens
  /\ l = "rust" => DOMAIN q.inherits = {"impl_item"}
  /\ \A k \in DOMAIN q.inherits :
       /\ q.inherits[k].kind = IF l = "rust" THEN "implement" ELSE "inherit"
       /\ q.inherits[k].text = IF l \in {"python", "javascript", "rust"} THEN "with" ELSE "clause"

LEMMA BaseTable == (\A l \in Languages : BasesAre(l)) /\ "method_declaration" \notin DOMAIN Go_Imports
<1>0. DOMAIN Nothing = {}
  BY DEF Nothing
<1> USE DEF BasesAre, Parser, LanguageParser
<1>1. BasesAre("python")
  <2>1. /\ Parser["python"].inherits = Python_Inherits /\ Parser["python"].walk = Python_Walk
        /\ Parser["python"].imports = Python_Imports
    OBVIOUS
  <2>2. DOMAIN Python_Inherits = {"class_definition"} /\ Python_Walk.opens = {"class_definition"}
    BY DEF Python_Inherits, Python_Walk
  <2>3. Python_Inherits["class_definition"].kind = "inherit" /\ Python_Inherits["class_definition"].text = "with"
    BY DEF Python_Inherits
  <2>4. "class_definition" \notin DOMAIN Python_Imports
    BY DEF Python_Imports
  <2> HIDE DEF Parser
  <2> QED BY <2>1, <2>2, <2>3, <2>4
<1>2. BasesAre("javascript")
  <2>1. /\ Parser["javascript"].inherits = JavaScript_Inherits /\ Parser["javascript"].walk = JavaScript_Walk
        /\ Parser["javascript"].imports = JavaScript_Imports
    OBVIOUS
  <2>2. DOMAIN JavaScript_Inherits = {"class_declaration"} /\ JavaScript_Walk.opens = {"class_declaration"}
    BY DEF JavaScript_Inherits, JavaScript_Walk
  <2>3. JavaScript_Inherits["class_declaration"].kind = "inherit" /\ JavaScript_Inherits["class_declaration"].text = "with"
    BY DEF JavaScript_Inherits
  <2>4. "class_declaration" \notin DOMAIN JavaScript_Imports
    BY DEF JavaScript_Imports
  <2> HIDE DEF Parser
  <2> QED BY <2>1, <2>2, <2>3, <2>4
<1>3. BasesAre("typescript")
  BY <1>0 DEF TypeScript_Imports
<1>4. BasesAre("go")
  BY <1>0 DEF Go_Imports
<1>5. BasesAre("rust")
  BY <1>0 DEF Rust_Implements, Rust_Imports
<1>6. BasesAre("java")
  BY <1>0 DEF Java_Inherits, Java_Imports
<1>7. BasesAre("c")
  BY <1>0
<1>8. BasesAre("cpp")
  BY <1>0
<1>9. BasesAre("csharp")
  BY <1>0
<1>10. BasesAre("scala")
  BY <1>0
<1>11. BasesAre("php")
  BY <1>0
<1>12. BasesAre("ruby")
  BY <1>0 DEF Ruby_Inherits
<1>13. BasesAre("swift")
  BY <1>0
<1>14. BasesAre("lua")
  BY <1>0
<1> HIDE DEF BasesAre
<1> QED BY LanguagesAre, <1>1, <1>2, <1>3, <1>4, <1>5, <1>6, <1>7, <1>8, <1>9, <1>10, <1>11, <1>12,
       <1>13, <1>14 DEF Go_Imports
-----------------------------------------------------------------------------
(* A tree, and what is above a node of it.                                 *)
LEMMA NodeFacts ==
  ASSUME NEW l \in Languages, NEW tree, IsTree(l, tree), NEW i \in DOMAIN tree
  PROVE  /\ i \in 1 .. Len(tree) /\ Len(tree) \in Nat
         /\ tree[i].name \in AllNames /\ tree[i].up \in 0 .. i - 1
         /\ tree[i].kind \in DOMAIN Parser[l].imports => tree[i].with = Elsewhere
<1>1. tree \in Seq(NodeType) /\ i \in 1 .. Len(tree) /\ Len(tree) \in Nat
  BY DEF IsTree
<1>2. Len(SubSeq(tree, 1, i - 1)) = i - 1
  BY <1>1
<1>3. PICK u \in 0 .. i - 1 :
         \E k \in HeldBy(l, SubSeq(tree, 1, i - 1), u), x \in AllNames :
           \E w \in Withs(l, AllNames, k, x) :
             tree[i] = [kind |-> k, name |-> x, with |-> w, up |-> u]
  BY <1>2 DEF IsTree, Nodes
<1>4. PICK k \in HeldBy(l, SubSeq(tree, 1, i - 1), u), x \in AllNames :
           \E w \in Withs(l, AllNames, k, x) :
             tree[i] = [kind |-> k, name |-> x, with |-> w, up |-> u]
  BY <1>3
<1>5. PICK w \in Withs(l, AllNames, k, x) :
         tree[i] = [kind |-> k, name |-> x, with |-> w, up |-> u]
  BY <1>4
<1>6. ASSUME k \in DOMAIN Parser[l].imports PROVE w = Elsewhere
  <2>1. k # Parser[l].calls.kind
    BY <1>6, CallTable DEF CallsAre
  <2>2. k \notin DOMAIN Parser[l].inherits
    BY <1>6, BaseTable DEF BasesAre
  <2>3. ~(k = "method_declaration" /\ l = "go")
    BY <1>6, BaseTable DEF Parser, LanguageParser
  <2> QED BY <1>6, <2>1, <2>2, <2>3 DEF Withs
<1> QED BY <1>1, <1>5, <1>6

LEMMA AboveIs ==
  ASSUME NEW l \in Languages, NEW tree, IsTree(l, tree)
  PROVE  /\ Above(tree, 0) = {}
         /\ \A i \in DOMAIN tree : Above(tree, i) = {tree[i].up} \cup Above(tree, tree[i].up)
<1> DEFINE n == Len(tree)
           up == [i \in 1 .. n |-> tree[i].up]
           S == SUBSET Nat
           step == [i \in 1 .. n |-> [X \in S |-> {up[i]} \cup X]]
<1>1. n \in Nat /\ DOMAIN tree = 1 .. n
  BY DEF IsTree
<1>2. \A i \in 1 .. n : tree[i].up \in 0 .. i - 1
  BY <1>1, NodeFacts
<1>3. up \in [1 .. n -> Nat] /\ \A i \in 1 .. n : up[i] < i
  BY <1>1, <1>2
<1>4. step \in [1 .. n -> [S -> S]]
  BY <1>3
<1>5. PICK f \in [0 .. n -> S] : Follows(f, n, {}, up, step)
  <2>1. {} \in S
    OBVIOUS
  <2> HIDE DEF n, up, S, step
  <2> QED BY <1>1, <1>3, <1>4, <2>1, Recursion
<1>6. ASSUME NEW i \in 1 .. n PROVE step[i][f[up[i]]] = {tree[i].up} \cup f[tree[i].up]
  <2>1. up[i] = tree[i].up /\ f[up[i]] \in S
    BY <1>1, <1>2
  <2> QED BY <2>1
<1>7. f = [j \in 0 .. n |-> IF j = 0 THEN {} ELSE {tree[j].up} \cup f[tree[j].up]]
  <2> HIDE DEF step, up, S
  <2> QED BY <1>1, <1>5, <1>6 DEF Follows
<1> DEFINE A[j \in 0 .. Len(tree)] == IF j = 0 THEN {} ELSE {tree[j].up} \cup A[tree[j].up]
<1>8. A = [j \in 0 .. n |-> IF j = 0 THEN {} ELSE {tree[j].up} \cup A[tree[j].up]]
  BY <1>7
<1>9. \A i : Above(tree, i) = A[i]
  BY DEF Above
<1> HIDE DEF A
<1> QED BY <1>1, <1>8, <1>9

LEMMA AboveFacts ==
  ASSUME NEW l \in Languages, NEW tree, IsTree(l, tree), NEW i \in 0 .. Len(tree)
  PROVE  /\ Above(tree, i) \subseteq 0 .. i - 1
         /\ \A a \in Above(tree, i) : Above(tree, a) \subseteq Above(tree, i)
<1> DEFINE n == Len(tree)
           P(j) == /\ Above(tree, j) \subseteq 0 .. j - 1
                   /\ \A a \in Above(tree, j) : Above(tree, a) \subseteq Above(tree, j)
           G == {j \in 0 .. n : P(j)}
<1>1. n \in Nat /\ DOMAIN tree = 1 .. n
  BY DEF IsTree
<1>2. ASSUME NEW j \in 0 .. n, \A k \in 0 .. n : k < j => k \in G PROVE j \in G
  <2>1. CASE j = 0
    BY <2>1, AboveIs
  <2>2. CASE j # 0
    <3>1. j \in DOMAIN tree /\ tree[j].up \in 0 .. j - 1
      BY <1>1, <2>2, NodeFacts
    <3>2. P(tree[j].up)
      BY <1>2, <3>1
    <3>3. Above(tree, j) = {tree[j].up} \cup Above(tree, tree[j].up)
      BY <3>1, AboveIs
    <3>4. Above(tree, j) \subseteq 0 .. j - 1
      BY <3>1, <3>2, <3>3
    <3>5. \A a \in Above(tree, j) : Above(tree, a) \subseteq Above(tree, j)
      BY <3>2, <3>3
    <3> QED BY <3>4, <3>5
  <2> QED BY <2>1, <2>2
<1>3. \A j \in 0 .. n : j \in G
  <2> HIDE DEF G
  <2>1. \A j \in 0 .. n : (\A k \in 0 .. n : k < j => k \in G) => j \in G
    BY <1>2
  <2> QED BY <1>1, <2>1, Induction
<1> QED BY <1>3
-----------------------------------------------------------------------------
(* What the walk carries to a node.                                        *)
LEMMA MaxIs ==
  ASSUME NEW n \in Nat, NEW S \in SUBSET (0 .. n), S # {}
  PROVE  /\ Max(S) \in S /\ \A k \in S : k <= Max(S)
         /\ \A m \in S : (\A k \in S : k <= m) => Max(S) = m
<1>0. \A k \in S : k \in 0 .. n
  OBVIOUS
<1> DEFINE T == {n - k : k \in S}
<1>1. T \in SUBSET Nat
  OBVIOUS
<1>2. PICK t \in T : \A k \in T : t <= k
  <2>1. T # {}
    OBVIOUS
  <2> HIDE DEF T
  <2> QED BY <1>1, <2>1, Least
<1>3. PICK m \in S : t = n - m
  BY <1>2
<1>4. ASSUME NEW k \in S PROVE k <= m
  <2>1. t <= n - k
    BY <1>2
  <2>2. k \in 0 .. n /\ m \in 0 .. n
    OBVIOUS
  <2> QED BY <1>3, <2>1, <2>2
<1>5. Max(S) \in S /\ \A k \in S : Max(S) >= k
  <2>1. \A k \in S : m >= k
    BY <1>4
  <2> QED BY <2>1 DEF Max
<1>6. \A k \in S : k \in Nat
  <2> HIDE DEF T
  <2> QED BY <1>0
<1>7. ASSUME NEW j \in S, \A k \in S : k <= j PROVE Max(S) = j
  <2> HIDE DEF T
  <2>1. Max(S) <= j /\ Max(S) >= j
    BY <1>5, <1>7
  <2>2. Max(S) \in Nat /\ j \in Nat
    BY <1>5, <1>6
  <2> QED BY <2>1, <2>2
<1> QED BY <1>5, <1>6, <1>7

NameAt(q, tree, i) == IF tree[i].kind \in q.walk.misnamed THEN None ELSE tree[i].name

LEMMA ContextIs ==
  ASSUME NEW l \in Languages, NEW tree, IsTree(l, tree)
  PROVE  LET q == Parser[l]
             c == Context(q, tree)
         IN  /\ c[0].function = None /\ c[0].parent = None
             /\ \A i \in DOMAIN tree :
                  /\ c[i].function = IF tree[i].kind \in q.walk.enters THEN NameAt(q, tree, i)
                                     ELSE c[tree[i].up].function
                  /\ q.walk.side = "below" =>
                       c[i].parent = IF tree[i].up # 0 /\ tree[tree[i].up].kind \in q.walk.opens
                                     THEN NameAt(q, tree, tree[i].up)
                                     ELSE c[tree[i].up].parent
<1> DEFINE n == Len(tree)
           q == Parser[l]
           named(i) == IF tree[i].kind \in q.walk.misnamed THEN None ELSE tree[i].name
           opens(i) == i # 0 /\ tree[i].kind \in q.walk.opens
           next(i, c) ==
             [parent   |-> IF q.walk.side = "node" /\ opens(i) THEN named(i)
                           ELSE IF q.walk.side = "below" /\ opens(tree[i].up) THEN named(tree[i].up)
                           ELSE c.parent,
              function |-> IF tree[i].kind \in q.walk.enters THEN named(i) ELSE c.function]
           up == [i \in 1 .. n |-> tree[i].up]
           U == {None} \cup AllNames
           S == [parent : U, function : U]
           step == [i \in 1 .. n |-> [c \in S |-> next(i, c)]]
           start == [parent |-> None, function |-> None]
<1>1. n \in Nat /\ DOMAIN tree = 1 .. n
  BY DEF IsTree
<1>2. \A i \in 1 .. n : tree[i].up \in 0 .. i - 1 /\ tree[i].name \in AllNames
  BY <1>1, NodeFacts
<1>3. up \in [1 .. n -> Nat] /\ \A i \in 1 .. n : up[i] < i
  BY <1>1, <1>2
<1>4. step \in [1 .. n -> [S -> S]]
  <2>1. \A i \in 1 .. n : named(i) \in U
    BY <1>2
  <2>2. ASSUME NEW i \in 1 .. n, NEW c \in S PROVE next(i, c) \in S
    <3>1. opens(tree[i].up) => tree[i].up \in 1 .. n
      BY <1>1, <1>2
    <3>2. c.parent \in U /\ c.function \in U
      OBVIOUS
    <3> HIDE DEF named, opens, q, U
    <3> QED BY <2>1, <3>1, <3>2
  <2> HIDE DEF next, S
  <2> QED BY <2>2
<1>5. PICK f \in [0 .. n -> S] : Follows(f, n, start, up, step)
  <2>1. start \in S
    OBVIOUS
  <2> HIDE DEF n, up, S, step, start
  <2> QED BY <1>1, <1>3, <1>4, <2>1, Recursion
<1>6. ASSUME NEW i \in 1 .. n PROVE step[i][f[up[i]]] = next(i, f[tree[i].up])
  <2>1. up[i] = tree[i].up /\ f[up[i]] \in S
    BY <1>1, <1>2
  <2> HIDE DEF next, S
  <2> QED BY <2>1
<1>7. f = [i \in 0 .. n |-> IF i = 0 THEN start ELSE next(i, f[tree[i].up])]
  <2> HIDE DEF step, up, S, next, start
  <2> QED BY <1>1, <1>5, <1>6 DEF Follows
<1> DEFINE C[i \in 0 .. Len(tree)] ==
             IF i = 0 THEN [parent |-> None, function |-> None]
             ELSE LET to == tree[i].up IN
                  [parent   |-> IF q.walk.side = "node" /\ opens(i) THEN named(i)
                                ELSE IF q.walk.side = "below" /\ opens(to) THEN named(to)
                                ELSE C[to].parent,
                   function |-> IF tree[i].kind \in q.walk.enters THEN named(i)
                                ELSE C[to].function]
<1>8. C = [i \in 0 .. n |-> IF i = 0 THEN start ELSE next(i, C[tree[i].up])]
  BY <1>7
<1>9. Context(q, tree) = C
  BY DEF Context
<1>10. C[0] = start /\ \A i \in 1 .. n : C[i] = next(i, C[tree[i].up])
  <2> HIDE DEF C, next, start
  <2> QED BY <1>1, <1>8
<1> HIDE DEF C
<1>11. C[0].function = None /\ C[0].parent = None
  <2>1. C[0] = start
    BY <1>10
  <2> HIDE DEF next
  <2> QED BY <2>1
<1>12. ASSUME NEW i \in 1 .. n
       PROVE  /\ C[i].function = IF tree[i].kind \in q.walk.enters THEN NameAt(q, tree, i)
                                 ELSE C[tree[i].up].function
              /\ q.walk.side = "below" =>
                   C[i].parent = IF opens(tree[i].up) THEN NameAt(q, tree, tree[i].up)
                                 ELSE C[tree[i].up].parent
  <2>1. C[i] = next(i, C[tree[i].up])
    BY <1>10
  <2>2. named(i) = NameAt(q, tree, i) /\ named(tree[i].up) = NameAt(q, tree, tree[i].up)
    BY DEF NameAt
  <2> HIDE DEF named, opens, q
  <2> QED BY <2>1, <2>2
<1>13. \A i \in DOMAIN tree : opens(tree[i].up) <=> tree[i].up # 0 /\ tree[tree[i].up].kind \in q.walk.opens
  OBVIOUS
<1> HIDE DEF opens, q, named
<1>14. LET c == C
         IN  /\ c[0].function = None /\ c[0].parent = None
             /\ \A i \in DOMAIN tree :
                  /\ c[i].function = IF tree[i].kind \in q.walk.enters THEN NameAt(q, tree, i)
                                     ELSE c[tree[i].up].function
                  /\ q.walk.side = "below" =>
                       c[i].parent = IF tree[i].up # 0 /\ tree[tree[i].up].kind \in q.walk.opens
                                     THEN NameAt(q, tree, tree[i].up)
                                     ELSE c[tree[i].up].parent
  <2> HIDE DEF n
  <2> QED BY <1>1, <1>11, <1>12, <1>13
<1> QED BY <1>9, <1>14 DEF q

(* The nodes of some kinds among others, and the name the last one gives.  *)
Inside(tree, K, X) == {j \in X : j # 0 /\ tree[j].kind \in K}

NameOf(q, tree, X) == IF X = {} THEN None ELSE NameAt(q, tree, Max(X))

(* The name carried as that of the function is that of the innermost node  *)
(* that enters one, the node itself among them.                            *)
LEMMA FunctionIs ==
  ASSUME NEW l \in Languages, NEW tree, IsTree(l, tree), NEW i \in 0 .. Len(tree)
  PROVE  Context(Parser[l], tree)[i].function
           = NameOf(Parser[l], tree, Inside(tree, Parser[l].walk.enters, Above(tree, i) \cup {i}))
<1> DEFINE n == Len(tree)
           q == Parser[l]
           c == Context(q, tree)
           E(j) == Inside(tree, q.walk.enters, Above(tree, j) \cup {j})
           G == {j \in 0 .. n : c[j].function = NameOf(q, tree, E(j))}
<1>1. n \in Nat /\ DOMAIN tree = 1 .. n
  BY DEF IsTree
<1>2. ASSUME NEW j \in 0 .. n, \A k \in 0 .. n : k < j => k \in G PROVE j \in G
  <2>1. CASE j = 0
    <3>1. E(j) = {} /\ c[j].function = None
      BY <2>1, AboveIs, ContextIs DEF Inside
    <3> QED BY <3>1 DEF NameOf
  <2>2. CASE j # 0
    <3>1. j \in DOMAIN tree /\ tree[j].up \in 0 .. j - 1
      BY <1>1, <2>2, NodeFacts
    <3>2. Above(tree, j) = {tree[j].up} \cup Above(tree, tree[j].up)
      BY <3>1, AboveIs
    <3>3. tree[j].up \in G
      BY <1>2, <3>1
    <3>4. c[j].function = IF tree[j].kind \in q.walk.enters THEN NameAt(q, tree, j)
                          ELSE c[tree[j].up].function
      BY <3>1, ContextIs
    <3>5. CASE tree[j].kind \in q.walk.enters
      <4>1. E(j) \in SUBSET (0 .. j) /\ j \in E(j)
        BY <3>1, <3>5, AboveFacts DEF Inside
      <4>2. Max(E(j)) = j
        <5>1. \A k \in E(j) : k <= j
          BY <4>1
        <5>2. j \in Nat
          BY <3>1
        <5> HIDE DEF E
        <5> QED BY <4>1, <5>1, <5>2, MaxIs
      <4> HIDE DEF E
      <4> QED BY <3>4, <3>5, <4>1, <4>2 DEF NameOf
    <3>6. CASE tree[j].kind \notin q.walk.enters
      <4>1. E(j) = E(tree[j].up)
        BY <3>2, <3>6 DEF Inside
      <4> HIDE DEF E
      <4> QED BY <3>3, <3>4, <3>6, <4>1
    <3> QED BY <3>5, <3>6
  <2> QED BY <2>1, <2>2
<1>3. \A j \in 0 .. n : j \in G
  <2> HIDE DEF G
  <2>1. \A j \in 0 .. n : (\A k \in 0 .. n : k < j => k \in G) => j \in G
    BY <1>2
  <2> QED BY <1>1, <2>1, Induction
<1> QED BY <1>3

(* Where a class gives its name to what is below it, that of the innermost *)
(* class the node is in is carried as the parent.                          *)
LEMMA ParentIs ==
  ASSUME NEW l \in Languages, NEW tree, IsTree(l, tree), NEW i \in 0 .. Len(tree),
         Parser[l].walk.side = "below"
  PROVE  Context(Parser[l], tree)[i].parent
           = NameOf(Parser[l], tree, Inside(tree, Parser[l].walk.opens, Above(tree, i)))
<1> DEFINE n == Len(tree)
           q == Parser[l]
           c == Context(q, tree)
           E(j) == Inside(tree, q.walk.opens, Above(tree, j))
           G == {j \in 0 .. n : c[j].parent = NameOf(q, tree, E(j))}
<1>1. n \in Nat /\ DOMAIN tree = 1 .. n
  BY DEF IsTree
<1>2. ASSUME NEW j \in 0 .. n, \A k \in 0 .. n : k < j => k \in G PROVE j \in G
  <2>1. CASE j = 0
    <3>1. E(j) = {} /\ c[j].parent = None
      BY <2>1, AboveIs, ContextIs DEF Inside
    <3> QED BY <3>1 DEF NameOf
  <2>2. CASE j # 0
    <3> DEFINE u == tree[j].up
    <3>1. j \in DOMAIN tree /\ u \in 0 .. j - 1
      BY <1>1, <2>2, NodeFacts
    <3>2. Above(tree, j) = {u} \cup Above(tree, u)
      BY <3>1, AboveIs
    <3>3. u \in G
      BY <1>2, <3>1
    <3>4. c[j].parent = IF u # 0 /\ tree[u].kind \in q.walk.opens THEN NameAt(q, tree, u)
                        ELSE c[u].parent
      BY <3>1, ContextIs
    <3>5. CASE u # 0 /\ tree[u].kind \in q.walk.opens
      <4>1. E(j) \in SUBSET (0 .. u) /\ u \in E(j)
        <5>1. u \in 0 .. Len(tree)
          BY <3>1, <1>1
        <5>2. Above(tree, u) \subseteq 0 .. u - 1
          BY <5>1, AboveFacts
        <5> QED BY <3>1, <3>2, <3>5, <5>2 DEF Inside
      <4>2. Max(E(j)) = u
        <5>1. \A k \in E(j) : k <= u
          BY <4>1, <3>1
        <5>2. u \in Nat
          BY <3>1
        <5> HIDE DEF E, u
        <5> QED BY <4>1, <5>1, <5>2, MaxIs
      <4> HIDE DEF E, u
      <4> QED BY <3>4, <3>5, <4>1, <4>2 DEF NameOf
    <3>6. CASE ~(u # 0 /\ tree[u].kind \in q.walk.opens)
      <4>1. E(j) = E(u)
        BY <3>2, <3>6 DEF Inside
      <4> HIDE DEF E, u
      <4> QED BY <3>3, <3>4, <3>6, <4>1
    <3> QED BY <3>5, <3>6
  <2> QED BY <2>1, <2>2
<1>3. \A j \in 0 .. n : j \in G
  <2> HIDE DEF G
  <2>1. \A j \in 0 .. n : (\A k \in 0 .. n : k < j => k \in G) => j \in G
    BY <1>2
  <2> QED BY <1>1, <2>1, Induction
<1> QED BY <1>3
-----------------------------------------------------------------------------
(* What is recorded of a call: the callers its rows name.                  *)
Functions(l, tree, i) == Inside(tree, Grammar[l].functions, Above(tree, i))
Classes(l, tree, i)   == Inside(tree, Parser[l].walk.opens, Above(tree, i))

CallersOf(l, tree, i) ==
  IF l \in ByFunction THEN {tree[j].name : j \in {k \in Functions(l, tree, i) :
                                                    k = Max(Functions(l, tree, i))}}
  ELSE IF l = "typescript" THEN {tree[j].name : j \in {k \in Functions(l, tree, i) :
                                                         tree[k].kind = "function_declaration"}}
  ELSE IF l = "scala" THEN {tree[j].name : j \in {k \in Classes(l, tree, i) :
                                                    k = Max(Classes(l, tree, i))}}
  ELSE {}

LEMMA InsideFacts ==
  ASSUME NEW l \in Languages, NEW tree, IsTree(l, tree), NEW i \in DOMAIN tree, NEW K
  PROVE  LET I == Inside(tree, K, Above(tree, i)) IN
         /\ I \subseteq 1 .. i - 1 /\ I \subseteq DOMAIN tree
         /\ I # {} => Max(I) \in I
<1> DEFINE I == Inside(tree, K, Above(tree, i))
<1>1. i \in 1 .. Len(tree) /\ i \in Nat /\ DOMAIN tree = 1 .. Len(tree) /\ Len(tree) \in Nat
  BY DEF IsTree
<1>2. Above(tree, i) \subseteq 0 .. i - 1
  BY <1>1, AboveFacts
<1>3. I \subseteq 1 .. i - 1 /\ I \subseteq DOMAIN tree
  BY <1>1, <1>2 DEF Inside
<1>4. I # {} => Max(I) \in I
  <2>1. I \in SUBSET (0 .. i)
    BY <1>1, <1>3
  <2> HIDE DEF I
  <2> QED BY <1>1, <2>1, MaxIs
<1> QED BY <1>3, <1>4

LEMMA FunctionCallers ==
  ASSUME NEW l \in Languages, NEW tree, IsTree(l, tree), NEW i \in DOMAIN tree,
         tree[i].kind = Parser[l].calls.kind, Named(l)
  PROVE  LET q == Parser[l]
             F == Functions(l, tree, i)
         IN  /\ l # "typescript" =>
                  Context(q, tree)[i].function = IF F = {} THEN None ELSE NameAt(q, tree, Max(F))
             /\ l = "typescript" =>
                  /\ \A a \in Above(tree, i) :
                       \/ Context(q, tree)[a].function = None
                       \/ \E j \in F : Context(q, tree)[a].function = NameAt(q, tree, j)
                  /\ \A j \in F : /\ j \in Above(tree, i)
                                  /\ Context(q, tree)[j].function = NameAt(q, tree, j)
<1> DEFINE q == Parser[l]
           F == Functions(l, tree, i)
           E(a) == Inside(tree, q.walk.enters, Above(tree, a) \cup {a})
<1>1. i \in 0 .. Len(tree) /\ i \in Nat /\ DOMAIN tree = 1 .. Len(tree) /\ Len(tree) \in Nat
  BY DEF IsTree
<1>2. q.walk.enters = Grammar[l].functions /\ tree[i].kind \notin q.walk.enters
  BY CallTable DEF CallsAre
<1>3. \A a \in 0 .. Len(tree) : Context(q, tree)[a].function = NameOf(q, tree, E(a))
  BY FunctionIs
<1>4. E(i) = F
  BY <1>2 DEF Inside, Functions
<1>5. Context(q, tree)[i].function = IF F = {} THEN None ELSE NameAt(q, tree, Max(F))
  BY <1>1, <1>3, <1>4 DEF NameOf
<1>6. \A a \in Above(tree, i) : a \in 0 .. Len(tree) /\ a \in Nat /\ Above(tree, a) \subseteq Above(tree, i)
  BY <1>1, AboveFacts
<1>7. ASSUME NEW a \in Above(tree, i)
      PROVE  \/ Context(q, tree)[a].function = None
             \/ \E j \in F : Context(q, tree)[a].function = NameAt(q, tree, j)
  <2>1. E(a) \subseteq F
    BY <1>2, <1>6 DEF Inside, Functions
  <2>2. E(a) # {} => Max(E(a)) \in E(a)
    <3>1. E(a) \in SUBSET (0 .. i)
      <4>1. F \subseteq 1 .. i - 1
        BY InsideFacts DEF Functions
      <4>2. 1 .. i - 1 \subseteq 0 .. i
        BY <1>1
      <4> HIDE DEF E, F
      <4> QED BY <2>1, <4>1, <4>2
    <3> HIDE DEF E
    <3> QED BY <1>1, <3>1, MaxIs
  <2> HIDE DEF E
  <2> QED BY <1>3, <1>6, <2>1, <2>2 DEF NameOf
<1>8. ASSUME NEW j \in F
      PROVE  j \in Above(tree, i) /\ Context(q, tree)[j].function = NameAt(q, tree, j)
  <2>1. j \in Above(tree, i) /\ j # 0 /\ tree[j].kind \in q.walk.enters
    BY <1>2 DEF Inside, Functions
  <2>2. j \in 0 .. Len(tree) /\ j \in Nat
    BY <1>6, <2>1
  <2>3. E(j) \in SUBSET (0 .. j) /\ j \in E(j)
    BY <2>1, <2>2, AboveFacts DEF Inside
  <2>4. Max(E(j)) = j
    <3>1. \A k \in E(j) : k <= j
      BY <2>2, <2>3
    <3> HIDE DEF E
    <3> QED BY <2>2, <2>3, <3>1, MaxIs
  <2> HIDE DEF E
  <2> QED BY <1>3, <2>1, <2>2, <2>3, <2>4 DEF NameOf
<1> HIDE DEF F, q
<1>9. (l # "typescript" =>
          Context(q, tree)[i].function = IF F = {} THEN None ELSE NameAt(q, tree, Max(F)))
  BY <1>5
<1> QED BY <1>7, <1>8, <1>9 DEF F, q

(* A caller that is recorded is one of CallersOf, and each of those is.    *)
LEMMA CallRowsAre ==
  ASSUME NEW l \in Languages, NEW tree, IsTree(l, tree), NEW i \in DOMAIN tree,
         tree[i].kind = Parser[l].calls.kind
  PROVE  LET q == Parser[l]
             rows == CallReferences(q, tree, i)
         IN  /\ \A r \in rows :
                  /\ r.line = i /\ r.kind = "call" /\ r.callee \in Text(q.calls.text, tree[i])
                  /\ r.caller # None => r.caller \in CallersOf(l, tree, i)
             /\ \A c \in CallersOf(l, tree, i), x \in Text(q.calls.text, tree[i]) :
                  Reference(i, c, x, "call") \in rows
<1> DEFINE q == Parser[l]
           rows == CallReferences(q, tree, i)
           ctx == Context(q, tree)
           seen == CASE q.calls.at = "once"       -> {ctx[i]}
                     [] q.calls.at = "everyAbove" -> {ctx[a] : a \in Above(tree, i)}
                     [] q.calls.at = "never"      -> {}
           caller(s) == CASE q.calls.by = "function" -> s.function
                          [] q.calls.by = "parent"   -> s.parent
                          [] q.calls.by = "nobody"   -> None
           F == Functions(l, tree, i)
           K == Classes(l, tree, i)
<1>1. rows = {Reference(i, caller(s), x, "call") : s \in seen, x \in Text(q.calls.text, tree[i])}
  BY DEF CallReferences
<1>2. /\ F # {} => Max(F) \in F
      /\ K # {} => Max(K) \in K
  BY InsideFacts DEF Functions, Classes
<1>3. ASSUME NEW s \in seen, caller(s) # None PROVE caller(s) \in CallersOf(l, tree, i)
  <2>1. CASE l \in ByFunction
    <3>1. caller(s) = ctx[i].function
      BY <2>1, <1>3, CallTable DEF CallsAre, Named, ByFunction
    <3>2. ctx[i].function = IF F = {} THEN None ELSE NameAt(q, tree, Max(F))
      BY <2>1, FunctionCallers DEF Named, ByFunction
    <3>3. F # {} => NameAt(q, tree, Max(F)) \in {None, tree[Max(F)].name}
      BY DEF NameAt
    <3> HIDE DEF caller, F
    <3> QED BY <1>2, <1>3, <2>1, <3>1, <3>2, <3>3 DEF CallersOf, F
  <2>2. CASE l = "javascript"
    <3>1. caller(s) = ctx[i].function
      BY <2>2, <1>3, CallTable DEF CallsAre, Named, ByFunction
    <3>2. ctx[i].function = IF F = {} THEN None ELSE NameAt(q, tree, Max(F))
      BY <2>2, FunctionCallers DEF Named
    <3>3. F # {} => NameAt(q, tree, Max(F)) = None
      <4>1. q.walk.misnamed = Grammar[l].functions
        BY <2>2, CallTable DEF CallsAre, Named
      <4>2. F # {} => tree[Max(F)].kind \in q.walk.misnamed
        <5>1. \A j \in F : tree[j].kind \in q.walk.misnamed
          BY <4>1 DEF Functions, Inside
        <5> HIDE DEF F, q
        <5> QED BY <1>2, <5>1
      <4> QED BY <4>2 DEF NameAt
    <3> HIDE DEF caller, F
    <3> QED BY <1>3, <3>1, <3>2, <3>3
  <2>3. CASE l = "typescript"
    <3>1. PICK a \in Above(tree, i) : s = ctx[a] /\ caller(s) = ctx[a].function
      BY <2>3, CallTable DEF CallsAre, Named
    <3>2. PICK j \in F : caller(s) = NameAt(q, tree, j)
      <4>1. \/ ctx[a].function = None
            \/ \E j \in F : ctx[a].function = NameAt(q, tree, j)
        BY <2>3, FunctionCallers DEF Named
      <4> HIDE DEF caller, F, ctx
      <4> QED BY <1>3, <3>1, <4>1
    <3>3. tree[j].kind \notin q.walk.misnamed /\ caller(s) = tree[j].name
      <4> HIDE DEF caller, q
      <4> QED BY <1>3, <3>2 DEF NameAt
    <3>4. tree[j].kind = "function_declaration"
      <4>1. /\ q.walk.misnamed = {"method_definition"}
            /\ Grammar[l].functions = {"function_declaration", "method_definition"}
        BY <2>3, CallTable DEF CallsAre, Named
      <4>2. tree[j].kind \in Grammar[l].functions
        BY <3>2 DEF Functions, Inside
      <4> QED BY <3>3, <4>1, <4>2
    <3> HIDE DEF caller, F
    <3> QED BY <2>3, <3>2, <3>3, <3>4 DEF CallersOf, F, ByFunction
  <2>4. CASE l = "scala"
    <3>1. caller(s) = ctx[i].parent /\ q.walk.side = "below" /\ q.walk.misnamed = {}
      BY <2>4, CallTable DEF CallsAre, Named, ByFunction
    <3>2. ctx[i].parent = NameOf(q, tree, K)
      <4>1. i \in 0 .. Len(tree)
        BY DEF IsTree
      <4> QED BY <3>1, <4>1, ParentIs DEF Classes
    <3>3. NameOf(q, tree, K) = IF K = {} THEN None ELSE tree[Max(K)].name
      BY <3>1 DEF NameOf, NameAt
    <3> HIDE DEF caller, K
    <3> QED BY <1>2, <1>3, <2>4, <3>1, <3>2, <3>3 DEF CallersOf, K, ByFunction
  <2>5. CASE ~Named(l) /\ l # "scala"
    <3>1. q.calls.at = "never" \/ q.calls.by = "nobody"
      BY <2>5, CallTable DEF CallsAre
    <3> QED BY <1>3, <3>1
  <2> QED BY <2>1, <2>2, <2>3, <2>4, <2>5 DEF Named
<1>4. ASSUME NEW c \in CallersOf(l, tree, i) PROVE \E s \in seen : caller(s) = c
  <2>1. CASE l \in ByFunction
    <3>1. q.calls.by = "function" /\ q.calls.at = "once" /\ q.walk.misnamed = {}
      BY <2>1, CallTable DEF CallsAre, Named, ByFunction
    <3>2. ctx[i].function = IF F = {} THEN None ELSE NameAt(q, tree, Max(F))
      BY <2>1, FunctionCallers DEF Named, ByFunction
    <3>3. F # {} /\ c = tree[Max(F)].name
      BY <2>1, <1>4 DEF CallersOf
    <3>4. c = ctx[i].function
      <4> HIDE DEF F, ctx
      <4> QED BY <3>1, <3>2, <3>3 DEF NameAt
    <3>5. seen = {ctx[i]} /\ caller(ctx[i]) = ctx[i].function
      BY <3>1
    <3> QED BY <3>4, <3>5
  <2>2. CASE l = "typescript"
    <3>1. q.calls.by = "function" /\ q.calls.at = "everyAbove"
          /\ q.walk.misnamed = {"method_definition"}
      BY <2>2, CallTable DEF CallsAre, Named
    <3>2. PICK j \in F : tree[j].kind = "function_declaration" /\ c = tree[j].name
      BY <2>2, <1>4 DEF CallersOf, ByFunction
    <3>3. j \in Above(tree, i) /\ ctx[j].function = NameAt(q, tree, j)
      BY <2>2, FunctionCallers DEF Named
    <3>4. c = ctx[j].function
      BY <3>1, <3>2, <3>3 DEF NameAt
    <3>5. ctx[j] \in seen /\ caller(ctx[j]) = ctx[j].function
      BY <3>1, <3>3
    <3> QED BY <3>4, <3>5
  <2>3. CASE l = "scala"
    <3>1. /\ q.calls.by = "parent" /\ q.calls.at = "once" /\ q.walk.side = "below"
          /\ q.walk.misnamed = {}
      BY <2>3, CallTable DEF CallsAre, Named, ByFunction
    <3>2. ctx[i].parent = NameOf(q, tree, K)
      <4>1. i \in 0 .. Len(tree)
        BY DEF IsTree
      <4> QED BY <3>1, <4>1, ParentIs DEF Classes
    <3>3. K # {} /\ c = tree[Max(K)].name
      BY <2>3, <1>4 DEF CallersOf, ByFunction
    <3>4. c = ctx[i].parent
      <4> HIDE DEF K, ctx
      <4> QED BY <3>1, <3>2, <3>3 DEF NameAt, NameOf
    <3>5. seen = {ctx[i]} /\ caller(ctx[i]) = ctx[i].parent
      BY <3>1
    <3> QED BY <3>4, <3>5
  <2> QED BY <1>4, <2>1, <2>2, <2>3 DEF CallersOf
<1>5. ASSUME NEW r \in rows
      PROVE  /\ r.line = i /\ r.kind = "call" /\ r.callee \in Text(q.calls.text, tree[i])
             /\ r.caller # None => r.caller \in CallersOf(l, tree, i)
  <2>1. PICK s \in seen : \E x \in Text(q.calls.text, tree[i]) : r = Reference(i, caller(s), x, "call")
    <3> HIDE DEF seen, caller, q
    <3> QED BY <1>1
  <2> HIDE DEF seen, caller, q
  <2> QED BY <1>3, <2>1 DEF Reference
<1>6. ASSUME NEW c \in CallersOf(l, tree, i), NEW x \in Text(q.calls.text, tree[i])
      PROVE  Reference(i, c, x, "call") \in rows
  <2> HIDE DEF seen, caller, q
  <2>1. PICK s \in seen : caller(s) = c
    BY <1>4
  <2> QED BY <1>1, <2>1
<1> QED BY <1>5, <1>6

LEMMA CallersOfFacts ==
  ASSUME NEW l \in Languages, NEW tree, IsTree(l, tree), NEW i \in DOMAIN tree,
         NEW c \in CallersOf(l, tree, i)
  PROVE  \E j \in Functions(l, tree, i) \cup Classes(l, tree, i) :
           /\ j \in DOMAIN tree /\ tree[j].name = c /\ c \in AllNames
           /\ Recorded(l, tree[j].kind)
<1>1. \A j \in Functions(l, tree, i) : j \in DOMAIN tree /\ tree[j].kind \in Grammar[l].functions
  BY InsideFacts DEF Functions, Inside
<1>2. \A j \in Classes(l, tree, i) : j \in DOMAIN tree /\ tree[j].kind \in Parser[l].walk.opens
  BY InsideFacts DEF Classes, Inside
<1>3. PICK j \in Functions(l, tree, i) \cup Classes(l, tree, i) :
         tree[j].name = c /\ Recorded(l, tree[j].kind)
  <2>1. CASE l \in ByFunction
    BY <2>1, <1>1, DeclareTable DEF CallersOf
  <2>2. CASE l = "typescript"
    BY <2>2, <1>1, DeclareTable DEF CallersOf, ByFunction
  <2>3. CASE l = "scala"
    BY <2>3, <1>2, DeclareTable DEF CallersOf, ByFunction
  <2> QED BY <2>1, <2>2, <2>3 DEF CallersOf
<1> QED BY <1>1, <1>2, <1>3, NodeFacts

LEMMA TextIs ==
  ASSUME NEW n, NEW x
  PROVE  /\ <<x>> \in Text("whole", n) <=> n.with = None /\ n.name = x
         /\ <<x>> \in Text("last", n) <=> n.name = x
         /\ <<x>> \in Text("with", n) <=> n.with = x
         /\ <<x>> \notin Text("clause", n)
<1>1. \A y, z : <<x>> # <<y, z>>
  <2> TAKE y, z
  <2>1. Len(<<x>>) = 1 /\ Len(<<y, z>>) = 2
    OBVIOUS
  <2> QED BY <2>1
<1>2. Text("with", n) = {<<n.with>>} /\ Text("clause", n) = {<<"extends", n.with>>}
  BY DEF Text
<1>3. Text("last", n) = {<<n.name>>}
  BY DEF Text
<1>4. Text("whole", n) = IF n.with # None THEN {<<n.with, n.name>>} ELSE {<<n.name>>}
  BY DEF Text
<1> QED BY <1>1, <1>2, <1>3, <1>4

(* An attributed call is one some row of which has a caller, and its name  *)
(* for the callee.                                                         *)
LEMMA AttributedIs ==
  ASSUME language \in Languages, NEW tree, IsTree(language, tree), NEW i \in DOMAIN tree, NEW x,
         tree[i].kind = p.calls.kind
  PROVE  IsCall(tree, i, x) /\ Attributed(tree, i)
           <=> <<x>> \in Text(p.calls.text, tree[i]) /\ CallersOf(language, tree, i) # {}
<1> DEFINE F == Functions(language, tree, i)
           K == Classes(language, tree, i)
<1>1. InFunctions(tree, i) = F /\ InClasses(tree, i) = K
  BY DEF InFunctions, InClasses, Functions, Classes, Inside, syntax, p
<1>2. (F # {} => Max(F) \in F) /\ (K # {} => Max(K) \in K)
  BY InsideFacts DEF Functions, Classes
<1>3. CASE language \in ByFunction
  <2>1. p.calls.text = "whole"
    BY <1>3, CallTable DEF CallsAre, Named, p
  <2>2. CallersOf(language, tree, i) # {} <=> F # {}
    BY <1>2, <1>3 DEF CallersOf
  <2>3. Attributed(tree, i) <=> tree[i].with = None /\ F # {}
    BY <1>1, <1>3 DEF Attributed, ByFunction
  <2> QED BY <2>1, <2>2, <2>3, TextIs DEF IsCall
<1>4. CASE language = "typescript"
  <2>1. p.calls.text = "whole"
    BY <1>4, CallTable DEF CallsAre, Named, p
  <2>2. CallersOf(language, tree, i) # {} <=> \E j \in F : tree[j].kind = "function_declaration"
    BY <1>4 DEF CallersOf, ByFunction
  <2>3. Attributed(tree, i) <=> tree[i].with = None
                                /\ \E j \in F : tree[j].kind = "function_declaration"
    BY <1>1, <1>4 DEF Attributed, ByFunction
  <2> QED BY <2>1, <2>2, <2>3, TextIs DEF IsCall
<1>5. CASE language = "scala"
  <2>1. p.calls.text = "last"
    BY <1>5, CallTable DEF CallsAre, p
  <2>2. CallersOf(language, tree, i) # {} <=> K # {}
    BY <1>2, <1>5 DEF CallersOf, ByFunction
  <2>3. Attributed(tree, i) <=> K # {}
    BY <1>1, <1>5 DEF Attributed, ByFunction
  <2> QED BY <2>1, <2>2, <2>3, TextIs DEF IsCall
<1>6. CASE language \notin ByFunction \cup {"typescript", "scala"}
  BY <1>6 DEF Attributed, CallersOf
<1> QED BY <1>3, <1>4, <1>5, <1>6
-----------------------------------------------------------------------------
(* The rows of a tree.                                                     *)
DeclaredIn(l) ==
  \A k \in DOMAIN Parser[l].declares :
    Parser[l].declares[k].in \in {"walk", "other", "with", "none", "top", "member"}

LEMMA DeclaredTable == \A l \in Languages : DeclaredIn(l)
<1> USE DEF DeclaredIn, Declared, Both, Parser, LanguageParser
<1>1. DeclaredIn("python")
  BY DEF Python_Declares, Python_Variables
<1>2. DeclaredIn("javascript")
  BY DEF JavaScript_Declares, JavaScript_Variables
<1>3. DeclaredIn("typescript")
  BY DEF TypeScript_Declares, TypeScript_Types
<1>4. DeclaredIn("go")
  BY DEF Go_Declares, Go_Methods
<1>5. DeclaredIn("rust")
  BY DEF Rust_Declares
<1>6. DeclaredIn("java")
  BY DEF Java_Declares, Java_Members
<1>7. DeclaredIn("c")
  BY DEF C_Declares
<1>8. DeclaredIn("cpp")
  BY DEF Cpp_Declares, Cpp_Namespaces
<1>9. DeclaredIn("csharp")
  BY DEF CSharp_Declares, CSharp_Members, CSharp_Namespaces
<1>10. DeclaredIn("scala")
  BY DEF Scala_Declares
<1>11. DeclaredIn("php")
  BY DEF Php_Declares, Php_Properties
<1>12. DeclaredIn("ruby")
  BY DEF Ruby_Declares
<1>13. DeclaredIn("swift")
  BY DEF Swift_Declares
<1>14. DeclaredIn("lua")
  BY DEF Lua_Declares
<1> HIDE DEF DeclaredIn, Parser
<1> QED BY LanguagesAre, <1>1, <1>2, <1>3, <1>4, <1>5, <1>6, <1>7, <1>8, <1>9,
       <1>10, <1>11, <1>12, <1>13, <1>14

LEMMA DeclaredSymbolIs ==
  ASSUME NEW l \in Languages, NEW tree, NEW i, tree[i].kind \in DOMAIN Parser[l].declares
  PROVE  LET ss == DeclaredSymbol(Parser[l], tree, i) IN
         /\ \A a, b \in ss : a = b
         /\ \A s \in ss : s.name = tree[i].name
         /\ Recorded(l, tree[i].kind) => \E s \in ss : s.name = tree[i].name
<1> DEFINE q == Parser[l]
           rule == q.declares[tree[i].kind]
           parent == Context(q, tree)[i].parent
           as == IF rule.as # "byParent" THEN rule.as
                 ELSE IF parent = None THEN "function" ELSE "method"
           in(s) == {Symbol(i, tree[i].name, as, s)}
           up == tree[i].up
           ss == DeclaredSymbol(q, tree, i)
<1>1. rule.in \in {"walk", "other", "with", "none", "top", "member"}
  BY DeclaredTable DEF DeclaredIn
<1>2. ss = CASE rule.in = "walk"   -> in(parent)
             [] rule.in = "other"  -> in(IF parent = tree[i].name THEN None ELSE parent)
             [] rule.in = "with"   -> in(tree[i].with)
             [] rule.in = "none"   -> in(None)
             [] rule.in = "top"    -> IF parent = None THEN in(None) ELSE {}
             [] rule.in = "member" -> IF up # 0 /\ tree[up].kind \in q.walk.opens
                                      THEN in(tree[up].name) ELSE {}
  BY DEF DeclaredSymbol
<1>3. Recorded(l, tree[i].kind) => rule.in \in {"walk", "other", "with"}
  BY DEF Recorded
<1>4. \/ ss = {} /\ rule.in \in {"top", "member"}
      \/ \E s : ss = in(s)
  <2> HIDE DEF in, rule, parent, up, q, ss
  <2> QED BY <1>1, <1>2
<1>5. \A s : Symbol(i, tree[i].name, as, s).name = tree[i].name
  BY DEF Symbol
<1> HIDE DEF rule, as, ss
<1> QED BY <1>3, <1>4, <1>5 DEF ss

(* No symbol is nameless, and each declaration that is always recorded is. *)
LEMMA SymbolNames ==
  ASSUME NEW l \in Languages, NEW tree, IsTree(l, tree)
  PROVE  /\ \A s \in Symbols(Parser[l], tree) : s.name \in AllNames \cup {Elsewhere}
         /\ \A i \in DOMAIN tree : Recorded(l, tree[i].kind) =>
              \E s \in Symbols(Parser[l], tree) : s.name = tree[i].name
<1> DEFINE q == Parser[l]
           D == {j \in DOMAIN tree : tree[j].kind \in DOMAIN q.declares}
           I == {j \in DOMAIN tree : /\ tree[j].kind \in DOMAIN q.imports
                                     /\ q.imports[tree[j].kind].symbol}
<1> DEFINE A == UNION {DeclaredSymbol(q, tree, i) : i \in D}
           B == {Symbol(i, tree[i].with, "import", None) : i \in I}
<1>1. Symbols(q, tree) = A \cup B
  BY DEF Symbols
<1>2. \A i \in D : \A s \in DeclaredSymbol(q, tree, i) : s.name \in AllNames
  <2> TAKE i \in D
  <2> TAKE s \in DeclaredSymbol(q, tree, i)
  <2>1. s.name = tree[i].name
    BY DeclaredSymbolIs
  <2> QED BY <2>1, NodeFacts
<1>3. \A i \in I : Symbol(i, tree[i].with, "import", None).name = Elsewhere
  BY NodeFacts DEF Symbol
<1>4. ASSUME NEW i \in DOMAIN tree, Recorded(l, tree[i].kind)
      PROVE  \E s \in Symbols(q, tree) : s.name = tree[i].name
  <2>1. i \in D
    BY <1>4 DEF Recorded
  <2>2. PICK s \in DeclaredSymbol(q, tree, i) : s.name = tree[i].name
    BY <1>4, <2>1, DeclaredSymbolIs
  <2> QED BY <1>1, <2>1, <2>2
<1>5. ASSUME NEW s \in Symbols(q, tree) PROVE s.name \in AllNames \cup {Elsewhere}
  <2>1. \/ \E i \in D : s \in DeclaredSymbol(q, tree, i)
        \/ \E i \in I : s = Symbol(i, tree[i].with, "import", None)
    <3>1. s \in A \/ s \in B
      <4> HIDE DEF A, B
      <4> QED BY <1>1
    <3>2. s \in A => \E i \in D : s \in DeclaredSymbol(q, tree, i)
      <4> HIDE DEF D, q
      <4> QED OBVIOUS
    <3>3. s \in B => \E i \in I : s = Symbol(i, tree[i].with, "import", None)
      <4> HIDE DEF I
      <4> QED OBVIOUS
    <3> HIDE DEF A, B, D, I
    <3> QED BY <3>1, <3>2, <3>3
  <2> HIDE DEF D, I, q
  <2> QED BY <1>2, <1>3, <2>1
<1> QED BY <1>4, <1>5

Image(f, S) == {f[x] : x \in S}

LEMMA FiniteImage ==
  ASSUME NEW S, IsFiniteSet(S), NEW f, f = [x \in S |-> f[x]]
  PROVE  IsFiniteSet(Image(f, S))
<1>1. f \in Surjection(S, Image(f, S))
  BY DEF Surjection, Image
<1> QED BY <1>1, FS_Surjection

LEMMA SymbolsFinite ==
  ASSUME NEW l \in Languages, NEW tree, IsTree(l, tree)
  PROVE  IsFiniteSet(Symbols(Parser[l], tree))
<1> DEFINE q == Parser[l]
           D == {j \in DOMAIN tree : tree[j].kind \in DOMAIN q.declares}
           I == {j \in DOMAIN tree : /\ tree[j].kind \in DOMAIN q.imports
                                     /\ q.imports[tree[j].kind].symbol}
           d == [i \in D |-> DeclaredSymbol(q, tree, i)]
           s == [i \in I |-> Symbol(i, tree[i].with, "import", None)]
           A == Image(d, D)
           B == Image(s, I)
<1>1. Symbols(q, tree) = (UNION {DeclaredSymbol(q, tree, i) : i \in D})
                         \cup {Symbol(i, tree[i].with, "import", None) : i \in I}
  BY DEF Symbols
<1>2. A = {DeclaredSymbol(q, tree, i) : i \in D} /\ B = {Symbol(i, tree[i].with, "import", None) : i \in I}
  <2> HIDE DEF D, I, q
  <2> QED BY DEF Image
<1>3. IsFiniteSet(D) /\ IsFiniteSet(I)
  <2>1. IsFiniteSet(DOMAIN tree)
    <3>1. DOMAIN tree = 1 .. Len(tree) /\ Len(tree) \in Nat
      BY DEF IsTree
    <3> QED BY <3>1, FS_Interval
  <2> QED BY <2>1, FS_Subset
<1>4. IsFiniteSet(A) /\ IsFiniteSet(B)
  <2>1. d = [i \in D |-> d[i]] /\ s = [i \in I |-> s[i]]
    <3> HIDE DEF D, I, q
    <3> QED OBVIOUS
  <2> HIDE DEF D, I, d, s
  <2> QED BY <1>3, <2>1, FiniteImage
<1>5. \A ss \in A : IsFiniteSet(ss)
  <2>1. ASSUME NEW i \in D PROVE IsFiniteSet(DeclaredSymbol(q, tree, i))
    <3> DEFINE ss == DeclaredSymbol(q, tree, i)
    <3>1. tree[i].kind \in DOMAIN q.declares
      OBVIOUS
    <3>2. \A a, b \in ss : a = b
      BY <3>1, DeclaredSymbolIs
    <3> HIDE DEF ss
    <3>3. CASE ss = {}
      BY <3>3, FS_EmptySet DEF ss
    <3>4. CASE ss # {}
      <4>1. PICK t \in ss : TRUE
        BY <3>4
      <4>2. IsFiniteSet({t})
        BY FS_Singleton
      <4>3. ss = {t}
        BY <3>2
      <4> QED BY <4>2, <4>3 DEF ss
    <3> QED BY <3>3, <3>4
  <2> HIDE DEF D, I, q, d
  <2> QED BY <1>2, <2>1
<1>6. Symbols(q, tree) = (UNION A) \cup B
  <2> HIDE DEF A, B, D, I
  <2> QED BY <1>1, <1>2
<1> HIDE DEF A, B
<1> QED BY <1>4, <1>5, <1>6, FS_UNION, FS_Union

(* What the rows of a tree are.                                            *)
InheritRows(l, tree, i) ==
  {Reference(i, tree[i].name, x, Parser[l].inherits[tree[i].kind].kind) :
     x \in Text(Parser[l].inherits[tree[i].kind].text, tree[i])}

LEMMA ReferencesAre ==
  ASSUME NEW l \in Languages, NEW tree, IsTree(l, tree)
  PROVE  LET q == Parser[l] IN
         /\ \A r \in References(q, tree) :
              \/ \E i \in DOMAIN tree : tree[i].kind = q.calls.kind /\ r \in CallReferences(q, tree, i)
              \/ r.kind = "import" /\ r.caller = None
              \/ \E i \in DOMAIN tree : /\ tree[i].kind \in DOMAIN q.inherits /\ tree[i].with # None
                                        /\ r \in InheritRows(l, tree, i)
         /\ \A i \in DOMAIN tree :
              /\ tree[i].kind = q.calls.kind => CallReferences(q, tree, i) \subseteq References(q, tree)
              /\ tree[i].kind \in DOMAIN q.inherits /\ tree[i].with # None =>
                   InheritRows(l, tree, i) \subseteq References(q, tree)
<1> DEFINE q == Parser[l]
           C == {j \in DOMAIN tree : tree[j].kind = q.calls.kind}
           I == {j \in DOMAIN tree : tree[j].kind \in DOMAIN q.imports}
           H == {j \in DOMAIN tree : tree[j].kind \in DOMAIN q.inherits /\ tree[j].with # None}
           imported(i) == {Reference(i, None, x, "import") :
                             x \in Text(q.imports[tree[i].kind].text, tree[i])}
           inherited(i) == InheritRows(l, tree, i)
<1>1. References(q, tree) = UNION ({CallReferences(q, tree, i) : i \in C}
                                   \cup {imported(i) : i \in I} \cup {inherited(i) : i \in H})
  BY DEF References, InheritRows
<1>2. \A i \in I : \A r \in imported(i) : r.kind = "import" /\ r.caller = None
  BY DEF Reference
<1>3. ASSUME NEW r \in References(q, tree)
      PROVE  \/ \E i \in C : r \in CallReferences(q, tree, i)
             \/ \E i \in I : r \in imported(i)
             \/ \E i \in H : r \in inherited(i)
  <2> HIDE DEF C, I, H, imported, inherited, q
  <2> QED BY <1>1
<1>4. /\ \A i \in C : CallReferences(q, tree, i) \subseteq References(q, tree)
      /\ \A i \in H : inherited(i) \subseteq References(q, tree)
  <2> HIDE DEF C, I, H, imported, inherited, q
  <2> QED BY <1>1
<1>5. ASSUME NEW r \in References(q, tree)
      PROVE  \/ \E i \in DOMAIN tree : tree[i].kind = q.calls.kind /\ r \in CallReferences(q, tree, i)
             \/ r.kind = "import" /\ r.caller = None
             \/ \E i \in DOMAIN tree : /\ tree[i].kind \in DOMAIN q.inherits /\ tree[i].with # None
                                       /\ r \in InheritRows(l, tree, i)
  <2> HIDE DEF imported
  <2> QED BY <1>2, <1>3
<1> QED BY <1>4, <1>5
-----------------------------------------------------------------------------
(* The inductive invariant: the project is made of trees of its language,  *)
(* and the rows are those of the trees.                                    *)
SymbolRows(f) == {SymbolRow(f, s) : s \in Symbols(p, source[f])}
ReferenceRows(f) == {ReferenceRow(f, r) : r \in References(p, source[f])}

Of(rows, f) == {r \in rows : r.file = f}

Indexed ==
  /\ \A r \in db.symbols \cup db.references : r.file \in Files
  /\ \A f \in Files : /\ Of(db.symbols, f) = SymbolRows(f)
                       /\ Of(db.references, f) = ReferenceRows(f)

AnswersInv == language \in Languages /\ IsProject(language, source) /\ Indexed

(* Only the grammar of Rust has impls.                                     *)
KindsAre(l) ==
  l # "rust" => "impl_item" \notin Grammar[l].top \cup Grammar[l].class \cup Grammar[l].body

LEMMA KindTable == \A l \in Languages : KindsAre(l)
<1> USE DEF KindsAre, Grammar, Syntax
<1>1. KindsAre("python")
  OBVIOUS
<1>2. KindsAre("javascript")
  OBVIOUS
<1>3. KindsAre("typescript")
  OBVIOUS
<1>4. KindsAre("go")
  OBVIOUS
<1>5. KindsAre("rust")
  OBVIOUS
<1>6. KindsAre("java")
  OBVIOUS
<1>7. KindsAre("c")
  OBVIOUS
<1>8. KindsAre("cpp")
  OBVIOUS
<1>9. KindsAre("csharp")
  OBVIOUS
<1>10. KindsAre("scala")
  OBVIOUS
<1>11. KindsAre("php")
  OBVIOUS
<1>12. KindsAre("ruby")
  OBVIOUS
<1>13. KindsAre("swift")
  OBVIOUS
<1>14. KindsAre("lua")
  OBVIOUS
<1> HIDE DEF KindsAre, Grammar
<1> QED BY LanguagesAre, <1>1, <1>2, <1>3, <1>4, <1>5, <1>6, <1>7, <1>8, <1>9,
       <1>10, <1>11, <1>12, <1>13, <1>14

LEMMA NodesAre ==
  ASSUME NEW l \in Languages, NEW names \in SUBSET AllNames, NEW tree,
         NEW n \in Nodes(l, names, tree)
  PROVE  /\ n \in NodeType /\ n \in Nodes(l, AllNames, tree)
         /\ n.kind = "impl_item" => l = "rust"
<1>1. PICK u \in 0 .. Len(tree) :
         \E k \in HeldBy(l, tree, u), x \in names : \E w \in Withs(l, names, k, x) :
           n = [kind |-> k, name |-> x, with |-> w, up |-> u]
  BY DEF Nodes
<1>2. PICK k \in HeldBy(l, tree, u), x \in names : \E w \in Withs(l, names, k, x) :
         n = [kind |-> k, name |-> x, with |-> w, up |-> u]
  BY <1>1
<1>3. PICK w \in Withs(l, names, k, x) : n = [kind |-> k, name |-> x, with |-> w, up |-> u]
  BY <1>2
<1>4. k \in Kinds /\ (k = "impl_item" => l = "rust")
  <2>1. k \in Grammar[l].top \cup Grammar[l].class \cup Grammar[l].body
    BY DEF HeldBy
  <2>2. k \in Kinds
    BY <2>1 DEF Kinds
  <2> QED BY <2>1, <2>2, KindTable DEF KindsAre
<1>5. w \in Withs(l, AllNames, k, x)
  BY DEF Withs
<1>6. w \in AllNames \cup {None, Elsewhere} /\ x \in AllNames /\ u \in Nat
  BY DEF Withs
<1>7. n \in NodeType
  BY <1>3, <1>4, <1>6 DEF NodeType
<1>8. n \in Nodes(l, AllNames, tree)
  <2> DEFINE node(j, v, y) == [kind |-> j, name |-> y, with |-> v, up |-> u]
             some(j, y) == {node(j, v, y) : v \in Withs(l, AllNames, j, y)}
             N == {some(j, y) : j \in HeldBy(l, tree, u), y \in AllNames}
  <2>1. n = node(k, w, x)
    BY <1>3
  <2>2. n \in some(k, x)
    BY <1>5, <2>1
  <2>3. n \in UNION N
    <3> HIDE DEF some
    <3>1. some(k, x) \in N
      BY <1>6
    <3> HIDE DEF N
    <3> QED BY <2>2, <3>1
  <2>4. UNION N \subseteq Nodes(l, AllNames, tree)
    BY DEF Nodes
  <2> HIDE DEF N
  <2> QED BY <2>3, <2>4
<1> QED BY <1>3, <1>4, <1>7, <1>8

LEMMA AppendTree ==
  ASSUME NEW l \in Languages, NEW tree, IsTree(l, tree), NEW n \in Nodes(l, Names, tree)
  PROVE  IsTree(l, Append(tree, n))
<1> DEFINE longer == Append(tree, n)
<1>1. tree \in Seq(NodeType) /\ n \in NodeType /\ n \in Nodes(l, AllNames, tree)
  <2>1. Names \in SUBSET AllNames
    BY DEF AllNames
  <2> QED BY <2>1, NodesAre DEF IsTree
<1>2. longer \in Seq(NodeType) /\ Len(tree) \in Nat /\ DOMAIN longer = 1 .. Len(tree) + 1
  BY <1>1
<1>3. ASSUME NEW i \in DOMAIN longer PROVE longer[i] \in Nodes(l, AllNames, SubSeq(longer, 1, i - 1))
  <2>1. CASE i = Len(tree) + 1
    <3>1. SubSeq(longer, 1, i - 1) = tree
      BY <1>1, <1>2, <2>1
    <3>2. longer[i] = n
      BY <1>1, <2>1
    <3> QED BY <1>1, <3>1, <3>2
  <2>2. CASE i # Len(tree) + 1
    <3>1. i \in DOMAIN tree /\ longer[i] = tree[i]
      BY <1>1, <1>2, <2>2
    <3>2. SubSeq(longer, 1, i - 1) = SubSeq(tree, 1, i - 1)
      BY <1>1, <1>2, <2>2
    <3> QED BY <3>1, <3>2 DEF IsTree
  <2> QED BY <2>1, <2>2
<1> QED BY <1>2, <1>3 DEF IsTree

LEMMA EmptyTree ==
  ASSUME NEW l \in Languages
  PROVE  IsTree(l, <<>>) /\ Symbols(Parser[l], <<>>) = {} /\ References(Parser[l], <<>>) = {}
<1>1. IsTree(l, <<>>)
  BY DEF IsTree
<1>2. DOMAIN <<>> = {}
  OBVIOUS
<1>3. Symbols(Parser[l], <<>>) = {}
  BY <1>2 DEF Symbols
<1>4. ASSUME NEW r \in References(Parser[l], <<>>) PROVE FALSE
  BY <1>2 DEF References
<1> QED BY <1>1, <1>3, <1>4

(* Indexing a file replaces its rows, and leaves those of the others.      *)
LEMMA IndexFileIs ==
  ASSUME NEW index, NEW f, NEW tree
  PROVE  LET i == IndexFile(index, f, tree) IN
         /\ Of(i.symbols, f) = {SymbolRow(f, s) : s \in Symbols(p, tree)}
         /\ Of(i.references, f) = {ReferenceRow(f, r) : r \in References(p, tree)}
         /\ \A g : g # f => /\ Of(i.symbols, g) = Of(index.symbols, g)
                            /\ Of(i.references, g) = Of(index.references, g)
         /\ \A r \in i.symbols \cup i.references : r.file = f \/ r \in index.symbols \cup index.references
<1> DEFINE i == IndexFile(index, f, tree)
           N == {SymbolRow(f, s) : s \in Symbols(p, tree)}
           M == {ReferenceRow(f, r) : r \in References(p, tree)}
<1>1. /\ i.symbols = {s \in index.symbols : s.file # f} \cup N
      /\ i.references = {r \in index.references : r.file # f} \cup M
  BY DEF IndexFile
<1>2. (\A s \in N : s.file = f) /\ (\A r \in M : r.file = f)
  BY DEF SymbolRow, ReferenceRow
<1> HIDE DEF N, M, i
<1> SUFFICES /\ Of(i.symbols, f) = N /\ Of(i.references, f) = M
             /\ \A g : g # f => /\ Of(i.symbols, g) = Of(index.symbols, g)
                                /\ Of(i.references, g) = Of(index.references, g)
             /\ \A r \in i.symbols \cup i.references :
                  r.file = f \/ r \in index.symbols \cup index.references
  BY DEF N, M, i
<1>3. Of(i.symbols, f) = N /\ Of(i.references, f) = M
  BY <1>1, <1>2 DEF Of
<1>4. ASSUME NEW g, g # f
      PROVE  Of(i.symbols, g) = Of(index.symbols, g) /\ Of(i.references, g) = Of(index.references, g)
  BY <1>1, <1>2, <1>4 DEF Of
<1>5. \A r \in i.symbols \cup i.references : r.file = f \/ r \in index.symbols \cup index.references
  BY <1>1, <1>2
<1> QED BY <1>3, <1>4, <1>5

LEMMA AnswersInvInit == Init => AnswersInv
<1> SUFFICES ASSUME Init PROVE AnswersInv
  OBVIOUS
<1>1. language \in Languages /\ source = [f \in Files |-> <<>>]
      /\ db.symbols = {} /\ db.references = {}
  BY DEF Init
<1>2. \A f \in Files : IsTree(language, source[f])
      /\ Symbols(p, source[f]) = {} /\ References(p, source[f]) = {}
  BY <1>1, EmptyTree DEF p
<1>3. IsProject(language, source)
  BY <1>1, <1>2 DEF IsProject
<1>4. \A f \in Files : SymbolRows(f) = {} /\ ReferenceRows(f) = {}
  BY <1>2 DEF SymbolRows, ReferenceRows
<1>5. Indexed
  BY <1>1, <1>4 DEF Indexed, Of
<1> QED BY <1>1, <1>3, <1>5 DEF AnswersInv

LEMMA SaveKeeps ==
  ASSUME AnswersInv, NEW f \in Files, Save(f) PROVE AnswersInv'
<1>1. language' = language /\ language \in Languages /\ p' = p
  BY DEF AnswersInv, Save, p
<1>2. PICK n \in Nodes(language, Names, source[f]) :
         source' = [source EXCEPT ![f] = Append(@, n)] /\ db' = IndexFile(db, f, source'[f])
  BY DEF Save
<1>3. PICK g \in Files : g # f /\ Files = {f, g}
  BY DEF Files
<1>4. /\ DOMAIN source = Files /\ DOMAIN source' = Files
      /\ source'[f] = Append(source[f], n) /\ source'[g] = source[g]
  BY <1>2, <1>3 DEF AnswersInv, IsProject
<1>5. IsProject(language, source)'
  <2>1. IsTree(language, source[f]) /\ IsTree(language, source[g])
    BY <1>3 DEF AnswersInv, IsProject
  <2>2. IsTree(language, Append(source[f], n))
    BY <1>1, <2>1, AppendTree
  <2> QED BY <1>1, <1>3, <1>4, <2>1, <2>2 DEF IsProject
<1>6. SymbolRows(g)' = SymbolRows(g) /\ ReferenceRows(g)' = ReferenceRows(g)
  BY <1>1, <1>4 DEF SymbolRows, ReferenceRows
<1>7. /\ Of(db'.symbols, f) = SymbolRows(f)' /\ Of(db'.references, f) = ReferenceRows(f)'
      /\ Of(db'.symbols, g) = SymbolRows(g) /\ Of(db'.references, g) = ReferenceRows(g)
      /\ \A r \in db'.symbols \cup db'.references : r.file \in Files
  <2>1. /\ SymbolRows(f)' = {SymbolRow(f, s) : s \in Symbols(p, source'[f])}
        /\ ReferenceRows(f)' = {ReferenceRow(f, r) : r \in References(p, source'[f])}
    BY <1>1 DEF SymbolRows, ReferenceRows
  <2>2. /\ Of(db.symbols, g) = SymbolRows(g) /\ Of(db.references, g) = ReferenceRows(g)
        /\ \A r \in db.symbols \cup db.references : r.file \in Files
    BY DEF AnswersInv, Indexed
  <2> QED BY <1>2, <1>3, <2>1, <2>2, IndexFileIs
<1>8. Indexed'
  BY <1>3, <1>6, <1>7 DEF Indexed
<1> QED BY <1>1, <1>5, <1>8 DEF AnswersInv

LEMMA CheckoutKeeps ==
  ASSUME AnswersInv, Checkout PROVE AnswersInv'
<1> DEFINE once == IndexFile(db, "lib", source'["lib"])
           S(f) == {SymbolRow(f, s) : s \in Symbols(p, source'[f])}
           R(f) == {ReferenceRow(f, r) : r \in References(p, source'[f])}
<1>1. language' = language /\ language \in Languages /\ p' = p
  BY DEF AnswersInv, Checkout, p
<1>2. source' \in Programs[language] /\ db' = IndexFile(once, "test", source'["test"])
  BY DEF Checkout
<1>3. IsProject(language, source)'
  BY <1>1, <1>2, AnswersAssumption DEF IsProject
<1>4. /\ Of(once.symbols, "lib") = S("lib") /\ Of(once.references, "lib") = R("lib")
      /\ \A r \in once.symbols \cup once.references : r.file \in Files
  <2>1. \A r \in db.symbols \cup db.references : r.file \in Files
    BY DEF AnswersInv, Indexed
  <2>2. "lib" \in Files
    BY DEF Files
  <2> QED BY <2>1, <2>2, IndexFileIs
<1>5. /\ \A f \in Files : Of(db'.symbols, f) = S(f) /\ Of(db'.references, f) = R(f)
      /\ \A r \in db'.symbols \cup db'.references : r.file \in Files
  <2> HIDE DEF once
  <2>1. /\ Of(db'.symbols, "test") = S("test") /\ Of(db'.references, "test") = R("test")
        /\ \A r \in db'.symbols \cup db'.references :
             r.file = "test" \/ r \in once.symbols \cup once.references
    BY <1>2, IndexFileIs
  <2>2. Of(db'.symbols, "lib") = Of(once.symbols, "lib")
        /\ Of(db'.references, "lib") = Of(once.references, "lib")
    BY <1>2, IndexFileIs
  <2> HIDE DEF S, R
  <2> QED BY <1>4, <2>1, <2>2 DEF Files
<1>6. \A f \in Files : SymbolRows(f)' = S(f) /\ ReferenceRows(f)' = R(f)
  BY <1>1 DEF SymbolRows, ReferenceRows
<1>7. Indexed'
  <2> HIDE DEF S, R
  <2> QED BY <1>5, <1>6 DEF Indexed
<1> QED BY <1>1, <1>3, <1>7 DEF AnswersInv

(* A project of these languages is indexed as its trees are, from every     *)
(* state there is.                                                         *)
THEOREM AnswersInvariant == Spec => []AnswersInv
<1>1. Init => AnswersInv
  BY AnswersInvInit
<1>2. AnswersInv /\ [Next]_vars => AnswersInv'
  <2> SUFFICES ASSUME AnswersInv, [Next]_vars PROVE AnswersInv'
    OBVIOUS
  <2>1. CASE Checkout
    BY <2>1, CheckoutKeeps
  <2>2. CASE \E f \in Files : Save(f)
    BY <2>2, SaveKeeps
  <2>3. CASE UNCHANGED vars
    <3>1. language' = language /\ source' = source /\ db' = db
      BY <2>3 DEF vars
    <3> QED BY <3>1 DEF AnswersInv, IsProject, Indexed, SymbolRows, ReferenceRows, p
  <2> QED BY <2>1, <2>2, <2>3 DEF Next
<1> QED BY <1>1, <1>2, PTL DEF Spec
-----------------------------------------------------------------------------
(* The rows of the index, said of the trees.                               *)
LEMMA SymbolRowsAre ==
  ASSUME AnswersInv
  PROVE  /\ IsFiniteSet(db.symbols)
         /\ \A s \in db.symbols : s.file \in Files /\ s.name \in AllNames \cup {Elsewhere}
         /\ \A f \in Files : \A i \in DOMAIN source[f] : Recorded(language, source[f][i].kind) =>
              \E s \in db.symbols : s.file = f /\ s.name = source[f][i].name
<1>1. language \in Languages /\ p = Parser[language]
      /\ \A f \in Files : IsTree(language, source[f])
  BY DEF AnswersInv, IsProject, p
<1>2. db.symbols = SymbolRows("lib") \cup SymbolRows("test")
      /\ \A f \in Files : SymbolRows(f) \subseteq db.symbols
  BY DEF AnswersInv, Indexed, Files, Of
<1>3. \A f \in Files : \A s \in SymbolRows(f) : s.file = f /\ s.name \in AllNames \cup {Elsewhere}
  <2> TAKE f \in Files
  <2> TAKE s \in SymbolRows(f)
  <2>1. PICK t \in Symbols(p, source[f]) : s = SymbolRow(f, t)
    BY DEF SymbolRows
  <2>2. t.name \in AllNames \cup {Elsewhere}
    BY <1>1, <2>1, SymbolNames
  <2> QED BY <2>1, <2>2 DEF SymbolRow
<1>4. ASSUME NEW f \in Files PROVE IsFiniteSet(SymbolRows(f))
  <2> DEFINE S == Symbols(p, source[f])
             row == [s \in S |-> SymbolRow(f, s)]
  <2>1. IsFiniteSet(S)
    BY <1>1, SymbolsFinite
  <2>2. row = [s \in S |-> row[s]]
    <3> HIDE DEF S
    <3> QED OBVIOUS
  <2>3. SymbolRows(f) = Image(row, S)
    <3>1. SymbolRows(f) = {SymbolRow(f, s) : s \in S}
      BY DEF SymbolRows
    <3> HIDE DEF S
    <3> QED BY <3>1 DEF Image
  <2> HIDE DEF S, row
  <2> QED BY <2>1, <2>2, <2>3, FiniteImage
<1>5. IsFiniteSet(db.symbols)
  <2>1. IsFiniteSet(SymbolRows("lib")) /\ IsFiniteSet(SymbolRows("test"))
    BY <1>4 DEF Files
  <2> QED BY <1>2, <2>1, FS_Union
<1>6. ASSUME NEW f \in Files, NEW i \in DOMAIN source[f], Recorded(language, source[f][i].kind)
      PROVE  \E s \in db.symbols : s.file = f /\ s.name = source[f][i].name
  <2>1. PICK t \in Symbols(p, source[f]) : t.name = source[f][i].name
    BY <1>1, <1>6, SymbolNames
  <2>2. SymbolRow(f, t) \in db.symbols
    BY <1>2 DEF SymbolRows
  <2> QED BY <2>1, <2>2 DEF SymbolRow
<1> QED BY <1>2, <1>3, <1>5, <1>6 DEF Files

IsCallRow(r, f, i) ==
  LET tree == source[f] IN
  /\ tree[i].kind = p.calls.kind /\ r.kind = "call" /\ ~r.dynamic
  /\ r.callee \in Text(p.calls.text, tree[i])
  /\ r.caller # None => r.caller \in CallersOf(language, tree, i)

BaseText == IF language \in {"python", "javascript", "rust"} THEN "with" ELSE "clause"

IsBaseRow(r, f, i) ==
  LET tree == source[f] IN
  /\ tree[i].kind \in DOMAIN p.inherits /\ tree[i].with # None
  /\ r.kind # "call" /\ (r.dynamic <=> language = "rust")
  /\ r.callee \in Text(BaseText, tree[i]) /\ r.caller = tree[i].name

LEMMA ReferenceRowsAre ==
  ASSUME AnswersInv
  PROVE  /\ \A r \in db.references : r.file \in Files /\
              \/ r.line \in DOMAIN source[r.file]
                 /\ (IsCallRow(r, r.file, r.line) \/ IsBaseRow(r, r.file, r.line))
              \/ r.kind = "import" /\ r.caller = None /\ ~r.dynamic
         /\ \A f \in Files : \A i \in DOMAIN source[f] :
              /\ source[f][i].kind = p.calls.kind =>
                   \A c \in CallersOf(language, source[f], i), x \in Text(p.calls.text, source[f][i]) :
                     \E r \in db.references : r.callee = x /\ r.caller = c
              /\ source[f][i].kind \in DOMAIN p.inherits /\ source[f][i].with # None =>
                   \A x \in Text(BaseText, source[f][i]) :
                     \E r \in db.references : /\ r.callee = x /\ r.caller = source[f][i].name
                                              /\ r.dynamic <=> language = "rust"
<1>1. language \in Languages /\ p = Parser[language]
      /\ \A f \in Files : IsTree(language, source[f])
  BY DEF AnswersInv, IsProject, p
<1>2. \A f \in Files : ReferenceRows(f) \subseteq db.references
  BY DEF AnswersInv, Indexed, Files, Of
<1>3. ASSUME NEW r \in db.references
      PROVE  /\ r.file \in Files
             /\ \E t \in References(p, source[r.file]) : r = ReferenceRow(r.file, t)
  <2>1. r.file \in Files /\ r \in ReferenceRows(r.file)
    BY DEF AnswersInv, Indexed, Of
  <2> QED BY <2>1 DEF ReferenceRows
<1>4. ASSUME NEW f \in Files, NEW i \in DOMAIN source[f], source[f][i].kind \in DOMAIN p.inherits,
             source[f][i].with # None,
             NEW t, t \in InheritRows(language, source[f], i), NEW r, r = ReferenceRow(f, t)
      PROVE  IsBaseRow(r, f, i) /\ r.line = i /\ r.callee = t.callee
  <2> DEFINE h == p.inherits[source[f][i].kind]
  <2>1. /\ h.kind = IF language = "rust" THEN "implement" ELSE "inherit"
        /\ h.text = BaseText
    BY <1>1, <1>4, BaseTable DEF BasesAre, BaseText
  <2>2. PICK x \in Text(h.text, source[f][i]) : t = Reference(i, source[f][i].name, x, h.kind)
    BY <1>1, <1>4 DEF InheritRows
  <2> HIDE DEF h
  <2>3. /\ r.line = i /\ r.callee = x /\ r.caller = source[f][i].name /\ r.kind = h.kind
        /\ r.dynamic <=> h.kind \notin StaticKinds
    BY <1>4, <2>2 DEF ReferenceRow, Reference
  <2>4. h.kind # "call" /\ (h.kind \notin StaticKinds <=> language = "rust")
    BY <2>1 DEF StaticKinds
  <2> QED BY <1>4, <2>1, <2>2, <2>3, <2>4 DEF IsBaseRow, Reference
<1>5. ASSUME NEW r \in db.references
      PROVE  /\ r.file \in Files
             /\ \/ r.line \in DOMAIN source[r.file]
                   /\ (IsCallRow(r, r.file, r.line) \/ IsBaseRow(r, r.file, r.line))
                \/ r.kind = "import" /\ r.caller = None /\ ~r.dynamic
  <2> DEFINE f == r.file  tree == source[f]
  <2>1. f \in Files /\ IsTree(language, tree)
    BY <1>1, <1>3
  <2>2. PICK t \in References(p, tree) : r = ReferenceRow(f, t)
    BY <1>3
  <2>3. /\ r.line = t.line /\ r.kind = t.kind /\ r.caller = t.caller /\ r.callee = t.callee
        /\ r.dynamic = (t.kind \notin StaticKinds)
    <3> HIDE DEF f, tree
    <3> QED BY <2>2 DEF ReferenceRow
  <2>4. \/ \E i \in DOMAIN tree : tree[i].kind = p.calls.kind /\ t \in CallReferences(p, tree, i)
        \/ t.kind = "import" /\ t.caller = None
        \/ \E i \in DOMAIN tree : /\ tree[i].kind \in DOMAIN p.inherits /\ tree[i].with # None
                                  /\ t \in InheritRows(language, tree, i)
    BY <1>1, <2>1, <2>2, ReferencesAre
  <2>5. ASSUME NEW i \in DOMAIN tree, tree[i].kind = p.calls.kind, t \in CallReferences(p, tree, i)
        PROVE  r.line = i /\ IsCallRow(r, f, i)
    <3>1. /\ t.line = i /\ t.kind = "call" /\ t.callee \in Text(p.calls.text, tree[i])
          /\ t.caller # None => t.caller \in CallersOf(language, tree, i)
      BY <1>1, <2>1, <2>5, CallRowsAre
    <3> QED BY <2>3, <2>5, <3>1 DEF IsCallRow, StaticKinds
  <2>6. ASSUME NEW i \in DOMAIN tree, tree[i].kind \in DOMAIN p.inherits, tree[i].with # None,
               t \in InheritRows(language, tree, i)
        PROVE  r.line = i /\ IsBaseRow(r, f, i)
    BY <1>4, <2>1, <2>2, <2>6
  <2>7. t.kind = "import" => ~r.dynamic
    BY <2>3 DEF StaticKinds
  <2> QED BY <2>1, <2>3, <2>4, <2>5, <2>6, <2>7
<1>6. ASSUME NEW f \in Files, NEW i \in DOMAIN source[f], source[f][i].kind = p.calls.kind,
             NEW c \in CallersOf(language, source[f], i), NEW x \in Text(p.calls.text, source[f][i])
      PROVE  \E r \in db.references : r.callee = x /\ r.caller = c
  <2> DEFINE t == Reference(i, c, x, "call")
  <2>1. t \in CallReferences(p, source[f], i)
    BY <1>1, <1>6, CallRowsAre
  <2>2. t \in References(p, source[f])
    BY <1>1, <1>6, <2>1, ReferencesAre
  <2>3. ReferenceRow(f, t) \in db.references
    BY <1>2, <2>2 DEF ReferenceRows
  <2> QED BY <2>3 DEF ReferenceRow, Reference
<1>7. ASSUME NEW f \in Files, NEW i \in DOMAIN source[f], source[f][i].kind \in DOMAIN p.inherits,
             source[f][i].with # None, NEW x \in Text(BaseText, source[f][i])
      PROVE  \E r \in db.references : /\ r.callee = x /\ r.caller = source[f][i].name
                                      /\ r.dynamic <=> language = "rust"
  <2> DEFINE h == p.inherits[source[f][i].kind]
             t == Reference(i, source[f][i].name, x, h.kind)
  <2>1. h.text = BaseText
    BY <1>1, <1>7, BaseTable DEF BasesAre, BaseText
  <2>2. t \in InheritRows(language, source[f], i)
    BY <1>1, <2>1 DEF InheritRows
  <2>3. t \in References(p, source[f])
    BY <1>1, <1>7, <2>2, ReferencesAre
  <2>4. ReferenceRow(f, t) \in db.references
    BY <1>2, <2>3 DEF ReferenceRows
  <2>5. IsBaseRow(ReferenceRow(f, t), f, i) /\ ReferenceRow(f, t).callee = t.callee
    BY <1>4, <1>7, <2>2
  <2>6. t.callee = x
    BY DEF Reference
  <2> QED BY <2>4, <2>5, <2>6 DEF IsBaseRow
<1> QED BY <1>5, <1>6, <1>7
-----------------------------------------------------------------------------
LEMMA WithinIs ==
  ASSUME NEW tree, NEW i
  PROVE  InFunctions(tree, i) = Functions(language, tree, i)
         /\ InClasses(tree, i) = Classes(language, tree, i)
BY DEF InFunctions, InClasses, Functions, Classes, Inside, syntax, p

LEMMA CallersAreInnermost == AnswersInv => CallerIsInnermost
<1> SUFFICES ASSUME AnswersInv, NEW r \in db.references, r.kind = "call", r.caller # None
             PROVE  LET tree == source[r.file]
                        within == IF language = "scala" THEN InClasses(tree, r.line)
                                  ELSE InFunctions(tree, r.line)
                        named == {j \in within : tree[j].name = r.caller}
                    IN named # {} /\ (language # "typescript" => Max(within) \in named)
  BY DEF CallerIsInnermost
<1> DEFINE tree == source[r.file]
           i == r.line
           within == IF language = "scala" THEN InClasses(tree, i) ELSE InFunctions(tree, i)
           named == {j \in within : tree[j].name = r.caller}
<1> SUFFICES named # {} /\ (language # "typescript" => Max(within) \in named)
  OBVIOUS
<1>1. r.caller \in CallersOf(language, tree, i)
  BY ReferenceRowsAre DEF IsCallRow, IsBaseRow
<1>2. within = IF language = "scala" THEN Classes(language, tree, i) ELSE Functions(language, tree, i)
  BY WithinIs
<1> HIDE DEF tree, i, within
<1>3. CASE language = "typescript"
  BY <1>1, <1>2, <1>3 DEF CallersOf, ByFunction
<1>4. CASE language \in ByFunction \cup {"scala"}
  <2>1. Max(within) \in within /\ tree[Max(within)].name = r.caller
    BY <1>1, <1>2, <1>4 DEF CallersOf, ByFunction
  <2> QED BY <2>1
<1>5. language \in ByFunction \cup {"typescript", "scala"}
  BY <1>1 DEF CallersOf
<1> QED BY <1>3, <1>4, <1>5

(* The callers impact finds of a name.                                     *)
LEMMA CallersAre ==
  ASSUME NEW x
  PROVE  Callers(db, <<x>>) = {s \in db.symbols : \E r \in db.references :
                                 r.callee = <<x>> /\ r.caller = s.name}
<1>1. Len(<<x>>) = 1
  OBVIOUS
<1>2. Resolved(db, <<x>>) = <<x>>
  BY <1>1 DEF Resolved
<1> QED BY <1>2 DEF Callers

(* An attributed call is found, as a symbol it is in.                      *)
LEMMA AttributedIsFound ==
  ASSUME AnswersInv, NEW f \in Files, NEW x, NEW i \in AttributedCalls(f, x)
  PROVE  \E s \in Callers(db, <<x>>) :
           s.file = f /\ s.name \in Around(source[f], i) /\ s.name \in AllNames
<1> DEFINE tree == source[f]
<1>1. language \in Languages /\ IsTree(language, tree) /\ i \in DOMAIN tree
      /\ IsCall(tree, i, x) /\ Attributed(tree, i) /\ tree[i].kind = p.calls.kind
  BY DEF AnswersInv, IsProject, AttributedCalls, IsCall
<1>2. <<x>> \in Text(p.calls.text, tree[i]) /\ CallersOf(language, tree, i) # {}
  BY <1>1, AttributedIs
<1>3. PICK c \in CallersOf(language, tree, i) : TRUE
  BY <1>2
<1>4. PICK j \in Functions(language, tree, i) \cup Classes(language, tree, i) :
         j \in DOMAIN tree /\ tree[j].name = c /\ c \in AllNames /\ Recorded(language, tree[j].kind)
  BY <1>1, CallersOfFacts
<1>5. PICK s \in db.symbols : s.file = f /\ s.name = c
  BY <1>4, SymbolRowsAre
<1>6. \E r \in db.references : r.callee = <<x>> /\ r.caller = c
  BY <1>1, <1>2, ReferenceRowsAre
<1>7. c \in Around(tree, i)
  BY <1>4, WithinIs DEF Around
<1> QED BY <1>4, <1>5, <1>6, <1>7, CallersAre

(* And what is found is one, or the base of a class or a trait.            *)
LEMMA FoundIsAttributed ==
  ASSUME AnswersInv, NEW x, NEW s \in Callers(db, <<x>>)
  PROVE  /\ s.name \in AllNames
         /\ \/ \E f \in Files : AttributedCalls(f, x) # {}
            \/ Derived(x)
            \/ \E n \in Impls : n.with = x /\ n.name = s.name
<1>1. PICK r \in db.references : r.callee = <<x>> /\ r.caller = s.name
  BY CallersAre
<1>2. r.caller # None
  BY <1>1, SymbolRowsAre, AnswersAssumption, CallersAre
<1> DEFINE f == r.file  tree == source[f]  i == r.line
<1>3. /\ f \in Files /\ i \in DOMAIN tree /\ language \in Languages /\ IsTree(language, tree)
      /\ IsCallRow(r, f, i) \/ IsBaseRow(r, f, i)
  BY <1>2, ReferenceRowsAre DEF AnswersInv, IsProject
<1>4. CASE IsCallRow(r, f, i)
  <2>1. /\ tree[i].kind = p.calls.kind /\ <<x>> \in Text(p.calls.text, tree[i])
        /\ s.name \in CallersOf(language, tree, i)
    BY <1>1, <1>2, <1>4 DEF IsCallRow
  <2>2. IsCall(tree, i, x) /\ Attributed(tree, i)
    BY <1>3, <2>1, AttributedIs
  <2>3. i \in AttributedCalls(f, x)
    BY <1>3, <2>2 DEF AttributedCalls
  <2>4. s.name \in AllNames
    BY <1>3, <2>1, CallersOfFacts
  <2> QED BY <1>3, <2>3, <2>4
<1>5. CASE IsBaseRow(r, f, i)
  <2>1. /\ tree[i].kind \in DOMAIN p.inherits /\ tree[i].with # None
        /\ <<x>> \in Text(BaseText, tree[i]) /\ s.name = tree[i].name
    BY <1>1, <1>5 DEF IsBaseRow
  <2>2. s.name \in AllNames
    BY <1>3, <2>1, NodeFacts
  <2>3. language \in {"python", "javascript", "rust"} /\ tree[i].with = x
    BY <2>1, TextIs DEF BaseText
  <2>4. CASE language = "rust"
    <3>1. tree[i].kind = "impl_item"
      BY <2>1, <2>4, <1>3, BaseTable DEF BasesAre, p
    <3>2. tree[i] \in Impls
      BY <1>3, <2>1, <3>1 DEF Impls
    <3> QED BY <2>1, <2>2, <2>3, <3>2
  <2>5. CASE language # "rust"
    <3>1. tree[i].kind \in p.walk.opens
      BY <1>3, <2>1, <2>3, <2>5, BaseTable DEF BasesAre, p
    <3>2. Derived(x)
      BY <1>3, <2>3, <2>5, <3>1 DEF Derived
    <3> QED BY <2>2, <3>2
  <2> QED BY <2>4, <2>5
<1> QED BY <1>3, <1>4, <1>5
-----------------------------------------------------------------------------
(* A limit of one row or more leaves none of a finite set only when it is  *)
(* empty.                                                                  *)
LEMMA LimitedIs ==
  ASSUME NEW rows, IsFiniteSet(rows), NEW n \in Nat \ {0}
  PROVE  /\ Limited(rows, n) \subseteq rows
         /\ Limited(rows, n) = {} <=> rows = {}
         /\ Cardinality(rows) <= n => Limited(rows, n) = rows
<1>1. Cardinality(rows) \in Nat /\ ExistsBijection(1 .. Cardinality(rows), rows)
  BY FS_CardinalityType
<1>2. CASE Cardinality(rows) <= n
  BY <1>2 DEF Limited
<1>3. CASE ~(Cardinality(rows) <= n)
  <2> DEFINE c == Cardinality(rows)
  <2>1. PICK b \in Bijection(1 .. c, rows) : TRUE
    BY <1>1 DEF ExistsBijection
  <2> DEFINE first == [i \in 1 .. n |-> b[i]]
             some == {first[i] : i \in 1 .. n}
  <2>2. 1 .. n \subseteq 1 .. c
    BY <1>1, <1>3
  <2>3. b \in [1 .. c -> rows] /\ \A i, j \in 1 .. c : b[i] = b[j] => i = j
    BY <2>1 DEF Bijection, Injection, IsInjective
  <2>4. some \in SUBSET rows
    BY <2>2, <2>3
  <2>5. first \in Bijection(1 .. n, some)
    <3>1. first \in [1 .. n -> some]
      OBVIOUS
    <3>2. \A i, j \in 1 .. n : first[i] = first[j] => i = j
      BY <2>2, <2>3
    <3>3. \A t \in some : \E i \in 1 .. n : first[i] = t
      OBVIOUS
    <3> HIDE DEF first, some
    <3> QED BY <3>1, <3>2, <3>3 DEF Bijection, Injection, Surjection, IsInjective
  <2>6. Cardinality(some) = n
    <3>1. IsFiniteSet(1 .. n) /\ Cardinality(1 .. n) = n
      BY FS_Interval
    <3>2. ExistsBijection(1 .. n, some)
      BY <2>5 DEF ExistsBijection
    <3> HIDE DEF some
    <3> QED BY <3>1, <3>2, FS_Bijection
  <2> HIDE DEF some
  <2>7. Limited(rows, n) \in SUBSET rows /\ Cardinality(Limited(rows, n)) = n
    BY <1>3, <2>4, <2>6 DEF Limited
  <2>8. Limited(rows, n) # {} /\ rows # {}
    BY <2>7, FS_EmptySet, <1>1
  <2> QED BY <1>3, <2>7, <2>8
<1> QED BY <1>2, <1>3

LEMMA ImpactIs ==
  ASSUME AnswersInv, NEW x
  PROVE  LET callers == Impact(db, <<x>>).callers IN
         /\ callers \subseteq Callers(db, <<x>>)
         /\ callers = {} <=> Callers(db, <<x>>) = {}
         /\ Cardinality(Callers(db, <<x>>)) <= CallersLimit => callers = Callers(db, <<x>>)
<1>1. IsFiniteSet(Callers(db, <<x>>))
  <2>1. Callers(db, <<x>>) \in SUBSET db.symbols
    BY CallersAre
  <2> QED BY <2>1, SymbolRowsAre, FS_Subset
<1>2. Impact(db, <<x>>).callers = Limited(Callers(db, <<x>>), CallersLimit)
  BY DEF Impact
<1> QED BY <1>1, <1>2, LimitedIs, QueriesAssumption

LEMMA ImplIs ==
  ASSUME AnswersInv, NEW n \in Impls
  PROVE  /\ language = "rust" /\ n.with # None
         /\ \E f \in Files : \E i \in DOMAIN source[f] :
              n = source[f][i] /\ source[f][i].kind \in DOMAIN p.inherits
<1>1. PICK f \in Files : \E i \in DOMAIN source[f] : n = source[f][i]
  BY DEF Impls
<1>2. PICK i \in DOMAIN source[f] : n = source[f][i]
  BY <1>1
<1>3. n.kind = "impl_item" /\ n.with # None
  BY DEF Impls
<1>4. language \in Languages /\ source[f][i] \in Nodes(language, AllNames, SubSeq(source[f], 1, i - 1))
  BY DEF AnswersInv, IsProject, IsTree
<1>5. language = "rust"
  BY <1>2, <1>3, <1>4, NodesAre
<1>6. "impl_item" \in DOMAIN p.inherits
  BY <1>4, <1>5, BaseTable DEF BasesAre, p
<1> QED BY <1>2, <1>3, <1>5, <1>6

(* The dynamic rows of a name are those of the impls it is a side of.      *)
LEMMA DynamicIs ==
  ASSUME AnswersInv, NEW x
  PROVE  (\E r \in Neighbors(db, <<x>>) : r.dynamic) <=> \E n \in Impls : n.with = x \/ n.name = x
<1>1. ASSUME NEW r \in Neighbors(db, <<x>>), r.dynamic
      PROVE  \E n \in Impls : n.with = x \/ n.name = x
  <2>1. r \in db.references /\ (r.caller = x \/ r.callee = <<x>>)
    BY DEF Neighbors
  <2> DEFINE f == r.file  i == r.line
  <2>2. f \in Files /\ i \in DOMAIN source[f] /\ IsBaseRow(r, f, i)
    BY <1>1, <2>1, ReferenceRowsAre DEF IsCallRow
  <2>3. /\ language = "rust" /\ source[f][i].kind \in DOMAIN p.inherits
        /\ source[f][i].with # None
        /\ r.callee \in Text("with", source[f][i]) /\ r.caller = source[f][i].name
    BY <1>1, <2>2 DEF IsBaseRow, BaseText
  <2>4. source[f][i].kind = "impl_item"
    BY <2>3, BaseTable DEF BasesAre, p, AnswersInv
  <2>5. source[f][i] \in Impls
    BY <2>2, <2>3, <2>4 DEF Impls
  <2>6. source[f][i].with = x \/ source[f][i].name = x
    BY <2>1, <2>3, TextIs
  <2> QED BY <2>5, <2>6
<1>2. ASSUME NEW n \in Impls, n.with = x \/ n.name = x
      PROVE  \E r \in Neighbors(db, <<x>>) : r.dynamic
  <2>1. language = "rust" /\ n.with # None
    BY ImplIs
  <2>2. PICK f \in Files : \E i \in DOMAIN source[f] :
               n = source[f][i] /\ source[f][i].kind \in DOMAIN p.inherits
    BY ImplIs
  <2>3. PICK i \in DOMAIN source[f] : n = source[f][i] /\ source[f][i].kind \in DOMAIN p.inherits
    BY <2>2
  <2>4. <<n.with>> \in Text(BaseText, source[f][i])
    BY <2>1, <2>3, TextIs DEF BaseText
  <2>5. PICK r \in db.references : r.callee = <<n.with>> /\ r.caller = n.name /\ r.dynamic
    BY <2>1, <2>3, <2>4, ReferenceRowsAre
  <2>6. r \in Neighbors(db, <<x>>)
    BY <1>2, <2>5 DEF Neighbors
  <2> QED BY <2>5, <2>6
<1> QED BY <1>1, <1>2

AllStages == {"static_refs", "dynamic_refs", "string_refs", "test_refs"}

LEMMA SafeIs ==
  ASSUME NEW x, NEW ok \in BOOLEAN, NEW asked \in {{}, AllStages}
  PROVE  DeadCode(db, x, asked, ok).safe <=>
           \/ ~ok
           \/ /\ Impact(db, <<x>>).callers = {}
              /\ asked = {} \/ ~\E r \in Neighbors(db, <<x>>) : r.dynamic
<1> DEFINE callers == Ask(Impact(db, <<x>>).callers, ok)
           dynamic == Ask({r \in Neighbors(db, <<x>>) : r.dynamic}, ok)
           found == [static_refs  |-> callers,
                     dynamic_refs |-> dynamic,
                     string_refs  |-> Ask({s \in SearchSymbol(db, x) : s.name # x}, ok),
                     test_refs    |-> {s \in callers : s.file \in TestFiles}]
           stages == IF asked = {} THEN {"static_refs"} ELSE asked
           blocks(s) == s \in {"static_refs", "dynamic_refs"}
<1>1. DeadCode(db, x, asked, ok).safe <=> \A s \in stages : blocks(s) => found[s] = {}
  BY DEF DeadCode
<1>2. (\A s \in stages : blocks(s) => found[s] = {})
        <=> callers = {} /\ (asked = {} \/ dynamic = {})
  <2> HIDE DEF callers, dynamic
  <2>1. found["static_refs"] = callers /\ found["dynamic_refs"] = dynamic
    OBVIOUS
  <2> HIDE DEF found
  <2>2. CASE asked = {}
    BY <2>1, <2>2
  <2>3. CASE asked # {}
    <3>1. stages = AllStages
      BY <2>3
    <3> HIDE DEF stages
    <3> QED BY <2>1, <2>3, <3>1 DEF AllStages
  <2> QED BY <2>2, <2>3
<1>3. callers = {} <=> ~ok \/ Impact(db, <<x>>).callers = {}
  BY DEF Ask
<1>4. dynamic = {} <=> ~ok \/ ~\E r \in Neighbors(db, <<x>>) : r.dynamic
  BY DEF Ask
<1> HIDE DEF callers, dynamic, found, stages
<1> QED BY <1>1, <1>2, <1>3, <1>4


LEMMA DeadIs == AnswersInv => DeadIsUnattributed
<1> SUFFICES ASSUME AnswersInv, NEW x \in AllNames, NEW ok \in BOOLEAN, NEW asked \in {{}, AllStages}
             PROVE  DeadCode(db, x, asked, ok).safe <=>
                      \/ ~ok
                      \/ /\ \A f \in Files : AttributedCalls(f, x) = {}
                         /\ ~Derived(x)
                         /\ \A n \in Impls : n.with = x => ~Declares(n.name) /\ asked = {}
                         /\ \A n \in Impls : n.name = x => asked = {}
  BY DEF DeadIsUnattributed, AllStages
<1>1. Impact(db, <<x>>).callers = {} <=> Callers(db, <<x>>) = {}
  BY ImpactIs
<1>2. ASSUME NEW f \in Files, AttributedCalls(f, x) # {} PROVE Callers(db, <<x>>) # {}
  BY <1>2, AttributedIsFound
<1>3. ASSUME NEW f \in Files, NEW i \in DOMAIN source[f], source[f][i].kind \in DOMAIN p.inherits,
             source[f][i].with = x, language \in {"python", "javascript", "rust"},
             Declares(source[f][i].name)
      PROVE  Callers(db, <<x>>) # {}
  <2>1. source[f][i].with # None /\ <<x>> \in Text(BaseText, source[f][i])
    BY <1>3, AnswersAssumption, TextIs DEF BaseText
  <2>2. PICK r \in db.references : r.callee = <<x>> /\ r.caller = source[f][i].name
    BY <1>3, <2>1, ReferenceRowsAre
  <2> QED BY <1>3, <2>2, CallersAre DEF Declares
<1>4. ASSUME Derived(x) PROVE Callers(db, <<x>>) # {}
  <2>1. language \in {"python", "javascript"} /\ language \in Languages /\ p = Parser[language]
    BY <1>4 DEF Derived, AnswersInv, p
  <2>2. PICK f \in Files : \E i \in DOMAIN source[f] :
               source[f][i].kind \in p.walk.opens /\ source[f][i].with = x
    BY <1>4 DEF Derived
  <2>3. PICK i \in DOMAIN source[f] : source[f][i].kind \in p.walk.opens /\ source[f][i].with = x
    BY <2>2
  <2>4. source[f][i].kind \in DOMAIN p.inherits
    BY <2>1, <2>3, BaseTable DEF BasesAre
  <2>5. Declares(source[f][i].name)
    <3>1. Recorded(language, source[f][i].kind)
      BY <2>1, <2>3, DeclareTable
    <3> QED BY <3>1, SymbolRowsAre DEF Declares
  <2> QED BY <1>3, <2>1, <2>3, <2>4, <2>5
<1>5. ASSUME NEW n \in Impls, n.with = x, Declares(n.name) PROVE Callers(db, <<x>>) # {}
  <2>1. PICK f \in Files : \E i \in DOMAIN source[f] :
               n = source[f][i] /\ source[f][i].kind \in DOMAIN p.inherits
    BY ImplIs
  <2>2. PICK i \in DOMAIN source[f] : n = source[f][i] /\ source[f][i].kind \in DOMAIN p.inherits
    BY <2>1
  <2>3. language = "rust"
    BY ImplIs
  <2> QED BY <1>3, <1>5, <2>2, <2>3
<1>6. ASSUME Callers(db, <<x>>) # {}
      PROVE  \/ \E f \in Files : AttributedCalls(f, x) # {}
             \/ Derived(x)
             \/ \E n \in Impls : n.with = x /\ Declares(n.name)
  <2>1. PICK s \in Callers(db, <<x>>) : TRUE
    BY <1>6
  <2>2. Declares(s.name)
    BY CallersAre DEF Declares
  <2> QED BY <2>2, FoundIsAttributed
<1>7. DeadCode(db, x, asked, ok).safe <=>
        \/ ~ok
        \/ Callers(db, <<x>>) = {} /\ (asked = {} \/ ~\E n \in Impls : n.with = x \/ n.name = x)
  BY <1>1, SafeIs, DynamicIs
<1> QED BY <1>2, <1>4, <1>5, <1>6, <1>7
-----------------------------------------------------------------------------
(* The searches, step by step.                                             *)
LEMMA Iteration ==
  ASSUME NEW n \in Nat, NEW S, NEW b \in S, NEW step \in [S -> S]
  PROVE  \E f \in [0 .. n -> S] : f[0] = b /\ \A d \in 1 .. n : f[d] = step[f[d - 1]]
<1> DEFINE up == [d \in 1 .. n |-> d - 1]
           steps == [d \in 1 .. n |-> step]
<1>1. up \in [1 .. n -> Nat] /\ (\A d \in 1 .. n : up[d] < d) /\ steps \in [1 .. n -> [S -> S]]
  OBVIOUS
<1>2. PICK f \in [0 .. n -> S] : Follows(f, n, b, up, steps)
  <2> HIDE DEF up, steps
  <2> QED BY <1>1, Recursion
<1>3. \A d \in 1 .. n : f[d] = step[f[d - 1]]
  BY <1>2 DEF Follows
<1> QED BY <1>2, <1>3 DEF Follows

NextLayer(layer, tests) ==
  {<<s.name>> : s \in {t \in UNION {Impact(db, c).callers : c \in layer} :
                         tests \/ t.file \notin TestFiles}}

(* f has the layers and what was visited of a search from x.               *)
IsSearch(f, x, tests) ==
  /\ f[0] = [layer |-> {<<x>>}, visited |-> {<<x>>}]
  /\ \A d \in 1 .. Depth :
       LET new == NextLayer(f[d - 1].layer, tests) \ f[d - 1].visited
       IN f[d] = [layer |-> new, visited |-> f[d - 1].visited \cup new]
  /\ Layers(db, <<x>>, Depth, tests) = [d \in 1 .. Depth |-> f[d].layer]

LEMMA ImpactInSymbols ==
  ASSUME AnswersInv, NEW text
  PROVE  Impact(db, text).callers \subseteq db.symbols
<1>1. Callers(db, text) \in SUBSET db.symbols
  BY DEF Callers
<1>2. IsFiniteSet(Callers(db, text))
  BY <1>1, SymbolRowsAre, FS_Subset
<1>3. Limited(Callers(db, text), CallersLimit) \subseteq Callers(db, text)
  BY <1>2, LimitedIs, QueriesAssumption
<1> QED BY <1>1, <1>3 DEF Impact

LEMMA LayersAre ==
  ASSUME AnswersInv, NEW x, NEW tests
  PROVE  \E f : IsSearch(f, x, tests)
<1> DEFINE V == {<<x>>} \cup {<<s.name>> : s \in db.symbols}
           S == [layer : SUBSET V, visited : SUBSET V]
           next(layer) == {<<s.name>> : s \in {t \in UNION {Impact(db, c).callers : c \in layer} :
                                                 tests \/ t.file \notin TestFiles}}
           start == [layer |-> {<<x>>}, visited |-> {<<x>>}]
           after(c) == LET new == next(c.layer) \ c.visited
                       IN [layer |-> new, visited |-> c.visited \cup new]
           step == [c \in S |-> after(c)]
<1>1. Depth \in Nat
  BY AnswersAssumption
<1>2. ASSUME NEW layer PROVE next(layer) \subseteq V
  <2>1. UNION {Impact(db, c).callers : c \in layer} \subseteq db.symbols
    BY ImpactInSymbols
  <2> QED BY <2>1
<1>3. step \in [S -> S]
  <2>1. ASSUME NEW c \in S PROVE after(c) \in S
    <3>1. next(c.layer) \subseteq V /\ c.visited \subseteq V
      BY <1>2
    <3> HIDE DEF V, next
    <3> QED BY <3>1
  <2> HIDE DEF after, S
  <2> QED BY <2>1
<1>4. start \in S
  OBVIOUS
<1>5. PICK f \in [0 .. Depth -> S] : f[0] = start /\ \A d \in 1 .. Depth : f[d] = step[f[d - 1]]
  <2> HIDE DEF S, step, start
  <2> QED BY <1>1, <1>3, <1>4, Iteration
<1>6. \A d \in 1 .. Depth : f[d] = after(f[d - 1])
  <2> TAKE d \in 1 .. Depth
  <2>1. f[d - 1] \in S
    <3>1. d - 1 \in 0 .. Depth
      BY <1>1
    <3> HIDE DEF S
    <3> QED BY <3>1
  <2> HIDE DEF after, S
  <2> QED BY <1>5, <2>1
<1>7. f = [d \in 0 .. Depth |-> IF d = 0 THEN start ELSE after(f[d - 1])]
  <2> HIDE DEF after, S, start
  <2> QED BY <1>1, <1>5, <1>6
<1> DEFINE reached[d \in 0 .. Depth] ==
             IF d = 0 THEN [layer |-> {<<x>>}, visited |-> {<<x>>}]
             ELSE LET new == next(reached[d - 1].layer) \ reached[d - 1].visited
                  IN [layer |-> new, visited |-> reached[d - 1].visited \cup new]
<1>8. reached = [d \in 0 .. Depth |-> IF d = 0 THEN start ELSE after(reached[d - 1])]
  <2> HIDE DEF next
  <2> QED BY <1>7
<1>9. Layers(db, <<x>>, Depth, tests) = [d \in 1 .. Depth |-> reached[d].layer]
  BY DEF Layers
<1> HIDE DEF reached
<1>10. reached[0] = start /\ \A d \in 1 .. Depth : reached[d] = after(reached[d - 1])
  <2> HIDE DEF after, start
  <2> QED BY <1>1, <1>8
<1>11. \A layer : next(layer) = NextLayer(layer, tests)
  BY DEF NextLayer
<1> HIDE DEF next
<1>12. IsSearch(reached, x, tests)
  BY <1>9, <1>10, <1>11 DEF IsSearch
<1> QED BY <1>12

Calling(X, tests) ==
  {s.name : s \in {t \in db.symbols :
     /\ tests \/ t.file \notin TestFiles
     /\ \E r \in db.references, y \in X : r.callee = <<y>> /\ r.caller = t.name}}

LEMMA ChainIs ==
  ASSUME NEW x, NEW tests
  PROVE  /\ Chain(x, tests)[0] = {x}
         /\ \A d \in 1 .. Depth : Chain(x, tests)[d] = Calling(Chain(x, tests)[d - 1], tests)
<1> DEFINE S == SUBSET ({x} \cup {s.name : s \in db.symbols})
           step(X) == {s.name : s \in {t \in db.symbols :
                         /\ tests \/ t.file \notin TestFiles
                         /\ \E r \in db.references, y \in X : r.callee = <<y>> /\ r.caller = t.name}}
           steps == [X \in S |-> step(X)]
           start == {x}
<1>1. Depth \in Nat
  BY AnswersAssumption
<1>2. steps \in [S -> S]
  <2>1. \A X \in S : step(X) \in S
    OBVIOUS
  <2> HIDE DEF S, step
  <2> QED BY <2>1
<1>3. PICK f \in [0 .. Depth -> S] : f[0] = start /\ \A d \in 1 .. Depth : f[d] = steps[f[d - 1]]
  <2>1. start \in S
    OBVIOUS
  <2> HIDE DEF S, steps, start
  <2> QED BY <1>1, <1>2, <2>1, Iteration
<1>4. \A d \in 1 .. Depth : f[d] = step(f[d - 1])
  <2> TAKE d \in 1 .. Depth
  <2>1. f[d - 1] \in S
    <3>1. d - 1 \in 0 .. Depth
      BY <1>1
    <3> HIDE DEF S
    <3> QED BY <3>1
  <2> HIDE DEF step, S
  <2> QED BY <1>3, <2>1
<1>5. f = [d \in 0 .. Depth |-> IF d = 0 THEN start ELSE step(f[d - 1])]
  <2> HIDE DEF step, S, start
  <2> QED BY <1>1, <1>3, <1>4
<1> DEFINE chain[d \in 0 .. Depth] == IF d = 0 THEN {x} ELSE step(chain[d - 1])
<1>6. chain = [d \in 0 .. Depth |-> IF d = 0 THEN start ELSE step(chain[d - 1])]
  <2> HIDE DEF step
  <2> QED BY <1>5
<1>7. Chain(x, tests) = chain
  BY DEF Chain
<1>8. \A X : step(X) = Calling(X, tests)
  BY DEF Calling
<1> HIDE DEF chain, step
<1>9. chain[0] = start /\ \A d \in 1 .. Depth : chain[d] = step(chain[d - 1])
  <2> HIDE DEF start
  <2> QED BY <1>1, <1>6
<1> QED BY <1>7, <1>8, <1>9


(* Names as the texts the queries are asked of.                            *)
Texts(X) == {<<y>> : y \in X}

LEMMA TextsAre ==
  /\ \A X, y : <<y>> \in Texts(X) <=> y \in X
  /\ \A X, t : t \in Texts(X) => \E y \in X : t = <<y>>
<1>1. \A y, z : <<y>> = <<z>> => y = z
  OBVIOUS
<1> QED BY <1>1 DEF Texts

LEMMA TextsOfSets ==
  ASSUME NEW X, NEW Y
  PROVE  Texts(X) \ Texts(Y) = Texts(X \ Y) /\ Texts(X) \cup Texts(Y) = Texts(X \cup Y)
BY TextsAre

LEMMA CallingIs ==
  ASSUME NEW X, NEW tests, NEW z \in Calling(X, tests)
  PROVE  \E y \in X : \A Y : y \in Y => z \in Calling(Y, tests)
<1>1. PICK t \in db.symbols : /\ z = t.name /\ (tests \/ t.file \notin TestFiles)
                              /\ \E r \in db.references, y \in X : r.callee = <<y>> /\ r.caller = t.name
  BY DEF Calling
<1>2. PICK r \in db.references, y \in X : r.callee = <<y>> /\ r.caller = t.name
  BY <1>1
<1>3. ASSUME NEW Y, y \in Y PROVE z \in Calling(Y, tests)
  BY <1>1, <1>2, <1>3 DEF Calling
<1> QED BY <1>3

LEMMA NextIsCalling ==
  ASSUME AnswersInv, NEW X \in SUBSET AllNames, NEW tests,
         \A y \in AllNames : Cardinality(Callers(db, <<y>>)) <= CallersLimit
  PROVE  /\ NextLayer(Texts(X), tests) = Texts(Calling(X, tests))
         /\ Calling(X, tests) \subseteq AllNames
<1>1. \A y \in X : Impact(db, <<y>>).callers = Callers(db, <<y>>)
  BY ImpactIs
<1>2. ASSUME NEW s
      PROVE  s \in UNION {Impact(db, c).callers : c \in Texts(X)}
               <=> s \in db.symbols /\ \E r \in db.references, y \in X : r.callee = <<y>> /\ r.caller = s.name
  <2>1. s \in UNION {Impact(db, c).callers : c \in Texts(X)} <=> \E y \in X : s \in Impact(db, <<y>>).callers
    <3>1. s \in UNION {Impact(db, c).callers : c \in Texts(X)} <=> \E c \in Texts(X) : s \in Impact(db, c).callers
      OBVIOUS
    <3>2. (\E c \in Texts(X) : s \in Impact(db, c).callers) => \E y \in X : s \in Impact(db, <<y>>).callers
      BY TextsAre
    <3>3. (\E y \in X : s \in Impact(db, <<y>>).callers) => \E c \in Texts(X) : s \in Impact(db, c).callers
      BY TextsAre
    <3> QED BY <3>1, <3>2, <3>3
  <2>2. \A y : s \in Callers(db, <<y>>) <=>
          s \in db.symbols /\ \E r \in db.references : r.callee = <<y>> /\ r.caller = s.name
    BY CallersAre
  <2> QED BY <1>1, <2>1, <2>2
<1>3. NextLayer(Texts(X), tests) = Texts(Calling(X, tests))
  <2> DEFINE A == UNION {Impact(db, c).callers : c \in Texts(X)}
  <2>1. ASSUME NEW t \in NextLayer(Texts(X), tests) PROVE t \in Texts(Calling(X, tests))
    <3>1. PICK s \in A : t = <<s.name>> /\ (tests \/ s.file \notin TestFiles)
      BY <2>1 DEF NextLayer
    <3> HIDE DEF A
    <3>2. s.name \in Calling(X, tests)
      BY <1>2, <3>1 DEF Calling, A
    <3> QED BY <3>1, <3>2, TextsAre
  <2>2. ASSUME NEW t \in Texts(Calling(X, tests)) PROVE t \in NextLayer(Texts(X), tests)
    <3>1. PICK z \in Calling(X, tests) : t = <<z>>
      BY TextsAre
    <3>2. PICK s \in db.symbols :
            /\ z = s.name /\ (tests \/ s.file \notin TestFiles)
            /\ \E r \in db.references, y \in X : r.callee = <<y>> /\ r.caller = s.name
      BY DEF Calling
    <3>3. s \in A
      BY <1>2, <3>2
    <3>4. NextLayer(Texts(X), tests) = {<<u.name>> : u \in {v \in A : tests \/ v.file \notin TestFiles}}
      BY DEF NextLayer
    <3> HIDE DEF A
    <3> QED BY <3>1, <3>2, <3>3, <3>4
  <2> QED BY <2>1, <2>2
<1>4. ASSUME NEW z \in Calling(X, tests) PROVE z \in AllNames
  <2>1. PICK s \in db.symbols :
          /\ z = s.name
          /\ \E r \in db.references, y \in X : r.callee = <<y>> /\ r.caller = s.name
    BY DEF Calling
  <2>2. PICK y \in X : s \in Callers(db, <<y>>)
    BY <2>1, CallersAre
  <2> QED BY <2>1, <2>2, FoundIsAttributed
<1> QED BY <1>3, <1>4


LEMMA LayersAreChain == AnswersInv => LayersAreDistances
<1> SUFFICES ASSUME AnswersInv,
                    \A y \in AllNames : Cardinality(Callers(db, <<y>>)) <= CallersLimit,
                    NEW x \in AllNames, NEW tests \in BOOLEAN
             PROVE  \A d \in 1 .. Depth :
                      Layers(db, <<x>>, Depth, tests)[d]
                        = Texts(Chain(x, tests)[d] \ UNION {Chain(x, tests)[k] : k \in 0 .. d - 1})
  BY DEF LayersAreDistances, Texts
<1> DEFINE ch == Chain(x, tests)
           before(d) == UNION {ch[k] : k \in 0 .. d - 1}
<1>0. Depth \in Nat
  BY AnswersAssumption
<1>1. PICK f : IsSearch(f, x, tests)
  BY LayersAre
<1>2. ch[0] = {x} /\ \A d \in 1 .. Depth : ch[d] = Calling(ch[d - 1], tests)
  BY ChainIs
<1> DEFINE P(d) == /\ ch[d] \subseteq AllNames
                   /\ f[d].layer = Texts(ch[d] \ before(d))
                   /\ f[d].visited = Texts(before(d) \cup ch[d])
           G == {d \in 0 .. Depth : P(d)}
<1> HIDE DEF ch
<1>3. P(0)
  <2>1. before(0) = {}
    OBVIOUS
  <2>2. Texts({x}) = {<<x>>}
    BY DEF Texts
  <2>3. f[0].layer = {<<x>>} /\ f[0].visited = {<<x>>}
    BY <1>1 DEF IsSearch
  <2>4. ch[0] \ before(0) = {x} /\ before(0) \cup ch[0] = {x}
    BY <1>2, <2>1
  <2> HIDE DEF before
  <2> QED BY <1>2, <2>2, <2>3, <2>4
<1>4. ASSUME NEW d \in 1 .. Depth, P(d - 1) PROVE P(d)
  <2> DEFINE e == d - 1
             X == ch[e] \ before(e)
             new == NextLayer(f[e].layer, tests) \ f[e].visited
  <2>1. before(d) = before(e) \cup ch[e]
    <3>1. 0 .. d - 1 = (0 .. e - 1) \cup {e}
      OBVIOUS
    <3> QED BY <3>1
  <2>2. f[d].layer = new /\ f[d].visited = f[e].visited \cup new
    <3>1. f[d] = [layer |-> new, visited |-> f[e].visited \cup new]
      BY <1>1 DEF IsSearch
    <3> HIDE DEF new
    <3> QED BY <3>1
  <2>3. NextLayer(Texts(X), tests) = Texts(Calling(X, tests))
    <3>1. X \in SUBSET AllNames
      BY <1>4
    <3> HIDE DEF X
    <3> QED BY <3>1, NextIsCalling
  <2>4. ch[d] = Calling(ch[e], tests) /\ ch[d] \subseteq AllNames
    <3>1. ch[d] = Calling(ch[e], tests) /\ ch[e] \in SUBSET AllNames
      BY <1>2, <1>4
    <3> HIDE DEF e
    <3> QED BY <3>1, NextIsCalling
  <2>5. Calling(X, tests) \ before(d) = ch[d] \ before(d)
    <3>1. ASSUME NEW z \in Calling(X, tests) PROVE z \in ch[d]
      <4>1. PICK y \in X : \A Y : y \in Y => z \in Calling(Y, tests)
        BY CallingIs
      <4> QED BY <2>4, <4>1
    <3>2. ASSUME NEW z \in ch[d], z \notin before(d) PROVE z \in Calling(X, tests)
      <4>1. PICK y \in ch[e] : \A Y : y \in Y => z \in Calling(Y, tests)
        BY <2>4, CallingIs
      <4>2. CASE y \in before(e)
        <5>1. PICK k \in 0 .. e - 1 : y \in ch[k]
          BY <4>2
        <5>2. k + 1 \in 1 .. Depth /\ k + 1 \in 0 .. d - 1 /\ (k + 1) - 1 = k
          BY <1>0
        <5>3. z \in ch[k + 1]
          <6>1. ch[k + 1] = Calling(ch[k], tests)
            BY <1>2, <5>2
          <6> QED BY <4>1, <5>1, <6>1
        <5> QED BY <3>2, <5>2, <5>3
      <4>3. CASE y \notin before(e)
        <5>1. y \in X
          BY <4>3
        <5> HIDE DEF X
        <5> QED BY <4>1, <5>1
      <4> QED BY <4>2, <4>3
    <3> HIDE DEF X, before
    <3> QED BY <3>1, <3>2
  <2>6. new = Texts(ch[d] \ before(d))
    <3>1. new = Texts(Calling(X, tests)) \ Texts(before(e) \cup ch[e])
      BY <1>4, <2>3
    <3>2. new = Texts(Calling(X, tests) \ before(d))
      <4>1. Texts(Calling(X, tests)) \ Texts(before(d)) = Texts(Calling(X, tests) \ before(d))
        BY TextsOfSets
      <4>2. new = Texts(Calling(X, tests)) \ Texts(before(d))
        <5> HIDE DEF new, X, before, e
        <5> QED BY <2>1, <3>1
      <4> HIDE DEF new, X, before
      <4> QED BY <4>1, <4>2
    <3> HIDE DEF new, X, before
    <3> QED BY <2>5, <3>2
  <2>7. f[e].visited \cup new = Texts(before(d) \cup ch[d])
    <3>1. f[e].visited = Texts(before(e) \cup ch[e])
      BY <1>4
    <3>2. before(d) \cup (ch[d] \ before(d)) = before(d) \cup ch[d]
      OBVIOUS
    <3> HIDE DEF new, before, e
    <3> QED BY <2>1, <2>6, <3>1, <3>2, TextsOfSets
  <2> HIDE DEF before, new
  <2> QED BY <2>2, <2>4, <2>6, <2>7
<1>5. \A d \in 0 .. Depth : d \in G
  <2>1. ASSUME NEW d \in 0 .. Depth, \A k \in 0 .. Depth : k < d => k \in G PROVE d \in G
    <3>1. CASE d = 0
      <4> HIDE DEF P
      <4> QED BY <1>3, <3>1
    <3>2. CASE d # 0
      <4>1. d \in 1 .. Depth /\ d - 1 \in 0 .. Depth /\ d - 1 < d
        BY <1>0, <3>2
      <4>2. P(d - 1)
        <5> HIDE DEF P
        <5> QED BY <2>1, <4>1
      <4>3. P(d)
        <5> HIDE DEF P
        <5> QED BY <1>4, <4>1, <4>2
      <4> HIDE DEF P
      <4> QED BY <4>3
    <3> QED BY <3>1, <3>2
  <2> HIDE DEF G
  <2>2. \A d \in 0 .. Depth : (\A k \in 0 .. Depth : k < d => k \in G) => d \in G
    BY <2>1
  <2> QED BY <1>0, <2>2, Induction
<1>6. ASSUME NEW d \in 1 .. Depth PROVE Layers(db, <<x>>, Depth, tests)[d] = Texts(ch[d] \ before(d))
  <2>1. Layers(db, <<x>>, Depth, tests)[d] = f[d].layer
    BY <1>1 DEF IsSearch
  <2>2. d \in 0 .. Depth
    OBVIOUS
  <2>3. P(d)
    <3> HIDE DEF P
    <3> QED BY <1>5, <2>2
  <2> HIDE DEF before
  <2> QED BY <2>1, <2>3
<1> QED BY <1>6 DEF ch


LEMMA CautionIs ==
  ASSUME AnswersInv, NEW x, NEW s \in Impact(db, <<x>>).callers, s.name # x, s.file \notin TestFiles
  PROVE  Recommendation(db, Layers(db, <<x>>, Depth, FALSE)) # "safe to modify"
<1> DEFINE layers == Layers(db, <<x>>, Depth, FALSE)
           depths == {d \in DOMAIN layers : layers[d] # {}}
<1>1. PICK f : IsSearch(f, x, FALSE)
  BY LayersAre
<1>2. 1 \in 1 .. Depth
  BY AnswersAssumption
<1>3. layers = [d \in 1 .. Depth |-> f[d].layer]
  BY <1>1 DEF IsSearch
<1>4. f[1].layer = NextLayer({<<x>>}, FALSE) \ {<<x>>}
  <2> DEFINE new == NextLayer(f[0].layer, FALSE) \ f[0].visited
  <2>1. f[0] = [layer |-> {<<x>>}, visited |-> {<<x>>}]
    BY <1>1 DEF IsSearch
  <2>2. f[1] = [layer |-> new, visited |-> f[0].visited \cup new]
    <3>1. 1 - 1 = 0
      OBVIOUS
    <3> QED BY <1>1, <1>2, <3>1 DEF IsSearch
  <2>3. new = NextLayer({<<x>>}, FALSE) \ {<<x>>}
    BY <2>1
  <2> HIDE DEF new
  <2> QED BY <2>2, <2>3
<1>5. <<s.name>> \in NextLayer({<<x>>}, FALSE) \ {<<x>>}
  <2> DEFINE A == UNION {Impact(db, c).callers : c \in {<<x>>}}
  <2>1. s \in A
    OBVIOUS
  <2>2. NextLayer({<<x>>}, FALSE) = {<<t.name>> : t \in {v \in A : FALSE \/ v.file \notin TestFiles}}
    BY DEF NextLayer
  <2>3. <<s.name>> # <<x>>
    OBVIOUS
  <2> HIDE DEF A
  <2> QED BY <2>1, <2>2, <2>3
<1>6. 1 \in depths
  <2> HIDE DEF layers
  <2> QED BY <1>2, <1>3, <1>4, <1>5
<1>7. Recommendation(db, layers)
        = CASE depths = {} -> "safe to modify"
            [] \E d \in depths : Risk(d) = "high" -> "caution"
            [] OTHER -> IF TestCoverageGaps(db, layers) # {} THEN "care" ELSE "low risk"
  BY DEF Recommendation
<1> HIDE DEF depths, layers
<1> QED BY <1>6, <1>7 DEF layers

LEMMA PlansCover == AnswersInv => PlansCoverCalls
<1> SUFFICES ASSUME AnswersInv, NEW x \in AllNames, NEW f \in Files, AttributedCalls(f, x) # {},
                    Cardinality(Callers(db, <<x>>)) <= CallersLimit
             PROVE  /\ f \in EditPlan(db, x, {"add_param"}).files
                    /\ ~EditPlan(db, x, {"rename", "add_param"}).safe
                    /\ EditPlan(db, x, {"rename", "rename without names"}).safe
                    /\ \/ f \in TestFiles
                       \/ \A i \in AttributedCalls(f, x) : x \in Around(source[f], i)
                       \/ Recommendation(db, Layers(db, <<x>>, Depth, FALSE)) # "safe to modify"
                    /\ Declares(x) => /\ f \in CrossModuleMove(db, x, TRUE, TRUE).modify
                                      /\ ~CrossModuleMove(db, x, FALSE, TRUE).safe
                                      /\ f \in FilesOf(SignatureMigration(db, x, Signature(1),
                                                                Signature(2), TRUE).breaking)
  BY DEF PlansCoverCalls
<1> DEFINE callers == Impact(db, <<x>>).callers
<1>1. callers = Callers(db, <<x>>)
  BY ImpactIs
<1>2. PICK s \in callers : s.file = f
  BY <1>1, AttributedIsFound
<1>3. f \in FilesOf(callers)
  BY <1>2 DEF FilesOf
<1>4. f \in EditPlan(db, x, {"add_param"}).files
  BY <1>3 DEF EditPlan
<1>5. ~EditPlan(db, x, {"rename", "add_param"}).safe
  <2> DEFINE breaking == callers \X ({"rename", "add_param"} \ {"rename without names"})
  <2>1. EditPlan(db, x, {"rename", "add_param"}).safe <=> \A b \in breaking : b[2] = "rename"
    BY DEF EditPlan
  <2>2. <<s, "add_param">> \in breaking
    OBVIOUS
  <2>3. <<s, "add_param">>[2] # "rename"
    OBVIOUS
  <2> HIDE DEF breaking
  <2> QED BY <2>1, <2>2, <2>3
<1>6. EditPlan(db, x, {"rename", "rename without names"}).safe
  <2> DEFINE breaking == callers \X ({"rename", "rename without names"} \ {"rename without names"})
  <2>1. EditPlan(db, x, {"rename", "rename without names"}).safe <=> \A b \in breaking : b[2] = "rename"
    BY DEF EditPlan
  <2>2. \A b \in breaking : b[2] = "rename"
    OBVIOUS
  <2> QED BY <2>1, <2>2
<1>7. ASSUME f \notin TestFiles, NEW i \in AttributedCalls(f, x), x \notin Around(source[f], i)
      PROVE  Recommendation(db, Layers(db, <<x>>, Depth, FALSE)) # "safe to modify"
  <2>1. PICK t \in callers : t.file = f /\ t.name \in Around(source[f], i)
    BY <1>1, AttributedIsFound
  <2> QED BY <1>7, <2>1, CautionIs
<1>8. ASSUME Declares(x)
      PROVE  /\ f \in CrossModuleMove(db, x, TRUE, TRUE).modify
             /\ ~CrossModuleMove(db, x, FALSE, TRUE).safe
             /\ f \in FilesOf(SignatureMigration(db, x, Signature(1), Signature(2), TRUE).breaking)
  <2>1. Ask(SearchSymbol(db, x), TRUE) # {}
    BY <1>8 DEF Declares, SearchSymbol, Ask
  <2>2. Ask(callers, TRUE) = callers
    BY DEF Ask
  <2>3. CrossModuleMove(db, x, TRUE, TRUE).modify = {FirstFound(db, x).file} \cup FilesOf(callers)
    BY <2>1, <2>2 DEF CrossModuleMove
  <2>4. CrossModuleMove(db, x, FALSE, TRUE).safe
          <=> Ask({r \in Neighbors(db, <<x>>) : r.dynamic}, TRUE) \cup callers = {}
    BY <2>1, <2>2 DEF CrossModuleMove
  <2>5. SignatureMigration(db, x, Signature(1), Signature(2), TRUE).breaking = callers
    <3>1. Signature(2).required > Signature(1).required
      BY DEF Signature
    <3> QED BY <2>1, <2>2, <3>1 DEF SignatureMigration
  <2> QED BY <1>3, <2>3, <2>4, <2>5
<1> QED BY <1>4, <1>5, <1>6, <1>7, <1>8

(* The theorems, of every project.                                         *)

(* A caller that is recorded is the innermost function around the call     *)
(* (CallerIsInnermost).                                                    *)
THEOREM CallerIsInnermostHolds == Spec => []CallerIsInnermost
BY AnswersInvariant, CallersAreInnermost, PTL

(* What is called safe to delete is what no call is attributed to          *)
(* (DeadIsUnattributed).                                                   *)
THEOREM DeadIsUnattributedHolds == Spec => []DeadIsUnattributed
BY AnswersInvariant, DeadIs, PTL

(* A plan, a move and a signature's change name each file with an          *)
(* attributed call (PlansCoverCalls).                                      *)
THEOREM PlansCoverCallsHolds == Spec => []PlansCoverCalls
BY AnswersInvariant, PlansCover, PTL

(* The layers of impact_deep are the distances from its target             *)
(* (LayersAreDistances).                                                   *)
THEOREM LayersAreDistancesHolds == Spec => []LayersAreDistances
BY AnswersInvariant, LayersAreChain, PTL
=============================================================================
