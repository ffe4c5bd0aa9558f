------------------------------ MODULE MCAnswers ------------------------------
(* Instances of Answers for TLC.                                           *)
EXTENDS Answers, SequencesExt

MCPartOf == {<<"add", "add_all">>}
MCNameOrder == <<"add", "add_all", "obj", "run">>

(* A Python program of one function for each of the names, with the given  *)
(* calls in it; and all of them, each function in either file.             *)
Function(x, i) == [kind |-> "function_definition", name |-> x, with |-> None, up |-> i]
Call(y, i) == [kind |-> "call", name |-> y, with |-> None, up |-> i]

FunctionWithCalls(calls, x, i) ==
  <<Function(x, 0)>> \o [j \in DOMAIN calls |-> Call(calls[j], i)]

Program(edges, names) ==
  FoldLeft(LAMBDA tree, x : tree \o FunctionWithCalls(
             SelectSeq(MCNameOrder, LAMBDA y : <<x, y>> \in edges), x, Len(tree) + 1),
           <<>>, SelectSeq(MCNameOrder, LAMBDA x : x \in names))

MCPrograms ==
  [l \in Languages |->
     IF l # "python" THEN {}
     ELSE {[f \in Files |-> Program(edges, IF f = "test" THEN tests ELSE ProgramNames \ tests)] :
             edges \in SUBSET (ProgramNames \X ProgramNames), tests \in SUBSET ProgramNames}]
=============================================================================
