------------------------------ MODULE MCSchema ------------------------------
(* Instances of Schema for TLC.                                            *)
EXTENDS Schema
=============================================================================
