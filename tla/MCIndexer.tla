----------------------------- MODULE MCIndexer ------------------------------
(* Indexer on one file, which two workers are at.                          *)
EXTENDS Indexer, TLC
=============================================================================
