----------------------------- MODULE MCWatcher ------------------------------
(* Watcher on a directory of two files.                                    *)
EXTENDS Watcher, TLC
=============================================================================
