------------------------------ MODULE MCDaemon ------------------------------
(* Daemon on a small instance: one batch holds fewer events than a burst.  *)
EXTENDS Daemon, TLC
=============================================================================
