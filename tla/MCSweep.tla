------------------------------ MODULE MCSweep -------------------------------
(* Sweep next to a worker of a daemon, and Sweep alone on two languages.   *)
EXTENDS Sweep, TLC
=============================================================================
