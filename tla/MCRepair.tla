------------------------------ MODULE MCRepair ------------------------------
(* Instances of Repair for TLC.                                            *)
EXTENDS Repair

CONSTANTS c, d

(* Two guards, one next to either kind of journal, or two with journals.   *)
MCUses == {[x \in {c, d} |-> IF x = c THEN first ELSE second] :
             first \in {"guard"}, second \in Ways}
          \cup {[x \in {c, d} |-> "journal"]}
=============================================================================
