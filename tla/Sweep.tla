------------------------------- MODULE Sweep --------------------------------
(***************************************************************************)
(* ProjectIndexer::index_all and index_all_multi (src/src/indexer/mod.rs): *)
(* the files are listed, each is indexed, and the rows of files that were  *)
(* not listed are removed.  It is what init and reindex do, and what the   *)
(* daemon does first; the workers of a daemon that is running in another   *)
(* process go on all the while.                                            *)
(*                                                                         *)
(* The sweep runs in one worker, whose passes and removals are those of    *)
(* module Indexer.                                                         *)
(***************************************************************************)
EXTENDS Indexer

CONSTANTS Sweeper,   \* the worker of the sweep
          Languages  \* the sets of files one parser is for

ASSUME SweepAssumption == Sweeper \in Workers /\ Languages \subseteq SUBSET Files

VARIABLES
  sat,     \* where the sweep is
  listed,  \* the files its directory walk found
  todo,    \* listed, and not indexed yet
  stale,   \* all_file_hashes without listed, and not removed yet
  absent,  \* history: files that were not on disk at some time during the sweep
  excused  \* history: files that another worker was at during the sweep, or
           \* that the sweep itself failed at

sweepVars == <<indexerVars, sat, listed, todo, stale, absent, excused>>

SInit == /\ Init
         /\ sat = "idle" /\ listed = {} /\ todo = {} /\ stale = {}
         /\ absent = {} /\ excused = {}

Ready == pass[Sweeper].at = "idle"

(* The histories follow every step.                                        *)
Observe ==
  /\ absent' = absent \cup {f \in Files : disk'[f] = 0}
  /\ excused' = excused \cup {f \in Files :
       \/ \E w \in Workers \ {Sweeper} : Active(w, f) \/ Active(w, f)'
       \/ Active(Sweeper, f) /\ Stop(Sweeper) /\ ~Skip(Sweeper)}
-----------------------------------------------------------------------------
(* index_all is told which language to look for; index_all_multi finds     *)
(* every file some parser is for.                                          *)
StartSweep(scope) ==
  /\ sat = "idle" /\ Ready
  /\ sat' = "index"
  /\ listed' = {f \in scope : disk[f] # 0}
  /\ todo' = listed'
  /\ absent' = {f \in Files : disk[f] = 0}
  /\ excused' = {f \in Files : \E w \in Workers \ {Sweeper} : Active(w, f)}
  /\ UNCHANGED <<indexerVars, stale>>

(* An error of index_file is logged, and the next file is next: so is the  *)
(* error of reading a file that is gone by now.                            *)
SweepIndex(f) ==
  /\ sat = "index" /\ Ready /\ f \in todo
  /\ Read(Sweeper, f) \/ (disk[f] = 0 /\ UNCHANGED indexerVars)
  /\ todo' = todo \ {f}
  /\ UNCHANGED <<sat, listed, stale>>
  /\ Observe

ListHashes_All ==
  /\ sat = "index" /\ Ready /\ todo = {}
  /\ stale' = {f \in Files : fileHash[f] # 0}
  /\ sat' = "remove"
  /\ UNCHANGED <<indexerVars, listed, todo>>
  /\ Observe

ListHashes_Early ==
  /\ sat = "index" /\ Ready
  /\ stale' = {f \in Files : fileHash[f] # 0} \ listed
  /\ sat' = "remove"
  /\ UNCHANGED <<indexerVars, listed, todo>>
  /\ Observe

(* clean_deleted_files reads the hashes only now.                          *)
ListHashes ==
  /\ sat = "index" /\ Ready /\ todo = {}
  /\ stale' = {f \in Files : fileHash[f] # 0} \ listed
  /\ sat' = "remove"
  /\ UNCHANGED <<indexerVars, listed, todo>>
  /\ Observe

SweepRemove(f) ==
  /\ sat = "remove" /\ Ready /\ f \in stale
  /\ Begin(Sweeper, f, "remove reference", 0)
  /\ stale' = stale \ {f}
  /\ UNCHANGED <<files, tables, sat, listed, todo>>
  /\ Observe

(* The worker's own steps.  An error in a removal ends the sweep.          *)
SweepWork ==
  /\ \/ Progress(Sweeper) /\ UNCHANGED <<sat, stale>>
     \/ Stop(Sweeper) /\ ~Removing(Sweeper) /\ UNCHANGED <<sat, stale>>
     \/ Stop(Sweeper) /\ Removing(Sweeper) /\ sat' = "idle" /\ stale' = {}
  /\ UNCHANGED <<listed, todo>>
  /\ Observe

(* The walk or the list of hashes fails, or the process is killed.         *)
AbortSweep == /\ Faults /\ sat # "idle"
              /\ sat' = "idle" /\ todo' = {} /\ stale' = {}
              /\ UNCHANGED <<indexerVars, listed>>
              /\ Observe

EndSweep_AfterFirst == /\ sat = "remove" /\ Ready
                       /\ sat' = "idle"
                       /\ UNCHANGED <<indexerVars, listed, todo, stale>>
                       /\ Observe

EndSweep == /\ sat = "remove" /\ Ready /\ stale = {}
            /\ sat' = "idle"
            /\ UNCHANGED <<indexerVars, listed, todo, stale>>
            /\ Observe

(* The files, and the workers of the daemon.                               *)
Elsewhere ==
  /\ \/ \E f \in Files : Edit(f) \/ Delete(f)
     \/ \E w \in Workers \ {Sweeper} : \/ Work(w)
                                       \/ \E f \in Files : Read(w, f) \/ StartRemoval(w, f)
  /\ UNCHANGED <<sat, listed, todo, stale>>
  /\ Observe

SweepStep == \/ \E f \in Files : SweepIndex(f) \/ SweepRemove(f)
             \/ ListHashes \/ SweepWork \/ EndSweep \/ AbortSweep

SNext == \/ \E scope \in Languages \cup {UNION Languages} : StartSweep(scope)
         \/ SweepStep \/ Elsewhere

SSpec == SInit /\ [][SNext]_sweepVars
-----------------------------------------------------------------------------
(* The types.  Nothing that was found on disk is in line for removal.      *)
STypeOK ==
  /\ TypeOK
  /\ sat \in {"idle", "index", "remove"}
  /\ todo \subseteq listed /\ listed \subseteq Files
  /\ stale \subseteq Files \ listed
  /\ absent \subseteq Files /\ excused \subseteq Files

(* A sweep takes no file out of the index that was there all the while.    *)
(* With index_all of one language this fails: see SweepRemovesDeleted.     *)
SweepSparesPresent ==
  [][SweepWork /\ RemoveHash(Sweeper) => pass[Sweeper].file \in absent]_sweepVars

(* When a sweep ends in good order, no hash is left of a file its walk did *)
(* not find, unless a worker of the daemon was at the file meanwhile.      *)
SweepLeavesNoGone ==
  [][EndSweep => \A f \in Files : fileHash[f] # 0 => f \in listed \cup excused]_sweepVars

(* And every file that was there all the while is in the index, with the   *)
(* rows of the hash, unless its pass failed, a worker of the daemon was at *)
(* it meanwhile, or earlier passes had left it suspect.                    *)
SweepIndexesPresent ==
  [][EndSweep => \A f \in listed \ (absent \cup excused) :
                   fileHash[f] # 0 /\ (suspect[f] \/ Faithful(f, fileHash[f]))]_sweepVars

(* "Clean up deleted files" (indexer/mod.rs:557): what a sweep removes is  *)
(* gone from the disk.                                                     *)
SweepRemovesDeleted ==
  [][SweepWork /\ RemoveHash(Sweeper) => disk[pass[Sweeper].file] = 0]_sweepVars
=============================================================================
