---------------------------- MODULE SweepProofs -----------------------------
(***************************************************************************)
(* Proofs about module Sweep, for any number of files, languages, workers  *)
(* and versions, with and without faults.  The rows of a file are those of *)
(* its hash by the invariants of module IndexerProofs, which a sweep keeps *)
(* as the workers of a daemon do; what the sweep itself has listed, still  *)
(* has to index, and has in line for removal is the invariant SweepInv.    *)
(***************************************************************************)
EXTENDS Sweep, IndexerProofs

(* A file the sweep is done with, in its first half: it has a hash, or the *)
(* sweep is about to store one.                                            *)
Covered(f) == fileHash[f] # 0 \/ (Active(Sweeper, f) /\ pass[Sweeper].at \in {"compare", "hash"})

(* Where a sweep is.  The removals it starts are of files it did not list. *)
PlaceInv ==
  /\ sat \in {"idle", "index", "remove"}
  /\ todo \subseteq listed /\ listed \subseteq Files /\ stale \subseteq Files \ listed
  /\ absent \subseteq Files /\ excused \subseteq Files
  /\ sat # "remove" => stale = {}
  /\ sat = "remove" => todo = {} /\ (Ready \/ Removing(Sweeper))
  /\ sat = "index" => ~Removing(Sweeper)
  /\ sat # "idle" /\ Removing(Sweeper) => pass[Sweeper].file \notin listed

(* Whom the sweep has met.                                                 *)
MetInv ==
  sat # "idle" => \A w \in Workers \ {Sweeper}, f \in Files : Active(w, f) => f \in excused

(* What it listed it has indexed, or will.                                 *)
IndexInv ==
  sat # "idle" => \A f \in listed \ (todo \cup absent \cup excused) : Covered(f)

(* What it did not list it has removed, or will.                           *)
RemoveInv ==
  sat = "remove" => \A f \in Files \ (listed \cup excused) :
    fileHash[f] # 0 => f \in stale \/ (Active(Sweeper, f) /\ Removing(Sweeper))

SweepInv == PlaceInv /\ MetInv /\ IndexInv /\ RemoveInv

(* The invariants of the workers, and of the sweep.                        *)
WorkersInv == IInv /\ PassInv
-----------------------------------------------------------------------------
(* What a step of a worker does to the hashes, and to the other workers.   *)
LEMMA ProgressFacts ==
  ASSUME IInv, NEW w \in Workers, Progress(w)
  PROVE  /\ pass[w].at # "idle" /\ pass'[w].file = pass[w].file /\ pass[w].file \in Files
         /\ \A x \in Workers \ {w} : pass'[x] = pass[x]
         /\ \A g \in Files : g # pass[w].file => fileHash'[g] = fileHash[g]
         /\ ~Removing(w) => /\ ~Removing(w)'
                            /\ fileHash[pass[w].file] # 0 => fileHash'[pass[w].file] # 0
                            /\ pass[w].at \in {"compare", "hash"} =>
                                 \/ pass'[w].at \in {"compare", "hash"}
                                 \/ fileHash'[pass[w].file] # 0
         /\ Removing(w) => \/ Removing(w)'
                           \/ pass'[w].at = "idle" /\ fileHash'[pass[w].file] = 0
<1>0. PICK f \in Files, v \in Version : f = pass[w].file /\ v = pass[w].version
  BY DEF IInv, TypeOK, Pass
<1>1. ~Removing(w) /\ pass[w].at # "idle" => v # 0
  BY <1>0 DEF IInv, ReadInv
<1>2. ASSUME NEW from \in At, NEW to \in At, Goes(w, from, to)
      PROVE  /\ pass[w].at = from /\ pass'[w].at = to /\ pass'[w].file = f
             /\ \A x \in Workers \ {w} : pass'[x] = pass[x]
  BY <1>0, <1>2, GoesFacts DEF IInv
<1>3. CASE Skip(w)
  BY <1>0, <1>1, <1>2, <1>3 DEF Skip, At, Removing, tables
<1>4. CASE Differs(w) \/ Parse(w)
  BY <1>0, <1>2, <1>4 DEF Differs, Parse, At, Removing, tables
<1>5. CASE StoreHash(w)
  BY <1>0, <1>1, <1>2, <1>5 DEF StoreHash, At, Removing, IInv, TypeOK
<1>6. CASE StoreChecksum(w)
  BY <1>0, <1>2, <1>6 DEF StoreChecksum, At, Removing
<1>7. CASE RemoveFileSymbols(w)
  BY <1>0, <1>2, <1>7 DEF RemoveFileSymbols, DeleteRows, At, Removing
<1>8. CASE Insert(w) \/ Finish(w)
  BY <1>0, <1>2, <1>8 DEF Insert, Finish, InsertRow, At, Removing
<1>9. CASE RemoveFile(w)
  <2>1. CASE RemoveHash(w)
    BY <1>0, <1>2, <2>1 DEF RemoveHash, At, Removing, IInv, TypeOK
  <2>2. CASE ~RemoveHash(w)
    BY <1>0, <1>2, <1>9, <2>2 DEF RemoveFile, DeleteRows, At, Removing
  <2> QED BY <2>1, <2>2
<1> QED BY <1>3, <1>4, <1>5, <1>6, <1>7, <1>8, <1>9 DEF Progress

LEMMA StopFacts ==
  ASSUME IInv, NEW w \in Workers, Stop(w)
  PROVE  /\ pass[w].at # "idle" /\ pass'[w].at = "idle"
         /\ pass'[w].file = pass[w].file /\ pass[w].file \in Files
         /\ \A x \in Workers \ {w} : pass'[x] = pass[x]
         /\ UNCHANGED tables
         /\ Skip(w) => fileHash[pass[w].file] # 0
<1>1. /\ pass[w].at # "idle" /\ pass'[w].at = "idle"
      /\ pass'[w].file = pass[w].file /\ pass[w].file \in Files
      /\ \A x \in Workers \ {w} : pass'[x] = pass[x]
      /\ UNCHANGED tables
  BY DEF Stop, IInv, TypeOK, Pass
<1>2. ASSUME Skip(w) PROVE fileHash[pass[w].file] # 0
  BY <1>2 DEF Skip, Goes, IInv, ReadInv, Removing
<1> QED BY <1>1, <1>2

(* A worker that begins touches no hash, and no other worker.              *)
LEMMA BeginFacts ==
  ASSUME IInv, NEW w \in Workers, NEW f \in Files, NEW v \in Version, NEW at, Begin(w, f, at, v)
  PROVE  /\ pass[w].at = "idle" /\ pass'[w].at = at /\ pass'[w].file = f
         /\ \A x \in Workers \ {w} : pass'[x] = pass[x]
BY DEF Begin, IInv, TypeOK
-----------------------------------------------------------------------------
(* The sweep keeps the invariants of the workers.                          *)
LEMMA WorkersInvNext == WorkersInv /\ [SNext]_sweepVars => WorkersInv'
<1> SUFFICES ASSUME WorkersInv, [SNext]_sweepVars PROVE WorkersInv'
  OBVIOUS
<1>1. CASE [Next]_indexerVars
  BY <1>1, IInvStep, PassInvNext DEF WorkersInv
<1>2. ASSUME NEW f \in Files, SweepRemove(f) PROVE WorkersInv'
  <2>1. 0 \in Version /\ "remove reference" \in At /\ Sweeper \in Workers
    BY IndexerAssumption, SweepAssumption DEF Version, At
  <2>2. Begin(Sweeper, f, "remove reference", 0) /\ UNCHANGED <<files, tables>>
    BY <1>2 DEF SweepRemove
  <2>3. PassInv'
    BY <2>1, <2>2, PassBegin DEF WorkersInv
  <2>4. /\ pass' \in [Workers -> Pass] /\ ReadInv'
        /\ touched' \in [Workers -> BOOLEAN] /\ suspect' \in [Files -> BOOLEAN]
    BY <2>1, <2>2, BeginType DEF WorkersInv
  <2>5. IInv'
    BY <2>2, <2>4 DEF WorkersInv, IInv, TypeOK, RowsHaveHash, files, tables
  <2> QED BY <2>3, <2>5 DEF WorkersInv
<1>3. Sweeper \in Workers
  BY SweepAssumption
<1>4. CASE UNCHANGED sweepVars
  BY <1>1, <1>4 DEF sweepVars
<1>5. CASE \E scope \in Languages \cup {UNION Languages} : StartSweep(scope)
  BY <1>1, <1>5 DEF StartSweep
<1>6. CASE Elsewhere
  BY <1>1, <1>6 DEF Elsewhere, Next
<1>7. ASSUME NEW f \in Files, SweepIndex(f) PROVE WorkersInv'
  BY <1>1, <1>3, <1>7 DEF SweepIndex, Next
<1>8. CASE ListHashes \/ EndSweep \/ AbortSweep
  BY <1>1, <1>8 DEF ListHashes, EndSweep, AbortSweep
<1>9. CASE SweepWork
  BY <1>1, <1>3, <1>9 DEF SweepWork, Next, Work
<1> QED BY <1>2, <1>4, <1>5, <1>6, <1>7, <1>8, <1>9 DEF SNext, SweepStep
-----------------------------------------------------------------------------
(* The histories only grow, and hold what the step shows.                  *)
LEMMA ObserveFacts ==
  ASSUME PlaceInv, Observe
  PROVE  /\ absent \subseteq absent' /\ absent' \subseteq Files
         /\ excused \subseteq excused' /\ excused' \subseteq Files
         /\ \A f \in Files : disk'[f] = 0 => f \in absent'
         /\ \A w \in Workers \ {Sweeper}, f \in Files :
              Active(w, f) \/ Active(w, f)' => f \in excused'
         /\ \A f \in Files :
              Active(Sweeper, f) /\ Stop(Sweeper) /\ ~Skip(Sweeper) => f \in excused'
BY DEF Observe, PlaceInv

(* The sweep, and the passes of its worker, are where they were.           *)
LEMMA SweepWaits ==
  ASSUME SweepInv, Observe, UNCHANGED <<sat, listed, todo, stale>>,
         pass'[Sweeper] = pass[Sweeper],
         \A g \in Files : g \in excused' \/ fileHash'[g] = fileHash[g]
  PROVE  SweepInv'
<1>1. /\ absent \subseteq absent' /\ absent' \subseteq Files
      /\ excused \subseteq excused' /\ excused' \subseteq Files
      /\ \A w \in Workers \ {Sweeper}, f \in Files :
           Active(w, f) \/ Active(w, f)' => f \in excused'
  BY ObserveFacts DEF SweepInv
<1>2. (Ready' <=> Ready) /\ (Removing(Sweeper)' <=> Removing(Sweeper))
  BY DEF Ready, Removing
<1>3. \A f : Active(Sweeper, f)' <=> Active(Sweeper, f)
  BY DEF Active
<1>4. PlaceInv'
  BY <1>1, <1>2 DEF SweepInv, PlaceInv
<1>5. MetInv'
  BY <1>1 DEF MetInv
<1>6. IndexInv'
  <2> SUFFICES ASSUME sat # "idle", NEW f \in listed \ (todo \cup absent' \cup excused')
               PROVE  Covered(f)'
    BY DEF IndexInv
  <2>1. f \in Files /\ fileHash'[f] = fileHash[f]
    BY DEF SweepInv, PlaceInv
  <2>2. Covered(f)
    BY <1>1 DEF SweepInv, IndexInv
  <2> QED BY <1>3, <2>1, <2>2 DEF Covered
<1>7. RemoveInv'
  BY <1>1, <1>2, <1>3 DEF SweepInv, RemoveInv
<1> QED BY <1>4, <1>5, <1>6, <1>7 DEF SweepInv

LEMMA KeepsElsewhere == ASSUME WorkersInv, SweepInv, Elsewhere PROVE SweepInv'
<1>1. Observe /\ UNCHANGED <<sat, listed, todo, stale>> /\ Sweeper \in Workers
  BY SweepAssumption DEF Elsewhere
<1>2. CASE \E f \in Files : Edit(f) \/ Delete(f)
  BY <1>1, <1>2, SweepWaits DEF Edit, Delete, tables
<1>3. ASSUME NEW w \in Workers \ {Sweeper},
             Work(w) \/ \E f \in Files : Read(w, f) \/ StartRemoval(w, f)
      PROVE  SweepInv'
  <2>1. CASE Work(w)
    <3>1. /\ pass[w].at # "idle" /\ pass'[Sweeper] = pass[Sweeper] /\ pass[w].file \in Files
          /\ \A g \in Files : g # pass[w].file => fileHash'[g] = fileHash[g]
      BY <1>1, <2>1, ProgressFacts, StopFacts DEF WorkersInv, Work, tables
    <3>2. pass[w].file \in excused'
      BY <1>1, <3>1, ObserveFacts DEF Active, SweepInv
    <3> QED BY <1>1, <3>1, <3>2, SweepWaits
  <2>2. CASE \E f \in Files : Read(w, f) \/ StartRemoval(w, f)
    <3>1. PICK f \in Files : Read(w, f) \/ StartRemoval(w, f)
      BY <2>2
    <3>2. /\ UNCHANGED tables
          /\ Begin(w, f, "compare", disk[f]) \/ Begin(w, f, "remove reference", 0)
      BY <3>1 DEF Read, StartRemoval
    <3>3. pass'[Sweeper] = pass[Sweeper]
      BY <1>1, <3>2 DEF Begin, WorkersInv, IInv, TypeOK
    <3> QED BY <1>1, <3>2, <3>3, <1>3, SweepWaits DEF tables
  <2> QED BY <1>3, <2>1, <2>2
<1> QED BY <1>2, <1>3 DEF Elsewhere

LEMMA KeepsStart ==
  ASSUME SweepInv, NEW scope \in Languages \cup {UNION Languages}, StartSweep(scope)
  PROVE  SweepInv'
<1>1. scope \subseteq Files
  BY SweepAssumption
<1>2. /\ sat = "idle" /\ sat' = "index" /\ stale = {} /\ stale' = {} /\ ~Removing(Sweeper)'
      /\ pass' = pass
  BY DEF StartSweep, SweepInv, PlaceInv, Ready, Removing, indexerVars
<1>3. PlaceInv'
  BY <1>1, <1>2 DEF StartSweep, PlaceInv
<1>4. MetInv'
  BY <1>2 DEF StartSweep, MetInv, Active
<1>5. IndexInv'
  BY DEF StartSweep, IndexInv
<1>6. RemoveInv'
  BY <1>2 DEF RemoveInv
<1> QED BY <1>3, <1>4, <1>5, <1>6 DEF SweepInv

LEMMA KeepsIndex ==
  ASSUME WorkersInv, SweepInv, NEW f \in Files, SweepIndex(f) PROVE SweepInv'
<1>1. /\ sat = "index" /\ sat' = "index" /\ Ready /\ f \in todo /\ todo' = todo \ {f}
      /\ UNCHANGED <<listed, stale>> /\ Observe /\ Sweeper \in Workers
  BY SweepAssumption DEF SweepIndex
<1>2. /\ absent \subseteq absent' /\ absent' \subseteq Files
      /\ excused \subseteq excused' /\ excused' \subseteq Files
      /\ disk'[f] = 0 => f \in absent'
      /\ \A w \in Workers \ {Sweeper}, g \in Files : Active(w, g)' => g \in excused'
  BY <1>1, ObserveFacts DEF SweepInv
<1>3. /\ fileHash' = fileHash /\ ~Removing(Sweeper)'
      /\ (Active(Sweeper, f)' /\ pass'[Sweeper].at = "compare") \/ disk'[f] = 0
  <2>1. CASE Read(Sweeper, f)
    <3>1. disk[f] \in Version
      BY DEF WorkersInv, IInv, TypeOK
    <3>2. pass'[Sweeper].at = "compare" /\ pass'[Sweeper].file = f
      BY <1>1, <2>1, <3>1, BeginFacts DEF Read, WorkersInv
    <3> QED BY <2>1, <3>2 DEF Read, tables, Active, Removing
  <2>2. CASE disk[f] = 0 /\ UNCHANGED indexerVars
    BY <1>1, <2>2 DEF indexerVars, files, tables, Ready, Removing
  <2> QED BY <2>1, <2>2 DEF SweepIndex
<1>4. PlaceInv'
  BY <1>1, <1>2, <1>3 DEF SweepInv, PlaceInv
<1>5. MetInv'
  BY <1>2 DEF MetInv
<1>6. IndexInv'
  <2> SUFFICES ASSUME NEW g \in listed \ (todo' \cup absent' \cup excused') PROVE Covered(g)'
    BY <1>1 DEF IndexInv
  <2>1. CASE g = f
    BY <1>2, <1>3, <2>1 DEF Covered
  <2>2. CASE g # f
    <3>1. Covered(g)
      BY <1>1, <1>2, <2>2 DEF SweepInv, IndexInv
    <3> QED BY <1>1, <1>3, <3>1 DEF Covered, Active, Ready
  <2> QED BY <2>1, <2>2
<1>7. RemoveInv'
  BY <1>1 DEF RemoveInv
<1> QED BY <1>4, <1>5, <1>6, <1>7 DEF SweepInv

LEMMA KeepsListHashes == ASSUME WorkersInv, SweepInv, ListHashes PROVE SweepInv'
<1>1. /\ sat = "index" /\ sat' = "remove" /\ Ready /\ todo = {} /\ todo' = {}
      /\ stale' = {f \in Files : fileHash[f] # 0} \ listed
      /\ listed' = listed /\ pass' = pass /\ fileHash' = fileHash /\ Observe
  BY DEF ListHashes, indexerVars, tables
<1>2. /\ absent \subseteq absent' /\ absent' \subseteq Files
      /\ excused \subseteq excused' /\ excused' \subseteq Files
      /\ \A w \in Workers \ {Sweeper}, g \in Files : Active(w, g)' => g \in excused'
  BY <1>1, ObserveFacts DEF SweepInv
<1>3. Ready' /\ ~Removing(Sweeper)'
  BY <1>1 DEF Ready, Removing
<1>4. PlaceInv'
  BY <1>1, <1>2, <1>3 DEF SweepInv, PlaceInv
<1>5. MetInv'
  BY <1>2 DEF MetInv
<1>6. IndexInv'
  BY <1>1, <1>2 DEF SweepInv, IndexInv, Covered, Active
<1>7. RemoveInv'
  BY <1>1, <1>2 DEF RemoveInv
<1> QED BY <1>4, <1>5, <1>6, <1>7 DEF SweepInv

LEMMA KeepsRemove ==
  ASSUME WorkersInv, SweepInv, NEW f \in Files, SweepRemove(f) PROVE SweepInv'
<1>1. /\ sat = "remove" /\ sat' = "remove" /\ Ready /\ f \in stale /\ stale' = stale \ {f}
      /\ UNCHANGED <<listed, todo, fileHash>> /\ Observe /\ Sweeper \in Workers
      /\ Begin(Sweeper, f, "remove reference", 0)
  BY SweepAssumption DEF SweepRemove, tables
<1>2. /\ absent \subseteq absent' /\ absent' \subseteq Files
      /\ excused \subseteq excused' /\ excused' \subseteq Files
      /\ \A w \in Workers \ {Sweeper}, g \in Files : Active(w, g)' => g \in excused'
  BY <1>1, ObserveFacts DEF SweepInv
<1>3. Active(Sweeper, f)' /\ Removing(Sweeper)' /\ pass'[Sweeper].file = f
  BY <1>1 DEF Begin, WorkersInv, IInv, TypeOK, Active, Removing
<1>4. PlaceInv'
  BY <1>1, <1>2, <1>3 DEF SweepInv, PlaceInv
<1>5. MetInv'
  BY <1>2 DEF MetInv
<1>6. IndexInv'
  <2> SUFFICES ASSUME NEW g \in listed \ (todo' \cup absent' \cup excused') PROVE Covered(g)'
    BY <1>1 DEF IndexInv
  <2>1. Covered(g)
    BY <1>1, <1>2 DEF SweepInv, IndexInv
  <2> QED BY <1>1, <2>1 DEF Covered, Active, Ready
<1>7. RemoveInv'
  <2> SUFFICES ASSUME NEW g \in Files \ (listed \cup excused'), fileHash[g] # 0
               PROVE  g \in stale' \/ (Active(Sweeper, g)' /\ Removing(Sweeper)')
    BY <1>1 DEF RemoveInv
  <2>1. g \in stale
    BY <1>1, <1>2 DEF SweepInv, RemoveInv, Active, Ready
  <2> QED BY <1>1, <1>3, <2>1
<1> QED BY <1>4, <1>5, <1>6, <1>7 DEF SweepInv

LEMMA KeepsEnd == ASSUME SweepInv, EndSweep \/ AbortSweep PROVE SweepInv'
<1>1. /\ sat' = "idle" /\ stale' = {} /\ todo' \subseteq todo
      /\ listed' = listed /\ Observe
  BY DEF EndSweep, AbortSweep
<1>2. absent' \subseteq Files /\ excused' \subseteq Files
  BY <1>1, ObserveFacts DEF SweepInv
<1>3. PlaceInv'
  BY <1>1, <1>2 DEF SweepInv, PlaceInv
<1> QED BY <1>1, <1>3 DEF SweepInv, MetInv, IndexInv, RemoveInv

(* The sweep's own worker.                                                 *)
LEMMA KeepsStop ==
  ASSUME WorkersInv, SweepInv, SweepWork, Stop(Sweeper), Removing(Sweeper),
         sat' = "idle", stale' = {}
  PROVE  SweepInv'
<1>1. absent' \subseteq Files /\ excused' \subseteq Files /\ UNCHANGED <<listed, todo>>
  BY ObserveFacts DEF SweepWork, SweepInv
<1> QED BY <1>1 DEF SweepInv, PlaceInv, MetInv, IndexInv, RemoveInv

LEMMA KeepsWork == ASSUME WorkersInv, SweepInv, SweepWork PROVE SweepInv'
<1> DEFINE F == pass[Sweeper].file
<1>1. Sweeper \in Workers /\ Observe /\ UNCHANGED <<listed, todo>>
  BY SweepAssumption DEF SweepWork
<1>2. /\ absent \subseteq absent' /\ absent' \subseteq Files
      /\ excused \subseteq excused' /\ excused' \subseteq Files
      /\ \A w \in Workers \ {Sweeper}, g \in Files : Active(w, g)' => g \in excused'
      /\ \A g \in Files : Active(Sweeper, g) /\ Stop(Sweeper) /\ ~Skip(Sweeper) => g \in excused'
  BY <1>1, ObserveFacts DEF SweepInv
<1>3. CASE Stop(Sweeper) /\ Removing(Sweeper) /\ sat' = "idle" /\ stale' = {}
  BY <1>3, KeepsStop
<1>4. ASSUME Progress(Sweeper) \/ (Stop(Sweeper) /\ ~Removing(Sweeper)),
             UNCHANGED <<sat, stale>>
      PROVE  SweepInv'
  <2>1. /\ pass[Sweeper].at # "idle" /\ pass'[Sweeper].file = F /\ F \in Files
        /\ \A g \in Files : g # F => fileHash'[g] = fileHash[g]
    BY <1>1, <1>4, ProgressFacts, StopFacts DEF WorkersInv, tables
  <2>2. Removing(Sweeper) => \/ Removing(Sweeper)'
                             \/ pass'[Sweeper].at = "idle" /\ fileHash'[F] = 0
    BY <1>1, <1>4, ProgressFacts DEF WorkersInv
  <2>3. ~Removing(Sweeper) =>
          /\ ~Removing(Sweeper)'
          /\ fileHash[F] # 0 => fileHash'[F] # 0
          /\ pass[Sweeper].at \in {"compare", "hash"} =>
               \/ pass'[Sweeper].at \in {"compare", "hash"}
               \/ fileHash'[F] # 0
               \/ Stop(Sweeper) /\ ~Skip(Sweeper)
    BY <1>1, <1>4, ProgressFacts, StopFacts DEF WorkersInv, tables, Removing
  <2>4. PlaceInv'
    BY <1>1, <1>2, <1>4, <2>1, <2>2, <2>3 DEF SweepInv, PlaceInv, Ready
  <2>5. MetInv'
    BY <1>2 DEF MetInv
  <2>6. IndexInv'
    <3> SUFFICES ASSUME sat # "idle", NEW g \in listed \ (todo \cup absent' \cup excused')
                 PROVE  Covered(g)'
      BY <1>1, <1>4 DEF IndexInv
    <3>1. Covered(g) /\ g \in Files
      BY <1>2 DEF SweepInv, IndexInv, PlaceInv
    <3>2. CASE g # F
      BY <2>1, <3>1, <3>2 DEF Covered, Active
    <3>3. CASE g = F
      <4>1. ~Removing(Sweeper)
        BY <3>3 DEF SweepInv, PlaceInv
      <4>2. ~(Stop(Sweeper) /\ ~Skip(Sweeper))
        BY <1>2, <2>1, <3>1, <3>3 DEF Active
      <4>3. Active(Sweeper, g)' <=> pass'[Sweeper].at # "idle"
        BY <2>1, <3>3 DEF Active
      <4> QED BY <2>3, <3>1, <3>3, <4>1, <4>2, <4>3 DEF Covered
    <3> QED BY <3>2, <3>3
  <2>7. RemoveInv'
    <3> SUFFICES ASSUME sat = "remove", NEW g \in Files \ (listed \cup excused'),
                        fileHash'[g] # 0
                 PROVE  g \in stale \/ (Active(Sweeper, g)' /\ Removing(Sweeper)')
      BY <1>1, <1>4 DEF RemoveInv
    <3>1. Removing(Sweeper)
      BY <2>1 DEF SweepInv, PlaceInv, Ready
    <3>2. CASE g # F
      BY <1>2, <2>1, <3>2 DEF SweepInv, RemoveInv, Active
    <3>3. CASE g = F
      <4>1. Removing(Sweeper)'
        BY <2>2, <3>1, <3>3
      <4> QED BY <2>1, <3>3, <4>1 DEF Active, Removing
    <3> QED BY <3>2, <3>3
  <2> QED BY <2>4, <2>5, <2>6, <2>7 DEF SweepInv
<1> QED BY <1>3, <1>4 DEF SweepWork

LEMMA KeepsStutter == ASSUME SweepInv, UNCHANGED sweepVars PROVE SweepInv'
BY DEF sweepVars, indexerVars, tables, SweepInv, PlaceInv, MetInv, IndexInv, RemoveInv,
       Covered, Active, Ready, Removing

LEMMA SweepInvNext == WorkersInv /\ SweepInv /\ [SNext]_sweepVars => SweepInv'
<1> SUFFICES ASSUME WorkersInv, SweepInv, [SNext]_sweepVars PROVE SweepInv'
  OBVIOUS
<1>1. ASSUME NEW scope \in Languages \cup {UNION Languages}, StartSweep(scope) PROVE SweepInv'
  BY <1>1, KeepsStart
<1>2. ASSUME NEW f \in Files, SweepIndex(f) \/ SweepRemove(f) PROVE SweepInv'
  BY <1>2, KeepsIndex, KeepsRemove
<1>3. CASE ListHashes
  BY <1>3, KeepsListHashes
<1>4. CASE SweepWork
  BY <1>4, KeepsWork
<1>5. CASE EndSweep \/ AbortSweep
  BY <1>5, KeepsEnd
<1>6. CASE Elsewhere
  BY <1>6, KeepsElsewhere
<1>7. CASE UNCHANGED sweepVars
  BY <1>7, KeepsStutter
<1> QED BY <1>1, <1>2, <1>3, <1>4, <1>5, <1>6, <1>7 DEF SNext, SweepStep

LEMMA SweepInvariant == SSpec => [](WorkersInv /\ SweepInv)
<1>1. SInit => WorkersInv /\ SweepInv
  <2>1. SInit => WorkersInv
    BY IInvInit, PassInvInit DEF SInit, WorkersInv
  <2>2. SInit => SweepInv
    <3> SUFFICES ASSUME SInit PROVE SweepInv
      OBVIOUS
    <3> QED BY DEF SInit, SweepInv, PlaceInv, MetInv, IndexInv, RemoveInv
  <2> QED BY <2>1, <2>2
<1>2. (WorkersInv /\ SweepInv) /\ [SNext]_sweepVars => (WorkersInv /\ SweepInv)'
  BY WorkersInvNext, SweepInvNext
<1> QED BY <1>1, <1>2, PTL DEF SSpec
-----------------------------------------------------------------------------
(* The types hold, and nothing that a sweep found on disk is in line for   *)
(* removal.                                                                *)
THEOREM SweepTypeCorrect == SSpec => []STypeOK
<1>1. WorkersInv /\ SweepInv => STypeOK
  BY DEF WorkersInv, IInv, SweepInv, PlaceInv, STypeOK
<1> QED BY <1>1, SweepInvariant, PTL

(* When a sweep ends in good order, the only hashes left are of files its  *)
(* walk found, and of files a worker of the daemon was at meanwhile.       *)
THEOREM SweepLeavesNoGoneHolds == SSpec => SweepLeavesNoGone
<1>1. WorkersInv /\ SweepInv
      => [EndSweep => \A f \in Files : fileHash[f] # 0 => f \in listed \cup excused]_sweepVars
  <2> SUFFICES ASSUME SweepInv, EndSweep, NEW f \in Files, fileHash[f] # 0
               PROVE  f \in listed \cup excused
    OBVIOUS
  <2>1. sat = "remove" /\ Ready /\ stale = {}
    BY DEF EndSweep
  <2> QED BY <2>1 DEF SweepInv, RemoveInv, Ready, Active
<1> QED BY <1>1, SweepInvariant, PTL DEF SweepLeavesNoGone

(* When a sweep ends in good order, each file that was there all the while *)
(* is in the index with the rows of its hash, unless its pass failed, a    *)
(* worker of the daemon was at it, or earlier passes left it suspect.      *)
THEOREM SweepIndexesPresentHolds == SSpec => SweepIndexesPresent
<1>1. WorkersInv /\ SweepInv
      => [EndSweep => \A f \in listed \ (absent \cup excused) :
                        fileHash[f] # 0 /\ (suspect[f] \/ Faithful(f, fileHash[f]))]_sweepVars
  <2> SUFFICES ASSUME WorkersInv, SweepInv, EndSweep, NEW f \in listed \ (absent \cup excused)
               PROVE  fileHash[f] # 0 /\ (suspect[f] \/ Faithful(f, fileHash[f]))
    OBVIOUS
  <2>1. sat = "remove" /\ Ready /\ todo = {} /\ f \in Files
    BY DEF EndSweep, SweepInv, PlaceInv
  <2>2. fileHash[f] # 0
    BY <2>1 DEF SweepInv, IndexInv, Covered, Active, Ready
  <2>3. QuietFile(f)
    BY <2>1 DEF QuietFile, SweepInv, MetInv, Active, Ready
  <2>4. OnlyThreeWaysToFail
    BY SettledIsFaithful DEF WorkersInv
  <2> QED BY <2>1, <2>2, <2>3, <2>4 DEF OnlyThreeWaysToFail, WorkersInv, IInv, TypeOK
<1> QED BY <1>1, SweepInvariant, PTL DEF SweepIndexesPresent
-----------------------------------------------------------------------------
(* A sweep that looks for every file (one language, or index_all_multi of  *)
(* all of them): what is not listed is absent, and so is what it removes.  *)
SparesInv == /\ sat # "idle" => Files \ listed \subseteq absent
             /\ Removing(Sweeper) => pass[Sweeper].file \in absent

LEMMA SparesInvNext ==
  ASSUME Languages = {Files}, WorkersInv, SweepInv, SparesInv, [SNext]_sweepVars
  PROVE  SparesInv'
<1>0. Sweeper \in Workers
  BY SweepAssumption
<1>1. ASSUME NEW scope \in Languages \cup {UNION Languages}, StartSweep(scope) PROVE SparesInv'
  <2>1. scope = Files
    OBVIOUS
  <2>2. ~Removing(Sweeper)'
    BY <1>1 DEF StartSweep, Ready, Removing, indexerVars
  <2> QED BY <1>1, <2>1, <2>2 DEF StartSweep, SparesInv
<1>2. ASSUME Observe, listed' = listed, sat # "idle" \/ sat' = "idle",
             Removing(Sweeper)' => /\ Removing(Sweeper)
                                   /\ pass'[Sweeper].file = pass[Sweeper].file
      PROVE  SparesInv'
  BY <1>2, ObserveFacts DEF SparesInv, SweepInv
<1>3. ASSUME NEW f \in Files, SweepIndex(f) PROVE SparesInv'
  <2>1. disk[f] \in Version
    BY DEF WorkersInv, IInv, TypeOK
  <2>2. ~Removing(Sweeper)'
    <3>1. CASE Read(Sweeper, f)
      <4>1. pass'[Sweeper].at = "compare"
        BY <1>0, <2>1, <3>1, BeginFacts DEF Read, WorkersInv
      <4> QED BY <4>1 DEF Removing
    <3>2. CASE UNCHANGED indexerVars
      BY <1>3, <3>2 DEF SweepIndex, Ready, Removing, indexerVars
    <3> QED BY <1>3, <3>1, <3>2 DEF SweepIndex
  <2> QED BY <1>2, <1>3, <2>2 DEF SweepIndex
<1>4. ASSUME NEW f \in Files, SweepRemove(f) PROVE SparesInv'
  <2>1. f \in absent /\ sat = "remove" /\ listed' = listed /\ absent \subseteq absent'
    BY <1>4, ObserveFacts DEF SweepRemove, SweepInv, PlaceInv, SparesInv
  <2>2. pass'[Sweeper].file = f
    BY <1>0, <1>4 DEF SweepRemove, Begin, WorkersInv, IInv, TypeOK
  <2> QED BY <2>1, <2>2 DEF SparesInv
<1>5. CASE ListHashes \/ EndSweep \/ AbortSweep
  BY <1>2, <1>5 DEF ListHashes, EndSweep, AbortSweep, Removing, indexerVars
<1>6. CASE SweepWork
  <2>1. Removing(Sweeper)' => /\ Removing(Sweeper)
                              /\ pass'[Sweeper].file = pass[Sweeper].file
    BY <1>0, <1>6, ProgressFacts, StopFacts DEF SweepWork, WorkersInv, Removing
  <2>2. sat' = sat \/ sat' = "idle"
    BY <1>6 DEF SweepWork
  <2> QED BY <1>2, <1>6, <2>1, <2>2 DEF SweepWork
<1>7. CASE Elsewhere
  <2>1. pass'[Sweeper] = pass[Sweeper]
    BY <1>0, <1>7, ProgressFacts, StopFacts
       DEF Elsewhere, Edit, Delete, Work, Read, StartRemoval, Begin, WorkersInv, IInv, TypeOK
  <2> QED BY <1>2, <1>7, <2>1 DEF Elsewhere, Removing
<1>8. CASE UNCHANGED sweepVars
  BY <1>8 DEF sweepVars, indexerVars, SparesInv, Removing
<1> QED BY <1>1, <1>3, <1>4, <1>5, <1>6, <1>7, <1>8 DEF SNext, SweepStep

(* If a sweep looks for every file, it takes none out of the index that    *)
(* was there all the while, however the daemon's workers go on.            *)
THEOREM SweepSparesPresentHolds == Languages = {Files} => (SSpec => SweepSparesPresent)
<1> SUFFICES ASSUME Languages = {Files} PROVE SSpec => SweepSparesPresent
  OBVIOUS
<1>1. SInit => SparesInv
  <2> SUFFICES ASSUME SInit PROVE SparesInv
    OBVIOUS
  <2>1. pass[Sweeper].at = "idle" /\ sat = "idle"
    BY SweepAssumption DEF SInit, Init
  <2> QED BY <2>1 DEF SparesInv, Removing
<1>2. (WorkersInv /\ SweepInv) /\ SparesInv /\ [SNext]_sweepVars => SparesInv'
  BY SparesInvNext
<1>3. SparesInv => [SweepWork /\ RemoveHash(Sweeper) => pass[Sweeper].file \in absent]_sweepVars
  BY DEF SparesInv, RemoveHash, Goes, Removing
<1> QED BY <1>1, <1>2, <1>3, SweepInvariant, PTL DEF SSpec, SweepSparesPresent
=============================================================================
