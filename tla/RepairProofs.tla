---------------------------- MODULE RepairProofs ----------------------------
(***************************************************************************)
(* What module Repair promises of the queue and of the journal, for any    *)
(* number of callers, contents and writes.                                 *)
(***************************************************************************)
EXTENDS Repair, FiniteSetTheorems, TLAPS

RestType == /\ use \in Uses /\ binary \in Binaries /\ disk \in Version /\ writes \in 0 .. MaxWrites
            /\ hash \in Version /\ checksum \in Version /\ rows \in Version
            /\ pending \in Nat /\ journal \subseteq Version /\ torn \in BOOLEAN
            /\ mixed \in [Callers -> BOOLEAN] /\ bare \in [Callers -> BOOLEAN]
            /\ suspect \in BOOLEAN

(* insert_dirty deletes the pending entries before it inserts one, so      *)
(* there is at most one for each caller, those about to be inserted        *)
(* counted.                                                                *)
Inserting == {c \in Callers : work[c].at = "insert entry"}
Slots == pending + Cardinality(Inserting) <= Cardinality(Callers)

(* A journalled pass has its Pending line behind it, where it can be read  *)
(* or is known to be lost.                                                 *)
JournalAt == {"index", "hash", "checksum", "rows", "commit"}

Logged(c) == work[c].for = "journal" =>
               work[c].at \in JournalAt /\ (work[c].read \in journal \/ bare[c])

IInv == /\ RestType /\ work \in [Callers -> Work]
        /\ Slots
        /\ \A c \in Callers : Logged(c)

LEMMA IdleIsWork == Idle \in Work /\ Idle.for = "none" /\ Idle.at = "idle"
BY RepairAssumption DEF Idle, Work, At, Version

LEMMA IInvInit == Init => IInv
<1> SUFFICES ASSUME Init PROVE IInv
  OBVIOUS
<1>1. RestType
  <2>1. mixed \in [Callers -> BOOLEAN] /\ bare \in [Callers -> BOOLEAN] /\ suspect \in BOOLEAN
    BY DEF Init
  <2>2. writes \in 0 .. MaxWrites /\ 0 \in Version /\ disk \in Version
    BY RepairAssumption DEF Init, Version
  <2> QED BY <2>1, <2>2 DEF Init, RestType
<1>2. work \in [Callers -> Work] /\ \A c \in Callers : work[c] = Idle
  BY IdleIsWork DEF Init
<1>3. Inserting = {}
  BY <1>2, IdleIsWork DEF Inserting
<1>4. Slots
  <2>1. Cardinality({}) = 0 /\ Cardinality(Callers) \in Nat
    BY RepairAssumption, FS_EmptySet, FS_CardinalityType
  <2> QED BY <1>3, <2>1 DEF Slots, Init
<1> QED BY <1>1, <1>2, <1>4, IdleIsWork DEF IInv, Logged
-----------------------------------------------------------------------------
(* Fewer places taken than before.                                         *)
LEMMA SlotsStay ==
  ASSUME IInv, pending' \in {pending, 0}, Inserting' \subseteq Inserting PROVE Slots'
<1>1. IsFiniteSet(Inserting) /\ Inserting \subseteq Callers
  BY RepairAssumption, FS_Subset DEF Inserting
<1>2. Cardinality(Inserting') <= Cardinality(Inserting) /\ IsFiniteSet(Inserting')
  BY <1>1, FS_Subset
<1>3. /\ Cardinality(Inserting') \in Nat /\ Cardinality(Inserting) \in Nat
      /\ Cardinality(Callers) \in Nat /\ pending \in Nat
  BY <1>1, <1>2, RepairAssumption, FS_CardinalityType DEF IInv, RestType
<1> QED BY <1>2, <1>3 DEF Slots, IInv

(* One caller's step: what is left to show of it.                          *)
LEMMA StepInv ==
  ASSUME IInv, RestType', Slots',
         NEW c \in Callers, NEW w \in Work, work' = [work EXCEPT ![c] = w],
         w.for = "journal" => w.at \in JournalAt /\ (w.read \in journal' \/ bare'[c]),
         \A d \in Callers \ {c} :
           work[d].for = "journal" /\ (work[d].read \in journal \/ bare[d])
             => work[d].read \in journal' \/ bare'[d]
  PROVE  IInv'
<1>1. work' \in [Callers -> Work] /\ work'[c] = w
      /\ \A d \in Callers \ {c} : work'[d] = work[d]
  BY DEF IInv
<1>2. ASSUME NEW d \in Callers PROVE Logged(d)'
  <2>1. CASE d = c
    BY <1>1, <2>1 DEF Logged
  <2>2. CASE d # c
    BY <1>1, <2>2 DEF Logged, IInv
  <2> QED BY <2>1, <2>2
<1> QED BY <1>1, <1>2 DEF IInv

(* A step that leaves the journal alone, and inserts no entry.             *)
LEMMA QuietStep ==
  ASSUME IInv, RestType', pending' \in {pending, 0}, UNCHANGED <<journal, bare>>,
         NEW c \in Callers, NEW w \in Work, work' = [work EXCEPT ![c] = w],
         w.at # "insert entry",
         w.for = "journal" => /\ work[c].for = "journal" /\ w.read = work[c].read
                              /\ w.at \in JournalAt
  PROVE  IInv'
<1>1. Inserting' \subseteq Inserting
  BY DEF Inserting, IInv
<1>2. Slots'
  BY <1>1, SlotsStay
<1>3. w.for = "journal" => w.at \in JournalAt /\ (w.read \in journal' \/ bare'[c])
  BY DEF IInv, Logged
<1> QED BY <1>2, <1>3, StepInv

LEMMA DisturbType ==
  ASSUME IInv, NEW c \in Callers, Disturb(c) PROVE mixed' \in [Callers -> BOOLEAN]
<1>1. \A d \in Callers : (mixed[d] \/ d \in Others(c)) \in BOOLEAN
  OBVIOUS
<1> QED BY <1>1 DEF Disturb

LEMMA LeaveType ==
  ASSUME IInv, NEW c \in Callers, Leave(c)
  PROVE  mixed' \in [Callers -> BOOLEAN] /\ work' = [work EXCEPT ![c] = Idle]
<1>1. \A d \in Callers : (d # c /\ (mixed[d] \/ Busy(d))) \in BOOLEAN
  OBVIOUS
<1> QED BY <1>1 DEF Leave, End

LEMMA BeginType ==
  ASSUME IInv, NEW c \in Callers, NEW first, Begin(c, first)
  PROVE  mixed' \in [Callers -> BOOLEAN] /\ suspect' \in BOOLEAN
         /\ work' = [work EXCEPT ![c] = first]
<1>1. \A d \in Callers : (IF d = c THEN Others(c) # {} ELSE mixed[d] \/ Busy(d)) \in BOOLEAN
  OBVIOUS
<1>2. (suspect \/ Others(c) # {}) \in BOOLEAN
  OBVIOUS
<1> QED BY <1>1, <1>2 DEF Begin

LEMMA GoWork ==
  ASSUME IInv, NEW c \in Callers, NEW a \in At, Go(c, a)
  PROVE  /\ [work[c] EXCEPT !.at = a] \in Work
         /\ work' = [work EXCEPT ![c] = [work[c] EXCEPT !.at = a]]
BY DEF IInv, Go, Work-----------------------------------------------------------------------------
(* The queue.                                                              *)

LEMMA Beginnings ==
  ASSUME IInv, NEW c \in Callers, ProcessQueue(c) \/ Check(c) \/ Journal(c) \/ Recover(c)
  PROVE  IInv'
<1> DEFINE Rest == UNCHANGED <<file, tables, pending, log>>
<1>1. ASSUME NEW first \in Work, Begin(c, first), first.for # "journal",
             first.at # "insert entry", Rest
      PROVE  IInv'
  <2>1. RestType'
    BY <1>1, BeginType DEF IInv, RestType, file, tables, log
  <2> QED BY <1>1, <2>1, BeginType, QuietStep DEF log
<1>2. 0 \in Version /\ disk \in Version /\ journal \in SUBSET Version
  BY RepairAssumption DEF Version, IInv, RestType
<1>3. CASE ProcessQueue(c)
  <2> DEFINE first == [Idle EXCEPT !.at = "entry"]
  <2>1. first \in Work /\ first.at = "entry" /\ first.for # "journal"
    BY <1>2 DEF Idle, Work, At
  <2>2. Begin(c, first) /\ Rest
    BY <1>3 DEF ProcessQueue
  <2> HIDE DEF first
  <2> QED BY <1>1, <2>1, <2>2
<1>4. CASE Check(c)
  <2> DEFINE first == [Idle EXCEPT !.at = "verify"]
  <2>1. first \in Work /\ first.at = "verify" /\ first.for # "journal"
    BY <1>2 DEF Idle, Work, At
  <2>2. Begin(c, first) /\ Rest
    BY <1>4 DEF Check
  <2> HIDE DEF first
  <2> QED BY <1>1, <2>1, <2>2
<1>5. CASE Journal(c)
  <2> DEFINE h == IF use[c] = "journal" THEN disk ELSE 0
             first == [Idle EXCEPT !.at = "append", !.read = h]
  <2>1. first \in Work /\ first.at = "append" /\ first.for # "journal"
    BY <1>2 DEF Idle, Work, At
  <2>2. Begin(c, first) /\ Rest
    BY <1>5 DEF Journal
  <2> HIDE DEF first
  <2> QED BY <1>1, <2>1, <2>2
<1>6. CASE Recover(c)
  <2> DEFINE first == [Idle EXCEPT !.at = "recover", !.for = "recover", !.todo = journal]
  <2>1. first \in Work /\ first.at = "recover" /\ first.for # "journal"
    BY <1>2 DEF Idle, Work, At
  <2>2. Begin(c, first) /\ Rest
    BY <1>6 DEF Recover
  <2> HIDE DEF first
  <2> QED BY <1>1, <2>1, <2>2
<1> QED BY <1>3, <1>4, <1>5, <1>6

(* A step that only goes on in the same pass.                              *)
LEMMA GoStep ==
  ASSUME IInv, RestType', UNCHANGED <<pending, journal, bare>>,
         NEW c \in Callers, NEW a \in At, Go(c, a), a # "insert entry",
         work[c].for = "journal" => a \in JournalAt
  PROVE  IInv'
<1> DEFINE w == [work[c] EXCEPT !.at = a]
<1>1. w \in Work /\ work' = [work EXCEPT ![c] = w]
  BY GoWork
<1>2. w.at = a /\ w.for = work[c].for /\ w.read = work[c].read
  BY DEF IInv, Work
<1> HIDE DEF w
<1> QED BY <1>1, <1>2, QuietStep

(* A step that ends.                                                       *)
LEMMA EndStep ==
  ASSUME IInv, RestType', pending' \in {pending, 0}, UNCHANGED <<journal, bare>>,
         NEW c \in Callers, work' = [work EXCEPT ![c] = Idle]
  PROVE  IInv'
BY IdleIsWork, QuietStep

LEMMA NotJournal ==
  ASSUME IInv, NEW c \in Callers, work[c].at \notin JournalAt PROVE work[c].for # "journal"
BY DEF IInv, Logged

LEMMA QueueSteps ==
  ASSUME IInv, NEW c \in Callers,
         \/ Entry(c) \/ RemoveReferences(c) \/ RemoveSymbols(c) \/ RemoveHash(c)
         \/ VerifyStored(c) \/ Clean(c) \/ Single(c) \/ StoreChecksum(c) \/ ClearDirty(c)
  PROVE  IInv'
<1> USE DEF file, tables, log
<1> DEFINE Quiet == {"entry", "remove reference", "remove symbol", "remove hash", "verify",
                     "single", "store"}
<1>0. work[c].at \in Quiet => work[c].for # "journal"
  BY NotJournal DEF JournalAt
<1>1. CASE Entry(c)
  <2>1. RestType'
    BY <1>1 DEF Entry, IInv, RestType
  <2>2. PICK a \in {"remove reference", "verify"} : Go(c, a)
    BY <1>1 DEF Entry
  <2> QED BY <1>0, <1>1, <2>1, <2>2, GoStep DEF Entry, At, Is
<1>2. CASE RemoveReferences(c) \/ RemoveSymbols(c) \/ RemoveHash(c)
  <2>1. 0 \in Version
    BY RepairAssumption DEF Version
  <2>2. mixed' \in [Callers -> BOOLEAN]
    BY <1>2, DisturbType DEF RemoveReferences, RemoveSymbols, RemoveHash
  <2>3. RestType'
    BY <1>2, <2>1, <2>2 DEF RemoveReferences, RemoveSymbols, RemoveHash, IInv, RestType
  <2>4. work[c].at \in Quiet
    BY <1>2 DEF RemoveReferences, RemoveSymbols, RemoveHash, Is
  <2>5. PICK a \in {"remove symbol", "remove hash", "clear"} : Go(c, a)
    BY <1>2 DEF RemoveReferences, RemoveSymbols, RemoveHash
  <2>6. UNCHANGED <<pending, journal, bare>>
    BY <1>2 DEF RemoveReferences, RemoveSymbols, RemoveHash
  <2>7. a \in At /\ a # "insert entry"
    BY DEF At
  <2> QED BY <1>0, <2>3, <2>4, <2>5, <2>6, <2>7, GoStep
<1>3. CASE VerifyStored(c)
  <2>1. PICK stored \in {checksum, 0} :
          work' = [work EXCEPT ![c].at = "compare", ![c].read = stored]
    BY <1>3 DEF VerifyStored
  <2>2. RestType' /\ stored \in Version
    BY <1>3, RepairAssumption DEF VerifyStored, IInv, RestType, Version
  <2>3. DEFINE w == [work[c] EXCEPT !.at = "compare", !.read = stored]
  <2>4. w \in Work /\ w.at = "compare" /\ w.for = work[c].for
    BY <2>2 DEF IInv, RestType, Work, At
  <2>5. work' = [work EXCEPT ![c] = w]
    BY <2>1
  <2> HIDE DEF w
  <2> QED BY <1>0, <1>3, <2>2, <2>4, <2>5, QuietStep DEF VerifyStored, Is
<1>4. CASE Clean(c)
  <2>1. RestType'
    BY <1>4, LeaveType DEF Clean, IInv, RestType
  <2> QED BY <1>4, <2>1, LeaveType, EndStep DEF Clean
<1>5. CASE Single(c)
  <2>1. CASE NoText
    <3>1. RestType'
      BY <1>5, <2>1, LeaveType DEF Single, IInv, RestType
    <3> QED BY <1>5, <2>1, <3>1, LeaveType, EndStep DEF Single
  <2>2. CASE ~NoText
    <3>1. RestType'
      BY <1>5, <2>2 DEF Single, IInv, RestType
    <3>2. DEFINE w == [work[c] EXCEPT !.at = "index", !.read = disk]
    <3>3. w \in Work /\ w.at = "index" /\ w.for = work[c].for
      BY DEF IInv, RestType, Work, At
    <3>4. work' = [work EXCEPT ![c] = w]
      BY <1>5, <2>2 DEF Single
    <3> HIDE DEF w
    <3> QED BY <1>0, <1>5, <3>1, <3>3, <3>4, QuietStep DEF Single, Is
  <2> QED BY <2>1, <2>2
<1>6. CASE StoreChecksum(c)
  <2>1. work[c].read \in Version
    BY DEF IInv, Work
  <2>2. (suspect \/ work[c].read # work[c].seen) \in BOOLEAN
    OBVIOUS
  <2>3. RestType'
    BY <1>6, <2>1, <2>2, DisturbType DEF StoreChecksum, IInv, RestType
  <2> DEFINE w == [Idle EXCEPT !.at = "clear"]
  <2>4. w \in Work /\ w.at = "clear" /\ w.for = "none"
    BY IdleIsWork DEF Idle, Work, At
  <2>5. work' = [work EXCEPT ![c] = w]
    BY <1>6 DEF StoreChecksum
  <2> HIDE DEF w
  <2> QED BY <1>6, <2>3, <2>4, <2>5, QuietStep DEF StoreChecksum
<1>7. CASE ClearDirty(c)
  <2>1. RestType'
    BY <1>7, LeaveType DEF ClearDirty, IInv, RestType
  <2> QED BY <1>7, <2>1, LeaveType, EndStep DEF ClearDirty
<1> QED BY <1>1, <1>2, <1>3, <1>4, <1>5, <1>6, <1>7
LEMMA NotCleanStep ==
  ASSUME IInv, NEW c \in Callers, NEW for \in {"missing", "single"},
         NotClean(c, for) \/ (for = "missing" /\ Unread(c))
  PROVE  IInv'
<1> DEFINE w == [Idle EXCEPT !.at = "delete entry", !.for = for]
<1>1. w \in Work /\ w.at = "delete entry" /\ w.for # "journal"
  <2>1. 0 \in Version
    BY RepairAssumption DEF Version
  <2>2. CASE for = "missing"
    BY <2>1, <2>2 DEF Idle, Work, At
  <2>3. CASE for = "single"
    BY <2>1, <2>3 DEF Idle, Work, At
  <2> QED BY <2>2, <2>3
<1>2. work' = [work EXCEPT ![c] = w] /\ UNCHANGED <<file, tables, pending, log, mixed, suspect>>
  BY DEF NotClean, Unread
<1> HIDE DEF w
<1>3. RestType'
  BY <1>2 DEF IInv, RestType, file, tables, log
<1> QED BY <1>1, <1>2, <1>3, QuietStep DEF log

(* After the deletion every caller may insert one entry, and no more.      *)
LEMMA DeleteEntryStep == ASSUME IInv, NEW c \in Callers, DeleteEntry(c) PROVE IInv'
<1> DEFINE w == [work[c] EXCEPT !.at = "insert entry"]
<1>1. "insert entry" \in At
  BY DEF At
<1>2. /\ w \in Work /\ work' = [work EXCEPT ![c] = w]
      /\ w.for = work[c].for
  BY <1>1, GoWork DEF DeleteEntry, IInv, Work
<1>3. RestType'
  BY DisturbType DEF DeleteEntry, IInv, RestType, file, tables, log
<1>4. Slots'
  <2>1. Inserting' \subseteq Callers
    BY DEF Inserting
  <2>2. IsFiniteSet(Inserting') /\ Cardinality(Inserting') <= Cardinality(Callers)
    BY <2>1, RepairAssumption, FS_Subset
  <2>3. Cardinality(Inserting') \in Nat /\ pending' = 0
    BY <2>2, FS_CardinalityType DEF DeleteEntry
  <2> QED BY <2>2, <2>3 DEF Slots
<1>5. work[c].for # "journal" /\ UNCHANGED <<journal, bare>>
  BY NotJournal DEF DeleteEntry, Is, JournalAt, log
<1> HIDE DEF w
<1> QED BY <1>2, <1>3, <1>4, <1>5, StepInv

(* An insertion gives up the place it had.                                 *)
LEMMA InsertEntryStep == ASSUME IInv, NEW c \in Callers, InsertEntry(c) PROVE IInv'
<1>1. PICK w \in Work : /\ work' = [work EXCEPT ![c] = w] /\ w.at # "insert entry"
                        /\ w.for # "journal" /\ mixed' \in [Callers -> BOOLEAN]
  <2>1. CASE work[c].for = "missing"
    BY <2>1, LeaveType, IdleIsWork DEF InsertEntry
  <2>2. CASE work[c].for # "missing"
    <3>1. "single" \in At /\ work[c].for # "journal"
      BY NotJournal DEF At, InsertEntry, Is, JournalAt
    <3>2. Go(c, "single") /\ Disturb(c)
      BY <2>2 DEF InsertEntry
    <3>3. /\ [work[c] EXCEPT !.at = "single"].at = "single"
          /\ [work[c] EXCEPT !.at = "single"].for = work[c].for
      BY DEF IInv, Work
    <3> QED BY <3>1, <3>2, <3>3, GoWork, DisturbType
  <2> QED BY <2>1, <2>2
<1>2. pending' = pending + 1 /\ pending \in Nat /\ work[c].at = "insert entry"
      /\ UNCHANGED <<file, tables, log, suspect>>
  BY DEF InsertEntry, Is, IInv, RestType
<1>3. pending \in Nat /\ pending' = pending + 1
  BY <1>2
<1>4. RestType'
  <2>1. pending' \in Nat
    BY <1>3
  <2>2. mixed' \in [Callers -> BOOLEAN]
    BY <1>1
  <2> QED BY <1>2, <2>1, <2>2 DEF IInv, RestType, file, tables, log
<1>5. Slots'
  <2>1. c \in Inserting /\ Inserting' = Inserting \ {c}
    BY <1>1, <1>2 DEF Inserting, IInv
  <2>2. IsFiniteSet(Inserting)
    BY RepairAssumption, FS_Subset DEF Inserting
  <2>3. /\ Cardinality(Inserting') = Cardinality(Inserting) - 1
        /\ Cardinality(Inserting) \in Nat /\ Cardinality(Callers) \in Nat
    BY <2>1, <2>2, RepairAssumption, FS_RemoveElement, FS_CardinalityType
  <2>4. PICK k \in Nat, n \in Nat : k = Cardinality(Inserting) /\ n = Cardinality(Callers)
    BY <2>3
  <2>5. pending + k <= n
    BY <2>4 DEF Slots, IInv
  <2>6. (pending + 1) + (k - 1) <= n
    BY <1>3, <2>5
  <2> QED BY <1>2, <2>3, <2>4, <2>6 DEF Slots
<1> QED BY <1>1, <1>2, <1>4, <1>5, StepInv DEF log
-----------------------------------------------------------------------------
(* index_file returns to its caller.                                       *)
LEMMA ReturnStep ==
  ASSUME IInv, RestType', NEW c \in Callers, NEW seen \in Version, Return(c, seen),
         UNCHANGED <<pending, journal, bare>>
  PROVE  IInv'
<1> DEFINE a == After(work[c].for)
           s == IF work[c].for = "single" THEN seen ELSE 0
           w == [work[c] EXCEPT !.at = a, !.seen = s]
<1>1. a \in At \ {"insert entry"} /\ (work[c].for = "journal" => a \in JournalAt)
  BY DEF After, At, JournalAt
<1>2. s \in Version
  BY RepairAssumption DEF Version
<1> HIDE DEF a, s
<1>3. /\ w \in Work /\ w.at = a /\ w.for = work[c].for /\ w.read = work[c].read
  BY <1>1, <1>2 DEF IInv, Work
<1>4. work' = [work EXCEPT ![c] = w]
  BY DEF Return, a, s
<1> HIDE DEF w
<1> QED BY <1>1, <1>3, <1>4, QuietStep

LEMMA IndexStep == ASSUME IInv, NEW c \in Callers, Index(c) PROVE IInv'
<1> USE DEF file, tables, log
<1>0. After(work[c].for) \in At \ {"insert entry"}
      /\ (work[c].for = "journal" => After(work[c].for) \in JournalAt)
  BY DEF After, At, JournalAt
<1>1. CASE DropError(c)
  <2>1. (suspect \/ work[c].at \in {"checksum", "rows"}) \in BOOLEAN
    OBVIOUS
  <2>2. RestType'
    BY <1>1, <2>1 DEF DropError, IInv, RestType
  <2> DEFINE w == [work[c] EXCEPT !.at = "recover", !.seen = 0, !.lost = TRUE]
  <2>3. 0 \in Version
    BY RepairAssumption DEF Version
  <2>4. /\ w \in Work /\ w.at = "recover" /\ w.for = "recover"
        /\ work' = [work EXCEPT ![c] = w]
    BY <1>1, <2>3 DEF DropError, IInv, Work, At
  <2> HIDE DEF w
  <2> QED BY <1>1, <2>2, <2>4, QuietStep DEF DropError
<1>2. CASE IndexNoText(c)
  <2>1. RestType'
    BY <1>2, LeaveType DEF IndexNoText, IInv, RestType
  <2> QED BY <1>2, <2>1, LeaveType, EndStep DEF IndexNoText
<1>3. CASE IndexRead(c)
  <2>1. RestType'
    BY <1>3 DEF IndexRead, IInv, RestType
  <2> DEFINE w == [work[c] EXCEPT !.at = "hash", !.seen = disk]
  <2>2. /\ w \in Work /\ w.at = "hash" /\ w.for = work[c].for /\ w.read = work[c].read
        /\ work' = [work EXCEPT ![c] = w]
    BY <1>3 DEF IndexRead, IInv, RestType, Work, At
  <2> HIDE DEF w
  <2> QED BY <1>3, <2>1, <2>2, QuietStep DEF IndexRead, JournalAt
<1>4. work[c].seen \in Version
  BY DEF IInv, Work
<1>5. CASE IndexHash(c)
  <2>1. RestType'
    BY <1>4, <1>5, DisturbType DEF IndexHash, IInv, RestType
  <2> QED BY <1>5, <2>1, GoStep DEF IndexHash, At, JournalAt
<1>6. CASE IndexChecksum(c)
  <2>1. RestType'
    BY <1>4, <1>6, DisturbType DEF IndexChecksum, IInv, RestType
  <2> QED BY <1>6, <2>1, GoStep DEF IndexChecksum, At, JournalAt
<1>7. CASE IndexRows(c)
  <2>1. (suspect /\ (mixed[c] \/ Others(c) # {})) \in BOOLEAN
    BY DEF IInv, RestType
  <2>2. RestType'
    BY <1>4, <1>7, <2>1, DisturbType DEF IndexRows, IInv, RestType
  <2>3. Return(c, work[c].seen) /\ UNCHANGED <<pending, journal, bare>>
    BY <1>7 DEF IndexRows
  <2> QED BY <1>4, <2>2, <2>3, ReturnStep
<1>8. CASE IndexUnchanged(c)
  <2>1. RestType' /\ disk \in Version
    BY <1>8 DEF IndexUnchanged, IInv, RestType
  <2>2. Return(c, disk) /\ UNCHANGED <<pending, journal, bare>>
    BY <1>8 DEF IndexUnchanged
  <2> QED BY <2>1, <2>2, ReturnStep
<1> QED BY <1>1, <1>2, <1>3, <1>5, <1>6, <1>7, <1>8 DEF Index
-----------------------------------------------------------------------------
(* The journal.                                                            *)

(* A step that changes the journal and inserts nothing.                    *)
LEMMA JournalSlots ==
  ASSUME IInv, UNCHANGED pending, NEW c \in Callers, NEW w, work' = [work EXCEPT ![c] = w],
         w.at # "insert entry"
  PROVE  Slots'
<1>1. Inserting' \subseteq Inserting
  BY DEF Inserting, IInv
<1> QED BY <1>1, SlotsStay

LEMMA AppendPendingStep == ASSUME IInv, NEW c \in Callers, AppendPending(c) PROVE IInv'
<1> DEFINE w == [work[c] EXCEPT !.at = "index", !.for = "journal"]
<1>1. /\ w \in Work /\ w.at = "index" /\ w.read = work[c].read
      /\ work' = [work EXCEPT ![c] = w]
  BY DEF AppendPending, IInv, Work, At
<1>2. /\ journal' = journal \cup (IF torn THEN {} ELSE {work[c].read})
      /\ torn' = FALSE
      /\ bare' = [bare EXCEPT ![c] = torn /\ {work[c].read} # {}]
      /\ UNCHANGED <<file, tables, pending, suspect>>
  BY DEF AppendPending, AppendLine
<1>3. bare' \in [Callers -> BOOLEAN] /\ \A d \in Callers \ {c} : bare'[d] = bare[d]
      /\ (torn => bare'[c])
  BY <1>2 DEF IInv, RestType
<1>4. RestType'
  BY <1>1, <1>2, <1>3, DisturbType DEF AppendPending, IInv, RestType, Work, file, tables
<1> HIDE DEF w
<1>5. Slots'
  BY <1>1, <1>2, JournalSlots
<1>6. w.at \in JournalAt /\ (w.read \in journal' \/ bare'[c])
  BY <1>1, <1>2, <1>3 DEF JournalAt
<1> QED BY <1>1, <1>2, <1>3, <1>4, <1>5, <1>6, StepInv

LEMMA EndOfLog ==
  ASSUME IInv, RestType', UNCHANGED pending, NEW c \in Callers,
         work' = [work EXCEPT ![c] = Idle],
         \A d \in Callers \ {c} :
           work[d].for = "journal" /\ (work[d].read \in journal \/ bare[d])
             => work[d].read \in journal' \/ bare'[d]
  PROVE  IInv'
<1>1. Slots'
  BY JournalSlots, IdleIsWork
<1> QED BY <1>1, IdleIsWork, StepInv

LEMMA AppendCommittedStep == ASSUME IInv, NEW c \in Callers, AppendCommitted(c) PROVE IInv'
<1>1. /\ journal' = journal /\ torn' = FALSE
      /\ bare' = [bare EXCEPT ![c] = torn /\ {} # {}]
      /\ UNCHANGED <<file, tables, pending, suspect>>
  BY DEF AppendCommitted, AppendLine
<1>2. bare' \in [Callers -> BOOLEAN] /\ \A d \in Callers \ {c} : bare'[d] = bare[d]
  BY <1>1 DEF IInv, RestType
<1>3. RestType'
  BY <1>1, <1>2, LeaveType DEF AppendCommitted, IInv, RestType, file, tables
<1> QED BY <1>1, <1>2, <1>3, LeaveType, EndOfLog DEF AppendCommitted

(* Whoever has a line that a truncation takes is at work, and bare.        *)
LEMMA TruncateStep == ASSUME IInv, NEW c \in Callers, Truncate(c) PROVE IInv'
<1>1. /\ journal' = {} /\ torn' = FALSE /\ bare' = [d \in Callers |-> d \in Others(c)]
      /\ UNCHANGED <<file, tables, pending, suspect>>
  BY DEF Truncate
<1>2. bare' \in [Callers -> BOOLEAN]
  <2>1. \A d \in Callers : (d \in Others(c)) \in BOOLEAN
    OBVIOUS
  <2> QED BY <1>1, <2>1
<1>3. \A d \in Callers \ {c} : work[d].for = "journal" => bare'[d]
  BY <1>1, IdleIsWork DEF Others, Busy
<1>4. RestType'
  BY <1>1, <1>2, LeaveType DEF Truncate, IInv, RestType, file, tables
<1> QED BY <1>1, <1>3, <1>4, LeaveType, EndOfLog DEF Truncate

LEMMA StopStep == ASSUME IInv, NEW c \in Callers, Stop(c) PROVE IInv'
<1>1. /\ bare' = [bare EXCEPT ![c] = FALSE] /\ UNCHANGED <<file, tables, pending, journal>>
      /\ torn' \in BOOLEAN /\ suspect' \in BOOLEAN
  <2>1. (torn \/ work[c].at \in {"append", "commit"}) \in BOOLEAN
    OBVIOUS
  <2>2. (suspect \/ work[c].at \in {"checksum", "rows"}) \in BOOLEAN
    OBVIOUS
  <2> QED BY <2>1, <2>2 DEF Stop, IInv, RestType
<1>2. bare' \in [Callers -> BOOLEAN] /\ \A d \in Callers \ {c} : bare'[d] = bare[d]
  BY <1>1 DEF IInv, RestType
<1>3. RestType'
  BY <1>1, <1>2, LeaveType DEF Stop, IInv, RestType, file, tables
<1> QED BY <1>1, <1>2, <1>3, LeaveType, EndOfLog DEF Stop

LEMMA RecoverLineStep ==
  ASSUME IInv, NEW c \in Callers, NEW h \in Version, RecoverLine(c, h) PROVE IInv'
<1>1. PICK a \in {"index", "recover"} : work' = [work EXCEPT ![c].todo = @ \ {h}, ![c].at = a]
  BY DEF RecoverLine
<1> DEFINE w == [work[c] EXCEPT !.todo = @ \ {h}, !.at = a]
<1>2. /\ w \in Work /\ w.at = a /\ w.for = work[c].for
      /\ work' = [work EXCEPT ![c] = w]
  BY <1>1 DEF IInv, Work, At
<1> HIDE DEF w
<1>3. work[c].for # "journal"
  BY NotJournal DEF RecoverLine, Is, JournalAt
<1>4. RestType'
  BY DEF RecoverLine, IInv, RestType, file, tables, log
<1> QED BY <1>2, <1>3, <1>4, QuietStep DEF RecoverLine, log

LEMMA WriteStep == ASSUME IInv, NEW v \in Version, Write(v) PROVE IInv'
<1>1. mixed' \in [Callers -> BOOLEAN]
  <2>1. \A c \in Callers : (mixed[c] \/ Busy(c)) \in BOOLEAN
    OBVIOUS
  <2> QED BY <2>1 DEF Write
<1>2. writes' \in 0 .. MaxWrites
  BY RepairAssumption DEF Write, IInv, RestType
<1>3. RestType'
  BY <1>1, <1>2 DEF Write, IInv, RestType, tables, log
<1> QED BY <1>3 DEF Write, IInv, Slots, Inserting, Logged, log
-----------------------------------------------------------------------------
LEMMA IInvNext == IInv /\ [Next]_vars => IInv'
<1> SUFFICES ASSUME IInv, [Next]_vars PROVE IInv'
  OBVIOUS
<1>1. ASSUME NEW v \in Version, Write(v) PROVE IInv'
  BY <1>1, WriteStep
<1>2. ASSUME NEW c \in Callers, ProcessQueue(c) \/ Check(c) \/ Journal(c) \/ Recover(c)
      PROVE  IInv'
  BY <1>2, Beginnings
<1>3. ASSUME NEW c \in Callers, GuardStep(c) PROVE IInv'
  <2>1. ASSUME NotClean(c, IF disk = 0 THEN "missing" ELSE "single") PROVE IInv'
    <3>1. (IF disk = 0 THEN "missing" ELSE "single") \in {"missing", "single"}
      OBVIOUS
    <3> QED BY <2>1, <3>1, NotCleanStep
  <2>2. CASE \/ Entry(c) \/ RemoveReferences(c) \/ RemoveSymbols(c) \/ RemoveHash(c)
             \/ VerifyStored(c) \/ Clean(c) \/ Single(c)
             \/ StoreChecksum(c) \/ ClearDirty(c)
    BY <2>2, QueueSteps
  <2>3. CASE DeleteEntry(c) \/ InsertEntry(c)
    BY <2>3, DeleteEntryStep, InsertEntryStep
  <2> QED BY <1>3, <2>1, <2>2, <2>3 DEF GuardStep
<1>4. ASSUME NEW c \in Callers, JournalStep(c) PROVE IInv'
  BY <1>4, AppendPendingStep, AppendCommittedStep, RecoverLineStep, TruncateStep DEF JournalStep
<1>5. ASSUME NEW c \in Callers, Step(c) \/ Unread(c) \/ Stop(c) PROVE IInv'
  <2>1. CASE Unread(c)
    BY <2>1, NotCleanStep
  <2> QED BY <1>3, <1>4, <1>5, <2>1, IndexStep, StopStep DEF Step
<1>6. CASE UNCHANGED vars
  BY <1>6 DEF vars, file, tables, log, IInv, RestType, Slots, Inserting, Logged
<1>7. Guards \subseteq Callers
  BY DEF Guards
<1> QED BY <1>1, <1>2, <1>5, <1>6, <1>7 DEF Next

LEMMA Invariant == Spec => []IInv
BY IInvInit, IInvNext, PTL DEF Spec

(* Rows, places and histories are what they should be, and the queue never *)
(* has more pending entries of a file than there are callers.              *)
THEOREM RepairTypeCorrect == Spec => []RTypeOK
<1>1. ASSUME IInv PROVE RTypeOK
  <2>1. pending \in 0 .. Cardinality(Callers)
    <3>1. IsFiniteSet(Inserting)
      BY RepairAssumption, FS_Subset DEF Inserting
    <3>2. Cardinality(Inserting) \in Nat /\ Cardinality(Callers) \in Nat
      BY <3>1, RepairAssumption, FS_CardinalityType
    <3> QED BY <1>1, <3>2 DEF IInv, Slots, RestType
  <2> QED BY <1>1, <2>1 DEF IInv, RestType, RTypeOK
<1> QED BY <1>1, Invariant, PTL

(* The journal is written ahead of the hash: a pass between its hash and   *)
(* its rows has a Pending line to be recovered by, or has lost it to a     *)
(* torn line or to another process's truncation.                           *)
THEOREM LineIsAhead == Spec => []WriteAhead
<1>1. IInv => WriteAhead
  BY DEF IInv, Logged, WriteAhead
<1> QED BY <1>1, Invariant, PTL

(***************************************************************************)
(* What a pass of module Repair leaves when nothing came between: the      *)
(* rows, the hash and the checksum of one content.  For any number of      *)
(* callers, contents and writes, with kills.                               *)
(***************************************************************************)

(* What a caller is there for, by where it is.                             *)
Places(c) ==
  /\ work[c].at \in {"index", "hash", "checksum", "rows"}
       => work[c].for \in {"single", "journal", "recover"}
  /\ work[c].at = "recover" => work[c].for = "recover"
  /\ work[c].at \in {"single", "store"} => work[c].for = "single"
  /\ work[c].at \in {"insert entry", "delete entry"} => work[c].for \in {"missing", "single"}

(* A caller that nobody came between, or any while nothing is suspect, is  *)
(* the only one at work, and the tables are as it left them.               *)
Lone(c)  == Busy(c) /\ (~mixed[c] \/ ~suspect)
Alone(c) == Lone(c) => Others(c) = {}

TableAt(c) ==
  Lone(c) => /\ work[c].at \in {"checksum", "rows", "store"} => hash = work[c].seen
             /\ work[c].at = "rows" => checksum = work[c].seen

(* If the file was not written either, what it read is there, and so it is *)
(* in a recovery that has dropped no error.                                *)
DiskAt(c) ==
  Busy(c) /\ ~mixed[c] =>
    /\ work[c].at \in {"remove reference", "remove symbol", "remove hash"} => disk = 0
    /\ work[c].at = "index" /\ work[c].for = "single" => work[c].read = disk /\ disk # 0
    /\ work[c].at \in {"hash", "checksum", "rows", "store"} =>
         /\ work[c].seen = disk /\ disk # 0
         /\ work[c].for = "single" => work[c].read = disk
    /\ work[c].at = "clear" => hash = disk /\ (disk # 0 => checksum = disk)

RecoverAt(c) ==
  Busy(c) /\ ~mixed[c] /\ work[c].for = "recover" /\ ~work[c].lost =>
    /\ journal # {}
    /\ work[c].at = "recover" /\ disk # 0 /\ (\E h \in journal \ work[c].todo : h # disk)
         => hash = disk

(* The three tables agree, unless a pass is between them.                  *)
Between == {c \in Callers : work[c].at \in {"checksum", "rows"}}
Settled == ~suspect /\ Between = {} => rows = checksum /\ hash = checksum

CallerInv(c) == Places(c) /\ Alone(c) /\ TableAt(c) /\ DiskAt(c) /\ RecoverAt(c)

PassInv == IInv /\ Settled /\ \A c \in Callers : CallerInv(c)

LEMMA PassInvInit == Init => PassInv
<1> SUFFICES ASSUME Init PROVE PassInv
  OBVIOUS
<1>1. \A c \in Callers : work[c] = Idle /\ work[c].at = "idle"
  BY IdleIsWork DEF Init
<1>2. rows = checksum /\ hash = checksum
  BY DEF Init
<1> QED BY <1>1, <1>2, IInvInit
        DEF PassInv, Settled, CallerInv, Places, Alone, TableAt, DiskAt, RecoverAt, Lone, Busy
-----------------------------------------------------------------------------
(* Of the callers, only c moves.                                           *)
Only(c) == \A d \in Callers \ {c} : work'[d] = work[d]

(* What is left to show of a step of one caller.                           *)
LEMMA OneStep ==
  ASSUME PassInv, IInv', Settled', NEW c \in Callers, Only(c),
         \A d \in Others(c) : mixed'[d],
         Others(c) # {} => suspect',
         Others(c) # {} /\ Busy(c)' => mixed'[c],
         Places(c)', TableAt(c)', DiskAt(c)', RecoverAt(c)'
  PROVE  PassInv'
<1>1. Others(c)' = Others(c)
  BY DEF Others, Busy, Only
<1>2. Alone(c)'
  BY <1>1 DEF Alone, Lone
<1>3. ASSUME NEW d \in Callers \ {c} PROVE CallerInv(d)'
  <2>1. Places(d)'
    BY DEF PassInv, CallerInv, Places, Only
  <2>2. CASE Busy(d)
    <3>1. mixed'[d] /\ suspect'
      BY <2>2 DEF Others
    <3> QED BY <2>1, <3>1 DEF CallerInv, Alone, TableAt, DiskAt, RecoverAt, Lone
  <2>3. CASE ~Busy(d)
    <3>1. ~Busy(d)'
      BY <2>3 DEF Busy, Only
    <3> QED BY <2>1, <3>1 DEF CallerInv, Alone, TableAt, DiskAt, RecoverAt, Lone
  <2> QED BY <2>2, <2>3
<1> QED BY <1>2, <1>3 DEF PassInv, CallerInv

(* Two at work have been mixed, and it is known.                           *)
LEMMA TwoAreMixed ==
  ASSUME PassInv, NEW c \in Callers, Busy(c), NEW d \in Others(c)
  PROVE  mixed[c] /\ mixed[d] /\ suspect
<1>1. d \in Callers /\ Busy(d) /\ c \in Others(d)
  BY DEF Others
<1> QED BY <1>1 DEF PassInv, CallerInv, Alone, Lone

(* A step within a pass.                                                   *)
LEMMA BusyStep ==
  ASSUME PassInv, IInv', Settled', NEW c \in Callers, Busy(c), Only(c),
         \A d \in Callers : mixed[d] => mixed'[d],
         suspect /\ Others(c) # {} => suspect',
         Places(c)', TableAt(c)', DiskAt(c)', RecoverAt(c)'
  PROVE  PassInv'
<1>1. \A d \in Others(c) : mixed'[d] /\ suspect' /\ mixed'[c]
  BY TwoAreMixed DEF Others
<1> QED BY <1>1, OneStep

LEMMA LeaveOnly ==
  ASSUME IInv, NEW c \in Callers, Leave(c) PROVE Only(c) /\ work'[c] = Idle
BY DEF IInv, Leave, End, Only

(* The last step of a pass.                                                *)
LEMMA LastStep ==
  ASSUME PassInv, IInv', Settled', NEW c \in Callers, Busy(c), Leave(c), suspect => suspect'
  PROVE  PassInv'
<1>1. Only(c) /\ work'[c] = Idle
  BY LeaveOnly DEF PassInv
<1>2. \A d \in Others(c) : mixed'[d] /\ suspect'
  BY TwoAreMixed DEF Leave, Others
<1>3. ~Busy(c)' /\ Places(c)'
  BY <1>1, IdleIsWork DEF Busy, Places
<1>4. TableAt(c)' /\ DiskAt(c)' /\ RecoverAt(c)'
  BY <1>3 DEF TableAt, DiskAt, RecoverAt, Lone
<1> QED BY <1>1, <1>2, <1>3, <1>4, OneStep

(* A step that leaves the tables, and does not end between them.           *)
LEMMA SettledStays ==
  ASSUME PassInv, NEW c \in Callers, Only(c),
         UNCHANGED tables, suspect => suspect',
         work[c].at \in {"checksum", "rows"} =>
           suspect' \/ work'[c].at \in {"checksum", "rows"}
  PROVE  Settled'
<1> SUFFICES ASSUME ~suspect', Between' = {} PROVE Between = {}
  BY DEF Settled, PassInv, tables
<1>1. c \notin Between
  BY DEF Between
<1>2. \A d \in Callers \ {c} : d \notin Between
  BY DEF Between, Only
<1> QED BY <1>1, <1>2 DEF Between
-----------------------------------------------------------------------------
(* The beginning of a pass.                                                *)
LEMMA BeginStep ==
  ASSUME PassInv, IInv', NEW c \in Callers, NEW w, Begin(c, w), UNCHANGED tables,
         w.at \in {"entry", "verify", "append", "recover"},
         w.at = "recover" => w.for = "recover" /\ journal' # {} /\ journal' \subseteq w.todo,
         w.at # "recover" => w.for = "none"
  PROVE  PassInv'
<1>1. Only(c) /\ work'[c] = w /\ ~Busy(c)
  BY DEF PassInv, IInv, Begin, Only
<1>2. /\ \A d \in Others(c) : mixed'[d]
      /\ mixed'[c] <=> Others(c) # {}
      /\ suspect' <=> suspect \/ Others(c) # {}
  BY DEF Begin, Others
<1>3. work[c].at = "idle"
  BY <1>1, IdleIsWork DEF Busy
<1>4. Settled'
  BY <1>1, <1>2, <1>3, SettledStays
<1>5. Places(c)' /\ TableAt(c)' /\ DiskAt(c)'
  BY <1>1 DEF Places, TableAt, DiskAt
<1>6. RecoverAt(c)'
  BY <1>1 DEF RecoverAt
<1> QED BY <1>1, <1>2, <1>4, <1>5, <1>6, OneStep

LEMMA Beginnings2 ==
  ASSUME PassInv, NEW c \in Callers, ProcessQueue(c) \/ Check(c) \/ Journal(c) \/ Recover(c)
  PROVE  PassInv'
<1>1. IInv'
  BY Beginnings DEF PassInv
<1>2. CASE ProcessQueue(c)
  BY <1>1, <1>2, BeginStep DEF ProcessQueue, Idle
<1>3. CASE Check(c)
  BY <1>1, <1>3, BeginStep DEF Check, Idle
<1>4. CASE Journal(c)
  BY <1>1, <1>4, BeginStep DEF Journal, Idle
<1>5. CASE Recover(c)
  <2> DEFINE w == [Idle EXCEPT !.at = "recover", !.for = "recover", !.todo = journal]
  <2>1. w.at = "recover" /\ w.for = "recover" /\ w.todo = journal
    BY DEF Idle
  <2>2. Begin(c, w) /\ UNCHANGED tables /\ journal' = journal /\ journal # {}
    BY <1>5 DEF Recover, log
  <2> HIDE DEF w
  <2> QED BY <1>1, <2>1, <2>2, BeginStep
<1> QED BY <1>2, <1>3, <1>4, <1>5

(* Where a step of a pass goes.                                            *)
LEMMA GoneOn ==
  ASSUME IInv, NEW c \in Callers, NEW a, Go(c, a)
  PROVE  /\ Only(c) /\ work'[c].at = a /\ work'[c].for = work[c].for
         /\ work'[c].read = work[c].read /\ work'[c].seen = work[c].seen
         /\ work'[c].todo = work[c].todo /\ work'[c].lost = work[c].lost
BY DEF IInv, Go, Work, Only

LEMMA MixedGrows ==
  ASSUME IInv, NEW c \in Callers, Disturb(c)
  PROVE  (\A d \in Callers : mixed[d] => mixed'[d]) /\ (mixed'[c] <=> mixed[c])
BY DEF Disturb, Others, IInv, RestType

LEMMA AtIsBusy == ASSUME NEW c \in Callers, work[c].at # "idle" PROVE Busy(c)
BY IdleIsWork DEF Busy

LEMMA QueueStarts ==
  ASSUME PassInv, IInv', NEW c \in Callers, Entry(c) \/ VerifyStored(c) PROVE PassInv'
<1>1. Busy(c) /\ work[c].at \in {"entry", "verify"}
  BY AtIsBusy DEF Entry, VerifyStored, Is
<1>2. UNCHANGED <<disk, mixed, suspect, journal>> /\ UNCHANGED tables
  BY DEF Entry, VerifyStored, file, log
<1>3. Only(c) /\ work'[c].for = work[c].for /\ work'[c].lost = work[c].lost
      /\ work'[c].at \in {"remove reference", "verify", "compare"}
      /\ (work'[c].at = "remove reference" => disk = 0)
  <2>1. CASE Entry(c)
    <3>1. PICK a \in {"remove reference", "verify"} :
            Go(c, a) /\ (a = "remove reference" => disk = 0)
      BY <2>1 DEF Entry
    <3> QED BY <3>1, GoneOn DEF PassInv
  <2>2. CASE VerifyStored(c)
    BY <2>2 DEF VerifyStored, PassInv, IInv, Work, Only
  <2> QED BY <2>1, <2>2
<1>4. Settled'
  BY <1>1, <1>2, <1>3, SettledStays
<1>5. Places(c)' /\ TableAt(c)' /\ DiskAt(c)'
  BY <1>2, <1>3 DEF Places, TableAt, DiskAt
<1>6. RecoverAt(c)'
  BY <1>1, <1>2, <1>3 DEF RecoverAt, PassInv, CallerInv
<1> QED BY <1>1, <1>2, <1>3, <1>4, <1>5, <1>6, BusyStep

LEMMA RecoverStays ==
  ASSUME PassInv, NEW c \in Callers, Busy(c), UNCHANGED journal,
         mixed[c] => mixed'[c], work'[c].for = work[c].for,
         work'[c].lost = work[c].lost, work'[c].at # "recover"
  PROVE  RecoverAt(c)'
BY DEF RecoverAt, PassInv, CallerInv

(* All the ends of a pass.                                                 *)
LEMMA Endings ==
  ASSUME PassInv, IInv', NEW c \in Callers, Busy(c), Leave(c), UNCHANGED tables,
         suspect => suspect', work[c].at \in {"checksum", "rows"} => suspect'
  PROVE  PassInv'
<1>1. Only(c)
  BY LeaveOnly DEF PassInv
<1>2. Settled'
  BY <1>1, SettledStays
<1> QED BY <1>2, LastStep

LEMMA Ended ==
  ASSUME PassInv, IInv', NEW c \in Callers,
         \/ Clean(c) \/ ClearDirty(c) \/ AppendCommitted(c) \/ Truncate(c) \/ Stop(c)
  PROVE  PassInv'
<1>1. CASE Clean(c) \/ ClearDirty(c)
  <2>1. Busy(c) /\ work[c].at \notin {"checksum", "rows"}
    BY <1>1, AtIsBusy DEF Clean, ClearDirty, Is
  <2>2. Leave(c) /\ UNCHANGED tables /\ suspect' = suspect
    BY <1>1 DEF Clean, ClearDirty
  <2> QED BY <2>1, <2>2, Endings
<1>2. CASE AppendCommitted(c) \/ Truncate(c)
  <2>1. Busy(c) /\ work[c].at \notin {"checksum", "rows"}
    BY <1>2, AtIsBusy DEF AppendCommitted, Truncate, Is
  <2>2. Leave(c) /\ UNCHANGED tables /\ suspect' = suspect
    BY <1>2 DEF AppendCommitted, Truncate
  <2> QED BY <2>1, <2>2, Endings
<1>3. CASE Stop(c)
  <2>1. Busy(c) /\ Leave(c) /\ UNCHANGED tables
        /\ suspect' = (suspect \/ work[c].at \in {"checksum", "rows"})
    BY <1>3 DEF Stop
  <2> QED BY <2>1, Endings
<1> QED BY <1>1, <1>2, <1>3
-----------------------------------------------------------------------------
(* The queue.                                                              *)
LEMMA RowsRemoved ==
  ASSUME PassInv, IInv', NEW c \in Callers, RemoveReferences(c) \/ RemoveSymbols(c)
  PROVE  PassInv'
<1>1. Busy(c) /\ work[c].at \in {"remove reference", "remove symbol"}
  BY AtIsBusy DEF RemoveReferences, RemoveSymbols, Is
<1>2. PICK a \in {"remove symbol", "remove hash"} : Go(c, a)
  BY DEF RemoveReferences, RemoveSymbols
<1>3. Disturb(c) /\ UNCHANGED <<disk, journal>> /\ suspect'
  BY DEF RemoveReferences, RemoveSymbols, file, log
<1>4. /\ Only(c) /\ work'[c].at = a /\ work'[c].for = work[c].for
      /\ work'[c].lost = work[c].lost
  BY <1>2, GoneOn DEF PassInv
<1>5. (\A d \in Callers : mixed[d] => mixed'[d]) /\ (mixed'[c] <=> mixed[c])
  BY <1>3, MixedGrows DEF PassInv
<1>6. Settled' /\ Places(c)' /\ TableAt(c)'
  BY <1>3, <1>4 DEF Settled, Places, TableAt
<1>7. DiskAt(c)'
  BY <1>1, <1>3, <1>4, <1>5 DEF DiskAt, PassInv, CallerInv
<1>8. RecoverAt(c)'
  BY <1>1, <1>3, <1>4, <1>5, RecoverStays
<1> QED BY <1>1, <1>3, <1>4, <1>5, <1>6, <1>7, <1>8, BusyStep

LEMMA Removed == ASSUME PassInv, IInv', NEW c \in Callers, RemoveHash(c) PROVE PassInv'
<1>1. Busy(c) /\ work[c].at = "remove hash"
  BY AtIsBusy DEF RemoveHash, Is
<1>2. /\ Go(c, "clear") /\ Disturb(c)
      /\ UNCHANGED <<disk, journal>> /\ hash' = 0 /\ suspect'
  BY DEF RemoveHash, file, log
<1>3. /\ Only(c) /\ work'[c].at = "clear" /\ work'[c].for = work[c].for
      /\ work'[c].lost = work[c].lost
  BY <1>2, GoneOn DEF PassInv
<1>4. (\A d \in Callers : mixed[d] => mixed'[d]) /\ (mixed'[c] <=> mixed[c])
  BY <1>2, MixedGrows DEF PassInv
<1>5. Settled' /\ Places(c)' /\ TableAt(c)'
  BY <1>2, <1>3 DEF Settled, Places, TableAt
<1>6. DiskAt(c)'
  BY <1>1, <1>2, <1>3, <1>4 DEF DiskAt, PassInv, CallerInv
<1>7. RecoverAt(c)'
  BY <1>1, <1>2, <1>3, <1>4, RecoverStays
<1> QED BY <1>1, <1>2, <1>3, <1>4, <1>5, <1>6, <1>7, BusyStep

LEMMA Queued ==
  ASSUME PassInv, IInv', NEW c \in Callers,
         \/ \E for \in {"missing", "single"} : NotClean(c, for)
         \/ Unread(c) \/ DeleteEntry(c) \/ InsertEntry(c)
  PROVE  PassInv'
<1>1. CASE Unread(c) \/ \E for \in {"missing", "single"} : NotClean(c, for)
  <2>1. PICK for \in {"missing", "single"} : NotClean(c, for) \/ (for = "missing" /\ Unread(c))
    BY <1>1
  <2>2. Busy(c) /\ work[c].at = "compare"
    BY <2>1, AtIsBusy DEF NotClean, Unread, Is
  <2>3. UNCHANGED <<mixed, suspect>> /\ UNCHANGED tables
    BY <2>1 DEF NotClean, Unread
  <2>4. Only(c) /\ work'[c].at = "delete entry" /\ work'[c].for = for
    BY <2>1 DEF NotClean, Unread, Only, PassInv, IInv, Idle
  <2>5. Settled'
    BY <2>2, <2>3, <2>4, SettledStays
  <2>6. Places(c)' /\ TableAt(c)' /\ DiskAt(c)' /\ RecoverAt(c)'
    BY <2>4 DEF Places, TableAt, DiskAt, RecoverAt
  <2> QED BY <2>2, <2>3, <2>4, <2>5, <2>6, BusyStep
<1>2. CASE DeleteEntry(c)
  <2>1. Busy(c) /\ work[c].at = "delete entry"
    BY <1>2, AtIsBusy DEF DeleteEntry, Is
  <2>2. Go(c, "insert entry") /\ Disturb(c) /\ UNCHANGED <<journal, suspect>> /\ UNCHANGED tables
    BY <1>2 DEF DeleteEntry, log
  <2>3. /\ Only(c) /\ work'[c].at = "insert entry" /\ work'[c].for = work[c].for
        /\ work'[c].lost = work[c].lost
    BY <2>2, GoneOn DEF PassInv
  <2>4. (\A d \in Callers : mixed[d] => mixed'[d]) /\ (mixed'[c] <=> mixed[c])
    BY <2>2, MixedGrows DEF PassInv
  <2>5. Settled'
    BY <2>1, <2>2, <2>3, SettledStays
  <2>6. Places(c)'
    BY <2>1, <2>3 DEF Places, PassInv, CallerInv
  <2>7. TableAt(c)' /\ DiskAt(c)'
    BY <2>3 DEF TableAt, DiskAt
  <2>8. RecoverAt(c)'
    BY <2>1, <2>2, <2>3, <2>4, RecoverStays
  <2> QED BY <2>1, <2>2, <2>3, <2>4, <2>5, <2>6, <2>7, <2>8, BusyStep
<1>3. CASE InsertEntry(c)
  <2>1. Busy(c) /\ work[c].at = "insert entry" /\ work[c].for \in {"missing", "single"}
    BY <1>3, AtIsBusy DEF InsertEntry, Is, PassInv, CallerInv, Places
  <2>2. UNCHANGED <<journal, suspect>> /\ UNCHANGED tables
    BY <1>3 DEF InsertEntry, log
  <2>3. CASE Leave(c)
    BY <2>1, <2>2, <2>3, Endings
  <2>4. CASE work[c].for = "single" /\ Go(c, "single") /\ Disturb(c)
    <3>1. /\ Only(c) /\ work'[c].at = "single" /\ work'[c].for = work[c].for
          /\ work'[c].lost = work[c].lost
      BY <2>4, GoneOn DEF PassInv
    <3>2. (\A d \in Callers : mixed[d] => mixed'[d]) /\ (mixed'[c] <=> mixed[c])
      BY <2>4, MixedGrows DEF PassInv
    <3>3. Settled'
      BY <2>1, <2>2, <3>1, SettledStays
    <3>4. Places(c)' /\ TableAt(c)' /\ DiskAt(c)'
      BY <2>4, <3>1 DEF Places, TableAt, DiskAt
    <3>5. RecoverAt(c)'
      BY <2>1, <2>2, <3>1, <3>2, RecoverStays
    <3> QED BY <2>1, <2>2, <3>1, <3>2, <3>3, <3>4, <3>5, BusyStep
  <2> QED BY <1>3, <2>1, <2>3, <2>4 DEF InsertEntry
<1> QED BY <1>1, <1>2, <1>3

LEMMA SingleRead == ASSUME PassInv, IInv', NEW c \in Callers, Single(c) PROVE PassInv'
<1>1. Busy(c) /\ work[c].at = "single" /\ work[c].for = "single"
  BY AtIsBusy DEF Single, Is, PassInv, CallerInv, Places
<1>2. UNCHANGED <<disk, journal, suspect>> /\ UNCHANGED tables
  BY DEF Single, file, log
<1>3. CASE NoText
  BY <1>1, <1>2, <1>3, Endings DEF Single
<1>4. CASE ~NoText
  <2>1. /\ work' = [work EXCEPT ![c].at = "index", ![c].read = disk]
        /\ UNCHANGED mixed
    BY <1>4 DEF Single
  <2>2. /\ Only(c) /\ work'[c].at = "index" /\ work'[c].for = work[c].for
        /\ work'[c].read = disk /\ work'[c].lost = work[c].lost
    BY <2>1 DEF Only, PassInv, IInv, Work
  <2>3. Settled'
    BY <1>1, <1>2, <2>2, SettledStays
  <2>4. Places(c)' /\ TableAt(c)'
    BY <1>1, <2>2 DEF Places, TableAt
  <2>5. DiskAt(c)'
    BY <1>2, <1>4, <2>2 DEF DiskAt, NoText
  <2>6. RecoverAt(c)'
    BY <1>1, <1>2, <2>1, <2>2, RecoverStays
  <2> QED BY <1>1, <1>2, <2>1, <2>2, <2>3, <2>4, <2>5, <2>6, BusyStep
<1> QED BY <1>3, <1>4

(* Alone at a place that is not between, a caller has the tables to itself. *)
LEMMA LoneSettled ==
  ASSUME PassInv, NEW c \in Callers, Lone(c), ~suspect, work[c].at \notin {"checksum", "rows"}
  PROVE  rows = checksum /\ hash = checksum
<1>1. Others(c) = {}
  BY DEF PassInv, CallerInv, Alone
<1>2. \A d \in Callers : d # c => work[d] = Idle
  BY <1>1 DEF Others, Busy
<1>3. Between = {}
  BY <1>2, IdleIsWork DEF Between
<1> QED BY <1>3 DEF PassInv, Settled

LEMMA Stored == ASSUME PassInv, IInv', NEW c \in Callers, StoreChecksum(c) PROVE PassInv'
<1>1. Busy(c) /\ work[c].at = "store" /\ work[c].for = "single"
  BY AtIsBusy DEF StoreChecksum, Is, PassInv, CallerInv, Places
<1>2. /\ work' = [work EXCEPT ![c] = [Idle EXCEPT !.at = "clear"]]
      /\ Disturb(c) /\ UNCHANGED <<disk, journal, hash, rows>>
      /\ checksum' = work[c].read
  BY DEF StoreChecksum, file, log
<1>3. suspect' = (suspect \/ work[c].read # work[c].seen)
  BY DEF StoreChecksum
<1>4. Only(c) /\ work'[c].at = "clear" /\ work'[c].for = "none"
  BY <1>2 DEF PassInv, IInv, Idle, Only
<1>5. (\A d \in Callers : mixed[d] => mixed'[d]) /\ (mixed'[c] <=> mixed[c])
  BY <1>2, MixedGrows DEF PassInv
<1>6. Settled'
  <2> SUFFICES ASSUME ~suspect' PROVE rows' = checksum' /\ hash' = checksum'
    BY DEF Settled
  <2>1. ~suspect /\ work[c].read = work[c].seen /\ Lone(c)
    BY <1>1, <1>3 DEF Lone
  <2>2. hash = work[c].seen
    BY <1>1, <2>1 DEF PassInv, CallerInv, TableAt
  <2>3. rows = checksum /\ hash = checksum
    BY <1>1, <2>1, LoneSettled
  <2> QED BY <1>2, <2>1, <2>2, <2>3
<1>7. Places(c)' /\ TableAt(c)'
  BY <1>4 DEF Places, TableAt
<1>8. DiskAt(c)'
  <2> SUFFICES ASSUME ~mixed'[c] PROVE hash' = disk' /\ checksum' = disk'
    BY <1>4 DEF DiskAt
  <2>1. ~mixed[c] /\ Lone(c)
    BY <1>1, <1>5 DEF Lone
  <2>2. hash = work[c].seen
    BY <1>1, <2>1 DEF PassInv, CallerInv, TableAt
  <2>3. work[c].seen = disk /\ work[c].read = disk
    BY <1>1, <2>1 DEF PassInv, CallerInv, DiskAt
  <2> QED BY <1>2, <2>2, <2>3
<1>9. RecoverAt(c)'
  BY <1>4 DEF RecoverAt
<1> QED BY <1>1, <1>3, <1>4, <1>5, <1>6, <1>7, <1>8, <1>9, BusyStep
-----------------------------------------------------------------------------
(* index_file.                                                             *)
LEMMA ReadFails == ASSUME PassInv, IInv', NEW c \in Callers, IndexNoText(c) PROVE PassInv'
<1>1. Busy(c) /\ work[c].at = "index" /\ Leave(c)
  BY AtIsBusy DEF IndexNoText, Is
<1>2. UNCHANGED suspect /\ UNCHANGED tables
  BY DEF IndexNoText
<1> QED BY <1>1, <1>2, Endings

LEMMA Dropped == ASSUME PassInv, IInv', NEW c \in Callers, DropError(c) PROVE PassInv'
<1>1. Busy(c) /\ work[c].for = "recover"
  BY AtIsBusy DEF DropError
<1>2. /\ UNCHANGED mixed /\ UNCHANGED tables
      /\ suspect' = (suspect \/ work[c].at \in {"checksum", "rows"})
  BY DEF DropError
<1>3. Only(c) /\ work'[c].at = "recover" /\ work'[c].for = "recover" /\ work'[c].lost
  BY <1>1 DEF DropError, Only, PassInv, IInv, Work
<1>4. Settled'
  BY <1>2, <1>3, SettledStays
<1>5. Places(c)' /\ TableAt(c)' /\ DiskAt(c)' /\ RecoverAt(c)'
  BY <1>3 DEF Places, TableAt, DiskAt, RecoverAt
<1> QED BY <1>1, <1>2, <1>3, <1>4, <1>5, BusyStep

LEMMA ReadFile == ASSUME PassInv, IInv', NEW c \in Callers, IndexRead(c) PROVE PassInv'
<1>1. Busy(c) /\ work[c].at = "index" /\ disk # 0
  BY AtIsBusy DEF IndexRead, Is, NoText
<1>2. work[c].for \in {"single", "journal", "recover"}
  BY <1>1 DEF PassInv, CallerInv, Places
<1>3. UNCHANGED <<disk, journal, suspect, mixed, hash>> /\ UNCHANGED tables
  BY DEF IndexRead, file, log, tables
<1>4. /\ Only(c) /\ work'[c].for = work[c].for /\ work'[c].read = work[c].read
      /\ work'[c].seen = disk /\ work'[c].at = "hash" /\ work'[c].lost = work[c].lost
  BY DEF IndexRead, Only, PassInv, IInv, Work
<1>5. Settled'
  BY <1>1, <1>3, <1>4, SettledStays
<1>6. Places(c)' /\ TableAt(c)'
  BY <1>2, <1>4 DEF Places, TableAt
<1>7. DiskAt(c)'
  BY <1>1, <1>2, <1>3, <1>4 DEF DiskAt, PassInv, CallerInv
<1>8. RecoverAt(c)'
  BY <1>1, <1>3, <1>4, RecoverStays
<1> QED BY <1>1, <1>3, <1>4, <1>5, <1>6, <1>7, <1>8, BusyStep

(* Where the caller of index_file goes on.                                 *)
LEMMA Returned ==
  ASSUME PassInv, NEW c \in Callers, NEW seen, Return(c, seen),
         work[c].for \in {"single", "journal", "recover"}
  PROVE  /\ Only(c) /\ work'[c].for = work[c].for /\ work'[c].read = work[c].read
         /\ work'[c].todo = work[c].todo /\ work'[c].lost = work[c].lost
         /\ work'[c].at = After(work[c].for) /\ Places(c)'
         /\ work'[c].at \in {"store", "commit", "recover"}
         /\ work'[c].at = "store" => work'[c].seen = seen
<1>1. /\ Only(c) /\ work'[c].for = work[c].for /\ work'[c].read = work[c].read
      /\ work'[c].todo = work[c].todo /\ work'[c].lost = work[c].lost
      /\ work'[c].at = After(work[c].for)
      /\ work'[c].seen = IF work[c].for = "single" THEN seen ELSE 0
  BY DEF Return, Only, PassInv, IInv, Work
<1> QED BY <1>1 DEF After, Places

LEMMA ReadSame == ASSUME PassInv, IInv', NEW c \in Callers, IndexUnchanged(c) PROVE PassInv'
<1>1. Busy(c) /\ work[c].at = "index" /\ disk # 0 /\ hash = disk
  BY AtIsBusy DEF IndexUnchanged, Is, NoText
<1>2. work[c].for \in {"single", "journal", "recover"}
  BY <1>1 DEF PassInv, CallerInv, Places
<1>3. UNCHANGED <<disk, journal, suspect, mixed, hash>> /\ UNCHANGED tables
  BY DEF IndexUnchanged, file, log, tables
<1>4. /\ Only(c) /\ work'[c].for = work[c].for /\ work'[c].read = work[c].read
      /\ work'[c].todo = work[c].todo /\ work'[c].lost = work[c].lost /\ Places(c)'
      /\ work'[c].at \in {"store", "commit", "recover"}
      /\ work'[c].at = "store" => work'[c].seen = disk
  BY <1>2, Returned DEF IndexUnchanged
<1>5. Settled'
  BY <1>1, <1>3, <1>4, SettledStays
<1>6. TableAt(c)'
  BY <1>1, <1>3, <1>4 DEF TableAt
<1>7. DiskAt(c)'
  BY <1>1, <1>3, <1>4 DEF DiskAt, PassInv, CallerInv
<1>8. RecoverAt(c)'
  BY <1>1, <1>3, <1>4 DEF RecoverAt, PassInv, CallerInv
<1> QED BY <1>1, <1>3, <1>4, <1>5, <1>6, <1>7, <1>8, BusyStep

LEMMA HashStored == ASSUME PassInv, IInv', NEW c \in Callers, IndexHash(c) PROVE PassInv'
<1>1. /\ Busy(c) /\ work[c].at = "hash"
      /\ work[c].for \in {"single", "journal", "recover"}
  BY AtIsBusy DEF IndexHash, Is, PassInv, CallerInv, Places
<1>2. /\ Go(c, "checksum") /\ Disturb(c) /\ UNCHANGED <<disk, journal, suspect>>
      /\ hash' = work[c].seen
  BY DEF IndexHash, file, log
<1>3. /\ Only(c) /\ work'[c].at = "checksum" /\ work'[c].for = work[c].for
      /\ work'[c].read = work[c].read /\ work'[c].seen = work[c].seen
      /\ work'[c].lost = work[c].lost
  BY <1>2, GoneOn DEF PassInv
<1>4. (\A d \in Callers : mixed[d] => mixed'[d]) /\ (mixed'[c] <=> mixed[c])
  BY <1>2, MixedGrows DEF PassInv
<1>5. Settled'
  BY <1>3 DEF Settled, Between
<1>6. Places(c)' /\ TableAt(c)'
  BY <1>1, <1>2, <1>3 DEF Places, TableAt
<1>7. DiskAt(c)'
  BY <1>1, <1>2, <1>3, <1>4 DEF DiskAt, PassInv, CallerInv
<1>8. RecoverAt(c)'
  BY <1>1, <1>2, <1>3, <1>4, RecoverStays
<1> QED BY <1>1, <1>2, <1>3, <1>4, <1>5, <1>6, <1>7, <1>8, BusyStep

LEMMA ChecksumStored ==
  ASSUME PassInv, IInv', NEW c \in Callers, IndexChecksum(c) PROVE PassInv'
<1>1. /\ Busy(c) /\ work[c].at = "checksum"
      /\ work[c].for \in {"single", "journal", "recover"}
  BY AtIsBusy DEF IndexChecksum, Is, PassInv, CallerInv, Places
<1>2. /\ Go(c, "rows") /\ Disturb(c) /\ UNCHANGED <<disk, journal, suspect, hash>>
      /\ checksum' = work[c].seen
  BY DEF IndexChecksum, file, log
<1>3. /\ Only(c) /\ work'[c].at = "rows" /\ work'[c].for = work[c].for
      /\ work'[c].read = work[c].read /\ work'[c].seen = work[c].seen
      /\ work'[c].lost = work[c].lost
  BY <1>2, GoneOn DEF PassInv
<1>4. (\A d \in Callers : mixed[d] => mixed'[d]) /\ (mixed'[c] <=> mixed[c])
  BY <1>2, MixedGrows DEF PassInv
<1>5. Settled'
  BY <1>3 DEF Settled, Between
<1>6. Places(c)'
  BY <1>1, <1>3 DEF Places
<1>7. TableAt(c)'
  <2>1. Lone(c)' => Lone(c)
    BY <1>1, <1>2, <1>4 DEF Lone
  <2> QED BY <1>1, <1>2, <1>3, <2>1 DEF TableAt, PassInv, CallerInv
<1>8. DiskAt(c)'
  BY <1>1, <1>2, <1>3, <1>4 DEF DiskAt, PassInv, CallerInv
<1>9. RecoverAt(c)'
  BY <1>1, <1>2, <1>3, <1>4, RecoverStays
<1> QED BY <1>1, <1>2, <1>3, <1>4, <1>5, <1>6, <1>7, <1>8, <1>9, BusyStep

LEMMA RowsStored == ASSUME PassInv, IInv', NEW c \in Callers, IndexRows(c) PROVE PassInv'
<1>1. /\ Busy(c) /\ work[c].at = "rows"
      /\ work[c].for \in {"single", "journal", "recover"}
  BY AtIsBusy DEF IndexRows, Is, PassInv, CallerInv, Places
<1>2. /\ Disturb(c) /\ UNCHANGED <<disk, journal, hash, checksum>>
      /\ rows' = work[c].seen
  BY DEF IndexRows, file, log
<1>3. suspect' <=> suspect /\ (mixed[c] \/ Others(c) # {})
  BY DEF IndexRows
<1>4. /\ Only(c) /\ work'[c].for = work[c].for /\ work'[c].read = work[c].read
      /\ work'[c].todo = work[c].todo /\ work'[c].lost = work[c].lost /\ Places(c)'
      /\ work'[c].at \in {"store", "commit", "recover"}
      /\ work'[c].at = "store" => work'[c].seen = work[c].seen
  BY <1>1, Returned DEF IndexRows
<1>5. (\A d \in Callers : mixed[d] => mixed'[d]) /\ (mixed'[c] <=> mixed[c])
  BY <1>2, MixedGrows DEF PassInv
<1>6. Lone(c)' \/ ~suspect' => Lone(c)
  BY <1>1, <1>3, <1>5 DEF Lone
<1>7. Lone(c) => hash = work[c].seen /\ checksum = work[c].seen
  BY <1>1 DEF PassInv, CallerInv, TableAt
<1>8. Settled'
  BY <1>2, <1>6, <1>7 DEF Settled
<1>9. TableAt(c)'
  BY <1>1, <1>2, <1>4, <1>6, <1>7 DEF TableAt
<1>10. DiskAt(c)'
  BY <1>1, <1>2, <1>4, <1>5 DEF DiskAt, PassInv, CallerInv
<1>11. RecoverAt(c)'
  <2>1. ~mixed[c] => hash = disk
    BY <1>1, <1>7 DEF Lone, PassInv, CallerInv, DiskAt
  <2> QED BY <1>1, <1>2, <1>4, <1>5, <2>1 DEF RecoverAt, PassInv, CallerInv
<1> QED BY <1>1, <1>3, <1>4, <1>5, <1>8, <1>9, <1>10, <1>11, BusyStep
-----------------------------------------------------------------------------
(* The journal.                                                            *)
LEMMA Appended == ASSUME PassInv, IInv', NEW c \in Callers, AppendPending(c) PROVE PassInv'
<1>1. Busy(c) /\ work[c].at = "append"
  BY AtIsBusy DEF AppendPending, Is
<1>2. /\ work' = [work EXCEPT ![c].at = "index", ![c].for = "journal"]
      /\ Disturb(c) /\ UNCHANGED suspect /\ UNCHANGED tables
  BY DEF AppendPending
<1>3. Only(c) /\ work'[c].at = "index" /\ work'[c].for = "journal"
  BY <1>2 DEF Only, PassInv, IInv, Work
<1>4. \A d \in Callers : mixed[d] => mixed'[d]
  BY <1>2, MixedGrows DEF PassInv
<1>5. Settled'
  BY <1>1, <1>2, <1>3, SettledStays
<1>6. Places(c)' /\ TableAt(c)' /\ DiskAt(c)' /\ RecoverAt(c)'
  BY <1>3 DEF Places, TableAt, DiskAt, RecoverAt
<1> QED BY <1>1, <1>2, <1>3, <1>4, <1>5, <1>6, BusyStep

LEMMA LineTaken ==
  ASSUME PassInv, IInv', NEW c \in Callers, NEW h \in Version, RecoverLine(c, h)
  PROVE  PassInv'
<1>1. Busy(c) /\ work[c].at = "recover" /\ work[c].for = "recover"
  BY AtIsBusy DEF RecoverLine, Is, PassInv, CallerInv, Places
<1>2. UNCHANGED <<disk, journal, suspect, mixed, hash>> /\ UNCHANGED tables
  BY DEF RecoverLine, file, log, tables
<1>3. /\ Only(c) /\ work'[c].for = work[c].for /\ work'[c].todo = work[c].todo \ {h}
      /\ work'[c].lost = work[c].lost
      /\ work'[c].at = IF ToReindex(h) THEN "index" ELSE "recover"
  BY DEF RecoverLine, Only, PassInv, IInv, Work
<1>4. Settled'
  BY <1>1, <1>2, <1>3, SettledStays
<1>5. Places(c)' /\ TableAt(c)' /\ DiskAt(c)'
  BY <1>1, <1>3 DEF Places, TableAt, DiskAt
<1>6. RecoverAt(c)'
  <2> SUFFICES ASSUME ~mixed[c], ~work[c].lost PROVE RecoverAt(c)'
    BY <1>2, <1>3 DEF RecoverAt
  <2>1. journal # {} /\ (disk # 0 /\ (\E g \in journal \ work[c].todo : g # disk) => hash = disk)
    BY <1>1 DEF RecoverAt, PassInv, CallerInv
  <2>2. CASE ToReindex(h)
    BY <1>2, <1>3, <2>1, <2>2 DEF RecoverAt
  <2>3. CASE ~ToReindex(h)
    BY <1>2, <1>3, <2>1, <2>3 DEF RecoverAt, ToReindex
  <2> QED BY <2>2, <2>3
<1> QED BY <1>1, <1>2, <1>3, <1>4, <1>5, <1>6, BusyStep

(* A write comes between everyone at work.                                 *)
LEMMA Written == ASSUME PassInv, IInv', NEW v \in Version, Write(v) PROVE PassInv'
<1>1. UNCHANGED <<work, suspect, hash, checksum, rows>>
  BY DEF Write, tables
<1>2. \A c \in Callers : Busy(c)' => Busy(c) /\ mixed'[c]
  BY <1>1 DEF Write, Busy
<1>3. Settled'
  BY <1>1 DEF PassInv, Settled, Between
<1>4. ASSUME NEW c \in Callers PROVE CallerInv(c)'
  <2>1. Lone(c)' => Lone(c)
    BY <1>1, <1>2 DEF Lone
  <2>2. Others(c)' = Others(c)
    BY <1>1 DEF Others, Busy
  <2>3. Places(c)' /\ Alone(c)' /\ TableAt(c)'
    BY <1>1, <2>1, <2>2 DEF PassInv, CallerInv, Places, Alone, TableAt
  <2>4. DiskAt(c)' /\ RecoverAt(c)'
    BY <1>2 DEF DiskAt, RecoverAt
  <2> QED BY <2>3, <2>4 DEF CallerInv
<1> QED BY <1>3, <1>4 DEF PassInv
-----------------------------------------------------------------------------
LEMMA PassInvNext == PassInv /\ [Next]_vars => PassInv'
<1> SUFFICES ASSUME PassInv, [Next]_vars PROVE PassInv'
  OBVIOUS
<1>1. IInv'
  BY IInvNext DEF PassInv
<1>2. ASSUME NEW v \in Version, Write(v) PROVE PassInv'
  BY <1>1, <1>2, Written
<1>3. ASSUME NEW c \in Callers, ProcessQueue(c) \/ Check(c) \/ Journal(c) \/ Recover(c)
      PROVE  PassInv'
  BY <1>3, Beginnings2
<1>4. ASSUME NEW c \in Callers, GuardStep(c) PROVE PassInv'
  <2>1. ASSUME NotClean(c, IF disk = 0 THEN "missing" ELSE "single") PROVE PassInv'
    <3>1. (IF disk = 0 THEN "missing" ELSE "single") \in {"missing", "single"}
      OBVIOUS
    <3>2. \E for \in {"missing", "single"} : NotClean(c, for)
      BY <2>1, <3>1
    <3> QED BY <1>1, <3>2, Queued
  <2>2. CASE Entry(c) \/ VerifyStored(c)
    BY <1>1, <2>2, QueueStarts
  <2>3. CASE DeleteEntry(c) \/ InsertEntry(c)
    BY <1>1, <2>3, Queued
  <2>4. CASE Clean(c) \/ ClearDirty(c)
    BY <1>1, <2>4, Ended
  <2>5. CASE Single(c) \/ StoreChecksum(c)
    BY <1>1, <2>5, SingleRead, Stored
  <2>6. CASE RemoveReferences(c) \/ RemoveSymbols(c) \/ RemoveHash(c)
    BY <1>1, <2>6, RowsRemoved, Removed
  <2> QED BY <1>4, <2>1, <2>2, <2>3, <2>4, <2>5, <2>6 DEF GuardStep
<1>5. ASSUME NEW c \in Callers, Index(c) PROVE PassInv'
  BY <1>1, <1>5, ReadFails, Dropped, ReadSame, ReadFile, HashStored, ChecksumStored, RowsStored
  DEF Index
<1>6. ASSUME NEW c \in Callers, JournalStep(c) PROVE PassInv'
  <2>1. CASE AppendPending(c)
    BY <1>1, <2>1, Appended
  <2>2. CASE AppendCommitted(c) \/ Truncate(c)
    BY <1>1, <2>2, Ended
  <2>3. CASE \E h \in Version : RecoverLine(c, h)
    BY <1>1, <2>3, LineTaken
  <2> QED BY <1>6, <2>1, <2>2, <2>3 DEF JournalStep
<1>7. ASSUME NEW c \in Callers, Step(c) \/ Unread(c) \/ Stop(c) PROVE PassInv'
  <2>1. CASE Stop(c)
    BY <1>1, <2>1, Ended
  <2>2. CASE Unread(c)
    BY <1>1, <2>2, Queued
  <2> QED BY <1>4, <1>5, <1>6, <1>7, <2>1, <2>2 DEF Step
<1>8. CASE UNCHANGED vars
  <2>1. /\ UNCHANGED <<work, mixed, suspect, hash, checksum, rows, disk, journal>>
    BY <1>8 DEF vars, file, tables, log
  <2>2. Settled'
    BY <2>1 DEF PassInv, Settled, Between
  <2>3. ASSUME NEW c \in Callers PROVE CallerInv(c)'
    <3>1. Others(c)' = Others(c) /\ (Lone(c)' <=> Lone(c)) /\ (Busy(c)' <=> Busy(c))
      BY <2>1 DEF Others, Busy, Lone
    <3>2. Places(c)' /\ Alone(c)' /\ TableAt(c)'
      BY <2>1, <3>1 DEF PassInv, CallerInv, Places, Alone, TableAt
    <3>3. DiskAt(c)' /\ RecoverAt(c)'
      BY <2>1, <3>1 DEF PassInv, CallerInv, DiskAt, RecoverAt
    <3> QED BY <3>2, <3>3 DEF CallerInv
  <2> QED BY <1>1, <2>2, <2>3 DEF PassInv
<1>9. Guards \subseteq Callers
  BY DEF Guards
<1> QED BY <1>2, <1>3, <1>7, <1>8, <1>9 DEF Next

LEMMA PassInvariant == Spec => []PassInv
BY PassInvInit, PassInvNext, PTL DEF Spec

(* A file that verify_file calls clean is indexed: with nobody at work,    *)
(* and nothing suspect, its checksum vouches for its rows.                 *)
THEOREM CleanVouches == Spec => []CleanIsIndexed
<1>1. ASSUME PassInv PROVE CleanIsIndexed
  <2> SUFFICES ASSUME \A c \in Callers : ~Busy(c), ~suspect PROVE rows = checksum
    BY DEF CleanIsIndexed
  <2>1. Between = {}
    BY IdleIsWork DEF Between, Busy
  <2> QED BY <1>1, <2>1 DEF PassInv, Settled
<1> QED BY <1>1, PassInvariant, PTL

(* clear_dirty drops the entry of a file only when the file is served: in  *)
(* the index as it is, or out of it because it is gone.                    *)
THEOREM ClearedWhenServed == Spec => ClearedIsServed
<1>1. PassInv /\ [Next]_vars =>
        [\A c \in Callers : ClearDirty(c) /\ ~mixed[c]
                             => hash = disk /\ (disk # 0 => checksum = disk)]_vars
  <2> SUFFICES ASSUME PassInv, NEW c \in Callers, ClearDirty(c), ~mixed[c]
               PROVE  hash = disk /\ (disk # 0 => checksum = disk)
    OBVIOUS
  <2>1. Busy(c) /\ work[c].at = "clear"
    BY AtIsBusy DEF ClearDirty, Is
  <2> QED BY <2>1 DEF PassInv, CallerInv, DiskAt
<1> QED BY <1>1, PassInvariant, PTL DEF Spec, ClearedIsServed

(* A recovery that nobody came between, and in which index_file met no     *)
(* error, truncates the journal only when the file of a line that does not *)
(* say its content is in the index as it is.                               *)
THEOREM TruncatedWhenRepaired == Spec => RecoverRepairs
<1>1. PassInv /\ [Next]_vars =>
        [\A c \in Callers : Truncate(c) /\ ~mixed[c] /\ ~work[c].lost
                              /\ disk # 0 /\ journal # {disk}
                             => hash = disk]_vars
  <2> SUFFICES ASSUME PassInv, NEW c \in Callers, Truncate(c), ~mixed[c], ~work[c].lost,
                      disk # 0, journal # {disk}
               PROVE  hash = disk
    OBVIOUS
  <2>1. Busy(c) /\ work[c].at = "recover" /\ work[c].todo = {} /\ work[c].for = "recover"
    BY AtIsBusy DEF Truncate, Is, PassInv, CallerInv, Places
  <2>2. journal # {} /\ ((\E h \in journal : h # disk) => hash = disk)
    BY <2>1 DEF PassInv, CallerInv, RecoverAt
  <2> QED BY <2>2
<1> QED BY <1>1, PassInvariant, PTL DEF Spec, RecoverRepairs
=============================================================================
