---------------------------- MODULE SchemaProofs ----------------------------
(***************************************************************************)
(* What module Schema promises of an opened database, for any number of    *)
(* openers, any files, and with or without kills.                          *)
(***************************************************************************)
EXTENDS Schema, TLAPS

(* The five migrations are not looked into but for what these lemmas say.  *)
LEMMA Lengths ==
  /\ Current = 5 /\ Len(Masterplan) = 15 /\ Len(Migrations) = 5
  /\ Len(Migrations[1]) = 1 /\ Len(Migrations[2]) = 15 /\ Len(Migrations[3]) = 1
  /\ Len(Migrations[4]) = 3 /\ Len(Migrations[5]) = 2
BY DEF Migrations, Current, Initial, Masterplan, Overrides, Confidence, StringRefs

LEMMA Numbers ==
  ASSUME NEW m \in 1 .. Current
  PROVE  /\ DOMAIN Migrations[m] = 1 .. Len(Migrations[m])
         /\ Len(Migrations[m]) \in 1 .. Len(Masterplan)
         /\ 1 \in 1 .. Len(Migrations[m])
<1>1. CASE m = 1
  <2>1. DOMAIN Migrations[1] = 1 .. 1
    BY DEF Migrations, Initial
  <2> QED BY <1>1, <2>1, Lengths
<1>2. CASE m = 2
  <2>1. DOMAIN Migrations[2] = 1 .. 15
    BY DEF Migrations, Masterplan
  <2> QED BY <1>2, <2>1, Lengths
<1>3. CASE m = 3
  <2>1. DOMAIN Migrations[3] = 1 .. 1
    BY DEF Migrations, Overrides
  <2> QED BY <1>3, <2>1, Lengths
<1>4. CASE m = 4
  <2>1. DOMAIN Migrations[4] = 1 .. 3
    BY DEF Migrations, Confidence
  <2> QED BY <1>4, <2>1, Lengths
<1>5. CASE m = 5
  <2>1. DOMAIN Migrations[5] = 1 .. 2
    BY DEF Migrations, StringRefs
  <2> QED BY <1>5, <2>1, Lengths
<1> QED BY <1>1, <1>2, <1>3, <1>4, <1>5, Lengths

LEMMA MasterplanCopies ==
  /\ Migrations[2][2] = Copy("files") /\ Migrations[2][13] = Copy("checksums")
  /\ Migrations[2][1] = Create("files") /\ Migrations[2][12] = Create("checksums")
BY DEF Migrations, Masterplan

LEMMA NoOtherCopies ==
  ASSUME NEW m \in 1 .. Current, NEW i \in 1 .. Len(Migrations[m]), Migrations[m][i].op = "copy"
  PROVE  m = 2 /\ i \in {2, 13}
<1> USE DEF Create, Add, AddComputed, Copy
<1>1. CASE m = 1
  BY <1>1, Lengths DEF Migrations, Initial
<1>2. CASE m = 2
  <2>1. i \in 1 .. 15
    BY <1>2, Lengths
  <2>2. \/ i \in {2, 13} \/ i = 1 \/ i = 3 \/ i = 4 \/ i = 5 \/ i = 6 \/ i = 7 \/ i = 8
        \/ i = 9 \/ i = 10 \/ i = 11 \/ i = 12 \/ i = 14 \/ i = 15
    BY <2>1
  <2>3. /\ Migrations[2][1].op = "create" /\ Migrations[2][11].op = "create"
        /\ Migrations[2][12].op = "create" /\ Migrations[2][14].op = "create"
        /\ Migrations[2][15].op = "create"
    BY DEF Migrations, Masterplan
  <2>4. /\ Migrations[2][3].op = "add" /\ Migrations[2][4].op = "add"
        /\ Migrations[2][5].op = "add" /\ Migrations[2][6].op = "add"
        /\ Migrations[2][7].op = "add" /\ Migrations[2][8].op = "add"
        /\ Migrations[2][9].op = "add"
    BY DEF Migrations, Masterplan
  <2>5. Migrations[2][10].op = "add computed"
    BY DEF Migrations, Masterplan
  <2> QED BY <1>2, <2>2, <2>3, <2>4, <2>5
<1>3. CASE m = 3
  BY <1>3, Lengths DEF Migrations, Overrides
<1>4. CASE m = 4
  BY <1>4, Lengths DEF Migrations, Confidence
<1>5. CASE m = 5
  BY <1>5, Lengths DEF Migrations, StringRefs
<1> QED BY <1>1, <1>2, <1>3, <1>4, <1>5, Lengths
-----------------------------------------------------------------------------
(* Versions are recorded in order, each with its objects there; from       *)
(* version 2 on the data of the older program is in files and checksums.   *)
InFiles     == old \subseteq rows["files"]
InChecksums == old \subseteq rows["checksums"]

RecordedInv ==
  /\ \A v \in recorded : 1 .. v \subseteq recorded
  /\ \A v \in recorded : Objects(v) \subseteq objects
  /\ 2 \in recorded => InFiles /\ InChecksums

(* An opener has behind it what its place says.                            *)
AtStatement(o) ==
  at[o].step = "statement" =>
    /\ at[o].version \in 1 .. Current
    /\ at[o].next \in 1 .. Len(Migrations[at[o].version])
    /\ 1 .. at[o].version - 1 \subseteq recorded
    /\ \A i \in 1 .. at[o].next - 1 : Migrations[at[o].version][i].object \in objects
    /\ at[o].version = 2 => /\ at[o].next > 2 => InFiles
                            /\ at[o].next > 13 => InChecksums

AtRecord(o) ==
  at[o].step = "record" =>
    /\ at[o].version \in 1 .. Current
    /\ 1 .. at[o].version - 1 \subseteq recorded
    /\ Objects(at[o].version) \subseteq objects
    /\ at[o].version = 2 => InFiles /\ InChecksums

AtOpen(o) == at[o].step = "open" => 1 .. Current \subseteq recorded

PlaceInv(o) == AtStatement(o) /\ AtRecord(o) /\ AtOpen(o)

IInv == SchemaTypeOK /\ RecordedInv /\ \A o \in Openers : PlaceInv(o)

LEMMA UpToObjects ==
  ASSUME NEW n \in Nat, NEW x
  PROVE  x \in UpTo(n) <=> \E m \in 1 .. n : x \in Objects(m)
BY DEF UpTo

LEMMA IInvInit == Init => IInv
<1> SUFFICES ASSUME Init PROVE IInv
  OBVIOUS
<1>1. PICK n \in 0 .. Current, F, S, G, H \in SUBSET Files :
        /\ n = 0 => F = {}
        /\ n < 2 => G = {}
        /\ S \subseteq F /\ H \subseteq G
        /\ objects = UpTo(n)
        /\ recorded \in IF n = 1 THEN {{}, {1}} ELSE {1 .. n}
        /\ rows = [t \in Tables |-> CASE t = "file_hash" -> F [] t = "symbol" -> S
                                    [] t = "files" -> G [] t = "checksums" -> H]
        /\ old = IF n < 2 THEN F ELSE {}
  BY Zenon DEF Init
<1>2. Current = 5
  BY DEF Current
<1>3. recorded \subseteq 1 .. n
  BY <1>1, <1>2
<1>4. \A v \in recorded : 1 .. v \subseteq recorded
  BY <1>1, <1>2
<1>5. \A v \in recorded : Objects(v) \subseteq objects
  <2> SUFFICES ASSUME NEW v \in recorded, NEW x \in Objects(v) PROVE x \in objects
    OBVIOUS
  <2> QED BY <1>1, <1>2, <1>3, UpToObjects
<1>6. 2 \in recorded => InFiles /\ InChecksums
  BY <1>1, <1>2, <1>3 DEF InFiles, InChecksums, Tables
<1>7. objects \subseteq UpTo(Current)
  <2> SUFFICES ASSUME NEW x \in objects PROVE x \in UpTo(Current)
    OBVIOUS
  <2>1. PICK m \in 1 .. n : x \in Objects(m)
    BY <1>1, <1>2, UpToObjects
  <2> QED BY <2>1, <1>2, UpToObjects
<1>8. rows \in [Tables -> SUBSET Files] /\ old \subseteq rows["file_hash"]
  BY <1>1 DEF Tables
<1>9. at \in [Openers -> Place] /\ \A o \in Openers : at[o].step = "closed"
  BY Lengths DEF Init, Closed, Place
<1>10. SchemaTypeOK
  BY <1>2, <1>3, <1>7, <1>8, <1>9 DEF SchemaTypeOK
<1> QED BY <1>4, <1>5, <1>6, <1>9, <1>10
        DEF IInv, RecordedInv, PlaceInv, AtStatement, AtRecord, AtOpen
-----------------------------------------------------------------------------
(* Nothing is ever taken back, so what an opener has behind it stays.      *)
Grows == /\ recorded \subseteq recorded' /\ objects \subseteq objects'
         /\ rows'["file_hash"] = rows["file_hash"] /\ old' = old
         /\ rows["files"] \subseteq rows'["files"]
         /\ rows["checksums"] \subseteq rows'["checksums"]

LEMMA PlaceStays ==
  ASSUME NEW o \in Openers, PlaceInv(o), Grows, at'[o] = at[o] PROVE PlaceInv(o)'
<1>1. (InFiles => InFiles') /\ (InChecksums => InChecksums')
  BY DEF Grows, InFiles, InChecksums
<1>2. AtStatement(o)'
  BY <1>1 DEF PlaceInv, AtStatement, Grows
<1>3. AtRecord(o)'
  BY <1>1 DEF PlaceInv, AtRecord, Grows, Objects
<1>4. AtOpen(o)'
  BY DEF PlaceInv, AtOpen, Grows
<1> QED BY <1>2, <1>3, <1>4 DEF PlaceInv

LEMMA GoType ==
  ASSUME SchemaTypeOK, NEW o \in Openers, NEW step \in {"statement", "record", "open", "refused"},
         NEW version \in 0 .. Current, NEW next \in 1 .. Len(Masterplan), Go(o, step, version, next)
  PROVE  /\ at' \in [Openers -> Place]
         /\ at'[o] = [step |-> step, version |-> version, next |-> next]
         /\ \A q \in Openers \ {o} : at'[q] = at[q]
BY DEF Go, SchemaTypeOK, Place

(* Going on to the next migration, or to the end of init_db.               *)
LEMMA GoOnPlace ==
  ASSUME SchemaTypeOK, NEW o \in Openers, NEW v \in 0 .. Current, GoOn(o, v),
         (1 .. v \subseteq recorded)', RecordedInv'
  PROVE  /\ at' \in [Openers -> Place]
         /\ PlaceInv(o)'
         /\ \A q \in Openers \ {o} : at'[q] = at[q]
<1>0. 1 \in 1 .. Len(Masterplan) /\ Current = 5
  BY Lengths
<1>1. CASE v = Current
  <2>1. Go(o, "open", v, 1)
    BY <1>1 DEF GoOn
  <2>2. /\ at' \in [Openers -> Place]
        /\ at'[o] = [step |-> "open", version |-> v, next |-> 1]
        /\ \A q \in Openers \ {o} : at'[q] = at[q]
    BY <1>0, <2>1, GoType
  <2> QED BY <1>1, <2>2 DEF PlaceInv, AtStatement, AtRecord, AtOpen
<1>2. CASE v # Current
  <2>1. Go(o, "statement", v + 1, 1)
    BY <1>2 DEF GoOn
  <2>2. v + 1 \in 1 .. Current /\ v + 1 \in 0 .. Current
    BY <1>0, <1>2
  <2>3. /\ at' \in [Openers -> Place]
        /\ at'[o] = [step |-> "statement", version |-> v + 1, next |-> 1]
        /\ \A q \in Openers \ {o} : at'[q] = at[q]
    BY <1>0, <2>1, <2>2, GoType
  <2>4. 1 \in 1 .. Len(Migrations[v + 1])
    BY <2>2, Numbers
  <2>5. AtStatement(o)'
    BY <2>2, <2>3, <2>4 DEF AtStatement
  <2> QED BY <2>3, <2>5 DEF PlaceInv, AtRecord, AtOpen
<1> QED BY <1>1, <1>2
-----------------------------------------------------------------------------
LEMMA OthersStay ==
  ASSUME IInv, Grows, SchemaTypeOK', RecordedInv', NEW o \in Openers, PlaceInv(o)',
         \A q \in Openers \ {o} : at'[q] = at[q]
  PROVE  IInv'
<1> SUFFICES ASSUME NEW q \in Openers PROVE PlaceInv(q)'
  BY DEF IInv
<1>1. CASE q = o
  BY <1>1
<1>2. CASE q # o
  BY <1>2, PlaceStays DEF IInv
<1> QED BY <1>1, <1>2

(* The steps that leave the database alone.                                *)
LEMMA DatabaseStays ==
  ASSUME IInv, UNCHANGED <<recorded, objects, rows, old>>
  PROVE  Grows /\ RecordedInv' /\ (at' \in [Openers -> Place] => SchemaTypeOK')
BY DEF IInv, Grows, RecordedInv, InFiles, InChecksums, SchemaTypeOK, Objects, UpTo

LEMMA OpenStep == ASSUME IInv, NEW o \in Openers, Open(o) PROVE IInv'
<1>1. PICK n \in 0 .. Current : IsVersion(n) /\ GoOn(o, n)
  BY DEF Open
<1>2. Grows /\ RecordedInv' /\ (at' \in [Openers -> Place] => SchemaTypeOK')
  BY DatabaseStays DEF Open
<1>3. (1 .. n \subseteq recorded)'
  <2>1. recorded' = recorded
    BY DEF Open
  <2>2. n = 0 => 1 .. n = {}
    OBVIOUS
  <2> QED BY <1>1, <2>1, <2>2 DEF IsVersion, IInv, RecordedInv
<1>4. /\ at' \in [Openers -> Place] /\ PlaceInv(o)'
      /\ \A q \in Openers \ {o} : at'[q] = at[q]
  BY <1>1, <1>2, <1>3, GoOnPlace DEF IInv
<1> QED BY <1>2, <1>4, OthersStay

LEMMA RefuseStep == ASSUME IInv, NEW o \in Openers, Refuse(o) PROVE IInv'
<1>1. Grows /\ RecordedInv' /\ (at' \in [Openers -> Place] => SchemaTypeOK')
  BY DatabaseStays DEF Refuse
<1>2. at[o].version \in 0 .. Current
  BY DEF IInv, SchemaTypeOK, Place
<1>3. 1 \in 1 .. Len(Masterplan) /\ SchemaTypeOK /\ Go(o, "refused", at[o].version, 1)
  BY Lengths DEF Refuse, IInv
<1>4. /\ at' \in [Openers -> Place]
      /\ at'[o] = [step |-> "refused", version |-> at[o].version, next |-> 1]
      /\ \A q \in Openers \ {o} : at'[q] = at[q]
  BY <1>2, <1>3, GoType
<1>5. PlaceInv(o)'
  BY <1>4 DEF PlaceInv, AtStatement, AtRecord, AtOpen
<1> QED BY <1>1, <1>4, <1>5, OthersStay

LEMMA ClosedStep ==
  ASSUME IInv, NEW o \in Openers, at' = [at EXCEPT ![o] = Closed],
         UNCHANGED <<recorded, objects, rows, old>>
  PROVE  IInv'
<1>1. Grows /\ RecordedInv' /\ (at' \in [Openers -> Place] => SchemaTypeOK')
  BY DatabaseStays
<1>2. Closed \in Place
  BY Lengths DEF Closed, Place
<1>3. /\ at' \in [Openers -> Place] /\ at'[o] = Closed
      /\ \A q \in Openers \ {o} : at'[q] = at[q]
  BY <1>2 DEF IInv, SchemaTypeOK
<1>4. PlaceInv(o)'
  BY <1>3 DEF Closed, PlaceInv, AtStatement, AtRecord, AtOpen
<1> QED BY <1>1, <1>3, <1>4, OthersStay

LEMMA RecordStep == ASSUME IInv, NEW o \in Openers, Record(o) PROVE IInv'
<1> DEFINE v == at[o].version
<1>1. /\ v \in 1 .. Current /\ 1 .. v - 1 \subseteq recorded /\ Objects(v) \subseteq objects
      /\ v = 2 => InFiles /\ InChecksums
  BY DEF Record, IInv, PlaceInv, AtRecord
<1>2. recorded' = recorded \cup {v} /\ GoOn(o, v) /\ UNCHANGED <<objects, rows, old>>
  BY DEF Record
<1> HIDE DEF v
<1>3. Grows
  BY <1>2 DEF Grows
<1>4. 1 .. v \subseteq recorded'
  BY <1>1, <1>2, Lengths
<1>5. RecordedInv'
  <2>1. \A u \in recorded' : 1 .. u \subseteq recorded'
    BY <1>2, <1>4 DEF IInv, RecordedInv
  <2>2. \A u \in recorded' : Objects(u) \subseteq objects'
    BY <1>1, <1>2 DEF IInv, RecordedInv
  <2>3. 2 \in recorded' => InFiles' /\ InChecksums'
    BY <1>1, <1>2 DEF IInv, RecordedInv, InFiles, InChecksums
  <2> QED BY <2>1, <2>2, <2>3 DEF RecordedInv, Objects
<1>6. v \in 0 .. Current /\ SchemaTypeOK
  BY <1>1, Lengths DEF IInv
<1>7. /\ at' \in [Openers -> Place] /\ PlaceInv(o)'
      /\ \A q \in Openers \ {o} : at'[q] = at[q]
  BY <1>2, <1>4, <1>5, <1>6, GoOnPlace
<1>8. SchemaTypeOK'
  BY <1>1, <1>2, <1>7 DEF IInv, SchemaTypeOK
<1> QED BY <1>3, <1>5, <1>7, <1>8, OthersStay
(* A statement leaves its object there: a copy finds the table that the    *)
(* statement before it made.                                               *)
LEMMA ExecuteLeavesObject ==
  ASSUME IInv, NEW o \in Openers, Execute(o)
  PROVE  /\ objects' \in {objects, objects \cup {Statement(o).object}}
         /\ Statement(o).object \in objects'
<1> DEFINE m == at[o].version
           i == at[o].next
<1>1. m \in 1 .. Current /\ i \in 1 .. Len(Migrations[m])
      /\ \A j \in 1 .. i - 1 : Migrations[m][j].object \in objects
  BY DEF Execute, IInv, PlaceInv, AtStatement
<1>2. CASE Statement(o).op = "copy"
  <2>1. m = 2 /\ i \in {2, 13}
    BY <1>1, <1>2, NoOtherCopies DEF Statement
  <2>2. 1 \in 1 .. 2 - 1 /\ 12 \in 1 .. 13 - 1
    OBVIOUS
  <2>3. CASE i = 2
    <3>1. Statement(o) = Copy("files") /\ Migrations[m][1] = Create("files")
      BY <2>1, <2>3, MasterplanCopies DEF Statement
    <3>2. Statement(o).object = Migrations[m][1].object
      BY <3>1 DEF Copy, Create
    <3> QED BY <1>1, <1>2, <2>2, <2>3, <3>2 DEF Execute
  <2>4. CASE i = 13
    <3>1. Statement(o) = Copy("checksums") /\ Migrations[m][12] = Create("checksums")
      BY <2>1, <2>4, MasterplanCopies DEF Statement
    <3>2. Statement(o).object = Migrations[m][12].object
      BY <3>1 DEF Copy, Create
    <3> QED BY <1>1, <1>2, <2>2, <2>4, <3>2 DEF Execute
  <2> QED BY <2>1, <2>3, <2>4
<1>3. CASE Statement(o).op # "copy"
  BY <1>3 DEF Execute
<1> QED BY <1>2, <1>3

(* The two copies of migration 2 fill their tables, and nothing else       *)
(* changes a row.                                                          *)
LEMMA ExecuteKeepsRows ==
  ASSUME IInv, NEW o \in Openers, Execute(o)
  PROVE  /\ rows' \in [Tables -> SUBSET Files]
         /\ rows'["file_hash"] = rows["file_hash"] /\ old' = old
         /\ rows["files"] \subseteq rows'["files"]
         /\ rows["checksums"] \subseteq rows'["checksums"]
         /\ at[o].version = 2 /\ at[o].next = 2 => InFiles'
         /\ at[o].version = 2 /\ at[o].next = 13 => InChecksums'
<1> DEFINE m == at[o].version
           i == at[o].next
<1>1. /\ m \in 1 .. Current /\ i \in 1 .. Len(Migrations[m])
      /\ m = 2 /\ i > 2 => InFiles
      /\ rows \in [Tables -> SUBSET Files] /\ old \subseteq rows["file_hash"] /\ old' = old
  BY DEF Execute, IInv, PlaceInv, AtStatement, SchemaTypeOK
<1>2. CASE Statement(o).op = "copy"
  <2>1. m = 2 /\ i \in {2, 13}
    BY <1>1, <1>2, NoOtherCopies DEF Statement
  <2>2. CASE i = 2
    <3>1. rows' = [rows EXCEPT !["files"] = @ \cup rows["file_hash"]]
      BY <1>2, <2>1, <2>2, MasterplanCopies DEF Execute, Statement, Copy, CopyInto
    <3> QED BY <1>1, <2>2, <3>1 DEF InFiles, Tables
  <2>3. CASE i = 13
    <3>1. rows' = [rows EXCEPT !["checksums"] = @ \cup rows["files"]]
      BY <1>2, <2>1, <2>3, MasterplanCopies DEF Execute, Statement, Copy, CopyInto
    <3> QED BY <1>1, <2>1, <2>3, <3>1 DEF InFiles, InChecksums, Tables
  <2> QED BY <2>1, <2>2, <2>3
<1>3. CASE Statement(o).op # "copy"
  <2>1. rows' = rows
    BY <1>3 DEF Execute
  <2>2. ~(m = 2 /\ i \in {2, 13})
    BY <1>3, MasterplanCopies DEF Statement, Copy
  <2> QED BY <1>1, <2>1, <2>2
<1> QED BY <1>2, <1>3

LEMMA ExecuteStep == ASSUME IInv, NEW o \in Openers, Execute(o) PROVE IInv'
<1> DEFINE m == at[o].version
           i == at[o].next
<1>1. /\ m \in 1 .. Current /\ i \in 1 .. Len(Migrations[m])
      /\ 1 .. m - 1 \subseteq recorded
      /\ \A j \in 1 .. i - 1 : Migrations[m][j].object \in objects
      /\ m = 2 /\ i > 2 => InFiles
      /\ m = 2 /\ i > 13 => InChecksums
  BY DEF Execute, IInv, PlaceInv, AtStatement
<1>2. /\ Migrations[m][i].object \in objects'
      /\ objects' \in {objects, objects \cup {Migrations[m][i].object}}
  BY ExecuteLeavesObject DEF Statement
<1>3. recorded' = recorded
  BY DEF Execute
<1>4. Grows
  BY <1>2, <1>3, ExecuteKeepsRows DEF Grows
<1>5. (InFiles => InFiles') /\ (InChecksums => InChecksums')
  BY <1>4 DEF Grows, InFiles, InChecksums
<1>6. RecordedInv'
  BY <1>3, <1>4, <1>5 DEF Grows, IInv, RecordedInv, Objects
<1>7. IF i = Len(Migrations[m]) THEN Go(o, "record", m, 1) ELSE Go(o, "statement", m, i + 1)
  BY DEF Execute, Advance
<1>8. /\ m \in 0 .. Current /\ 1 \in 1 .. Len(Masterplan) /\ Current = 5
      /\ Len(Migrations[m]) \in 1 .. Len(Masterplan) /\ SchemaTypeOK
  BY <1>1, Numbers, Lengths DEF IInv
<1>9. Len(Masterplan) = 15 /\ Len(Migrations[m]) \in Nat /\ i \in Nat
  BY <1>1, <1>8, Lengths
<1>10. m = 2 => /\ i >= 2 => InFiles'
                /\ i >= 13 => InChecksums'
  BY <1>1, <1>5, <1>9, ExecuteKeepsRows
<1>11. \A j \in 1 .. i : Migrations[m][j].object \in objects'
  <2> SUFFICES ASSUME NEW j \in 1 .. i PROVE Migrations[m][j].object \in objects'
    OBVIOUS
  <2>1. j = i \/ j \in 1 .. i - 1
    BY <1>9
  <2> QED BY <1>1, <1>2, <2>1
<1>12. /\ at' \in [Openers -> Place] /\ PlaceInv(o)'
       /\ \A q \in Openers \ {o} : at'[q] = at[q]
  <2> HIDE DEF m, i
  <2>1. CASE i = Len(Migrations[m])
    <3>1. /\ at' \in [Openers -> Place]
          /\ at'[o] = [step |-> "record", version |-> m, next |-> 1]
          /\ \A q \in Openers \ {o} : at'[q] = at[q]
      BY <1>7, <1>8, <2>1, GoType
    <3>2. Objects(m) \subseteq objects'
      BY <1>1, <1>11, <2>1, Numbers DEF Objects
    <3>3. m = 2 => InFiles' /\ InChecksums'
      <4>1. m = 2 => i = 15
        BY <2>1, Lengths
      <4> QED BY <1>10, <4>1
    <3>4. AtRecord(o)'
      BY <1>1, <1>3, <3>1, <3>2, <3>3 DEF AtRecord, Objects
    <3> QED BY <3>1, <3>4 DEF PlaceInv, AtStatement, AtOpen
  <2>2. CASE i # Len(Migrations[m])
    <3>1. i + 1 \in 1 .. Len(Masterplan) /\ i + 1 \in 1 .. Len(Migrations[m])
      <4>1. PICK n \in 1 .. 15 : n = Len(Migrations[m])
        BY <1>8, <1>9
      <4>2. i \in 1 .. n /\ i # n
        BY <1>1, <2>2, <4>1
      <4>3. i + 1 \in 1 .. 15 /\ i + 1 \in 1 .. n
        BY <4>2
      <4> QED BY <1>9, <4>1, <4>3
    <3>2. /\ at' \in [Openers -> Place]
          /\ at'[o] = [step |-> "statement", version |-> m, next |-> i + 1]
          /\ \A q \in Openers \ {o} : at'[q] = at[q]
      BY <1>7, <1>8, <2>2, <3>1, GoType
    <3>3. (i + 1) - 1 = i /\ (i + 1 > 2 => i >= 2) /\ (i + 1 > 13 => i >= 13)
      BY <1>9
    <3>4. AtStatement(o)'
      BY <1>1, <1>3, <1>10, <1>11, <3>1, <3>2, <3>3 DEF AtStatement
    <3> QED BY <3>2, <3>4 DEF PlaceInv, AtRecord, AtOpen
  <2> QED BY <2>1, <2>2
<1>13. SchemaTypeOK'
  <2>1. Migrations[m][i].object \in UpTo(Current)
    <3>1. Migrations[m][i].object \in Objects(m)
      BY <1>1, Numbers DEF Objects
    <3> QED BY <1>1, <1>8, <3>1, UpToObjects
  <2>2. objects' \subseteq UpTo(Current)
    BY <1>2, <1>8, <2>1 DEF SchemaTypeOK
  <2> QED BY <1>3, <1>8, <1>12, <2>2, ExecuteKeepsRows DEF SchemaTypeOK, UpTo, Objects
<1> QED BY <1>4, <1>6, <1>12, <1>13, OthersStay

LEMMA IInvNext == IInv /\ [Next]_vars => IInv'
<1> SUFFICES ASSUME IInv, [Next]_vars PROVE IInv'
  OBVIOUS
<1>1. ASSUME NEW o \in Openers, Step(o) PROVE IInv'
  BY <1>1, OpenStep, ExecuteStep, RefuseStep, RecordStep DEF Step
<1>2. ASSUME NEW o \in Openers, Close(o) \/ Kill(o) PROVE IInv'
  BY <1>2, ClosedStep DEF Close, Kill
<1>3. CASE UNCHANGED vars
  BY <1>3 DEF vars, IInv, SchemaTypeOK, RecordedInv, PlaceInv, AtStatement, AtRecord, AtOpen,
              InFiles, InChecksums, Objects, UpTo
<1> QED BY <1>1, <1>2, <1>3 DEF Next
-----------------------------------------------------------------------------
LEMMA Invariant == Spec => []IInv
BY IInvInit, IInvNext, PTL DEF Spec

(* Tables, columns, rows and places are what they should be.               *)
THEOREM SchemaTypeCorrect == Spec => []SchemaTypeOK
<1>1. IInv => SchemaTypeOK
  BY DEF IInv
<1> QED BY <1>1, Invariant, PTL

(* Whoever applied a migration, whatever was killed on the way: a version  *)
(* that is recorded has all its objects, and so have those before it.      *)
THEOREM RecordIsTrue == Spec => []RecordedIsThere
<1>1. ASSUME IInv PROVE RecordedIsThere
  <2> SUFFICES ASSUME NEW v \in recorded, NEW x \in UpTo(v) PROVE x \in objects
    BY DEF RecordedIsThere
  <2>1. v \in Nat
    BY <1>1, Lengths DEF IInv, SchemaTypeOK
  <2>2. PICK u \in 1 .. v : x \in Objects(u)
    BY <2>1, UpToObjects
  <2> QED BY <1>1, <2>2 DEF IInv, RecordedInv
<1> QED BY <1>1, Invariant, PTL

(* An open that succeeds, by any number of processes at once, has the      *)
(* whole schema and the data of the older program.                         *)
THEOREM OpenedIsComplete == Spec => []OpenIsComplete
<1>1. ASSUME IInv PROVE OpenIsComplete
  <2> SUFFICES ASSUME NEW o \in Openers, at[o].step = "open"
               PROVE  /\ UpTo(Current) \subseteq objects
                      /\ old \subseteq rows["files"] \cap rows["checksums"]
    BY DEF OpenIsComplete
  <2>1. 1 .. Current \subseteq recorded /\ Current = 5
    BY <1>1, Lengths DEF IInv, PlaceInv, AtOpen
  <2>2. UpTo(Current) \subseteq objects
    <3> SUFFICES ASSUME NEW x \in UpTo(Current) PROVE x \in objects
      OBVIOUS
    <3>1. PICK u \in 1 .. Current : x \in Objects(u)
      BY <2>1, UpToObjects
    <3> QED BY <1>1, <2>1, <3>1 DEF IInv, RecordedInv
  <2>3. InFiles /\ InChecksums
    BY <1>1, <2>1 DEF IInv, RecordedInv
  <2> QED BY <2>2, <2>3 DEF InFiles, InChecksums
<1> QED BY <1>1, Invariant, PTL
-----------------------------------------------------------------------------
(* No opener leaves a torn migration: who is at it has a column before it  *)
(* that is there, and is refused at the first of them.                     *)
Stuck(o, m) ==
  /\ ~(at[o].step = "record" /\ at[o].version = m)
  /\ at[o].step = "statement" /\ at[o].version = m
     => \E i \in DOMAIN Migrations[m] : i >= at[o].next /\ Column(m, i)

LEMMA TornForOthers ==
  ASSUME NEW m \in 1 .. Current, TornBetween(m), objects \subseteq objects', m \notin recorded',
         NEW o \in Openers, Stuck(o, m)', \A q \in Openers \ {o} : at'[q] = at[q]
  PROVE  TornBetween(m)'
<1>1. \A i \in DOMAIN Migrations[m] : Column(m, i) => Column(m, i)'
  BY DEF Column
<1>2. \E i \in DOMAIN Migrations[m] : Column(m, i)'
  BY <1>1 DEF TornBetween
<1>3. \A q \in Openers \ {o} : Stuck(q, m)'
  BY <1>1 DEF TornBetween, Stuck
<1>4. \A q \in Openers : Stuck(q, m)'
  BY <1>3
<1> QED BY <1>2, <1>4 DEF TornBetween, Stuck

LEMMA StuckFromGoOn ==
  ASSUME SchemaTypeOK, NEW m \in 1 .. Current, TornBetween(m), objects \subseteq objects',
         NEW o \in Openers, NEW v \in 0 .. Current, GoOn(o, v)
  PROVE  Stuck(o, m)' /\ \A q \in Openers \ {o} : at'[q] = at[q]
<1>1. PICK i \in DOMAIN Migrations[m] : Column(m, i)
  BY DEF TornBetween
<1>2. i >= 1 /\ i \in Nat
  BY Numbers
<1>3. Column(m, i)'
  BY <1>1 DEF Column
<1>4. /\ 1 \in 1 .. Len(Masterplan) /\ Current \in 0 .. Current
      /\ v # Current => v + 1 \in 0 .. Current
  BY Lengths
<1>5. CASE v = Current
  <2>1. Go(o, "open", v, 1)
    BY <1>5 DEF GoOn
  <2>2. at'[o] = [step |-> "open", version |-> v, next |-> 1]
        /\ \A q \in Openers \ {o} : at'[q] = at[q]
    BY <1>4, <2>1, GoType
  <2> QED BY <2>2 DEF Stuck
<1>6. CASE v # Current
  <2>1. Go(o, "statement", v + 1, 1)
    BY <1>6 DEF GoOn
  <2>2. at'[o] = [step |-> "statement", version |-> v + 1, next |-> 1]
        /\ \A q \in Openers \ {o} : at'[q] = at[q]
    BY <1>4, <1>6, <2>1, GoType
  <2> QED BY <1>2, <1>3, <2>2 DEF Stuck
<1> QED BY <1>5, <1>6

LEMMA TornExecute ==
  ASSUME IInv, NEW m \in 1 .. Current, TornBetween(m), NEW o \in Openers, Execute(o)
  PROVE  TornBetween(m)'
<1> DEFINE v == at[o].version
           i == at[o].next
<1>1. v \in 1 .. Current /\ i \in 1 .. Len(Migrations[v]) /\ SchemaTypeOK
  BY DEF Execute, IInv, PlaceInv, AtStatement
<1>2. objects \subseteq objects' /\ m \notin recorded'
  <2>1. objects \subseteq objects'
    BY ExecuteLeavesObject
  <2> QED BY <2>1 DEF Execute, TornBetween
<1>3. \A q \in Openers \ {o} : at'[q] = at[q]
  BY DEF Execute, Advance, Go, IInv, SchemaTypeOK
<1>4. at'[o].version = v /\ at'[o].step \in {"record", "statement"}
      /\ IF i = Len(Migrations[v]) THEN at'[o].step = "record" ELSE at'[o].next = i + 1
  BY DEF Execute, Advance, Go, IInv, SchemaTypeOK, Place
<1>5. CASE v # m
  <2>1. Stuck(o, m)'
    BY <1>4, <1>5 DEF Stuck
  <2> QED BY <1>2, <1>3, <2>1, TornForOthers
<1>6. CASE v = m
  <2>1. PICK j \in DOMAIN Migrations[m] : j >= i /\ Column(m, j)
    BY <1>6 DEF TornBetween, Execute
  <2>2. ~Column(m, i)
    BY <1>6 DEF Execute, Accepted, Statement, Column
  <2>3. /\ DOMAIN Migrations[m] = 1 .. Len(Migrations[m])
        /\ Len(Migrations[m]) \in 1 .. Len(Masterplan) /\ Len(Masterplan) = 15
    BY Numbers, Lengths
  <2>4. PICK n \in 1 .. 15 : n = Len(Migrations[m])
    BY <2>3
  <2>5. j \in 1 .. n /\ i \in 1 .. n /\ j >= i /\ j # i
    BY <1>1, <1>6, <2>1, <2>2, <2>3, <2>4
  <2>6. j >= i + 1 /\ i # n
    BY <2>5
  <2>7. Column(m, j)'
    BY <1>2, <2>1 DEF Column
  <2>8. at'[o].step = "statement" /\ at'[o].next = i + 1
    <3>1. i # Len(Migrations[v])
      BY <1>6, <2>4, <2>6
    <3> QED BY <3>1 DEF Execute, Advance, Go, IInv, SchemaTypeOK, Place
  <2>9. Stuck(o, m)'
    BY <2>6, <2>7, <2>8 DEF Stuck
  <2> QED BY <1>2, <1>3, <2>9, TornForOthers
<1> QED BY <1>5, <1>6

LEMMA TornStays ==
  ASSUME IInv, NEW m \in 1 .. Current, TornBetween(m), [Next]_vars PROVE TornBetween(m)'
<1> SUFFICES ASSUME Next PROVE TornBetween(m)'
  BY DEF vars, TornBetween, Column
<1>1. ASSUME NEW o \in Openers, Open(o) PROVE TornBetween(m)'
  <2>1. PICK n \in 0 .. Current : GoOn(o, n)
    BY <1>1 DEF Open
  <2>2. objects' = objects /\ recorded' = recorded /\ SchemaTypeOK
    BY <1>1 DEF Open, IInv
  <2>3. Stuck(o, m)' /\ \A q \in Openers \ {o} : at'[q] = at[q]
    BY <2>1, <2>2, StuckFromGoOn
  <2> QED BY <2>2, <2>3, TornForOthers DEF TornBetween
<1>2. ASSUME NEW o \in Openers, Record(o) PROVE TornBetween(m)'
  <2>1. at[o].version \in 0 .. Current /\ at[o].version # m
    BY <1>2 DEF Record, TornBetween, IInv, SchemaTypeOK, Place
  <2>2. GoOn(o, at[o].version) /\ objects' = objects /\ SchemaTypeOK
    BY <1>2 DEF Record, IInv
  <2>3. Stuck(o, m)' /\ \A q \in Openers \ {o} : at'[q] = at[q]
    BY <2>1, <2>2, StuckFromGoOn
  <2>4. m \notin recorded'
    BY <1>2, <2>1 DEF Record, TornBetween
  <2> QED BY <2>2, <2>3, <2>4, TornForOthers
<1>3. ASSUME NEW o \in Openers, Refuse(o) \/ Close(o) \/ Kill(o) PROVE TornBetween(m)'
  <2>1. objects' = objects /\ recorded' = recorded
    BY <1>3 DEF Refuse, Close, Kill
  <2>2. at'[o].step \in {"refused", "closed"} /\ \A q \in Openers \ {o} : at'[q] = at[q]
    BY <1>3 DEF Refuse, Close, Kill, Go, Closed, IInv, SchemaTypeOK
  <2>3. Stuck(o, m)'
    BY <2>2 DEF Stuck
  <2> QED BY <2>1, <2>2, <2>3, TornForOthers DEF TornBetween
<1> QED BY <1>1, <1>2, <1>3, TornExecute DEF Next, Step

(* A torn database is closed to everybody for ever, whatever is tried.     *)
THEOREM TornForGood == Spec => TornIsForGood
<1>1. ASSUME IInv, IInv', [Next]_vars
      PROVE  Torn => Torn' /\ \A o \in Openers : at'[o].step # "open"
  <2> SUFFICES ASSUME NEW m \in {2, 4}, TornBetween(m)
               PROVE  TornBetween(m)' /\ \A o \in Openers : at'[o].step # "open"
    BY DEF Torn
  <2>1. m \in 1 .. Current
    BY Lengths
  <2>2. TornBetween(m)'
    BY <1>1, <2>1, TornStays
  <2>3. \A o \in Openers : at'[o].step = "open" => m \in recorded'
    BY <1>1, <2>1 DEF IInv, PlaceInv, AtOpen
  <2> QED BY <2>2, <2>3 DEF TornBetween
<1> QED BY <1>1, Invariant, PTL DEF Spec, TornIsForGood
-----------------------------------------------------------------------------
(* How a database is torn.  The columns of migrations 2 and 4 have names   *)
(* of their own.                                                           *)
LEMMA MasterplanObjects ==
  /\ Migrations[2][1].object = "files"            /\ Migrations[2][2].object = "files"
  /\ Migrations[2][3].object = "qualified_name"   /\ Migrations[2][4].object = "signature_hash"
  /\ Migrations[2][5].object = "body_hash"        /\ Migrations[2][6].object = "token_count"
  /\ Migrations[2][7].object = "is_public"        /\ Migrations[2][8].object = "is_test"
  /\ Migrations[2][9].object = "status"           /\ Migrations[2][10].object = "extracted_at"
  /\ Migrations[2][11].object = "refs"            /\ Migrations[2][12].object = "checksums"
  /\ Migrations[2][13].object = "checksums"       /\ Migrations[2][14].object = "dirty_queue"
  /\ Migrations[2][15].object = "agent_cache"
BY DEF Migrations, Masterplan, Create, Add, AddComputed, Copy

LEMMA OtherObjects ==
  /\ Migrations[1][1].object = "initial"          /\ Migrations[3][1].object = "overrides"
  /\ Migrations[4][1].object = "confidence"       /\ Migrations[4][2].object = "is_dynamic"
  /\ Migrations[4][3].object = "idx_ref_confidence"
  /\ Migrations[5][1].object = "string_literals"
  /\ Migrations[5][2].object = "potential_string_refs"
BY DEF Migrations, Initial, Overrides, Confidence, StringRefs, Create, Add

LEMMA NotColumns ==
  /\ Migrations[2][1].op # "add"  /\ Migrations[2][2].op # "add"  /\ Migrations[2][10].op # "add"
  /\ Migrations[2][11].op # "add" /\ Migrations[2][12].op # "add" /\ Migrations[2][13].op # "add"
  /\ Migrations[2][14].op # "add" /\ Migrations[2][15].op # "add" /\ Migrations[4][3].op # "add"
BY DEF Migrations, Masterplan, Confidence, Create, Add, AddComputed, Copy

LEMMA ColumnsApart ==
  ASSUME NEW m \in {2, 4}, NEW i \in DOMAIN Migrations[m], Migrations[m][i].op = "add",
         NEW v \in 1 .. Current, NEW j \in DOMAIN Migrations[v],
         Migrations[v][j].object = Migrations[m][i].object
  PROVE  v = m /\ j = i
<1>1. \/ m = 2 /\ (i = 3 \/ i = 4 \/ i = 5 \/ i = 6 \/ i = 7 \/ i = 8 \/ i = 9)
      \/ m = 4 /\ (i = 1 \/ i = 2)
  <2>1. CASE m = 2
    <3>1. i \in 1 .. 15
      BY <2>1, Numbers, Lengths
    <3>2. i \notin {1, 2, 10, 11, 12, 13, 14, 15}
      BY <2>1, NotColumns
    <3> QED BY <2>1, <3>1, <3>2
  <2>2. CASE m = 4
    <3>1. i \in 1 .. 3
      BY <2>2, Numbers, Lengths
    <3> QED BY <2>2, <3>1, NotColumns
  <2> QED BY <2>1, <2>2
<1>2. CASE v = 2
  <2>1. j \in 1 .. 15
    BY <1>2, Numbers, Lengths
  <2>2. \/ j = 1 \/ j = 2 \/ j = 3 \/ j = 4 \/ j = 5 \/ j = 6 \/ j = 7 \/ j = 8 \/ j = 9
        \/ j = 10 \/ j = 11 \/ j = 12 \/ j = 13 \/ j = 14 \/ j = 15
    BY <2>1
  <2> QED BY <1>1, <1>2, <2>2, MasterplanObjects, OtherObjects
<1>3. CASE v # 2
  <2>1. j \in 1 .. Len(Migrations[v])
    BY Numbers
  <2>2. \/ v \in {1, 3} /\ j = 1
        \/ v = 4 /\ (j = 1 \/ j = 2 \/ j = 3)
        \/ v = 5 /\ (j = 1 \/ j = 2)
    <3>1. CASE v = 1 \/ v = 3
      BY <2>1, <3>1, Lengths
    <3>2. CASE v = 4
      <4>1. Len(Migrations[v]) = 3
        BY <3>2, Lengths
      <4>2. j = 1 \/ j = 2 \/ j = 3
        BY <2>1, <4>1
      <4> QED BY <3>2, <4>2
    <3>3. CASE v = 5
      <4>1. Len(Migrations[v]) = 2
        BY <3>3, Lengths
      <4>2. j = 1 \/ j = 2
        BY <2>1, <4>1
      <4> QED BY <3>3, <4>2
    <3> QED BY <1>3, <3>1, <3>2, <3>3, Lengths
  <2> QED BY <1>1, <2>2, MasterplanObjects, OtherObjects
<1> QED BY <1>2, <1>3

(* Steps that make no column leave torn only what was torn.                *)
LEMMA TornBefore ==
  ASSUME SchemaTypeOK, NEW m \in {2, 4}, TornBetween(m)', m \notin recorded,
         objects' = objects, NEW o \in Openers, \A q \in Openers \ {o} : at'[q] = at[q],
         Stuck(o, m)
  PROVE  TornBetween(m)
<1>1. \A i : Column(m, i)' <=> Column(m, i)
  BY DEF Column
<1>2. \E i \in DOMAIN Migrations[m] : Column(m, i)
  BY <1>1 DEF TornBetween
<1>3. \A q \in Openers \ {o} : Stuck(q, m)
  BY <1>1 DEF TornBetween, Stuck
<1>4. \A q \in Openers : Stuck(q, m)
  BY <1>3
<1> QED BY <1>2, <1>4 DEF TornBetween, Stuck

(* An opener that makes a column of m and stays at m, as it must if m is   *)
(* torn behind it, has a later column of m before it, which was there.     *)
LEMMA TornBeforeExecute ==
  ASSUME IInv, NEW m \in {2, 4}, NEW o \in Openers, Execute(o), TornBetween(m)'
  PROVE  TornBetween(m)
<1> DEFINE v == at[o].version
           k == at[o].next
<1>1. /\ v \in 1 .. Current /\ k \in 1 .. Len(Migrations[v]) /\ SchemaTypeOK
      /\ at[o].step = "statement" /\ recorded' = recorded /\ m \in 1 .. Current
  BY Lengths DEF Execute, IInv, PlaceInv, AtStatement
<1>2. k \in DOMAIN Migrations[v]
  BY <1>1, Numbers
<1>3. \A q \in Openers \ {o} : at'[q] = at[q]
  BY DEF Execute, Advance, Go, IInv, SchemaTypeOK
<1>4. at'[o].version = v /\ at'[o].step \in {"record", "statement"}
      /\ IF k = Len(Migrations[v]) THEN at'[o].step = "record" ELSE at'[o].next = k + 1
  BY DEF Execute, Advance, Go, IInv, SchemaTypeOK, Place
<1>5. ASSUME NEW i \in DOMAIN Migrations[m], Column(m, i)', ~(v = m /\ i = k)
      PROVE  Column(m, i)
  <2>1. objects' \in {objects, objects \cup {Migrations[v][k].object}}
    BY ExecuteLeavesObject DEF Statement
  <2>2. Migrations[m][i].op = "add" /\ Migrations[m][i].object \in objects'
    BY <1>5 DEF Column
  <2>3. Migrations[v][k].object # Migrations[m][i].object
    BY <1>1, <1>2, <1>5, <2>2, ColumnsApart
  <2> QED BY <2>1, <2>2, <2>3 DEF Column
<1>6. m \notin recorded /\ \A q \in Openers : Stuck(q, m)'
  BY <1>1 DEF TornBetween, Stuck
<1>7. CASE v # m
  <2>1. \E i \in DOMAIN Migrations[m] : Column(m, i)
    BY <1>5, <1>7 DEF TornBetween
  <2>2. \A q \in Openers \ {o} : Stuck(q, m)
    BY <1>3, <1>5, <1>6, <1>7 DEF Stuck
  <2>3. Stuck(o, m)
    BY <1>1, <1>7 DEF Stuck
  <2>4. \A q \in Openers : Stuck(q, m)
    BY <2>2, <2>3
  <2> QED BY <1>6, <2>1, <2>4 DEF TornBetween, Stuck
<1>8. CASE v = m
  <2>1. at'[o].step = "statement" /\ at'[o].next = k + 1
    BY <1>4, <1>6, <1>8 DEF Stuck
  <2>2. PICK i \in DOMAIN Migrations[m] : i >= k + 1 /\ Column(m, i)'
    BY <1>4, <1>6, <1>8, <2>1 DEF Stuck
  <2>3. i \in Nat /\ k \in Nat
    BY <1>1, Numbers
  <2>4. Column(m, i) /\ i > k
    BY <1>5, <2>2, <2>3
  <2>5. Stuck(o, m)
    BY <1>1, <2>3, <2>4 DEF Stuck
  <2>6. ASSUME NEW q \in Openers \ {o} PROVE Stuck(q, m)
    <3> SUFFICES ASSUME at[q].step = "statement", at[q].version = m
                 PROVE  \E n \in DOMAIN Migrations[m] : n >= at[q].next /\ Column(m, n)
      BY <1>3, <1>6 DEF Stuck
    <3>1. PICK n \in DOMAIN Migrations[m] : n >= at[q].next /\ Column(m, n)'
      BY <1>3, <1>6 DEF Stuck
    <3>2. n \in Nat /\ at[q].next \in Nat
      BY <1>1, Numbers DEF SchemaTypeOK, Place
    <3>3. CASE n = k
      BY <2>3, <2>4, <3>1, <3>2, <3>3
    <3>4. CASE n # k
      BY <1>5, <3>1, <3>4
    <3> QED BY <3>3, <3>4
  <2>7. \A q \in Openers : Stuck(q, m)
    BY <2>5, <2>6
  <2> QED BY <1>6, <2>4, <2>7 DEF TornBetween, Stuck
<1> QED BY <1>7, <1>8

(* A kill, or the refusal of the computed column.                          *)
Cause == \E o \in Openers : Kill(o) \/ (Refuse(o) /\ Statement(o).op = "add computed")

LEMMA NotTornWithoutCause ==
  ASSUME IInv, NEW m \in {2, 4}, Next, ~Cause, TornBetween(m)'
  PROVE  TornBetween(m)
<1>1. SchemaTypeOK /\ m \in 1 .. Current
  BY Lengths DEF IInv
<1>2. ASSUME NEW o \in Openers, Open(o) \/ Close(o) PROVE TornBetween(m)
  <2>1. /\ objects' = objects /\ recorded' = recorded
        /\ at[o].step \notin {"statement", "record"}
    BY <1>2 DEF Open, Close
  <2>2. \A q \in Openers \ {o} : at'[q] = at[q]
    BY <1>1, <1>2 DEF Open, Close, GoOn, Go, SchemaTypeOK
  <2>3. Stuck(o, m) /\ m \notin recorded
    BY <2>1 DEF Stuck, TornBetween
  <2> QED BY <1>1, <2>1, <2>2, <2>3, TornBefore
<1>3. ASSUME NEW o \in Openers, Refuse(o) PROVE TornBetween(m)
  <2>1. /\ objects' = objects /\ recorded' = recorded /\ at[o].step = "statement"
        /\ ~Accepted(Statement(o)) /\ Statement(o).op # "add computed"
    BY <1>3 DEF Refuse, Cause
  <2>2. \A q \in Openers \ {o} : at'[q] = at[q]
    BY <1>1, <1>3 DEF Refuse, Go, SchemaTypeOK
  <2>3. at[o].version = m => Column(m, at[o].next)
    BY <2>1 DEF Accepted, Column, Statement
  <2>4. at[o].version = m => at[o].next \in DOMAIN Migrations[m] /\ at[o].next \in Nat
    <3>1. at[o].version \in 1 .. Current /\ at[o].next \in 1 .. Len(Migrations[at[o].version])
      BY <2>1 DEF IInv, PlaceInv, AtStatement
    <3>2. DOMAIN Migrations[at[o].version] = 1 .. Len(Migrations[at[o].version])
      BY <3>1, Numbers
    <3> QED BY <3>1, <3>2
  <2>5. Stuck(o, m) /\ m \notin recorded
    <3>1. at[o].version = m => \E i \in DOMAIN Migrations[m] : i >= at[o].next /\ Column(m, i)
      BY <2>3, <2>4
    <3> QED BY <2>1, <3>1 DEF Stuck, TornBetween
  <2> QED BY <1>1, <2>1, <2>2, <2>5, TornBefore
<1>4. ASSUME NEW o \in Openers, Record(o) PROVE TornBetween(m)
  <2>1. /\ objects' = objects /\ recorded' = recorded \cup {at[o].version}
        /\ at[o].step = "record"
    BY <1>4 DEF Record
  <2>2. \A q \in Openers \ {o} : at'[q] = at[q]
    BY <1>1, <1>4 DEF Record, GoOn, Go, SchemaTypeOK
  <2>3. Stuck(o, m) /\ m \notin recorded
    BY <2>1 DEF Stuck, TornBetween
  <2> QED BY <1>1, <2>1, <2>2, <2>3, TornBefore
<1>5. ASSUME NEW o \in Openers, Execute(o) PROVE TornBetween(m)
  BY <1>5, TornBeforeExecute
<1> QED BY <1>2, <1>3, <1>4, <1>5 DEF Next, Step, Cause

(* Overlapping opens alone never tear a database: it takes a kill within a *)
(* migration, or symbols in the way of the computed column.                *)
THEOREM TornHasCauseHolds == Spec => TornHasCause
<1>1. IInv /\ [Next]_vars => [~Torn /\ Torn' => Cause]_vars
  BY NotTornWithoutCause DEF Torn
<1> QED BY <1>1, Invariant, PTL DEF Spec, TornHasCause, Cause
=============================================================================
