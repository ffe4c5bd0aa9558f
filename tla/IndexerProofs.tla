---------------------------- MODULE IndexerProofs ---------------------------
(***************************************************************************)
(* Proofs about module Indexer, for any number of files, workers and       *)
(* versions, with and without faults.                                      *)
(***************************************************************************)
EXTENDS Indexer, TLAPS

(* What a pass that has not skipped its file has read is a file: its       *)
(* version is not the 0 of a missing one, so it stores a hash, and rows.   *)
ReadInv == \A w \in Workers : pass[w].at # "idle" /\ ~Removing(w) => pass[w].version # 0

IInv == TypeOK /\ ReadInv /\ RowsHaveHash

LEMMA IInvInit == Init => IInv
<1> SUFFICES ASSUME Init PROVE IInv
  OBVIOUS
<1> USE IndexerAssumption DEF Init
<1>1. /\ disk \in [Files -> Version] /\ newest \in [Files -> Version] /\ gone \subseteq Files
      /\ fileHash \in [Files -> Version] /\ checksum \in [Files -> Version]
  BY DEF Version
<1>2. rows \in [Files -> [Row -> Nat]]
  OBVIOUS
<1>3. \A f \in Files, v \in 1 .. MaxVersion : rows[f][<<"reference", v>>] = 0
  BY DEF Row, Kind
<1>4. pass \in [Workers -> Pass]
  BY DEF Pass, At, Version
<1>5. touched \in [Workers -> BOOLEAN] /\ suspect \in [Files -> BOOLEAN]
  OBVIOUS
<1>6. TypeOK
  BY <1>1, <1>2, <1>3, <1>4, <1>5 DEF TypeOK
<1>7. \A w \in Workers : pass[w].at = "idle"
  OBVIOUS
<1>8. RowsHaveHash
  BY DEF RowsHaveHash
<1> QED BY <1>6, <1>7, <1>8 DEF IInv, ReadInv
-----------------------------------------------------------------------------
(* What the steps of a pass have in common: it moves on, and tells the     *)
(* others that it writes.                                                  *)
LEMMA GoesType ==
  ASSUME TypeOK, ReadInv, NEW w \in Workers, NEW from \in At, NEW to \in At,
         Goes(w, from, to)
  PROVE  /\ pass' \in [Workers -> Pass]
         /\ (to = "idle" \/ (from # "idle" /\ ~Removing(w)) \/ Removing(w)') => ReadInv'
<1>1. pass' \in [Workers -> Pass]
  BY DEF Goes, TypeOK, Pass
<1>2. \A x \in Workers : pass'[x] = IF x = w THEN [pass[x] EXCEPT !.at = to] ELSE pass[x]
  BY DEF Goes, TypeOK
<1>3. /\ pass[w].at = from /\ pass'[w].at = to /\ pass'[w].version = pass[w].version
      /\ \A x \in Workers \ {w} : pass'[x] = pass[x]
  BY <1>2 DEF Goes, TypeOK, Pass
<1> QED BY <1>1, <1>3 DEF ReadInv, Removing

LEMMA TouchType ==
  ASSUME NEW w \in Workers, Touch(w), TypeOK PROVE touched' \in [Workers -> BOOLEAN]
<1>1. \A x \in Workers : (touched[x] \/ x \in Others(w, pass[w].file)) \in BOOLEAN
  OBVIOUS
<1> QED BY <1>1 DEF Touch

(* Emptying tables of a file keeps the types, and leaves fewer rows.       *)
LEMMA WithoutType ==
  ASSUME TypeOK, NEW f \in Files, NEW kinds \in SUBSET Kind, rows' = Without(f, kinds)
  PROVE  /\ rows' \in [Files -> [Row -> Nat]]
         /\ \A g \in Files, r \in Row : rows'[g][r] = rows[g][r] \/ rows'[g][r] = 0
         /\ \A r \in Row : r[1] \in kinds => rows'[f][r] = 0
<1>1. [r \in Row |-> IF r[1] \in kinds THEN 0 ELSE rows[f][r]] \in [Row -> Nat]
  BY DEF TypeOK
<1>2. \A g \in Files : rows'[g] = IF g = f THEN [r \in Row |-> IF r[1] \in kinds THEN 0 ELSE rows[f][r]]
                                          ELSE rows[g]
  BY DEF TypeOK, Without
<1> QED BY <1>1, <1>2 DEF TypeOK, Without

LEMMA ReferencesStayUnique ==
  ASSUME TypeOK, \A g \in Files, r \in Row : rows'[g][r] = rows[g][r] \/ rows'[g][r] = 0
  PROVE  \A g \in Files, v \in 1 .. MaxVersion : rows'[g][<<"reference", v>>] \in {0, 1}
<1> SUFFICES ASSUME NEW g \in Files, NEW v \in 1 .. MaxVersion
             PROVE  rows'[g][<<"reference", v>>] \in {0, 1}
  OBVIOUS
<1>1. <<"reference", v>> \in Row
  BY DEF Row, Kind
<1>2. rows[g][<<"reference", v>>] \in {0, 1}
  BY DEF TypeOK
<1>3. rows'[g][<<"reference", v>>] = rows[g][<<"reference", v>>] \/ rows'[g][<<"reference", v>>] = 0
  BY <1>1
<1> QED BY <1>2, <1>3

(* The two ways the rows change, and what they do to the invariant.        *)
LEMMA DeleteRowsStep ==
  ASSUME IInv, NEW w \in Workers, NEW k \in Kind, NEW from \in At, NEW to \in At,
         (from # "idle" /\ ~Removing(w)) \/ to \in {"remove symbol", "remove hash"},
         DeleteRows(w, k, from, to)
  PROVE  IInv'
<1> DEFINE f == pass[w].file
<1> USE DEF IInv
<1>1. f \in Files
  BY DEF TypeOK, Pass
<1>2. /\ rows' \in [Files -> [Row -> Nat]]
      /\ \A g \in Files, r \in Row : rows'[g][r] = rows[g][r] \/ rows'[g][r] = 0
  BY <1>1, WithoutType DEF DeleteRows
<1>3. \A g \in Files, v \in 1 .. MaxVersion : rows'[g][<<"reference", v>>] \in {0, 1}
  BY <1>2, ReferencesStayUnique
<1>4. touched' \in [Workers -> BOOLEAN]
  BY TouchType DEF DeleteRows
<1>5. pass' \in [Workers -> Pass]
  BY GoesType DEF DeleteRows
<1>6. to = "idle" \/ (from # "idle" /\ ~Removing(w)) \/ Removing(w)'
  <2>1. pass'[w].at = to
    BY DEF DeleteRows, Goes, TypeOK, Pass
  <2> QED BY <2>1 DEF Removing, DeleteRows, Goes
<1>7. ReadInv'
  BY <1>6, GoesType DEF DeleteRows
<1>8. TypeOK'
  BY <1>2, <1>3, <1>4, <1>5 DEF DeleteRows, files, TypeOK
<1>9. RowsHaveHash'
  BY <1>2 DEF RowsHaveHash, DeleteRows
<1> QED BY <1>7, <1>8, <1>9

LEMMA ContentVersion == \A v \in Version : v # 0 => v \in 1 .. MaxVersion
  BY IndexerAssumption DEF Version

LEMMA NewCount ==
  ASSUME NEW k, NEW c \in Nat PROVE (IF k = "reference" THEN 1 ELSE c + 1) \in Nat
  OBVIOUS

LEMMA InsertRowStep ==
  ASSUME IInv, suspect' \in [Files -> BOOLEAN],
         NEW w \in Workers, NEW k \in Kind, NEW from \in At, NEW to \in At,
         from \in {"insert symbol", "insert reference", "insert literal"},
         InsertRow(w, k, from, to)
  PROVE  IInv'
<1> DEFINE p == pass[w]
           n == IF k = "reference" THEN 1 ELSE rows[p.file][<<k, p.version>>] + 1
<1> USE DEF IInv
<1>1. p.file \in Files /\ p.at = from /\ p.version \in Version
  BY DEF TypeOK, Pass, InsertRow, Goes
<1>2. p.version \in 1 .. MaxVersion
  <2>1. p.at # "idle" /\ ~Removing(w)
    BY <1>1 DEF Removing
  <2>2. p.version # 0
    BY <2>1 DEF ReadInv
  <2> QED BY <1>1, <2>2, ContentVersion
<1>3. <<k, p.version>> \in Row
  BY <1>2 DEF Row
<1>4. n \in Nat
  <2>1. rows[p.file][<<k, p.version>>] \in Nat
    BY <1>1, <1>3 DEF TypeOK
  <2> QED BY <2>1, NewCount
<1>5. /\ rows' \in [Files -> [Row -> Nat]]
      /\ \A g \in Files, r \in Row :
           rows'[g][r] = IF g = p.file /\ r = <<k, p.version>> THEN n ELSE rows[g][r]
  <2>1. rows' = [rows EXCEPT ![p.file] = [rows[p.file] EXCEPT ![<<k, p.version>>] = n]]
    BY <1>1, <1>3 DEF InsertRow, TypeOK
  <2> HIDE DEF n
  <2> QED BY <1>1, <1>3, <1>4, <2>1 DEF TypeOK
<1>6. \A g \in Files, v \in 1 .. MaxVersion : rows'[g][<<"reference", v>>] \in {0, 1}
  <2> SUFFICES ASSUME NEW g \in Files, NEW v \in 1 .. MaxVersion
               PROVE  rows'[g][<<"reference", v>>] \in {0, 1}
    OBVIOUS
  <2>1. <<"reference", v>> \in Row
    BY DEF Row, Kind
  <2>2. CASE g = p.file /\ <<"reference", v>> = <<k, p.version>>
    <3>1. k = "reference" /\ n = 1
      BY <2>2
    <3>2. rows'[g][<<"reference", v>>] = n
      BY <2>1, <2>2, <1>5
    <3> HIDE DEF n
    <3> QED BY <3>1, <3>2
  <2>3. CASE ~(g = p.file /\ <<"reference", v>> = <<k, p.version>>)
    BY <2>1, <2>3, <1>5 DEF TypeOK
  <2> QED BY <2>2, <2>3
<1>7. pass' \in [Workers -> Pass] /\ ReadInv'
  BY <1>1, GoesType DEF InsertRow, Removing
<1>8. touched' \in [Workers -> BOOLEAN]
  BY TouchType DEF InsertRow
<1>9. TypeOK'
  BY <1>5, <1>6, <1>7, <1>8 DEF InsertRow, files, TypeOK
<1>10. RowsHaveHash'
  <2>1. fileHash[p.file] # 0 /\ fileHash' = fileHash
    BY DEF InsertRow
  <2> QED BY <1>5, <2>1 DEF RowsHaveHash
<1> QED BY <1>7, <1>9, <1>10
-----------------------------------------------------------------------------
(* Every step keeps the invariant.                                         *)
LEMMA BeginType ==
  ASSUME IInv, NEW w \in Workers, NEW f \in Files, NEW at \in At, NEW v \in Version,
         Begin(w, f, at, v), v # 0 \/ at = "remove reference"
  PROVE  /\ pass' \in [Workers -> Pass] /\ ReadInv'
         /\ touched' \in [Workers -> BOOLEAN] /\ suspect' \in [Files -> BOOLEAN]
<1> USE DEF IInv
<1>1. pass' \in [Workers -> Pass]
  BY DEF Begin, TypeOK, Pass
<1>2. /\ pass'[w].at = at /\ pass'[w].version = v
      /\ \A x \in Workers \ {w} : pass'[x] = pass[x]
  BY DEF Begin, TypeOK
<1>3. ReadInv'
  BY <1>2 DEF ReadInv, Removing
<1>4. touched' \in [Workers -> BOOLEAN]
  BY DEF Begin, TypeOK
<1>5. (suspect[f] \/ \E x \in Others(w, f) : at # "compare" \/ Removing(x)
                                              \/ pass[x].version # v) \in BOOLEAN
  OBVIOUS
<1>6. suspect' \in [Files -> BOOLEAN]
  BY <1>5 DEF Begin, TypeOK
<1> QED BY <1>1, <1>3, <1>4, <1>6

LEMMA IInvStep == IInv /\ [Next]_indexerVars => IInv'
<1> SUFFICES ASSUME IInv, [Next]_indexerVars PROVE IInv'
  OBVIOUS
<1> USE IndexerAssumption DEF IInv, files, tables
<1>1. ASSUME NEW f \in Files, Edit(f) PROVE IInv'
  <2>1. newest[f] + 1 \in Version
    BY <1>1 DEF Edit, TypeOK, Version
  <2>2. disk' \in [Files -> Version] /\ newest' \in [Files -> Version]
    BY <1>1, <2>1 DEF Edit, TypeOK
  <2> QED BY <1>1, <2>2 DEF Edit, TypeOK, ReadInv, Removing, RowsHaveHash
<1>2. ASSUME NEW f \in Files, Delete(f) PROVE IInv'
  <2>1. disk' \in [Files -> Version] /\ gone' \subseteq Files
    BY <1>2 DEF Delete, TypeOK, Version
  <2> QED BY <1>2, <2>1 DEF Delete, TypeOK, ReadInv, Removing, RowsHaveHash
<1>3. ASSUME NEW w \in Workers, NEW f \in Files, Read(w, f) PROVE IInv'
  <2>1. disk[f] \in Version /\ "compare" \in At
    BY DEF TypeOK, At
  <2>2. /\ pass' \in [Workers -> Pass] /\ ReadInv'
        /\ touched' \in [Workers -> BOOLEAN] /\ suspect' \in [Files -> BOOLEAN]
    BY <1>3, <2>1, BeginType DEF Read
  <2> QED BY <1>3, <2>2 DEF Read, TypeOK, RowsHaveHash
<1>4. ASSUME NEW w \in Workers, NEW f \in Files, StartRemoval(w, f) PROVE IInv'
  <2>1. 0 \in Version /\ "remove reference" \in At
    BY DEF Version, At
  <2>2. /\ pass' \in [Workers -> Pass] /\ ReadInv'
        /\ touched' \in [Workers -> BOOLEAN] /\ suspect' \in [Files -> BOOLEAN]
    BY <1>4, <2>1, BeginType DEF StartRemoval
  <2> QED BY <1>4, <2>2 DEF StartRemoval, TypeOK, RowsHaveHash
<1>5. ASSUME NEW w \in Workers, Skip(w) \/ Differs(w) \/ Parse(w) PROVE IInv'
  <2>1. /\ "compare" \in At /\ "idle" \in At /\ "hash" \in At /\ "parse" \in At
        /\ "insert symbol" \in At
    BY DEF At
  <2>2. pass' \in [Workers -> Pass] /\ ReadInv'
    BY <1>5, <2>1, GoesType DEF Skip, Differs, Parse, Goes, Removing
  <2> QED BY <1>5, <2>2 DEF Skip, Differs, Parse, TypeOK, RowsHaveHash
<1>6. ASSUME NEW w \in Workers, StoreHash(w) \/ StoreChecksum(w) PROVE IInv'
  <2>1. pass[w].file \in Files /\ pass[w].version \in Version
    BY DEF TypeOK, Pass
  <2>2. pass[w].version # 0
    BY <1>6 DEF StoreHash, StoreChecksum, Goes, ReadInv, Removing
  <2>3. "hash" \in At /\ "checksum" \in At /\ "delete symbol" \in At
    BY DEF At
  <2>4. pass' \in [Workers -> Pass] /\ ReadInv'
    BY <1>6, <2>3, GoesType DEF StoreHash, StoreChecksum, Goes, Removing
  <2>5. touched' \in [Workers -> BOOLEAN]
    BY <1>6, TouchType DEF StoreHash, StoreChecksum
  <2>6. TypeOK'
    BY <1>6, <2>1, <2>4, <2>5 DEF StoreHash, StoreChecksum, TypeOK
  <2>7. RowsHaveHash'
    BY <1>6, <2>1, <2>2 DEF StoreHash, StoreChecksum, TypeOK, RowsHaveHash
  <2> QED BY <2>4, <2>6, <2>7
<1>7. ASSUME NEW w \in Workers, RemoveFileSymbols(w) PROVE IInv'
  <2>1. /\ {"delete symbol", "delete reference", "delete literal", "parse"} \subseteq At
        /\ {"symbol", "reference", "literal"} \subseteq Kind
    BY DEF At, Kind
  <2>2. ~Removing(w)
    BY <1>7 DEF RemoveFileSymbols, DeleteRows, Goes, Removing
  <2> QED BY <1>7, <2>1, <2>2, DeleteRowsStep DEF RemoveFileSymbols
<1>8. ASSUME NEW w \in Workers, Insert(w) \/ Finish(w) PROVE IInv'
  <2>1. /\ {"insert symbol", "insert reference", "insert literal", "idle"} \subseteq At
        /\ {"symbol", "reference", "literal"} \subseteq Kind
    BY DEF At, Kind
  <2>2. pass[w].file \in Files
    BY DEF TypeOK, Pass
  <2>3. (suspect[pass[w].file] /\ (touched[w] \/ Others(w, pass[w].file) # {})) \in BOOLEAN
    OBVIOUS
  <2>4. suspect' \in [Files -> BOOLEAN]
    BY <1>8, <2>2, <2>3 DEF Insert, Finish, TypeOK
  <2> QED BY <1>8, <2>1, <2>4, InsertRowStep DEF Insert, Finish
<1>9. ASSUME NEW w \in Workers, RemoveFile(w) PROVE IInv'
  <2>1. /\ {"remove reference", "remove symbol", "remove hash", "idle"} \subseteq At
        /\ {"symbol", "reference"} \subseteq Kind
    BY DEF At, Kind
  <2>2. CASE DeleteRows(w, "reference", "remove reference", "remove symbol")
             \/ DeleteRows(w, "symbol", "remove symbol", "remove hash")
    BY <2>1, <2>2, DeleteRowsStep
  <2>3. CASE RemoveHash(w)
    <3> DEFINE f == pass[w].file
    <3>1. f \in Files
      BY DEF TypeOK, Pass
    <3>2. /\ rows' \in [Files -> [Row -> Nat]]
          /\ \A g \in Files, r \in Row : rows'[g][r] = rows[g][r] \/ rows'[g][r] = 0
          /\ \A r \in Row : rows'[f][r] = 0
      BY <2>3, <3>1, WithoutType DEF RemoveHash, Row
    <3>3. \A g \in Files, v \in 1 .. MaxVersion : rows'[g][<<"reference", v>>] \in {0, 1}
      BY <3>2, ReferencesStayUnique
    <3>4. /\ fileHash' \in [Files -> Version]
          /\ \A g \in Files : g # f => fileHash'[g] = fileHash[g]
      <4>1. fileHash' = [fileHash EXCEPT ![f] = 0]
        BY <2>3 DEF RemoveHash
      <4>2. 0 \in Version
        BY DEF Version
      <4> QED BY <4>1, <4>2, <3>1 DEF TypeOK
    <3>5. pass' \in [Workers -> Pass] /\ ReadInv'
      BY <2>1, <2>3, GoesType DEF RemoveHash
    <3>6. touched' \in [Workers -> BOOLEAN]
      BY <2>3, TouchType DEF RemoveHash
    <3>7. TypeOK'
      BY <2>3, <3>2, <3>3, <3>4, <3>5, <3>6 DEF RemoveHash, TypeOK
    <3>8. RowsHaveHash'
      BY <3>2, <3>4 DEF RowsHaveHash
    <3> QED BY <3>5, <3>7, <3>8
  <2> QED BY <1>9, <2>2, <2>3 DEF RemoveFile
<1>10. ASSUME NEW w \in Workers, Stop(w) PROVE IInv'
  <2>1. pass' \in [Workers -> Pass]
    BY <1>10 DEF Stop, TypeOK, Pass, At
  <2>2. pass'[w].at = "idle" /\ \A x \in Workers \ {w} : pass'[x] = pass[x]
    <3>1. pass' = [pass EXCEPT ![w].at = "idle"] /\ pass \in [Workers -> Pass]
      BY <1>10 DEF Stop, TypeOK
    <3> QED BY <3>1 DEF Pass
  <2>3. ReadInv'
    BY <2>2 DEF ReadInv, Removing
  <2>4. (suspect[pass[w].file] \/ pass[w].at \notin {"compare", "hash", "remove reference"})
          \in BOOLEAN
    OBVIOUS
  <2>5. suspect' \in [Files -> BOOLEAN]
    BY <1>10, <2>4 DEF Stop, TypeOK
  <2> QED BY <1>10, <2>1, <2>3, <2>5 DEF Stop, TypeOK, RowsHaveHash
<1>11. CASE UNCHANGED indexerVars
  BY <1>11 DEF indexerVars, TypeOK, ReadInv, Removing, RowsHaveHash
<1> QED
  BY <1>1, <1>2, <1>3, <1>4, <1>5, <1>6, <1>7, <1>8, <1>9, <1>10, <1>11 DEF Next, Work, Progress

LEMMA Invariant == Spec => []IInv
  BY IInvInit, IInvStep, PTL DEF Spec

(* The types hold of every reachable state, and no worker ever stores a    *)
(* reference that has a caller twice (INSERT OR IGNORE, insert_reference). *)
THEOREM TypeCorrect == Spec => []TypeOK
  BY Invariant, PTL DEF IInv

(* However passes, removals and failures interleave, no symbol, reference  *)
(* or literal is left behind without the hash its file is found by.        *)
THEOREM NoOrphanRows == Spec => []RowsHaveHash
  BY Invariant, PTL DEF IInv
-----------------------------------------------------------------------------
(* What a pass leaves behind it.  Where a pass is that has yet to delete   *)
(* the rows of kind k, and where one is that has yet to insert its own.    *)
ToDelete(k) == {"checksum", "delete symbol"}
               \cup (IF k = "symbol" THEN {} ELSE {"delete reference"})
               \cup (IF k = "literal" THEN {"delete literal"} ELSE {})
ToInsert(k) == {"checksum", "delete symbol", "delete reference", "delete literal", "parse",
                "insert symbol"}
               \cup (IF k = "symbol" THEN {} ELSE {"insert reference"})
               \cup (IF k = "literal" THEN {"insert literal"} ELSE {})

(* A pass that has stored its hash.                                        *)
Past(w) == pass[w].at \notin {"idle", "compare", "hash"} /\ ~Removing(w)

(* If no one else wrote to the file since it began, the tables are as the  *)
(* steps of the pass have left them.                                       *)
Alone(w) ==
  LET f == pass[w].file
      v == pass[w].version
      at == pass[w].at
  IN  Past(w) /\ ~touched[w] =>
        /\ fileHash[f] = v
        /\ at # "checksum" => checksum[f] = v
        /\ \A r \in Row : at \notin ToDelete(r[1]) =>
             rows[f][r] = IF r[2] = v /\ at \notin ToInsert(r[1]) THEN 1 ELSE 0

(* Passes over a file that is not suspect are over one content, that of    *)
(* the hash once it is stored, and no removal is at it with them.          *)
Agree(f) == /\ \A w, x \in Workers : w # x /\ Active(w, f) /\ Active(x, f) =>
                  ~Removing(w) /\ pass[w].version = pass[x].version
            /\ \A w \in Workers : Active(w, f) /\ Past(w) => fileHash[f] = pass[w].version

Removed(f) == \E w \in Workers : Active(w, f) /\ pass[w].at \in {"remove symbol", "remove hash"}

(* Each row of the hash is there, or will be inserted, and each other row  *)
(* is not there, or will be deleted.                                       *)
Coming(f, k) == \E w \in Workers : Active(w, f) /\ pass[w].at \in ToInsert(k)
Going(f, k)  == \E w \in Workers : Active(w, f) /\ pass[w].at \in ToDelete(k)
Served(f) == \A r \in Row : /\ r[2] = fileHash[f] => rows[f][r] > 0 \/ Coming(f, r[1])
                            /\ r[2] # fileHash[f] => rows[f][r] = 0 \/ Going(f, r[1])

Settled(f) == ~suspect[f] => /\ Agree(f)
                             /\ fileHash[f] # 0 /\ ~Removed(f) => Served(f)

PassInv == /\ \A w \in Workers : Alone(w)
           /\ \A f \in Files : Settled(f)

LEMMA PassInvInit == Init => PassInv
<1> SUFFICES ASSUME Init PROVE PassInv
  OBVIOUS
<1>1. \A w \in Workers : pass[w].at = "idle"
  BY DEF Init
<1>2. \A f \in Files : fileHash[f] = 0
  BY DEF Init
<1> QED BY <1>1, <1>2 DEF PassInv, Alone, Past, Settled, Agree, Active

(* The worker of a step, and the others.                                   *)
LEMMA GoesFacts ==
  ASSUME TypeOK, NEW w \in Workers, NEW from, NEW to, Goes(w, from, to)
  PROVE  /\ pass[w].at = from /\ pass'[w].at = to
         /\ pass'[w].file = pass[w].file /\ pass'[w].version = pass[w].version
         /\ pass[w].file \in Files /\ pass[w].version \in Version
         /\ \A x \in Workers \ {w} : pass'[x] = pass[x]
<1>1. pass \in [Workers -> Pass]
  BY DEF TypeOK
<1> QED BY <1>1 DEF Goes, Pass

LEMMA RowFacts == \A r \in Row : r[1] \in Kind /\ r[2] \in 1 .. MaxVersion /\ r = <<r[1], r[2]>>
BY DEF Row

LEMMA RowsAreNat ==
  ASSUME TypeOK, NEW f \in Files, NEW r \in Row PROVE rows[f][r] \in Nat
BY DEF TypeOK

(* A worker that writes disturbs those at its file, and those alone.       *)
LEMMA AloneOthers ==
  ASSUME TypeOK, NEW w \in Workers, NEW x \in Workers \ {w}, Alone(x), Touch(w),
         pass'[x] = pass[x],
         \A g \in Files \ {pass[w].file} : /\ fileHash'[g] = fileHash[g]
                                           /\ checksum'[g] = checksum[g]
                                           /\ rows'[g] = rows[g]
  PROVE  Alone(x)'
<1> SUFFICES ASSUME Past(x), ~touched'[x] PROVE Alone(x)'
  BY DEF Alone, Past, Removing
<1>1. touched'[x] = (touched[x] \/ x \in Others(w, pass[w].file))
  BY DEF Touch
<1>2. ~touched[x] /\ pass[x].file # pass[w].file
  BY <1>1 DEF Past, Others, Active
<1>3. pass[x].file \in Files \ {pass[w].file}
  BY <1>2 DEF TypeOK, Pass
<1> DEFINE g == pass[x].file
<1>4. fileHash'[g] = fileHash[g] /\ checksum'[g] = checksum[g] /\ rows'[g] = rows[g]
  BY <1>3
<1> QED BY <1>2, <1>4 DEF Alone, Past, Removing

LEMMA AloneStill ==
  ASSUME NEW x \in Workers, Alone(x), touched'[x] = touched[x], pass'[x] = pass[x],
         UNCHANGED tables
  PROVE  Alone(x)'
BY DEF Alone, Past, Removing, tables

(* A file at which nothing happens.                                        *)
LEMMA SettledElsewhere ==
  ASSUME NEW g \in Files, Settled(g),
         fileHash'[g] = fileHash[g], rows'[g] = rows[g], suspect'[g] = suspect[g],
         \A x \in Workers : pass'[x] = pass[x] \/ (~Active(x, g) /\ ~Active(x, g)')
  PROVE  Settled(g)'
<1>1. \A x \in Workers : Active(x, g)' = Active(x, g) /\ (Active(x, g) => pass'[x] = pass[x])
  BY DEF Active
<1>2. Agree(g) => Agree(g)'
  BY <1>1 DEF Agree, Past, Removing
<1>3. Removed(g)' = Removed(g)
  BY <1>1 DEF Removed, Removing
<1>4. \A k \in Kind : Coming(g, k)' = Coming(g, k) /\ Going(g, k)' = Going(g, k)
  BY <1>1 DEF Coming, Going
<1>5. Served(g) => Served(g)'
  BY <1>4, RowFacts DEF Served
<1> QED BY <1>2, <1>3, <1>5 DEF Settled

(* The worker w goes on at f, and leaves the hash as it is.                *)
LEMMA AgreeMoves ==
  ASSUME NEW f \in Files, NEW w \in Workers, Agree(f), Active(w, f),
         \A x \in Workers \ {w} : pass'[x] = pass[x],
         pass'[w].file = f, pass'[w].version = pass[w].version, fileHash'[f] = fileHash[f],
         Removing(w)' => Removing(w),
         Past(w)' => fileHash[f] = pass[w].version
  PROVE  Agree(f)'
<1>1. \A x \in Workers : /\ Active(x, f)' => Active(x, f)
                         /\ Removing(x)' => Removing(x)
                         /\ pass'[x].version = pass[x].version
  BY DEF Active, Removing
<1>2. \A x \in Workers \ {w} : Past(x)' = Past(x)
  BY DEF Past, Removing
<1> QED BY <1>1, <1>2 DEF Agree

LEMMA ServedMoves ==
  ASSUME NEW f \in Files, NEW w \in Workers, Served(f), Active(w, f),
         \A x \in Workers \ {w} : pass'[x] = pass[x],
         pass'[w].file = f, fileHash'[f] = fileHash[f],
         \A r \in Row :
           /\ r[2] = fileHash[f] => \/ rows'[f][r] > 0 \/ pass'[w].at \in ToInsert(r[1])
                                   \/ /\ rows'[f][r] = rows[f][r]
                                      /\ pass[w].at \in ToInsert(r[1]) => pass'[w].at \in ToInsert(r[1])
           /\ r[2] # fileHash[f] => \/ rows'[f][r] = 0
                                   \/ /\ rows'[f][r] = rows[f][r]
                                      /\ pass[w].at \in ToDelete(r[1]) => pass'[w].at \in ToDelete(r[1])
  PROVE  Served(f)'
<1>1. ASSUME NEW k, pass'[w].at \in ToInsert(k) PROVE Coming(f, k)'
  BY <1>1 DEF Coming, Active, ToInsert
<1>2. ASSUME NEW k, pass'[w].at \in ToDelete(k) PROVE Going(f, k)'
  BY <1>2 DEF Going, Active, ToDelete
<1>3. ASSUME NEW k, pass[w].at \in ToInsert(k) => pass'[w].at \in ToInsert(k), Coming(f, k)
      PROVE  Coming(f, k)'
  BY <1>1, <1>3 DEF Coming, Active
<1>4. ASSUME NEW k, pass[w].at \in ToDelete(k) => pass'[w].at \in ToDelete(k), Going(f, k)
      PROVE  Going(f, k)'
  BY <1>2, <1>4 DEF Going, Active
<1>5. ASSUME NEW r \in Row
      PROVE  /\ r[2] = fileHash'[f] => rows'[f][r] > 0 \/ Coming(f, r[1])'
             /\ r[2] # fileHash'[f] => rows'[f][r] = 0 \/ Going(f, r[1])'
  BY <1>1, <1>3, <1>4 DEF Served
<1> QED BY <1>5 DEF Served

(* A step of w is judged by what it does at the file of w.                 *)
LEMMA PassMoves ==
  ASSUME IInv, PassInv, NEW w \in Workers, NEW f \in Files,
         pass[w].at # "idle" => pass[w].file = f,
         pass'[w].file = f,
         \A x \in Workers \ {w} : pass'[x] = pass[x],
         \A g \in Files \ {f} : /\ fileHash'[g] = fileHash[g]
                                /\ checksum'[g] = checksum[g]
                                /\ rows'[g] = rows[g]
                                /\ suspect'[g] = suspect[g],
         \/ Touch(w) /\ pass[w].file = f
         \/ UNCHANGED tables /\ \A x \in Workers \ {w} : touched'[x] = touched[x],
         Alone(w)', Settled(f)'
  PROVE  PassInv'
<1>1. ASSUME NEW x \in Workers \ {w} PROVE Alone(x)'
  BY <1>1, AloneOthers, AloneStill DEF PassInv, IInv
<1>2. ASSUME NEW g \in Files \ {f} PROVE Settled(g)'
  <2>1. ~Active(w, g) /\ ~Active(w, g)'
    BY <1>2 DEF Active
  <2> QED BY <1>2, <2>1, SettledElsewhere DEF PassInv
<1> QED BY <1>1, <1>2 DEF PassInv

(* Steps between two places that write nothing.                            *)
LEMMA PassQuiet ==
  ASSUME IInv, PassInv, NEW w \in Workers, NEW from \in At \ {"idle"}, NEW to \in At,
         Goes(w, from, to), UNCHANGED <<tables, touched, suspect>>,
         \/ from \in {"compare", "hash"} /\ to \in {"idle", "hash"}
         \/ from = "parse" /\ to = "insert symbol"
  PROVE  PassInv'
<1>0. PICK f \in Files : f = pass[w].file
  BY GoesFacts DEF IInv
<1>1. /\ f = pass[w].file /\ pass[w].at = from /\ pass'[w].at = to /\ f \in Files
      /\ pass'[w].file = f /\ pass'[w].version = pass[w].version
      /\ \A x \in Workers \ {w} : pass'[x] = pass[x]
  BY <1>0, GoesFacts DEF IInv
<1>2. Active(w, f) /\ ~Removing(w) /\ ~Removing(w)'
  BY <1>1 DEF Active, Removing
<1>3. Past(w)' => Past(w) /\ from = "parse"
  BY <1>1 DEF Past, Removing
<1>4. \A k : (from \in ToInsert(k) => to \in ToInsert(k)) /\ (from \in ToDelete(k) => to \in ToDelete(k))
             /\ (from = "parse" => (to \in ToInsert(k) => from \in ToInsert(k))
                                   /\ (to \in ToDelete(k) => from \in ToDelete(k)))
  BY DEF ToInsert, ToDelete
<1>5. Alone(w)'
  BY <1>1, <1>3, <1>4 DEF PassInv, Alone, tables
<1>6. Settled(f)'
  <2> SUFFICES ASSUME ~suspect[f] PROVE Agree(f)' /\ (fileHash'[f] # 0 /\ ~Removed(f)' => Served(f)')
    BY DEF Settled
  <2>1. Agree(f) /\ (fileHash[f] # 0 /\ ~Removed(f) => Served(f))
    BY <1>1 DEF PassInv, Settled
  <2>2. Agree(f)'
    BY <1>1, <1>2, <1>3, <2>1, AgreeMoves DEF Agree, tables
  <2>3. Removed(f)' = Removed(f)
    BY <1>1, <1>2 DEF Removed, Active, Removing
  <2>4. Served(f) => Served(f)'
    BY <1>1, <1>2, <1>4, ServedMoves DEF tables
  <2> QED BY <2>1, <2>2, <2>3, <2>4 DEF tables
<1>7. \A g \in Files : /\ fileHash'[g] = fileHash[g] /\ checksum'[g] = checksum[g]
                       /\ rows'[g] = rows[g] /\ suspect'[g] = suspect[g]
  BY DEF tables
<1>8. \A x \in Workers : touched'[x] = touched[x]
  OBVIOUS
<1> QED BY <1>1, <1>5, <1>6, <1>7, <1>8, PassMoves

(* A worker that begins.                                                   *)
LEMMA PassBegin ==
  ASSUME IInv, PassInv, NEW w \in Workers, NEW f \in Files, NEW v \in Version, NEW at,
         at \in {"compare", "remove reference"},
         Begin(w, f, at, v), UNCHANGED tables
  PROVE  PassInv'
<1>1. /\ pass[w].at = "idle" /\ pass'[w].at = at /\ pass'[w].file = f /\ pass'[w].version = v
      /\ \A x \in Workers \ {w} : pass'[x] = pass[x] /\ touched'[x] = touched[x]
  BY DEF Begin, IInv, TypeOK
<1>2. /\ suspect'[f] = (suspect[f] \/ \E x \in Others(w, f) : at # "compare" \/ Removing(x)
                                                              \/ pass[x].version # v)
      /\ \A g \in Files \ {f} : suspect'[g] = suspect[g]
  BY DEF Begin, IInv, TypeOK
<1>3. ~Past(w)' /\ (Removing(w)' <=> at = "remove reference") /\ Active(w, f)'
  BY <1>1 DEF Past, Removing, Active
<1>4. Alone(w)'
  BY <1>3 DEF Alone
<1>5. \A x \in Workers \ {w} : /\ Active(x, f)' = Active(x, f) /\ Past(x)' = Past(x)
                               /\ Removing(x)' = Removing(x) /\ pass'[x].version = pass[x].version
                               /\ pass'[x].at = pass[x].at
  BY <1>1 DEF Active, Past, Removing
<1>6. Settled(f)'
  <2> SUFFICES ASSUME ~suspect'[f] PROVE Agree(f)' /\ (fileHash'[f] # 0 /\ ~Removed(f)' => Served(f)')
    BY DEF Settled
  <2>1. Agree(f) /\ (fileHash[f] # 0 /\ ~Removed(f) => Served(f))
    BY <1>2 DEF PassInv, Settled
  <2>2. \A x \in Workers \ {w} : Active(x, f) => /\ at = "compare" /\ ~Removing(x)
                                                 /\ pass[x].version = v
    BY <1>2 DEF Others
  <2>3. Agree(f)'
    <3>1. ASSUME NEW x \in Workers \ {w}, Active(x, f)'
          PROVE  /\ ~Removing(x)' /\ ~Removing(w)'
                 /\ pass'[x].version = pass'[w].version
      BY <1>1, <1>3, <1>5, <2>2, <3>1
    <3>2. \A x, y \in Workers : x # y /\ Active(x, f)' /\ Active(y, f)' =>
                                  ~Removing(x)' /\ pass'[x].version = pass'[y].version
      BY <1>5, <2>1, <3>1 DEF Agree
    <3>3. \A x \in Workers : Active(x, f)' /\ Past(x)' => fileHash'[f] = pass'[x].version
      BY <1>3, <1>5, <2>1 DEF Agree, tables
    <3> QED BY <3>2, <3>3 DEF Agree
  <2>4. Removed(f) => Removed(f)'
    BY <1>1, <1>5 DEF Removed, Active
  <2>5. ASSUME NEW k PROVE (Coming(f, k) => Coming(f, k)') /\ (Going(f, k) => Going(f, k)')
    <3>1. ASSUME NEW x \in Workers, Active(x, f) PROVE Active(x, f)' /\ pass'[x].at = pass[x].at
      <4>1. x # w
        BY <1>1, <3>1 DEF Active
      <4> QED BY <1>5, <3>1, <4>1
    <3> QED BY <3>1 DEF Coming, Going
  <2>6. Served(f) => Served(f)'
    BY <2>5 DEF Served, tables
  <2> QED BY <2>1, <2>3, <2>4, <2>6 DEF tables
<1> QED BY <1>1, <1>2, <1>4, <1>6, PassMoves DEF tables

(* A hash, or a checksum, is stored.                                       *)
LEMMA PassStoreHash ==
  ASSUME IInv, PassInv, NEW w \in Workers, StoreHash(w) PROVE PassInv'
<1>0. PICK f \in Files, v \in Version : f = pass[w].file /\ v = pass[w].version
  BY GoesFacts DEF StoreHash, IInv
<1>1. /\ f = pass[w].file /\ v = pass[w].version
      /\ pass[w].at = "hash" /\ pass'[w].at = "checksum" /\ f \in Files
      /\ pass'[w].file = f /\ pass'[w].version = v
      /\ \A x \in Workers \ {w} : pass'[x] = pass[x]
  BY <1>0, GoesFacts DEF StoreHash, IInv
<1>2. /\ Touch(w) /\ UNCHANGED <<checksum, rows, suspect>>
      /\ fileHash'[f] = v /\ \A g \in Files \ {f} : fileHash'[g] = fileHash[g]
  BY <1>1 DEF StoreHash, IInv, TypeOK
<1>3. Active(w, f) /\ Active(w, f)' /\ ~Removing(w) /\ ~Removing(w)'
  BY <1>1 DEF Active, Removing
<1>4. Alone(w)'
  BY <1>1, <1>2, RowFacts DEF Alone, ToDelete, Kind
<1>5. Settled(f)'
  <2> SUFFICES ASSUME ~suspect[f] PROVE Agree(f)' /\ Served(f)'
    BY <1>2 DEF Settled
  <2>1. Agree(f)
    BY <1>1 DEF PassInv, Settled
  <2>2. ASSUME NEW x \in Workers
        PROVE  /\ Active(x, f)' <=> Active(x, f)
               /\ Removing(x)' <=> Removing(x)
               /\ pass'[x].version = pass[x].version
    <3>1. CASE x = w
      BY <1>1, <1>3, <3>1
    <3>2. CASE x # w
      BY <1>1, <3>2 DEF Active, Removing
    <3> QED BY <3>1, <3>2
  <2>3. Agree(f)'
    BY <1>1, <1>2, <1>3, <2>1, <2>2 DEF Agree
  <2>4. \A k : Coming(f, k)' /\ Going(f, k)'
    BY <1>1, <1>3 DEF Coming, Going, ToInsert, ToDelete
  <2> QED BY <2>3, <2>4 DEF Served
<1> QED BY <1>1, <1>2, <1>4, <1>5, PassMoves

LEMMA PassStoreChecksum ==
  ASSUME IInv, PassInv, NEW w \in Workers, StoreChecksum(w) PROVE PassInv'
<1>0. PICK f \in Files, v \in Version : f = pass[w].file /\ v = pass[w].version
  BY GoesFacts DEF StoreChecksum, IInv
<1>1. /\ f = pass[w].file /\ v = pass[w].version
      /\ pass[w].at = "checksum" /\ pass'[w].at = "delete symbol" /\ f \in Files
      /\ pass'[w].file = f /\ pass'[w].version = v
      /\ \A x \in Workers \ {w} : pass'[x] = pass[x]
  BY <1>0, GoesFacts DEF StoreChecksum, IInv
<1>2. /\ Touch(w) /\ UNCHANGED <<fileHash, rows, suspect>>
      /\ checksum'[f] = v /\ \A g \in Files \ {f} : checksum'[g] = checksum[g]
      /\ touched'[w] = touched[w]
  BY <1>1 DEF StoreChecksum, IInv, TypeOK, Touch, Others
<1>3. Active(w, f) /\ ~Removing(w) /\ ~Removing(w)' /\ Past(w)
  BY <1>1 DEF Active, Removing, Past
<1>4. Alone(w)'
  BY <1>1, <1>2, <1>3, RowFacts DEF PassInv, Alone, ToDelete, Kind
<1>5. Settled(f)'
  <2> SUFFICES ASSUME ~suspect[f] PROVE Agree(f)' /\ (fileHash'[f] # 0 /\ ~Removed(f)' => Served(f)')
    BY <1>2 DEF Settled
  <2>1. Agree(f) /\ (fileHash[f] # 0 /\ ~Removed(f) => Served(f))
    BY <1>1 DEF PassInv, Settled
  <2>2. Agree(f)'
    BY <1>1, <1>2, <1>3, <2>1, AgreeMoves DEF Agree
  <2>3. Removed(f)' = Removed(f)
    BY <1>1, <1>3 DEF Removed, Active, Removing
  <2>4. Served(f) => Served(f)'
    BY <1>1, <1>2, <1>3, ServedMoves DEF ToInsert, ToDelete
  <2> QED BY <1>2, <2>1, <2>2, <2>3, <2>4
<1> QED BY <1>1, <1>2, <1>4, <1>5, PassMoves

(* The rows of one kind are deleted, by a pass or by a removal.            *)
Deletes(w, k, from, to, f, v) ==
  /\ f = pass[w].file /\ v = pass[w].version
  /\ pass[w].at = from /\ pass'[w].at = to
  /\ pass'[w].file = f /\ pass'[w].version = v
  /\ \A x \in Workers \ {w} : pass'[x] = pass[x]
  /\ Touch(w) /\ UNCHANGED <<fileHash, checksum, suspect>>
  /\ touched'[w] = touched[w]
  /\ \A g \in Files \ {f} : rows'[g] = rows[g]
  /\ \A r \in Row : rows'[f][r] = IF r[1] = k THEN 0 ELSE rows[f][r]

LEMMA DeleteRowsFacts ==
  ASSUME IInv, NEW w \in Workers, NEW k \in Kind, NEW from, NEW to, DeleteRows(w, k, from, to)
  PROVE  \E f \in Files, v \in Version : Deletes(w, k, from, to, f, v)
<1>1. PICK f \in Files, v \in Version : f = pass[w].file /\ v = pass[w].version
  BY GoesFacts DEF DeleteRows, IInv
<1>2. /\ pass[w].at = from /\ pass'[w].at = to
      /\ pass'[w].file = f /\ pass'[w].version = v
      /\ \A x \in Workers \ {w} : pass'[x] = pass[x]
  BY <1>1, GoesFacts DEF DeleteRows, IInv
<1>3. /\ Touch(w) /\ UNCHANGED <<fileHash, checksum, suspect>>
      /\ touched'[w] = touched[w]
  BY DEF DeleteRows, Touch, Others, IInv, TypeOK
<1>4. /\ \A g \in Files \ {f} : rows'[g] = rows[g]
      /\ \A r \in Row : rows'[f][r] = IF r[1] = k THEN 0 ELSE rows[f][r]
  BY <1>1 DEF DeleteRows, Without, IInv, TypeOK
<1> QED BY <1>1, <1>2, <1>3, <1>4 DEF Deletes

LEMMA PassDeletes ==
  ASSUME IInv, PassInv, NEW w \in Workers, RemoveFileSymbols(w) PROVE PassInv'
<1>1. PICK k \in Kind, from \in At, to \in At :
        /\ DeleteRows(w, k, from, to)
        /\ <<k, from, to>> \in {<<"symbol", "delete symbol", "delete reference">>,
                                <<"reference", "delete reference", "delete literal">>,
                                <<"literal", "delete literal", "parse">>}
  BY DEF RemoveFileSymbols, Kind, At
<1>0. PICK f \in Files, v \in Version : Deletes(w, k, from, to, f, v)
  BY <1>1, DeleteRowsFacts
<1>2. /\ f = pass[w].file /\ v = pass[w].version
      /\ pass[w].at = from /\ pass'[w].at = to
      /\ pass'[w].file = f /\ pass'[w].version = v
      /\ \A x \in Workers \ {w} : pass'[x] = pass[x]
      /\ Touch(w) /\ UNCHANGED <<fileHash, checksum, suspect>>
      /\ touched'[w] = touched[w]
      /\ \A g \in Files \ {f} : rows'[g] = rows[g]
      /\ \A r \in Row : rows'[f][r] = IF r[1] = k THEN 0 ELSE rows[f][r]
  BY <1>0 DEF Deletes
<1>3. \A j \in Kind : /\ from \in ToInsert(j) /\ to \in ToInsert(j)
                      /\ j # k => (to \in ToDelete(j) <=> from \in ToDelete(j))
  BY <1>1 DEF ToInsert, ToDelete, Kind
<1>4. Active(w, f) /\ ~Removing(w) /\ ~Removing(w)' /\ Past(w) /\ from # "checksum"
  BY <1>1, <1>2 DEF Active, Removing, Past
<1>5. Alone(w)'
  BY <1>2, <1>3, <1>4, RowFacts DEF PassInv, Alone
<1>6. Settled(f)'
  <2> SUFFICES ASSUME ~suspect[f] PROVE Agree(f)' /\ (fileHash'[f] # 0 /\ ~Removed(f)' => Served(f)')
    BY <1>2 DEF Settled
  <2>1. Agree(f) /\ (fileHash[f] # 0 /\ ~Removed(f) => Served(f))
    BY <1>2 DEF PassInv, Settled
  <2>2. fileHash[f] = pass[w].version
    BY <1>4, <2>1 DEF Agree
  <2>3. Agree(f)'
    BY <1>2, <1>4, <2>1, <2>2, AgreeMoves
  <2>4. Removed(f)' <=> Removed(f)
    BY <1>2, <1>4 DEF Removed, Active, Removing
  <2>5. Served(f) => Served(f)'
    BY <1>2, <1>3, <1>4, RowFacts, ServedMoves
  <2> QED BY <1>2, <2>1, <2>3, <2>4, <2>5
<1> QED BY <1>2, <1>5, <1>6, PassMoves

LEMMA PassRemovesRows ==
  ASSUME IInv, PassInv, NEW w \in Workers,
         \/ DeleteRows(w, "reference", "remove reference", "remove symbol")
         \/ DeleteRows(w, "symbol", "remove symbol", "remove hash")
  PROVE  PassInv'
<1>1. PICK k \in Kind, from \in At, to \in At :
        /\ DeleteRows(w, k, from, to)
        /\ from \in {"remove reference", "remove symbol"}
        /\ to \in {"remove symbol", "remove hash"}
  BY DEF Kind, At
<1>0. PICK f \in Files, v \in Version : Deletes(w, k, from, to, f, v)
  BY <1>1, DeleteRowsFacts
<1>2. /\ f = pass[w].file /\ v = pass[w].version
      /\ pass[w].at = from /\ pass'[w].at = to
      /\ pass'[w].file = f /\ pass'[w].version = v
      /\ \A x \in Workers \ {w} : pass'[x] = pass[x]
      /\ Touch(w) /\ UNCHANGED <<fileHash, checksum, suspect>>
      /\ touched'[w] = touched[w]
      /\ \A g \in Files \ {f} : rows'[g] = rows[g]
      /\ \A r \in Row : rows'[f][r] = IF r[1] = k THEN 0 ELSE rows[f][r]
  BY <1>0 DEF Deletes
<1>3. Active(w, f) /\ Active(w, f)' /\ Removing(w) /\ Removing(w)' /\ ~Past(w)'
  BY <1>1, <1>2 DEF Active, Removing, Past
<1>4. Alone(w)'
  BY <1>3 DEF Alone
<1>5. Settled(f)'
  <2> SUFFICES ASSUME ~suspect[f] PROVE Agree(f)' /\ Removed(f)'
    BY <1>2 DEF Settled
  <2>1. Agree(f)
    BY <1>2 DEF PassInv, Settled
  <2>2. Agree(f)'
    BY <1>2, <1>3, <2>1, AgreeMoves
  <2>3. Removed(f)'
    BY <1>1, <1>2, <1>3 DEF Removed
  <2> QED BY <2>2, <2>3
<1> QED BY <1>2, <1>4, <1>5, PassMoves

LEMMA PassRemovesHash ==
  ASSUME IInv, PassInv, NEW w \in Workers, RemoveHash(w) PROVE PassInv'
<1>1. PICK f \in Files : f = pass[w].file
  BY GoesFacts DEF RemoveHash, IInv
<1>2. /\ f = pass[w].file /\ pass[w].at = "remove hash" /\ pass'[w].at = "idle"
      /\ pass'[w].file = f
      /\ \A x \in Workers \ {w} : pass'[x] = pass[x]
  BY <1>1, GoesFacts DEF RemoveHash, IInv
<1>3. /\ Touch(w) /\ UNCHANGED <<checksum, suspect>>
      /\ fileHash'[f] = 0 /\ \A g \in Files \ {f} : fileHash'[g] = fileHash[g] /\ rows'[g] = rows[g]
  BY <1>1 DEF RemoveHash, Without, IInv, TypeOK
<1>4. Active(w, f) /\ Removing(w) /\ ~Active(w, f)' /\ ~Past(w)'
  BY <1>2 DEF Active, Removing, Past
<1>5. Alone(w)'
  BY <1>4 DEF Alone
<1>6. Settled(f)'
  <2> SUFFICES ASSUME ~suspect[f] PROVE Agree(f)'
    BY <1>3 DEF Settled
  <2>1. Agree(f)
    BY <1>2 DEF PassInv, Settled
  <2>2. \A x \in Workers : ~Active(x, f)'
    <3>1. ASSUME NEW x \in Workers \ {w} PROVE ~Active(x, f)'
      BY <1>2, <1>4, <2>1, <3>1 DEF Agree, Active
    <3> QED BY <1>4, <3>1
  <2> QED BY <2>2 DEF Agree
<1> QED BY <1>2, <1>3, <1>5, <1>6, PassMoves

LEMMA NewCountFacts ==
  ASSUME NEW k, NEW c \in Nat
  PROVE  LET n == IF k = "reference" THEN 1 ELSE c + 1 IN n > 0 /\ (c = 0 => n = 1)
OBVIOUS

LEMMA RowIs ==
  ASSUME NEW r \in Row, NEW k, NEW v
  PROVE  r = <<k, v>> <=> (r[1] = k /\ r[2] = v)
BY DEF Row

(* A row is inserted.                                                      *)
Inserts(w, k, from, to, f, v) ==
  /\ f = pass[w].file /\ v = pass[w].version
  /\ pass[w].at = from /\ pass'[w].at = to
  /\ pass'[w].file = f /\ pass'[w].version = v
  /\ \A x \in Workers \ {w} : pass'[x] = pass[x]
  /\ Touch(w) /\ UNCHANGED <<fileHash, checksum>>
  /\ touched'[w] = touched[w]
  /\ \A g \in Files \ {f} : rows'[g] = rows[g]
  /\ \A r \in Row : IF r[1] = k /\ r[2] = v
                    THEN /\ rows'[f][r] > 0
                         /\ rows[f][r] = 0 => rows'[f][r] = 1
                    ELSE rows'[f][r] = rows[f][r]

LEMMA InsertRowFacts ==
  ASSUME IInv, NEW w \in Workers, NEW k \in Kind, NEW from \in At, NEW to \in At,
         from \in {"insert symbol", "insert reference", "insert literal"},
         InsertRow(w, k, from, to)
  PROVE  \E f \in Files, v \in Version : Inserts(w, k, from, to, f, v)
<1>1. PICK f \in Files, v \in Version : f = pass[w].file /\ v = pass[w].version
  BY GoesFacts DEF InsertRow, IInv
<1>2. /\ pass[w].at = from /\ pass'[w].at = to
      /\ pass'[w].file = f /\ pass'[w].version = v
      /\ \A x \in Workers \ {w} : pass'[x] = pass[x]
  BY <1>1, GoesFacts DEF InsertRow, IInv
<1>3. /\ Touch(w) /\ UNCHANGED <<fileHash, checksum>>
      /\ touched'[w] = touched[w]
  BY DEF InsertRow, Touch, Others, IInv, TypeOK
<1>4. <<k, v>> \in Row
  <2>1. v # 0
    BY <1>1, <1>2 DEF IInv, ReadInv, Removing
  <2> QED BY <2>1, ContentVersion DEF Row
<1> DEFINE n == IF k = "reference" THEN 1 ELSE rows[f][<<k, v>>] + 1
<1>5. n > 0 /\ (rows[f][<<k, v>>] = 0 => n = 1)
  <2>1. TypeOK /\ f \in Files
    BY DEF IInv
  <2>2. rows[f][<<k, v>>] \in Nat
    BY <1>4, <2>1, RowsAreNat
  <2> QED BY <2>2, NewCountFacts
<1>6. rows' = [rows EXCEPT ![f] = [rows[f] EXCEPT ![<<k, v>>] = n]]
  BY <1>1, <1>4 DEF InsertRow, IInv, TypeOK
<1> HIDE DEF n
<1>7. /\ \A g \in Files \ {f} : rows'[g] = rows[g]
      /\ \A r \in Row : rows'[f][r] = IF r = <<k, v>> THEN n ELSE rows[f][r]
  BY <1>4, <1>6 DEF IInv, TypeOK
<1>8. \A r \in Row : r = <<k, v>> <=> (r[1] = k /\ r[2] = v)
  BY RowIs
<1>9. \A r \in Row : IF r[1] = k /\ r[2] = v
                     THEN rows'[f][r] > 0 /\ (rows[f][r] = 0 => rows'[f][r] = 1)
                     ELSE rows'[f][r] = rows[f][r]
  BY <1>5, <1>7, <1>8
<1> QED BY <1>1, <1>2, <1>3, <1>7, <1>9 DEF Inserts

LEMMA PassInserts ==
  ASSUME IInv, PassInv, NEW w \in Workers, NEW k \in Kind, NEW from \in At, NEW to \in At,
         NEW f \in Files, NEW v \in Version, Inserts(w, k, from, to, f, v),
         <<k, from, to>> \in {<<"symbol", "insert symbol", "insert reference">>,
                              <<"reference", "insert reference", "insert literal">>,
                              <<"literal", "insert literal", "idle">>}
  PROVE  /\ Alone(w)'
         /\ ~suspect[f] => Agree(f)' /\ (fileHash'[f] # 0 /\ ~Removed(f)' => Served(f)')
<1>2. /\ f = pass[w].file /\ v = pass[w].version
      /\ pass[w].at = from /\ pass'[w].at = to
      /\ pass'[w].file = f /\ pass'[w].version = v
      /\ \A x \in Workers \ {w} : pass'[x] = pass[x]
      /\ UNCHANGED <<fileHash, checksum>>
      /\ touched'[w] = touched[w]
      /\ \A r \in Row : IF r[1] = k /\ r[2] = v
                        THEN /\ rows'[f][r] > 0
                             /\ rows[f][r] = 0 => rows'[f][r] = 1
                        ELSE rows'[f][r] = rows[f][r]
  BY DEF Inserts
<1>3. \A j \in Kind : /\ from \notin ToDelete(j) /\ to \notin ToDelete(j)
                      /\ j # k /\ to # "idle" => (to \in ToInsert(j) <=> from \in ToInsert(j))
                      /\ j # k => (from \in ToInsert(j) => to \in ToInsert(j))
  BY DEF ToInsert, ToDelete, Kind
<1>4. from \in ToInsert(k) /\ to \notin ToInsert(k)
  BY DEF ToInsert
<1>5. Active(w, f) /\ ~Removing(w) /\ ~Removing(w)' /\ Past(w) /\ from # "checksum"
  BY <1>2 DEF Active, Removing, Past
<1>6. Alone(w)'
  <2> SUFFICES ASSUME Past(w)', ~touched[w] PROVE Alone(w)'
    BY <1>2 DEF Alone
  <2>1. to # "idle" /\ to # "checksum"
    BY <1>2 DEF Past
  <2>2. /\ fileHash[f] = v /\ checksum[f] = v
        /\ \A r \in Row : rows[f][r] = IF r[2] = v /\ from \notin ToInsert(r[1]) THEN 1 ELSE 0
    BY <1>2, <1>3, <1>5, RowFacts DEF PassInv, Alone
  <2>3. \A r \in Row : rows'[f][r] = IF r[2] = v /\ to \notin ToInsert(r[1]) THEN 1 ELSE 0
    BY <1>2, <1>3, <1>4, <2>1, <2>2, RowFacts
  <2> QED BY <1>2, <2>2, <2>3 DEF Alone
<1>7. ASSUME ~suspect[f] PROVE Agree(f)' /\ (fileHash'[f] # 0 /\ ~Removed(f)' => Served(f)')
  <2>1. Agree(f) /\ (fileHash[f] # 0 /\ ~Removed(f) => Served(f))
    BY <1>2, <1>7 DEF PassInv, Settled
  <2>2. fileHash[f] = pass[w].version
    BY <1>5, <2>1 DEF Agree
  <2>3. Agree(f)'
    BY <1>2, <1>5, <2>1, <2>2, AgreeMoves
  <2>4. Removed(f)' <=> Removed(f)
    BY <1>2, <1>5 DEF Removed, Active, Removing
  <2>5. ASSUME NEW r \in Row
        PROVE  /\ r[2] = fileHash[f] => \/ rows'[f][r] > 0 \/ pass'[w].at \in ToInsert(r[1])
                                       \/ /\ rows'[f][r] = rows[f][r]
                                          /\ pass[w].at \in ToInsert(r[1])
                                               => pass'[w].at \in ToInsert(r[1])
               /\ r[2] # fileHash[f] => /\ rows'[f][r] = rows[f][r]
                                       /\ pass[w].at \notin ToDelete(r[1])
    <3>1. r[1] \in Kind /\ from \notin ToDelete(r[1])
      BY <1>3, RowFacts
    <3>2. CASE r[1] = k /\ r[2] = v
      BY <1>2, <2>2, <3>2
    <3>3. CASE ~(r[1] = k /\ r[2] = v)
      BY <1>2, <1>3, <2>2, <3>1, <3>3
    <3> QED BY <3>2, <3>3
  <2>6. Served(f) => Served(f)'
    BY <1>2, <1>5, <2>5, ServedMoves
  <2> QED BY <1>2, <2>1, <2>3, <2>4, <2>6
<1> QED BY <1>6, <1>7

LEMMA PassInsert ==
  ASSUME IInv, PassInv, NEW w \in Workers, Insert(w) PROVE PassInv'
<1>1. PICK k \in Kind, from \in At, to \in At :
        /\ InsertRow(w, k, from, to)
        /\ <<k, from, to>> \in {<<"symbol", "insert symbol", "insert reference">>,
                                <<"reference", "insert reference", "insert literal">>}
  BY DEF Insert, Kind, At
<1>2. PICK f \in Files, v \in Version : Inserts(w, k, from, to, f, v)
  BY <1>1, InsertRowFacts
<1>3. /\ Alone(w)'
      /\ ~suspect[f] => Agree(f)' /\ (fileHash'[f] # 0 /\ ~Removed(f)' => Served(f)')
  BY <1>1, <1>2, PassInserts
<1>4. Settled(f)' /\ suspect' = suspect
  BY <1>3 DEF Settled, Insert
<1> QED BY <1>2, <1>3, <1>4, PassMoves DEF Inserts

LEMMA FinishFacts ==
  ASSUME IInv, NEW w \in Workers, Finish(w)
  PROVE  \E f \in Files, v \in Version : Inserts(w, "literal", "insert literal", "idle", f, v)
<1>1. PICK k \in Kind, from \in At, to \in At :
        /\ InsertRow(w, k, from, to)
        /\ <<k, from, to>> \in {<<"symbol", "insert symbol", "insert reference">>,
                                <<"literal", "insert literal", "idle">>}
  BY DEF Finish, Kind, At
<1>2. PICK f \in Files, v \in Version : Inserts(w, k, from, to, f, v)
  BY <1>1, InsertRowFacts
<1>3. from = "insert literal"
  BY <1>2 DEF Inserts, Finish, InsertRow, Goes
<1> QED BY <1>1, <1>2, <1>3

(* The row that ends a pass no one else wrote behind leaves exact tables.  *)
LEMMA FinishExact ==
  ASSUME IInv, NEW w \in Workers, Alone(w), NEW f \in Files, NEW v \in Version,
         Inserts(w, "literal", "insert literal", "idle", f, v), ~touched[w]
  PROVE  Exact(f, v)' /\ fileHash'[f] = v /\ checksum'[f] = v
<1>1. Past(w)
  BY DEF Inserts, Past, Removing
<1>2. \A k \in Kind : /\ "insert literal" \notin ToDelete(k)
                      /\ "insert literal" \in ToInsert(k) <=> k = "literal"
  BY DEF Kind, ToDelete, ToInsert
<1>3. /\ fileHash[f] = v /\ checksum[f] = v
      /\ \A r \in Row : rows[f][r] = IF r[2] = v /\ r[1] # "literal" THEN 1 ELSE 0
  BY <1>1, <1>2, RowFacts DEF Inserts, Alone
<1> QED BY <1>3 DEF Inserts, Exact

LEMMA PassFinish ==
  ASSUME IInv, PassInv, NEW w \in Workers, Finish(w) PROVE PassInv'
<1>1. PICK f \in Files, v \in Version : Inserts(w, "literal", "insert literal", "idle", f, v)
  BY FinishFacts
<1>2. /\ Alone(w)'
      /\ ~suspect[f] => Agree(f)' /\ (fileHash'[f] # 0 /\ ~Removed(f)' => Served(f)')
  BY <1>1, PassInserts DEF Kind, At
<1>3. /\ suspect'[f] = (suspect[f] /\ (touched[w] \/ Others(w, f) # {}))
      /\ \A g \in Files \ {f} : suspect'[g] = suspect[g]
  BY <1>1 DEF Finish, Inserts, IInv, TypeOK
<1>4. CASE touched[w] \/ Others(w, f) # {}
  BY <1>1, <1>2, <1>3, <1>4, PassMoves DEF Inserts, Settled
<1>5. CASE ~touched[w] /\ Others(w, f) = {}
  <2>1. Exact(f, v)' /\ fileHash'[f] = v
    BY <1>1, <1>5, FinishExact DEF PassInv
  <2>2. \A x \in Workers : ~Active(x, f)'
    <3>1. /\ pass'[w].at = "idle" /\ \A x \in Workers \ {w} : pass'[x] = pass[x]
      BY <1>1 DEF Inserts
    <3>2. ASSUME NEW x \in Workers \ {w} PROVE ~Active(x, f)'
      BY <1>5, <3>1 DEF Others, Active
    <3> QED BY <3>1, <3>2 DEF Active
  <2>3. Agree(f)'
    BY <2>2 DEF Agree
  <2>4. Served(f)'
    BY <2>1 DEF Served, Exact
  <2>5. Settled(f)'
    BY <2>3, <2>4 DEF Settled
  <2> QED BY <1>1, <1>2, <1>3, <2>5, PassMoves DEF Inserts
<1> QED BY <1>4, <1>5

(* A removal that has not deleted anything yet.                            *)
LEMMA RemovalStops ==
  ASSUME IInv, PassInv, NEW w \in Workers, NEW f \in Files, f = pass[w].file,
         pass[w].at = "remove reference", Goes(w, "remove reference", "idle"),
         UNCHANGED <<tables, touched, suspect>>
  PROVE  PassInv'
<1>1. /\ pass'[w].at = "idle" /\ pass'[w].file = f
      /\ \A x \in Workers \ {w} : pass'[x] = pass[x]
  BY GoesFacts DEF IInv
<1>2. Alone(w)'
  BY <1>1 DEF Alone, Past
<1>3. \A x \in Workers : Active(x, f)' => x # w /\ Active(x, f) /\ pass'[x] = pass[x]
  BY <1>1 DEF Active
<1>4. Settled(f)'
  <2> SUFFICES ASSUME ~suspect[f] PROVE Agree(f)' /\ (fileHash'[f] # 0 /\ ~Removed(f)' => Served(f)')
    BY DEF Settled
  <2>1. Agree(f) /\ (fileHash[f] # 0 /\ ~Removed(f) => Served(f))
    BY DEF PassInv, Settled
  <2>2. Agree(f)'
    <3>1. \A x \in Workers : pass'[x] = pass[x] =>
             Removing(x)' = Removing(x) /\ Past(x)' = Past(x)
      BY DEF Removing, Past
    <3> QED BY <1>3, <2>1, <3>1 DEF Agree, tables
  <2>3. \A x \in Workers : Active(x, f) /\ pass[x].at # "remove reference" =>
                            Active(x, f)' /\ pass'[x] = pass[x]
    BY <1>1 DEF Active
  <2>4. Removed(f) => Removed(f)'
    BY <2>3 DEF Removed
  <2>5. \A k : (Coming(f, k) => Coming(f, k)') /\ (Going(f, k) => Going(f, k)')
    BY <2>3 DEF Coming, Going, ToInsert, ToDelete
  <2>6. Served(f) => Served(f)'
    BY <2>5 DEF Served, tables
  <2> QED BY <2>1, <2>2, <2>4, <2>6 DEF tables
<1> QED BY <1>1, <1>2, <1>4, PassMoves DEF tables

(* A pass stops: behind the store of its hash, its file is suspect.        *)
LEMMA PassStop ==
  ASSUME IInv, PassInv, NEW w \in Workers, Stop(w) PROVE PassInv'
<1>1. PICK f \in Files : f = pass[w].file
  BY DEF IInv, TypeOK, Pass
<1>2. /\ f = pass[w].file /\ pass[w].at # "idle" /\ pass[w].at \in At
      /\ Goes(w, pass[w].at, "idle")
      /\ pass'[w].at = "idle" /\ pass'[w].file = f
      /\ \A x \in Workers \ {w} : pass'[x] = pass[x]
      /\ UNCHANGED <<tables, touched>>
  BY <1>1 DEF Stop, Goes, IInv, TypeOK, Pass
<1>3. CASE pass[w].at \in {"compare", "hash"}
  <2>1. suspect' = suspect
    BY <1>3 DEF Stop, IInv, TypeOK
  <2> QED BY <1>2, <1>3, <2>1, PassQuiet DEF At
<1>4. CASE pass[w].at = "remove reference"
  <2>1. suspect' = suspect
    BY <1>4 DEF Stop, IInv, TypeOK
  <2> QED BY <1>2, <1>4, <2>1, RemovalStops
<1>5. CASE pass[w].at \notin {"compare", "hash", "remove reference"}
  <2>1. suspect'[f] /\ \A g \in Files \ {f} : suspect'[g] = suspect[g]
    BY <1>1, <1>5 DEF Stop, IInv, TypeOK
  <2>2. Alone(w)' /\ Settled(f)'
    BY <1>2, <2>1 DEF Alone, Past, Settled
  <2> QED BY <1>2, <2>1, <2>2, PassMoves DEF tables
<1> QED BY <1>3, <1>4, <1>5

LEMMA PassWork ==
  ASSUME IInv, PassInv, NEW w \in Workers, Work(w) PROVE PassInv'
<1>1. CASE Skip(w) \/ Differs(w) \/ Parse(w)
  BY <1>1, PassQuiet DEF Skip, Differs, Parse, At, tables
<1>2. CASE StoreHash(w) \/ StoreChecksum(w)
  BY <1>2, PassStoreHash, PassStoreChecksum
<1>3. CASE RemoveFileSymbols(w)
  BY <1>3, PassDeletes
<1>4. CASE Insert(w) \/ Finish(w)
  BY <1>4, PassInsert, PassFinish
<1>5. CASE RemoveFile(w)
  BY <1>5, PassRemovesRows, PassRemovesHash DEF RemoveFile
<1>6. CASE Stop(w)
  BY <1>6, PassStop
<1> QED BY <1>1, <1>2, <1>3, <1>4, <1>5, <1>6 DEF Work, Progress

(* Nothing but disk, newest and gone changes.                              *)
LEMMA PassStill ==
  ASSUME PassInv, UNCHANGED <<tables, pass, touched, suspect>> PROVE PassInv'
<1>1. \A w \in Workers : Alone(w)'
  BY AloneStill DEF PassInv
<1>2. \A f \in Files : Settled(f)'
  BY SettledElsewhere DEF PassInv, tables
<1> QED BY <1>1, <1>2 DEF PassInv

LEMMA PassInvNext == IInv /\ PassInv /\ [Next]_indexerVars => PassInv'
<1> SUFFICES ASSUME IInv, PassInv, [Next]_indexerVars PROVE PassInv'
  OBVIOUS
<1>1. CASE UNCHANGED indexerVars
  BY <1>1, PassStill DEF indexerVars
<1>2. CASE \E f \in Files : Edit(f) \/ Delete(f)
  BY <1>2, PassStill DEF Edit, Delete
<1>3. CASE \E w \in Workers : Work(w)
  BY <1>3, PassWork
<1>4. ASSUME NEW w \in Workers, NEW f \in Files, Read(w, f) PROVE PassInv'
  <2>1. disk[f] \in Version
    BY DEF IInv, TypeOK
  <2> QED BY <1>4, <2>1, PassBegin DEF Read
<1>5. ASSUME NEW w \in Workers, NEW f \in Files, StartRemoval(w, f) PROVE PassInv'
  <2>1. 0 \in Version
    BY IndexerAssumption DEF Version
  <2> QED BY <1>5, <2>1, PassBegin DEF StartRemoval
<1> QED BY <1>1, <1>2, <1>3, <1>4, <1>5 DEF Next

LEMMA PassInvariant == Spec => []PassInv
<1>1. PassInv /\ (IInv /\ [Next]_indexerVars) => PassInv'
  BY PassInvNext
<1> QED BY <1>1, PassInvInit, Invariant, PTL DEF Spec

(* An undisturbed pass leaves exactly the rows of the content it read,     *)
(* under its hash and its checksum, whatever it found in the tables.       *)
THEOREM ExactPassHolds == Spec => ExactPass
<1>1. ASSUME IInv, PassInv, [Next]_indexerVars
      PROVE  [\A w \in Workers : LET f == pass[w].file
                                    v == pass[w].version
                                IN  Finish(w) /\ ~touched[w]
                                    => Exact(f, v)' /\ fileHash'[f] = v /\ checksum'[f] = v]_indexerVars
  <2>1. ASSUME NEW w \in Workers, Finish(w), ~touched[w]
        PROVE  LET f == pass[w].file
                   v == pass[w].version
               IN  Exact(f, v)' /\ fileHash'[f] = v /\ checksum'[f] = v
    <3>1. PICK f \in Files, v \in Version : Inserts(w, "literal", "insert literal", "idle", f, v)
      BY <1>1, <2>1, FinishFacts
    <3>2. Exact(f, v)' /\ fileHash'[f] = v /\ checksum'[f] = v
      BY <1>1, <2>1, <3>1, FinishExact DEF PassInv
    <3> QED BY <3>1, <3>2 DEF Inserts, Exact
  <2> QED BY <2>1
<1> QED BY <1>1, Invariant, PassInvariant, PTL DEF Spec, ExactPass

LEMMA SettledIsFaithful == PassInv => OnlyThreeWaysToFail
<1> SUFFICES ASSUME PassInv, NEW f \in Files, QuietFile(f), fileHash[f] # 0, ~suspect[f]
             PROVE  Faithful(f, fileHash[f])
  BY DEF OnlyThreeWaysToFail
<1>1. ~Removed(f) /\ \A k : ~Coming(f, k) /\ ~Going(f, k)
  BY DEF QuietFile, Removed, Coming, Going
<1>2. Served(f)
  BY <1>1 DEF PassInv, Settled
<1> QED BY <1>1, <1>2 DEF Served, Faithful

(* A file with a hash, at which no one is, has the rows of that content,   *)
(* unless a pass over it stopped behind the store of its hash, a removal   *)
(* of it stopped behind its first statement, or passes over different      *)
(* contents, or a pass and a removal, were at it at once.                  *)
THEOREM OnlyThreeWaysToFailHolds == Spec => []OnlyThreeWaysToFail
  BY SettledIsFaithful, PassInvariant, PTL
=============================================================================
