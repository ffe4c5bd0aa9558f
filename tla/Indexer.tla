------------------------------ MODULE Indexer -------------------------------
(***************************************************************************)
(* ProjectIndexer::index_file (src/src/indexer/mod.rs) and the statements  *)
(* of IndexDb (src/src/database/mod.rs) it is made of, run by several      *)
(* workers at once: the daemon loop, the debouncer, the polling task and   *)
(* the command line each open a connection of their own.                   *)
(*                                                                         *)
(* There is no transaction: every SQL statement commits by itself, so each *)
(* one is a step, and a pass may stop between any two of them, for an      *)
(* error (the ? operator) or because the process is killed.  A version     *)
(* stands for the content of a file, and for its hash: 0 is no file, or no *)
(* row.  The parser finds one symbol, one reference and one string literal *)
(* in each version.  The reference is one made inside a function: to a     *)
(* UNIQUE constraint no two references without a caller_symbol (NULL) are  *)
(* equal, so those pile up the way symbols do.                             *)
(***************************************************************************)
EXTENDS Naturals

CONSTANTS Files, Workers,
          MaxVersion,  \* bound: contents a file goes through
          Faults       \* statements fail, and processes are killed

ASSUME IndexerAssumption == MaxVersion \in Nat \ {0} /\ Faults \in BOOLEAN

VARIABLES
  disk,      \* the version of each file
  newest,    \* the last version anyone wrote to each file
  gone,      \* files whose removal the daemon was told of, and has not handled
  fileHash,  \* table file_hash
  checksum,  \* table checksums, joined with files
  rows,      \* tables symbol, reference, string_literals: how many of each row
  pass,      \* what each worker is doing
  touched,   \* history: another worker wrote this worker's file during its pass
  suspect    \* history: why a file's rows may not be those of its hash

tables == <<fileHash, checksum, rows>>
files  == <<disk, newest, gone>>
indexerVars == <<files, tables, pass, touched, suspect>>

Version == 0 .. MaxVersion
Kind == {"symbol", "reference", "literal"}
Row == Kind \X (1 .. MaxVersion)
At == {"idle", "compare", "hash", "checksum",
       "delete symbol", "delete reference", "delete literal", "parse",
       "insert symbol", "insert reference", "insert literal",
       "remove reference", "remove symbol", "remove hash"}
Pass == [at : At, file : Files, version : Version]

Active(w, f)  == pass[w].at # "idle" /\ pass[w].file = f
Others(w, f)  == {x \in Workers \ {w} : Active(x, f)}
QuietFile(f)  == \A w \in Workers : ~Active(w, f)
Removing(w)   == pass[w].at \in {"remove reference", "remove symbol", "remove hash"}

(* The rows of f are those of version v, once each.                        *)
Exact(f, v) == \A r \in Row : rows[f][r] = IF r[2] = v THEN 1 ELSE 0

(* At least those, and none of another version: what a search needs.       *)
Faithful(f, v) == \A r \in Row : rows[f][r] > 0 <=> r[2] = v

Init == /\ disk \in [Files -> 0 .. 1] /\ newest = disk /\ gone = {}
        /\ fileHash = [f \in Files |-> 0] /\ checksum = fileHash
        /\ rows = [f \in Files |-> [r \in Row |-> 0]]
        /\ \E f \in Files :
             pass = [w \in Workers |-> [at |-> "idle", file |-> f, version |-> 0]]
        /\ touched = [w \in Workers |-> FALSE]
        /\ suspect = [f \in Files |-> FALSE]
-----------------------------------------------------------------------------
(* The files.                                                              *)

Edit(f) == /\ newest[f] < MaxVersion
           /\ newest' = [newest EXCEPT ![f] = @ + 1]
           /\ disk' = [disk EXCEPT ![f] = newest'[f]]
           /\ UNCHANGED <<gone, tables, pass, touched, suspect>>

Delete(f) == /\ disk[f] # 0
             /\ disk' = [disk EXCEPT ![f] = 0]
             /\ gone' = gone \cup {f}
             /\ UNCHANGED <<newest, tables, pass, touched, suspect>>
-----------------------------------------------------------------------------
(* A pass.                                                                 *)

Goes(w, from, to) == pass[w].at = from /\ pass' = [pass EXCEPT ![w].at = to]

(* w writes to its file's rows, whoever else is at work on it.             *)
Touch(w) == touched' = [x \in Workers |-> touched[x] \/ x \in Others(w, pass[w].file)]

(* A worker starts on f: two passes over different content, or a pass and  *)
(* a removal, may now mix.                                                 *)
Begin(w, f, at, v) ==
  /\ pass[w].at = "idle"
  /\ pass' = [pass EXCEPT ![w] = [at |-> at, file |-> f, version |-> v]]
  /\ touched' = [touched EXCEPT ![w] = FALSE]
  /\ suspect' = [suspect EXCEPT ![f] =
                   @ \/ \E x \in Others(w, f) : at # "compare" \/ Removing(x)
                                                \/ pass[x].version # v]

(* The file is read: a file that cannot be read is an error at once.       *)
Read(w, f) == /\ disk[f] # 0
              /\ Begin(w, f, "compare", disk[f])
              /\ UNCHANGED <<files, tables>>

(* Unchanged, skipping.                                                    *)
Skip(w) == /\ fileHash[pass[w].file] = pass[w].version
           /\ Goes(w, "compare", "idle")
           /\ UNCHANGED <<files, tables, touched, suspect>>

(* get_file_hash turns an error into no hash, and the pass goes on.        *)
Differs(w) == /\ fileHash[pass[w].file] # pass[w].version \/ Faults
              /\ Goes(w, "compare", "hash")
              /\ UNCHANGED <<files, tables, touched, suspect>>

StoreHash_KeepOld(w) ==
  /\ fileHash' = [fileHash EXCEPT ![pass[w].file] = IF @ = 0 THEN pass[w].version ELSE @]
  /\ Goes(w, "hash", "checksum")
  /\ Touch(w)
  /\ UNCHANGED <<files, checksum, rows, suspect>>

StoreHash(w) == /\ fileHash' = [fileHash EXCEPT ![pass[w].file] = pass[w].version]
                /\ Goes(w, "hash", "checksum")
                /\ Touch(w)
                /\ UNCHANGED <<files, checksum, rows, suspect>>

(* upsert_checksum: nothing reads the hash it also puts into table files.  *)
StoreChecksum(w) ==
  /\ checksum' = [checksum EXCEPT ![pass[w].file] = pass[w].version]
  /\ Goes(w, "checksum", "delete symbol")
  /\ Touch(w)
  /\ UNCHANGED <<files, fileHash, rows, suspect>>

Without(f, kinds) ==
  [rows EXCEPT ![f] = [r \in Row |-> IF r[1] \in kinds THEN 0 ELSE rows[f][r]]]

DeleteRows(w, k, from, to) == /\ Goes(w, from, to)
                              /\ rows' = Without(pass[w].file, {k})
                              /\ Touch(w)
                              /\ UNCHANGED <<files, fileHash, checksum, suspect>>

RemoveFileSymbols_KeepLiterals(w) ==
  \/ DeleteRows(w, "symbol", "delete symbol", "delete reference")
  \/ DeleteRows(w, "reference", "delete reference", "parse")

(* remove_file_symbols: one statement after the other.  The matches of a   *)
(* literal (potential_string_refs) go with it.                             *)
RemoveFileSymbols(w) ==
  \/ DeleteRows(w, "symbol", "delete symbol", "delete reference")
  \/ DeleteRows(w, "reference", "delete reference", "delete literal")
  \/ DeleteRows(w, "literal", "delete literal", "parse")

Parse(w) == Goes(w, "parse", "insert symbol")
            /\ UNCHANGED <<files, tables, touched, suspect>>

InsertRow_Duplicates(w, k, from, to) ==
  LET p == pass[w]
  IN  /\ fileHash[p.file] # 0
      /\ Goes(w, from, to)
      /\ rows' = [rows EXCEPT ![p.file][<<k, p.version>>] = @ + 1]
      /\ Touch(w)
      /\ UNCHANGED <<files, fileHash, checksum>>

(* Without the row of file_hash its foreign key refers to, an insertion is *)
(* an error, and the pass can only Stop.  A reference is unique: INSERT OR *)
(* IGNORE drops a second one.                                              *)
InsertRow(w, k, from, to) ==
  LET p == pass[w]
  IN  /\ fileHash[p.file] # 0
      /\ Goes(w, from, to)
      /\ rows' = [rows EXCEPT ![p.file][<<k, p.version>>] =
                    IF k = "reference" THEN 1 ELSE @ + 1]
      /\ Touch(w)
      /\ UNCHANGED <<files, fileHash, checksum>>

Insert(w) == /\ \/ InsertRow(w, "symbol", "insert symbol", "insert reference")
                \/ InsertRow(w, "reference", "insert reference", "insert literal")
             /\ UNCHANGED suspect

(* The last row ends the pass.  Undisturbed, it settles the file.          *)
Finish(w) == /\ InsertRow(w, "literal", "insert literal", "idle")
             /\ suspect' = [suspect EXCEPT ![pass[w].file] =
                              @ /\ (touched[w] \/ Others(w, pass[w].file) # {})]
-----------------------------------------------------------------------------
(* remove_file: the daemon loop on a Removed event, late as it may be.     *)

StartRemoval(w, f) == /\ f \in gone
                      /\ gone' = gone \ {f}
                      /\ Begin(w, f, "remove reference", 0)
                      /\ UNCHANGED <<disk, newest, tables>>

RemoveHash_NoCascade(w) ==
  LET f == pass[w].file
  IN  /\ Goes(w, "remove hash", "idle")
      /\ fileHash' = [fileHash EXCEPT ![f] = 0]
      /\ Touch(w)
      /\ UNCHANGED <<files, checksum, rows, suspect>>

(* Deleting the hash cascades to symbols and literals.  It cascades to no  *)
(* reference: one that was inserted meanwhile makes it an error.           *)
RemoveHash(w) ==
  LET f == pass[w].file
  IN  /\ \A r \in Row : r[1] = "reference" => rows[f][r] = 0
      /\ Goes(w, "remove hash", "idle")
      /\ fileHash' = [fileHash EXCEPT ![f] = 0]
      /\ rows' = Without(f, Kind)
      /\ Touch(w)
      /\ UNCHANGED <<files, checksum, suspect>>

RemoveFile(w) == \/ DeleteRows(w, "reference", "remove reference", "remove symbol")
                 \/ DeleteRows(w, "symbol", "remove symbol", "remove hash")
                 \/ RemoveHash(w)
-----------------------------------------------------------------------------
(* An error, or a kill: the worker is done with the file.  A foreign key   *)
(* refuses an insertion without the hash, and the deletion of the hash     *)
(* under a reference, fault or no fault.  A pass that has stored its hash, *)
(* and a removal that has deleted something, leave a hash without its rows.*)
Refused(w) ==
  LET f == pass[w].file
  IN  \/ /\ pass[w].at \in {"insert symbol", "insert reference", "insert literal"}
         /\ fileHash[f] = 0
      \/ /\ pass[w].at = "remove hash"
         /\ \E r \in Row : r[1] = "reference" /\ rows[f][r] > 0

Stop(w) == /\ pass[w].at # "idle"
           /\ Faults \/ Refused(w)
           /\ pass' = [pass EXCEPT ![w].at = "idle"]
           /\ suspect' = [suspect EXCEPT ![pass[w].file] =
                            @ \/ pass[w].at \notin {"compare", "hash", "remove reference"}]
           /\ UNCHANGED <<files, tables, touched>>

Progress(w) == \/ Skip(w) \/ Differs(w)
               \/ StoreHash(w) \/ StoreChecksum(w) \/ RemoveFileSymbols(w)
               \/ Parse(w) \/ Insert(w) \/ Finish(w)
               \/ RemoveFile(w)

Work(w) == Progress(w) \/ Stop(w)

Next == \/ \E f \in Files : Edit(f) \/ Delete(f)
        \/ \E w \in Workers : \/ Work(w)
                              \/ \E f \in Files : Read(w, f) \/ StartRemoval(w, f)

(* Workers that have begun go on, every file that exists is polled (daemon *)
(* --poll-interval), and the comparison and the store of a hash do not     *)
(* fail each time they are tried.                                          *)
Fairness == /\ \A w \in Workers : /\ WF_indexerVars(Work(w))
                                  /\ SF_indexerVars(Differs(w))
                                  /\ SF_indexerVars(StoreHash(w))
            /\ \A f \in Files : WF_indexerVars(\E w \in Workers : Read(w, f))

Spec == Init /\ [][Next]_indexerVars
FairSpec == Spec /\ Fairness
-----------------------------------------------------------------------------
(* The types, and the uniqueness of references.                            *)
TypeOK ==
  /\ disk \in [Files -> Version] /\ newest \in [Files -> Version] /\ gone \subseteq Files
  /\ fileHash \in [Files -> Version] /\ checksum \in [Files -> Version]
  /\ rows \in [Files -> [Row -> Nat]]
  /\ \A f \in Files, v \in 1 .. MaxVersion : rows[f][<<"reference", v>>] \in {0, 1}
  /\ pass \in [Workers -> Pass]
  /\ touched \in [Workers -> BOOLEAN] /\ suspect \in [Files -> BOOLEAN]

(* A pass that ends, and that no one else wrote behind, leaves exactly the *)
(* rows of the content it read, under its hash and its checksum, whatever  *)
(* was left in the tables before it: half a pass, a mixture, or nothing.   *)
ExactPass ==
  [][\A w \in Workers : LET f == pass[w].file
                            v == pass[w].version
                        IN  Finish(w) /\ ~touched[w]
                            => Exact(f, v)' /\ fileHash'[f] = v /\ checksum'[f] = v]_indexerVars

(* A file whose hash is stored, and that no one is working on, has the     *)
(* rows of that content (perhaps twice), or one of three things has        *)
(* happened since an undisturbed pass last ended there: a pass over it     *)
(* stopped behind the store of its hash; a removal of it stopped between   *)
(* its first statement and its last; or two passes over different          *)
(* contents, or a pass and a removal, were at it at once.                  *)
OnlyThreeWaysToFail ==
  \A f \in Files : QuietFile(f) /\ fileHash[f] # 0 /\ ~suspect[f] => Faithful(f, fileHash[f])

(* No row outlives the hash that change detection finds it by.             *)
RowsHaveHash == \A f \in Files : fileHash[f] = 0 => \A r \in Row : rows[f][r] = 0

(* Whatever the workers do to each other, polling brings the stored hash   *)
(* of a file that exists up to its content once it is left alone.          *)
HashCatchesUp ==
  \A f \in Files : <>[](disk[f] # 0 => fileHash[f] = disk[f])

(* "3. Insert new symbols/refs 4. Update file hash and timestamp"          *)
(* (daemon.rs:375-376): a file with a hash that no one is working on has   *)
(* the rows of that content, or change detection would never repair it.    *)
HashedIsIndexed ==
  \A f \in Files : QuietFile(f) /\ fileHash[f] # 0 => Faithful(f, fileHash[f])
=============================================================================
