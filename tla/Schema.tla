------------------------------- MODULE Schema -------------------------------
(***************************************************************************)
(* init_db (src/src/database/schema.rs), which every IndexDb::open runs,   *)
(* by several processes on one database file.                              *)
(*                                                                         *)
(* A migration is an execute_batch without a transaction: each of its      *)
(* statements commits by itself, and the version is recorded behind the    *)
(* last one.  Most statements say IF NOT EXISTS or OR IGNORE and may be    *)
(* repeated.  ALTER TABLE ADD COLUMN may not, and SQLite refuses one whose *)
(* default is an expression when the table has rows.                       *)
(***************************************************************************)
EXTENDS Integers, Sequences

CONSTANTS Openers,  \* threads and processes that open the database
          Files,    \* paths that may be in a database of an older program
          Kills     \* a process may be killed, or fail, between statements

ASSUME SchemaAssumption == Kills \in BOOLEAN

Current == 5        \* CURRENT_SCHEMA_VERSION

Create(x)      == [op |-> "create", object |-> x]
Add(x)         == [op |-> "add", object |-> x]
AddComputed(x) == [op |-> "add computed", object |-> x]
Copy(x)        == [op |-> "copy", object |-> x]

(* Tables and indexes that nothing tells apart are one object.             *)
Initial    == <<Create("initial")>>
Masterplan == <<Create("files"), Copy("files"),
                Add("qualified_name"), Add("signature_hash"), Add("body_hash"),
                Add("token_count"), Add("is_public"), Add("is_test"),
                Add("status"), AddComputed("extracted_at"),
                Create("refs"), Create("checksums"), Copy("checksums"),
                Create("dirty_queue"), Create("agent_cache")>>
Overrides  == <<Create("overrides")>>
Confidence_SameColumn == <<Add("confidence"), Add("status")>>
Confidence == <<Add("confidence"), Add("is_dynamic"), Create("idx_ref_confidence")>>
StringRefs == <<Create("string_literals"), Create("potential_string_refs")>>

Migrations == <<Initial, Masterplan, Overrides, Confidence, StringRefs>>

Objects(m) == {Migrations[m][i].object : i \in DOMAIN Migrations[m]}
UpTo(n)    == UNION {Objects(m) : m \in 1 .. n}
Tables     == {"file_hash", "symbol", "files", "checksums"}

VARIABLES
  recorded,  \* table versions
  objects,   \* tables, columns and indexes that exist
  rows,      \* the files that each table has rows of
  old,       \* the files a program before version 2 had indexed (history)
  at         \* where each opener is: migration and statement

vars == <<recorded, objects, rows, old, at>>

Closed   == [step |-> "closed", version |-> 0, next |-> 1]
Place    == [step : {"closed", "statement", "record", "open", "refused"},
             version : 0 .. Current, next : 1 .. Len(Masterplan)]

(* get_schema_version: the highest one, or 0.                              *)
IsVersion(n) == /\ n \in 0 .. Current
                /\ n = 0 \/ n \in recorded
                /\ \A v \in recorded : v <= n

(* A new file, or a database of the program at version n, with or without  *)
(* rows.  The program of version 1 had no table versions.  From version 2  *)
(* on a program stores the hash of a file, its row in files and its        *)
(* checksum one after the other, and takes only the hash away when the     *)
(* file goes; a kill in between leaves any of them without the others, but *)
(* a checksum refers to a row in files.                                    *)
Init == /\ \E n \in 0 .. Current, F, S, G, H \in SUBSET Files :
             /\ n = 0 => F = {}
             /\ n < 2 => G = {}
             /\ S \subseteq F /\ H \subseteq G
             /\ objects = UpTo(n)
             /\ recorded \in IF n = 1 THEN {{}, {1}} ELSE {1 .. n}
             /\ rows = [t \in Tables |-> CASE t = "file_hash" -> F [] t = "symbol" -> S
                                         [] t = "files" -> G [] t = "checksums" -> H]
             /\ old = IF n < 2 THEN F ELSE {}
        /\ at = [o \in Openers |-> Closed]
-----------------------------------------------------------------------------
Go(o, step, version, next) ==
  at' = [at EXCEPT ![o] = [step |-> step, version |-> version, next |-> next]]

(* The next migration, or the end of init_db.                              *)
GoOn(o, version) == IF version = Current THEN Go(o, "open", version, 1)
                    ELSE Go(o, "statement", version + 1, 1)

Open_SkipsOne(o) ==
  /\ at[o].step \in {"closed", "refused"}
  /\ \E n \in 0 .. Current : /\ IsVersion(n)
                             /\ GoOn(o, IF n \in {1, 3} THEN n + 1 ELSE n)
  /\ UNCHANGED <<recorded, objects, rows, old>>

(* Create the table versions, read the version.                            *)
Open(o) == /\ at[o].step \in {"closed", "refused"}
           /\ \E n \in 0 .. Current : IsVersion(n) /\ GoOn(o, n)
           /\ UNCHANGED <<recorded, objects, rows, old>>

Statement(o) == Migrations[at[o].version][at[o].next]

Advance(o) == IF at[o].next = Len(Migrations[at[o].version])
              THEN Go(o, "record", at[o].version, 1)
              ELSE Go(o, "statement", at[o].version, at[o].next + 1)

Accepted_Once(s)   == s.op # "copy" => s.object \notin objects
Accepted_Always(s) == s.op = "add computed" => rows["symbol"] = {}

Accepted(s) == /\ s.op \in {"add", "add computed"} => s.object \notin objects
               /\ s.op = "add computed" => rows["symbol"] = {}

CopyInto_Nothing(t) == rows

(* INSERT OR IGNORE ... SELECT of what is not there yet.  That of refs and *)
(* the UPDATE of the qualified names find nothing to do: they come behind  *)
(* the computed column, hence only where there is no symbol, and a         *)
(* reference without its caller's symbol is one that OR IGNORE drops.      *)
CopyInto(t) ==
  [rows EXCEPT ![t] = @ \cup IF t = "files" THEN rows["file_hash"] ELSE rows["files"]]

Execute(o) ==
  LET s == Statement(o)
  IN  /\ at[o].step = "statement"
      /\ Accepted(s)
      /\ IF s.op = "copy" THEN rows' = CopyInto(s.object) /\ UNCHANGED objects
                          ELSE objects' = objects \cup {s.object} /\ UNCHANGED rows
      /\ Advance(o)
      /\ UNCHANGED <<recorded, old>>

(* migration v{} failed: the open fails, what was done stays.              *)
Refuse(o) == /\ at[o].step = "statement"
             /\ ~Accepted(Statement(o))
             /\ Go(o, "refused", at[o].version, 1)
             /\ UNCHANGED <<recorded, objects, rows, old>>

Record_Next(o) == /\ at[o].step = "record"
                  /\ recorded' = recorded \cup {at[o].version + 1}
                  /\ GoOn(o, at[o].version)
                  /\ UNCHANGED <<objects, rows, old>>

Record(o) == /\ at[o].step = "record"
             /\ recorded' = recorded \cup {at[o].version}
             /\ GoOn(o, at[o].version)
             /\ UNCHANGED <<objects, rows, old>>

Close(o) == /\ at[o].step = "open"
            /\ at' = [at EXCEPT ![o] = Closed]
            /\ UNCHANGED <<recorded, objects, rows, old>>

(* A kill, or an error such as a full disk or a lock held for five         *)
(* seconds.                                                                *)
Kill(o) == /\ Kills
           /\ at[o].step \in {"statement", "record"}
           /\ at' = [at EXCEPT ![o] = Closed]
           /\ UNCHANGED <<recorded, objects, rows, old>>

Step(o) == Open(o) \/ Execute(o) \/ Refuse(o) \/ Record(o)

Next == \E o \in Openers : Step(o) \/ Close(o) \/ Kill(o)

Spec == Init /\ [][Next]_vars

(* An opener that has begun goes on, and one that was refused is started   *)
(* again.                                                                  *)
FairSpec == Spec /\ \A o \in Openers : WF_vars(Step(o))
-----------------------------------------------------------------------------
SchemaTypeOK == /\ recorded \subseteq 1 .. Current
                /\ objects \subseteq UpTo(Current)
                /\ rows \in [Tables -> SUBSET Files]
                /\ old \subseteq rows["file_hash"]
                /\ at \in [Openers -> Place]

(* What the table versions says of a database is true of it: every object  *)
(* of every migration up to the recorded one is there, whoever applied it, *)
(* and whatever was killed on the way.                                     *)
RecordedIsThere == \A v \in recorded : UpTo(v) \subseteq objects

(* A database that opens has the whole schema, and has kept its data: each *)
(* file that a program before version 2 had indexed, and knew only by its  *)
(* row in file_hash, has its row in files and in checksums, from which     *)
(* IntegrityGuard reads.  Of a database of version 2 or later it says      *)
(* nothing: a kill between index_file's stores leaves a hash without a     *)
(* checksum there, and no migration makes up for it.                       *)
OpenIsComplete ==
  \A o \in Openers : at[o].step = "open" =>
    /\ UpTo(Current) \subseteq objects
    /\ old \subseteq rows["files"] \cap rows["checksums"]

(* A column of migration m is there, m is not recorded, and no one will    *)
(* record it: whoever is at m has such a column still before it.           *)
Column(m, i)     == Migrations[m][i].op = "add" /\ Migrations[m][i].object \in objects
TornBetween(m)   == /\ m \notin recorded
                    /\ \E i \in DOMAIN Migrations[m] : Column(m, i)
                    /\ \A o \in Openers :
                         /\ ~(at[o].step = "record" /\ at[o].version = m)
                         /\ at[o].step = "statement" /\ at[o].version = m
                            => \E i \in DOMAIN Migrations[m] : i >= at[o].next /\ Column(m, i)
Torn             == TornBetween(2) \/ TornBetween(4)

(* Two processes that upgrade at once get in each other's way, and one of  *)
(* them is refused; but one of them gets through, and so does the other    *)
(* when it tries again, unless the database is torn (or kills never end).  *)
RefusalIsTemporary ==
  \/ []<><<\E o \in Openers : Kill(o)>>_vars
  \/ \A o \in Openers : at[o].step = "refused" ~> (at[o].step = "open" \/ Torn)

(* Overlapping opens alone never tear it.  It takes a process that dies    *)
(* within migration 2 or 4, or a database of version 1 with symbols, which *)
(* SQLite refuses the computed column extracted_at.                        *)
TornHasCause ==
  [][~Torn /\ Torn' =>
       \E o \in Openers : Kill(o) \/ (Refuse(o) /\ Statement(o).op = "add computed")]_vars

(* And a torn database is closed to everybody for ever: each open begins   *)
(* the migration anew and is refused at the column that is there.          *)
TornIsForGood == [][Torn => Torn' /\ \A o \in Openers : at'[o].step # "open"]_vars
=============================================================================
