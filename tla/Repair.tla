------------------------------- MODULE Repair -------------------------------
(***************************************************************************)
(* IntegrityGuard (src/src/integrity.rs) with the table dirty_queue, and   *)
(* RecoveryJournal with RecoveryEngine (src/src/recovery.rs), on one file. *)
(*                                                                         *)
(* Both are libraries: a caller checks the file, works off the queue,      *)
(* indexes the file between a Pending and a Committed line of the journal, *)
(* or recovers from the journal.  Callers run in several processes, may be *)
(* killed between any two steps, and share the tables and the journal (the *)
(* Mutex of a RecoveryJournal is one object's own).  A version is a        *)
(* content of the file and its hash: 0 is no file, no row, or no hash.     *)
(***************************************************************************)
EXTENDS Integers, FiniteSets

CONSTANTS Callers,
          Uses,        \* what each of them does: see Ways
          Binaries,    \* which contents may be no UTF-8: none can index those
          MaxVersion,  \* bound: contents the file goes through
          MaxWrites    \* bound: times it is written or deleted

Version == 0 .. MaxVersion

(* A guard calls the IntegrityGuard; the others recover from the journal,  *)
(* or write ahead to it, lines with the hash of the content or without.    *)
Ways == {"guard", "journal", "journal, no hash"}

ASSUME RepairAssumption == /\ Uses \subseteq [Callers -> Ways] /\ IsFiniteSet(Callers)
                           /\ Binaries \subseteq SUBSET Version
                           /\ MaxVersion \in Nat \ {0} /\ MaxWrites \in Nat

VARIABLES
  use,      \* what each caller does
  binary,   \* the contents that are no UTF-8
  disk,     \* the version of the file
  writes,   \* how often it was written
  hash,     \* table file_hash
  checksum, \* tables files and checksums
  rows,     \* the version whose symbols and references the tables have, all of them
  pending,  \* pending entries of the dirty_queue
  journal,  \* the hashes of the Pending lines of journal.jsonl, 0 for a line without
  torn,     \* its last line is part of one, without an end
  work,     \* what each caller is doing
  mixed,    \* history: another caller was at work, or the file was written, since it began
  bare,     \* history: its Pending line was truncated, or fell to a torn one
  suspect   \* history: why the rows may not be those of the checksum

file   == <<use, binary, disk, writes>>
tables == <<hash, checksum, rows>>
log    == <<journal, torn, bare>>
vars   == <<file, tables, pending, log, work, mixed, suspect>>

(* One pass of index_file, and what its caller does around it.             *)
At   == {"idle", "entry", "remove reference", "remove symbol", "remove hash", "verify", "compare",
         "delete entry", "insert entry", "single", "index", "hash", "checksum", "rows",
         "store", "clear", "append", "commit", "recover"}
Work == [at : At,
         for : {"none", "missing", "single", "journal", "recover"},
         read : Version,         \* what the caller of index_file read
         seen : Version,         \* what index_file read
         todo : SUBSET Version,  \* Pending lines to recover
         lost : BOOLEAN]         \* history: recover dropped an error of index_file

Idle == [at |-> "idle", for |-> "none", read |-> 0, seen |-> 0, todo |-> {}, lost |-> FALSE]

(* The contents have numbers in the order in which they come up.           *)
Init == /\ use \in Uses /\ binary \in Binaries
        /\ disk \in 0 .. 1 /\ writes = 0
        /\ hash = 0 /\ checksum = 0 /\ rows = 0 /\ pending = 0
        /\ journal = {} /\ torn = FALSE
        /\ work = [c \in Callers |-> Idle]
        /\ mixed = [c \in Callers |-> FALSE] /\ bare = mixed /\ suspect = FALSE
-----------------------------------------------------------------------------
Busy(c)   == work[c] # Idle
Others(c) == {d \in Callers \ {c} : Busy(d)}
Is(c, at) == work[c].at = at
Guards    == {c \in Callers : use[c] = "guard"}

Go(c, at) == work' = [work EXCEPT ![c].at = at]
End(c)    == work' = [work EXCEPT ![c] = Idle]

(* c writes: it comes between the others.                                  *)
Disturb(c) == mixed' = [d \in Callers |-> mixed[d] \/ d \in Others(c)]

(* c has ended, and keeps no history.                                      *)
Leave(c) == /\ End(c)
            /\ mixed' = [d \in Callers |-> d # c /\ (mixed[d] \/ Busy(d))]

Write(v) == /\ disk # v /\ writes < MaxWrites
            /\ disk' = v /\ writes' = writes + 1
            /\ mixed' = [c \in Callers |-> mixed[c] \/ Busy(c)]
            /\ UNCHANGED <<use, binary, tables, pending, log, work, suspect>>

Begin(c, first) == /\ ~Busy(c)
                   /\ work' = [work EXCEPT ![c] = first]
                   /\ mixed' = [d \in Callers |-> IF d = c THEN Others(c) # {}
                                                  ELSE mixed[d] \/ Busy(d)]
                   /\ suspect' = (suspect \/ Others(c) # {})
-----------------------------------------------------------------------------
(* The queue.                                                              *)

(* process_dirty_queue: nothing to do without a pending entry.             *)
ProcessQueue(c) == /\ pending > 0
                   /\ Begin(c, [Idle EXCEPT !.at = "entry"])
                   /\ UNCHANGED <<file, tables, pending, log>>

(* An entry whose file is missing takes the file out of the index.         *)
Entry(c) == /\ Is(c, "entry")
            /\ Go(c, IF disk = 0 THEN "remove reference" ELSE "verify")
            /\ UNCHANGED <<file, tables, pending, log, mixed, suspect>>

(* remove_file: three statements, each of which commits by itself.         *)
RemoveReferences(c) == /\ Is(c, "remove reference")
                       /\ rows' = 0 /\ suspect' = TRUE
                       /\ Go(c, "remove symbol") /\ Disturb(c)
                       /\ UNCHANGED <<file, hash, checksum, pending, log>>

RemoveSymbols(c) == /\ Is(c, "remove symbol")
                    /\ rows' = 0 /\ suspect' = TRUE
                    /\ Go(c, "remove hash") /\ Disturb(c)
                    /\ UNCHANGED <<file, hash, checksum, pending, log>>

RemoveHash_Not(c) == /\ Is(c, "remove hash")
                     /\ suspect' = TRUE
                     /\ Go(c, "clear") /\ Disturb(c)
                     /\ UNCHANGED <<file, tables, pending, log>>

(* The checksum stays, and judges a file of the same content that comes    *)
(* back.                                                                   *)
RemoveHash(c) == /\ Is(c, "remove hash")
                 /\ hash' = 0 /\ suspect' = TRUE
                 /\ Go(c, "clear") /\ Disturb(c)
                 /\ UNCHANGED <<file, checksum, rows, pending, log>>

(* check_and_process, on its own.                                          *)
Check(c) == /\ Begin(c, [Idle EXCEPT !.at = "verify"])
            /\ UNCHANGED <<file, tables, pending, log>>

(* verify_file reads the checksum, then the file.  To get_checksum an      *)
(* error of the database is no checksum.                                   *)
VerifyStored(c) == \E stored \in {checksum, 0} :
  /\ Is(c, "verify")
  /\ work' = [work EXCEPT ![c].at = "compare", ![c].read = stored]
  /\ UNCHANGED <<file, tables, pending, log, mixed, suspect>>

(* Clean: it is only touched.                                              *)
Clean(c) == /\ Is(c, "compare")
            /\ disk # 0 /\ work[c].read = disk
            /\ Leave(c)
            /\ UNCHANGED <<file, tables, pending, log, suspect>>

(* Dirty or Unknown: queued and processed.  Missing: only queued.          *)
NotClean(c, for) == /\ Is(c, "compare")
                    /\ disk = 0 \/ work[c].read # disk
                    /\ work' = [work EXCEPT ![c] = [Idle EXCEPT !.at = "delete entry", !.for = for]]
                    /\ UNCHANGED <<file, tables, pending, log, mixed, suspect>>

(* A file that is there and cannot be read, or only not now, is Missing.   *)
Unread(c) == /\ Is(c, "compare") /\ disk # 0
             /\ work' = [work EXCEPT ![c] = [Idle EXCEPT !.at = "delete entry",
                                                        !.for = "missing"]]
             /\ UNCHANGED <<file, tables, pending, log, mixed, suspect>>

DeleteEntry_Not(c) == /\ Is(c, "delete entry")
                      /\ pending' = pending
                      /\ Go(c, "insert entry") /\ Disturb(c)
                      /\ UNCHANGED <<file, tables, log, suspect>>

(* insert_dirty: one pending entry in place of those there are.            *)
DeleteEntry(c) == /\ Is(c, "delete entry")
                  /\ pending' = 0
                  /\ Go(c, "insert entry") /\ Disturb(c)
                  /\ UNCHANGED <<file, tables, log, suspect>>

InsertEntry_Only(c) == /\ Is(c, "insert entry")
                       /\ pending' = pending + 1
                       /\ Leave(c)
                       /\ UNCHANGED <<file, tables, log, suspect>>

InsertEntry(c) == /\ Is(c, "insert entry")
                  /\ pending' = pending + 1
                  /\ IF work[c].for = "missing" THEN Leave(c)
                                                ELSE Go(c, "single") /\ Disturb(c)
                  /\ UNCHANGED <<file, tables, log, suspect>>

(* A file that is gone, or is no UTF-8: read_to_string gives nothing.      *)
NoText == disk = 0 \/ disk \in binary

(* process_single: the content whose hash becomes the checksum.  Without   *)
(* it the entry stays where it is.                                         *)
Single(c) == /\ Is(c, "single")
             /\ IF NoText THEN Leave(c)
                ELSE /\ work' = [work EXCEPT ![c].at = "index", ![c].read = disk]
                     /\ UNCHANGED mixed
             /\ UNCHANGED <<file, tables, pending, log, suspect>>

StoreChecksum_Late(c) == /\ Is(c, "store")
                         /\ checksum' = disk
                         /\ suspect' = (suspect \/ work[c].read # work[c].seen)
                         /\ work' = [work EXCEPT ![c] = [Idle EXCEPT !.at = "clear"]] /\ Disturb(c)
                         /\ UNCHANGED <<file, hash, rows, pending, log>>

(* Of the content process_single read, whatever index_file has read since. *)
StoreChecksum(c) == /\ Is(c, "store")
                    /\ checksum' = work[c].read
                    /\ suspect' = (suspect \/ work[c].read # work[c].seen)
                    /\ work' = [work EXCEPT ![c] = [Idle EXCEPT !.at = "clear"]] /\ Disturb(c)
                    /\ UNCHANGED <<file, hash, rows, pending, log>>

(* clear_dirty: every entry of the file is processed.                      *)
ClearDirty(c) == /\ Is(c, "clear")
                 /\ pending' = 0
                 /\ Leave(c)
                 /\ UNCHANGED <<file, tables, log, suspect>>
-----------------------------------------------------------------------------
(* index_file.                                                             *)

After(for) == IF for = "single" THEN "store"
              ELSE IF for = "journal" THEN "commit" ELSE "recover"

(* No text: an error, which the queue collects.                            *)
IndexNoText(c) == /\ Is(c, "index") /\ NoText
                  /\ work[c].for # "recover"
                  /\ Leave(c)
                  /\ UNCHANGED <<file, tables, pending, log, suspect>>

(* recover drops every error of index_file, wherever it is met, and those  *)
(* before it, and goes on to the next line.                                *)
DropError(c) == /\ work[c].for = "recover"
                /\ work[c].at \in {"index", "hash", "checksum", "rows"}
                /\ suspect' = (suspect \/ work[c].at \in {"checksum", "rows"})
                /\ work' = [work EXCEPT ![c].at = "recover", ![c].seen = 0, ![c].lost = TRUE]
                /\ UNCHANGED <<file, tables, pending, log, mixed>>

(* It returns: of its locals only the caller process_single's is looked at *)
(* again, by a history.                                                    *)
Return(c, seen) ==
  work' = [work EXCEPT ![c].at = After(work[c].for),
                       ![c].seen = IF work[c].for = "single" THEN seen ELSE 0]

(* unchanged, skipping.                                                    *)
IndexUnchanged(c) == /\ Is(c, "index") /\ ~NoText
                     /\ hash = disk
                     /\ Return(c, disk)
                     /\ UNCHANGED <<file, tables, pending, log, mixed, suspect>>

(* get_file_hash turns an error into no hash, and the pass goes on.        *)
IndexRead(c) == /\ Is(c, "index") /\ ~NoText
                /\ work' = [work EXCEPT ![c].at = "hash", ![c].seen = disk]
                /\ UNCHANGED <<file, tables, pending, log, mixed, suspect>>

IndexHash(c) == /\ Is(c, "hash")
                /\ hash' = work[c].seen
                /\ Go(c, "checksum") /\ Disturb(c)
                /\ UNCHANGED <<file, checksum, rows, pending, log, suspect>>

IndexChecksum(c) == /\ Is(c, "checksum")
                    /\ checksum' = work[c].seen
                    /\ Go(c, "rows") /\ Disturb(c)
                    /\ UNCHANGED <<file, hash, rows, pending, log, suspect>>

(* The rows of the old content go and those of the new one come, as module *)
(* Indexer has it in detail.  Undisturbed, this settles the file.          *)
IndexRows(c) == /\ Is(c, "rows")
                /\ rows' = work[c].seen
                /\ Return(c, work[c].seen) /\ Disturb(c)
                /\ suspect' = (suspect /\ (mixed[c] \/ Others(c) # {}))
                /\ UNCHANGED <<file, hash, checksum, pending, log>>

Index(c) == \/ IndexNoText(c) \/ DropError(c) \/ IndexUnchanged(c) \/ IndexRead(c)
            \/ IndexHash(c) \/ IndexChecksum(c) \/ IndexRows(c)
-----------------------------------------------------------------------------
(* The journal.  Only Pending lines are kept here: recover asks for no     *)
(* others.                                                                 *)

AppendLine_Creates(c, hashes) == /\ journal' = hashes /\ torn' = FALSE
                                 /\ bare' = [bare EXCEPT ![c] = FALSE]

(* A line behind one without an end becomes part of it.                    *)
AppendLine(c, hashes) == /\ journal' = journal \cup (IF torn THEN {} ELSE hashes)
                         /\ torn' = FALSE
                         /\ bare' = [bare EXCEPT ![c] = torn /\ hashes # {}]

(* What a caller does around an index_file: a Pending line with the hash,  *)
(* or without, and a Committed one.                                        *)
Journal(c) == /\ disk # 0
              /\ Begin(c, [Idle EXCEPT !.at = "append",
                                       !.read = IF use[c] = "journal" THEN disk ELSE 0])
              /\ UNCHANGED <<file, tables, pending, log>>

AppendPending(c) == /\ Is(c, "append")
                    /\ AppendLine(c, {work[c].read})
                    /\ work' = [work EXCEPT ![c].at = "index", ![c].for = "journal"]
                    /\ Disturb(c)
                    /\ UNCHANGED <<file, tables, pending, suspect>>

AppendCommitted(c) == /\ Is(c, "commit")
                      /\ AppendLine(c, {})
                      /\ Leave(c)
                      /\ UNCHANGED <<file, tables, pending, suspect>>

(* recover: without a Pending line it ends, and truncates nothing.         *)
Recover(c) == /\ journal # {}
              /\ Begin(c, [Idle EXCEPT !.at = "recover", !.for = "recover", !.todo = journal])
              /\ UNCHANGED <<file, tables, pending, log>>

ToReindex_Same(h) == h = disk

(* A file with the hash of the line counts as indexed.                     *)
ToReindex(h) == disk # 0 /\ h # disk

RecoverLine(c, h) ==
  /\ Is(c, "recover") /\ h \in work[c].todo
  /\ work' = [work EXCEPT ![c].todo = @ \ {h},
                          ![c].at = IF ToReindex(h) THEN "index" ELSE "recover"]
  /\ UNCHANGED <<file, tables, pending, log, mixed, suspect>>

(* All of it, with what another process has appended since it was read.    *)
Truncate(c) == /\ Is(c, "recover") /\ work[c].todo = {}
               /\ journal' = {} /\ torn' = FALSE
               /\ bare' = [d \in Callers |-> d \in Others(c)]
               /\ Leave(c)
               /\ UNCHANGED <<file, tables, pending, suspect>>
-----------------------------------------------------------------------------
(* A kill, or an error of the database, of the parser or of a read that    *)
(* ends the pass.  In an append it leaves part of a line.                  *)
Stop(c) == /\ Busy(c)
           /\ torn' \in {torn, torn \/ work[c].at \in {"append", "commit"}}
           /\ suspect' = (suspect \/ work[c].at \in {"checksum", "rows"})
           /\ bare' = [bare EXCEPT ![c] = FALSE]
           /\ Leave(c)
           /\ UNCHANGED <<file, tables, pending, journal>>

GuardStep(c) == \/ Entry(c) \/ RemoveReferences(c) \/ RemoveSymbols(c) \/ RemoveHash(c)
                \/ VerifyStored(c) \/ Clean(c)
                \/ NotClean(c, IF disk = 0 THEN "missing" ELSE "single")
                \/ DeleteEntry(c) \/ InsertEntry(c)
                \/ Single(c) \/ StoreChecksum(c) \/ ClearDirty(c)

JournalStep(c) == \/ AppendPending(c) \/ AppendCommitted(c)
                  \/ \E h \in Version : RecoverLine(c, h)
                  \/ Truncate(c)

Step(c) == GuardStep(c) \/ Index(c) \/ JournalStep(c)

Next == \/ \E v \in Version : Write(v)
        \/ \E c \in Guards : ProcessQueue(c) \/ Check(c)
        \/ \E c \in Callers \ Guards : Journal(c) \/ Recover(c)
        \/ \E c \in Callers : Step(c) \/ Unread(c) \/ Stop(c)

Spec == Init /\ [][Next]_vars

(* Callers that have begun go on, and someone asks for the queue now and   *)
(* then.                                                                   *)
FairSpec == Spec /\ (\A c \in Callers : WF_vars(Step(c)))
                 /\ SF_vars(\E c \in Guards : ProcessQueue(c))
-----------------------------------------------------------------------------
RTypeOK ==
  /\ use \in Uses /\ binary \in Binaries /\ disk \in Version /\ writes \in 0 .. MaxWrites
  /\ hash \in Version /\ checksum \in Version
  /\ rows \in Version /\ pending \in 0 .. Cardinality(Callers)
  /\ journal \subseteq Version /\ torn \in BOOLEAN
  /\ work \in [Callers -> Work]
  /\ mixed \in [Callers -> BOOLEAN] /\ bare \in [Callers -> BOOLEAN] /\ suspect \in BOOLEAN

(* What verify_file calls clean has the symbols of its content, unless,    *)
(* since a whole pass last put them there, a pass stopped behind the store *)
(* of the hash, the file was taken out of the index, or only its rows      *)
(* before that stopped (its checksum stays), it was written between the    *)
(* two reads of process_single, or two callers were at work at once.       *)
CleanIsIndexed == \/ \E c \in Callers : Busy(c)
                  \/ disk # 0 /\ checksum = disk /\ ~suspect => rows = disk

(* An entry leaves the queue only when the file as it is now is in the     *)
(* index under its hash and its checksum, or is out of it, unless the file *)
(* was written, or another caller at work, meanwhile.                      *)
ClearedIsServed ==
  [][\A c \in Callers : ClearDirty(c) /\ ~mixed[c]
                       => hash = disk /\ (disk # 0 => checksum = disk)]_vars

(* Once kills and errors stop, and the file is left alone, either its      *)
(* checksum comes to be that of its content for good, whoever else is at   *)
(* work, or nothing is left in the queue: it does not stay there           *)
(* unprocessed.  It may stay there processed, and a file that is gone or   *)
(* no UTF-8 may stay for ever: process_single leaves its entry.            *)
QueueSettles == <>[][\A c \in Callers : ~Stop(c) /\ ~Unread(c)]_vars
                => \/ <>[](NoText \/ checksum = disk)
                   \/ <>[](pending = 0)

(* A write-ahead log: while a journalled pass has stored the hash, and not *)
(* all of the rows, its Pending line can be read, unless it fell to the    *)
(* torn line of a caller that was killed, or to the truncation of another  *)
(* process.                                                                *)
WriteAhead ==
  \A c \in Callers : work[c].for = "journal" /\ work[c].at \in {"checksum", "rows"}
                      => work[c].read \in journal \/ bare[c]

(* When the journal is truncated, a file with another content than a line  *)
(* of it says, or whose line says none, is in the index with the content   *)
(* it has, unless index_file failed: recover drops its error, and the      *)
(* lines with it.                                                          *)
RecoverRepairs ==
  [][\A c \in Callers : Truncate(c) /\ ~mixed[c] /\ ~work[c].lost
                           /\ disk # 0 /\ journal # {disk}
                         => hash = disk]_vars
=============================================================================
