------------------------------ MODULE Watcher -------------------------------
(***************************************************************************)
(* FileWatcher (src/src/watcher.rs) as cmd_daemon runs it: the files on    *)
(* disk, the notify thread that turns their events into dirty events, the  *)
(* daemon loop of module Daemon, the debouncer task that drains the same   *)
(* queue, the polling task, and the index that all three workers write.    *)
(*                                                                         *)
(* Here a file exists or not, and has rows in the index or not.  Indexing  *)
(* it is a read and, later, a write: which content is read, and what the   *)
(* write consists of, is module Indexer's business.  cmd_daemon never      *)
(* calls stop, so the owner of the daemon takes no step here.              *)
(***************************************************************************)
EXTENDS Daemon, FiniteSets, Functions

CONSTANTS Indexed,    \* the files there were when the daemon was started
          MaxChanges  \* bound: changes of files in a behaviour

ASSUME WatcherAssumption == Indexed \subseteq Paths /\ MaxChanges \in Nat

VARIABLES
  disk,      \* the files that exist
  index,     \* the files that have rows in the index
  notified,  \* events in the notify channel: not handled yet
  debounce,  \* the debounce map: no entry, or one younger or older than the window
  channel,   \* paths sent to the debouncer (it sorts and dedups them)
  dpc,       \* where the debouncer is
  todo,      \* its to_process
  dread,     \* the file it has read and not written yet
  lread,     \* the same of the daemon loop
  pread,     \* the same of the polling task
  changes,   \* how many changes were made
  unseen,    \* history: files changed and not looked at since
  dropped    \* history: of these, the ones a worker could not open the index for

files  == <<disk, changes>>
deb    == <<dpc, todo, dread>>
seen   == <<unseen, dropped>>
watcherVars == <<daemonVars, files, index, notified, debounce, channel, deb,
                 lread, pread, seen>>

Nothing == [path |-> "none", found |-> FALSE]
Reading(p) == [path |-> p, found |-> p \in disk]

(* cmd_daemon has indexed the files there were, and has started the daemon *)
(* and the watch.                                                          *)
WInit ==
  /\ state = "Idle" /\ queue = <<>> /\ lock = "free"
  /\ pc = "check" /\ rest = <<>> /\ event = NoEvent /\ failed = FALSE
  /\ owner = "idle" /\ handle = TRUE /\ signal = FALSE
  /\ disk = Indexed /\ index = Indexed
  /\ changes = 0
  /\ notified = <<>> /\ channel = {}
  /\ debounce = [p \in Paths |-> "none"]
  /\ dpc = "sleep" /\ todo = {}
  /\ dread = Nothing /\ lread = Nothing /\ pread = Nothing
  /\ unseen = {} /\ dropped = {}
-----------------------------------------------------------------------------
(* A worker comes to a changed file: it looks at it, or it cannot open the *)
(* index or create the parser, and lets go of it.                          *)
LookAt(p) == unseen' = unseen \ {p} /\ dropped' = dropped \ {p}
Drop(p)   == dropped' = dropped \cup ({p} \cap unseen) /\ UNCHANGED unseen
-----------------------------------------------------------------------------
(* The files.  Every change is reported; the two ends of a rename both     *)
(* come as Modify(Name), which handle_event_multi maps to Modified.        *)
Change(d, events) ==
  /\ changes < MaxChanges
  /\ changes' = changes + 1
  /\ disk' = d
  /\ notified' = notified \o events
  /\ LET paths == {e.path : e \in Range(events)}
     IN  unseen' = unseen \cup paths /\ dropped' = dropped \ paths
  /\ UNCHANGED <<daemonVars, index, debounce, channel, deb, lread, pread>>

Write(p) == Change(disk \cup {p},
                   <<[path |-> p, type |-> IF p \in disk THEN "Modified" ELSE "Created"]>>)

Delete(p) == /\ p \in disk
             /\ Change(disk \ {p}, <<[path |-> p, type |-> "Removed"]>>)

Rename(p, q) == /\ p # q /\ p \in disk
                /\ Change((disk \ {p}) \cup {q}, <<[path |-> p, type |-> "Modified"],
                                                 [path |-> q, type |-> "Modified"]>>)
-----------------------------------------------------------------------------
(* The notify thread.  The guard of the shared state is held while the     *)
(* debounce map and the channel are updated, so this is one step.  Whether *)
(* an older entry is more than 200 ms old, whatever the configured window  *)
(* is, is left open.                                                       *)
HandleEvent_NoDebounce ==
  /\ notified # <<>> /\ Free
  /\ notified' = Tail(notified)
  /\ EnqueueDirty(Head(notified))
  /\ UNCHANGED <<lock, pc, local, owning,
                 files, index, deb, lread, pread, seen, channel, debounce>>

HandleEvent ==
  /\ notified # <<>> /\ Free
  /\ notified' = Tail(notified)
  /\ LET p == Head(notified).path
     IN  /\ EnqueueDirty(Head(notified))
         /\ debounce' = [debounce EXCEPT ![p] = "fresh"]
         /\ \/ UNCHANGED channel
            \/ debounce[p] # "none" /\ channel' = channel \cup {p}
  /\ UNCHANGED <<lock, pc, local, owning,
                 files, index, deb, lread, pread, seen>>

(* Time passes: an entry leaves the debounce window.                       *)
Ripen(p) ==
  /\ debounce[p] = "fresh"
  /\ debounce' = [debounce EXCEPT ![p] = "ripe"]
  /\ UNCHANGED <<daemonVars, files, index, notified, channel, deb, lread, pread, seen>>
-----------------------------------------------------------------------------
(* The debouncer: retain, drain the channel, drain the queue, re-index.    *)

RetainDebounce ==
  /\ dpc = "sleep"
  /\ todo' = {p \in Paths : debounce[p] = "ripe"}
  /\ debounce' = [p \in Paths |-> IF p \in todo' THEN "none" ELSE debounce[p]]
  /\ dpc' = "channel"
  /\ UNCHANGED <<daemonVars, files, index, notified, channel, dread, lread, pread, seen>>

DrainChannel ==
  /\ dpc = "channel"
  /\ todo' = todo \cup channel
  /\ channel' = {}
  /\ dpc' = "queue"
  /\ UNCHANGED <<daemonVars, files, index, notified, debounce, dread, lread, pread, seen>>

DrainDirty_KeepQueue == /\ state' = IF state = "Dirty" THEN "Parsing" ELSE state
                        /\ UNCHANGED queue

(* drain_dirty, which also moves Dirty to Parsing.                         *)
DrainDirty == /\ state' = IF state = "Dirty" THEN "Parsing" ELSE state
              /\ queue' = <<>>

(* The types of the drained events are dropped: only paths go on.  Which   *)
(* of too many paths sort first is left open.                              *)
DrainQueue ==
  /\ dpc = "queue" /\ Free
  /\ DrainDirty
  /\ LET paths == todo \cup {queue[i].path : i \in DOMAIN queue}
     IN  /\ \E batch \in SUBSET paths :
              /\ Cardinality(batch) = IF Cardinality(paths) > MaxBatch THEN MaxBatch
                                      ELSE Cardinality(paths)
              /\ todo' = batch
         /\ dpc' = IF paths = {} THEN "sleep" ELSE "work"
  /\ UNCHANGED <<lock, pc, local, owning,
                 files, index, notified, debounce, channel, dread, lread, pread, seen>>

DebounceRead(p) ==
  /\ dpc = "work" /\ p \in todo /\ dread = Nothing
  /\ dread' = Reading(p)
  /\ LookAt(p)
  /\ UNCHANGED <<daemonVars, files, index, notified, debounce, channel, dpc, todo,
                 lread, pread>>

(* reindex_auto_detect gives up before index_file: a warning is logged.    *)
DebounceDrop(p) ==
  /\ dpc = "work" /\ p \in todo /\ dread = Nothing
  /\ todo' = todo \ {p}
  /\ Drop(p)
  /\ UNCHANGED <<daemonVars, files, index, notified, debounce, channel, dpc, dread,
                 lread, pread>>

(* What index_file leaves in the index of what was read.  A file that is   *)
(* gone is an error that changes nothing; any other error may come before  *)
(* or after the row is written.                                            *)
Written(r, ok) == IF ~r.found THEN {index}
                  ELSE {index \cup {r.path}} \cup {i \in {index} : ~ok}

DebounceWrite(ok) ==
  /\ dread # Nothing
  /\ index' \in Written(dread, ok)
  /\ dread' = Nothing
  /\ todo' = todo \ {dread.path}
  /\ UNCHANGED <<daemonVars, files, notified, debounce, channel, dpc, lread, pread, seen>>

DebounceDone ==
  /\ dpc = "work" /\ todo = {}
  /\ dpc' = "sleep"
  /\ UNCHANGED <<daemonVars, files, index, notified, debounce, channel, todo, dread,
                 lread, pread, seen>>

DebouncerStep == \/ RetainDebounce \/ DrainChannel \/ DrainQueue \/ DebounceDone
                 \/ \E p \in Paths : DebounceRead(p) \/ DebounceDrop(p)
                 \/ \E ok \in BOOLEAN : DebounceWrite(ok)
-----------------------------------------------------------------------------
(* The daemon loop: Processed takes a read and a write.  The event it      *)
(* processed last, a history for EventQueue, is not kept here.             *)

LoopRead ==
  /\ pc = "files" /\ rest # <<>> /\ lread = Nothing
  /\ Head(rest).type # "Removed"
  /\ lread' = Reading(Head(rest).path)
  /\ LookAt(Head(rest).path)
  /\ UNCHANGED <<daemonVars, files, index, notified, debounce, channel, deb, pread>>

(* A file that does not exist is passed over before the index is opened.   *)
LoopDrop ==
  /\ pc = "files" /\ rest # <<>> /\ lread = Nothing
  /\ Head(rest).type # "Removed" /\ Head(rest).path \in disk
  /\ Processed(FALSE)
  /\ Drop(Head(rest).path)
  /\ UNCHANGED <<event, files, index, notified, debounce, channel, deb, lread, pread>>

LoopWrite(ok) ==
  /\ lread # Nothing
  /\ Processed(ok)
  /\ index' \in Written(lread, ok)
  /\ lread' = Nothing
  /\ UNCHANGED <<event, files, notified, debounce, channel, deb, pread, seen>>

LoopRemove ==
  /\ pc = "files" /\ rest # <<>> /\ lread = Nothing
  /\ Head(rest).type = "Removed"
  /\ Processed(TRUE)
  /\ index' \in {index, index \ {Head(rest).path}}
  /\ UNCHANGED <<event, files, notified, debounce, channel, deb, lread, pread, seen>>

LoopOther ==
  /\ \/ NoSignal \/ Tick \/ DrainBatch \/ FinishBatch \/ ResumeIdle
  /\ UNCHANGED <<files, index, notified, debounce, channel, deb, lread, pread, seen>>

WLoopStep == LoopRead \/ LoopDrop \/ LoopRemove \/ LoopOther \/ \E ok \in BOOLEAN : LoopWrite(ok)
-----------------------------------------------------------------------------
(* poll_fallback: every file that exists, whatever the events say.  Where  *)
(* it cannot open the index it does nothing.                               *)

PollRead(p) ==
  /\ p \in disk /\ pread = Nothing
  /\ pread' = Reading(p)
  /\ LookAt(p)
  /\ UNCHANGED <<daemonVars, files, index, notified, debounce, channel, deb, lread>>

PollWrite(ok) ==
  /\ pread # Nothing
  /\ index' \in Written(pread, ok)
  /\ pread' = Nothing
  /\ UNCHANGED <<daemonVars, files, notified, debounce, channel, deb, lread, seen>>

WNext == \/ \E p \in Paths : Write(p) \/ Delete(p) \/ Ripen(p) \/ PollRead(p)
         \/ \E p, q \in Paths : Rename(p, q)
         \/ HandleEvent \/ DebouncerStep \/ WLoopStep
         \/ \E ok \in BOOLEAN : PollWrite(ok)

(* The notify thread, the debouncer and the loop are scheduled, and time   *)
(* passes.  Nothing is asked of the daemon's mutex, of the polling task,   *)
(* which may be off, or of the user.                                       *)
WFairness == /\ WF_watcherVars(HandleEvent)
             /\ WF_watcherVars(DebouncerStep)
             /\ WF_watcherVars(WLoopStep)
             /\ WF_watcherVars(\E p \in Paths : Ripen(p))

WSpec == WInit /\ [][WNext]_watcherVars
WFairSpec == WSpec /\ WFairness
-----------------------------------------------------------------------------
WTypeOK ==
  /\ TypeOK
  /\ disk \subseteq Paths /\ index \subseteq Paths /\ changes \in 0 .. MaxChanges
  /\ notified \in Seq(DirtyEvent)
  /\ debounce \in [Paths -> {"none", "fresh", "ripe"}]
  /\ channel \subseteq Paths /\ todo \subseteq Paths
  /\ unseen \subseteq Paths /\ dropped \subseteq unseen
  /\ dpc \in {"sleep", "channel", "queue", "work"}
  /\ {dread, lread, pread} \subseteq {Nothing} \cup [path : Paths, found : BOOLEAN]

(* The events a burst leaves in the queue, and those that arrive while the *)
(* loop is in a batch or stuck in Parsing, are drained all the same: the   *)
(* debouncer empties the queue on each of its rounds.                      *)
QueueDrains == (queue # <<>>) ~> (queue = <<>>)

(* No change goes unnoticed: to every file that was changed some worker    *)
(* comes afterwards, although a batch drops what exceeds it, as long as a  *)
(* batch of the debouncer holds every path: the debounce map remembers     *)
(* what the dirty queue lost.  It looks at the file (a deletion counts as  *)
(* looked at by a read that finds no file), or it could not open the index *)
(* just then: after that nobody needs to come again, as neither retries.   *)
ChangesAreSeen == \A p \in Paths : (p \in unseen) ~> (p \notin unseen \/ p \in dropped)

(* "Watches for file changes and updates the index automatically."         *)
(* (README.md:211): once everything reported has been worked off, no row   *)
(* of a file that is gone is left.                                         *)
Quiet == /\ notified = <<>> /\ queue = <<>> /\ channel = {}
         /\ \A p \in Paths : debounce[p] = "none"
         /\ dpc = "sleep" /\ pc \in {"check", "tick"}
         /\ pread = Nothing /\ unseen = {}
NoRowOfDeletedFile == Quiet => \A p \in Paths : p \in index => p \in disk
=============================================================================
