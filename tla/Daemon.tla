------------------------------- MODULE Daemon -------------------------------
(***************************************************************************)
(* The background daemon of src/src/daemon.rs: the state shared behind one *)
(* mutex (DaemonSharedState), the loop thread that Daemon::start spawns,   *)
(* the owner that calls start and stop, and the producers that report file *)
(* events.  A step is one critical section of the mutex, or one action of  *)
(* a thread outside it.  The one place where the loop keeps the guard      *)
(* while it asks for the mutex again is the variable lock.                 *)
(*                                                                         *)
(* What processing a file does to the index is left to module Watcher:     *)
(* here it succeeds or fails.  The counters of DaemonSharedState are       *)
(* statistics that nothing reads back, and are left out.                   *)
(***************************************************************************)
EXTENDS Naturals, Sequences

CONSTANTS Paths,      \* the files whose events are reported
          MaxBatch,   \* config.watcher.max_batch_size
          QueueBound  \* bound: events in the queue when another one is reported

ASSUME DaemonAssumption == MaxBatch \in Nat /\ QueueBound \in Nat

VARIABLES
  (* DaemonSharedState, behind the mutex *)
  state,      \* the state machine
  queue,      \* dirty_queue
  (* the mutex *)
  lock,       \* who keeps the guard from one step to the next
  (* the thread of daemon_loop *)
  pc,         \* where it is
  rest,       \* the events of its batch it has not processed yet
  event,      \* the event it processed last
  failed,     \* errors > 0 in its batch
  (* the owner of the Daemon value *)
  owner,      \* where start and stop are
  handle,     \* self.handle and self.shutdown_tx belong to a loop thread
  signal      \* a () is in the shutdown channel

shared == <<state, queue>>
local  == <<rest, event, failed>>
owning == <<owner, handle, signal>>
daemonVars == <<shared, lock, pc, local, owning>>

(* DaemonState.  Persist and UpdateRefs are only ever passed through inside *)
(* one critical section (FinishBatch), so no one can read them.            *)
DaemonState == {"Idle", "Dirty", "Parsing", "Recover", "Shutdown"}

DirtyEventType == {"Created", "Modified", "Removed"}
DirtyEvent == [path : Paths, type : DirtyEventType]
NoEvent == [path |-> "none", type |-> "none"]

Free == lock = "free"

Take_All(s, n) == s

(* The first n of a sequence: Iterator::take.                              *)
Take(s, n) == IF Len(s) > n THEN SubSeq(s, 1, n) ELSE s

Init == /\ state = "Idle" /\ queue = <<>>
        /\ lock = "free"
        /\ pc = "none" /\ rest = <<>> /\ event = NoEvent /\ failed = FALSE
        /\ owner = "idle" /\ handle = FALSE /\ signal = FALSE
-----------------------------------------------------------------------------
(* The producers.                                                          *)

EnqueueDirty_AtFront(e) == /\ queue' = <<e>> \o queue
                           /\ state' = IF state = "Idle" THEN "Dirty" ELSE state

EnqueueDirty_AlwaysDirty(e) == queue' = Append(queue, e) /\ state' = "Dirty"

EnqueueDirty(e) == /\ queue' = Append(queue, e)
                   /\ state' = IF state = "Idle" THEN "Dirty" ELSE state

AddDirtyEvent(e) ==
  /\ Free
  /\ Len(queue) < QueueBound
  /\ EnqueueDirty(e)
  /\ UNCHANGED <<lock, pc, local, owning>>
-----------------------------------------------------------------------------
(* The owner.                                                              *)

Start_FromIdle ==
  /\ owner = "idle" /\ ~handle
  /\ handle' = TRUE /\ signal' = FALSE
  /\ pc' = "check"
  /\ state' = "Idle"
  /\ UNCHANGED <<queue, lock, local, owner>>

(* Nothing in start touches the shared state: after a stop it is Shutdown. *)
Start ==
  /\ owner = "idle" /\ ~handle
  /\ handle' = TRUE /\ signal' = FALSE
  /\ pc' = "check"
  /\ UNCHANGED <<shared, lock, local, owner>>

(* stop, in three steps: set the state, send, join.                        *)
StopBegin ==
  /\ owner = "idle" /\ Free
  /\ state' = "Shutdown"
  /\ owner' = "signalling"
  /\ UNCHANGED <<queue, lock, pc, local, handle, signal>>

StopSignal ==
  /\ owner = "signalling"
  /\ signal' = handle
  /\ owner' = "joining"
  /\ UNCHANGED <<shared, lock, pc, local, handle>>

StopJoin ==
  /\ owner = "joining"
  /\ handle => pc = "exited"
  /\ handle' = FALSE /\ signal' = FALSE
  /\ owner' = "idle"
  /\ UNCHANGED <<shared, lock, pc, local>>

OwnerStep == Start \/ StopBegin \/ StopSignal \/ StopJoin
-----------------------------------------------------------------------------
(* The loop.                                                               *)

NoSignal ==
  /\ pc = "check" /\ ~signal
  /\ pc' = "tick"
  /\ UNCHANGED <<shared, lock, local, owning>>

(* The guard taken here is still alive when process_remaining_batch locks  *)
(* the same mutex, and std's mutex is not reentrant: the thread stays at   *)
(* "relock", owning what it waits for.                                     *)
TakeSignal ==
  /\ pc = "check" /\ signal /\ Free
  /\ signal' = FALSE
  /\ state' = "Shutdown"
  /\ lock' = "loop"
  /\ pc' = "relock"
  /\ UNCHANGED <<queue, local, owner, handle>>

Tick_DirtySleeps ==
  /\ pc = "tick" /\ Free
  /\ \/ state = "Shutdown" /\ pc' = "exited"
     \/ state = "Recover"  /\ pc' = "pause"
     \/ state \in {"Idle", "Dirty", "Parsing"} /\ pc' = "check"
  /\ UNCHANGED <<shared, lock, local, owning>>

Tick ==
  /\ pc = "tick" /\ Free
  /\ \/ state = "Shutdown" /\ pc' = "exited"
     \/ state = "Dirty"    /\ pc' = "debounce"
     \/ state = "Recover"  /\ pc' = "pause"
     \/ state \in {"Idle", "Parsing"} /\ pc' = "check"
  /\ UNCHANGED <<shared, lock, local, owning>>

(* process_batch: drain the whole queue, keep the first MaxBatch events.   *)
(* The early return on an empty queue sets Idle in a critical section of   *)
(* its own, which is what FinishBatch does when nothing failed.            *)
DrainBatch ==
  /\ pc = "debounce" /\ Free
  /\ queue' = <<>>
  /\ state' = "Parsing"
  /\ rest' = Take(queue, MaxBatch)
  /\ failed' = FALSE
  /\ pc' = "files"
  /\ UNCHANGED <<lock, event, owning>>

(* process_single_file: a removal swallows its errors, anything else may   *)
(* fail.  A failed event is not queued again.                              *)
Processed(ok) ==
  /\ pc = "files" /\ rest # <<>>
  /\ Head(rest).type = "Removed" => ok
  /\ rest' = Tail(rest)
  /\ failed' = (failed \/ ~ok)
  /\ UNCHANGED <<shared, lock, pc, owning>>

ProcessFile(ok) == Processed(ok) /\ event' = Head(rest)

FinishBatch ==
  /\ pc = "files" /\ rest = <<>> /\ Free
  /\ state' = IF failed THEN "Recover" ELSE "Idle"
  /\ pc' = "check"
  /\ UNCHANGED <<queue, lock, local, owning>>

ResumeIdle ==
  /\ pc = "pause" /\ Free
  /\ state' = "Idle"
  /\ pc' = "check"
  /\ UNCHANGED <<queue, lock, local, owning>>

LoopStep == \/ NoSignal \/ TakeSignal \/ Tick
            \/ DrainBatch \/ FinishBatch \/ ResumeIdle
            \/ \E ok \in BOOLEAN : ProcessFile(ok)

Next == OwnerStep \/ LoopStep \/ \E e \in DirtyEvent : AddDirtyEvent(e)

(* The operating system runs the loop thread and an owner inside stop.     *)
(* Nobody is obliged to start, to stop, or to report an event.             *)
Fairness == /\ WF_daemonVars(LoopStep)
            /\ WF_daemonVars(StopSignal)
            /\ WF_daemonVars(StopJoin)

Spec == Init /\ [][Next]_daemonVars
FairSpec == Spec /\ Fairness
-----------------------------------------------------------------------------
(* The types, with the bound of a batch.                                   *)
TypeOK ==
  /\ state \in DaemonState
  /\ queue \in Seq(DirtyEvent)
  /\ lock \in {"free", "loop"}
  /\ pc \in {"none", "check", "tick", "debounce", "files", "pause",
            "relock", "exited"}
  /\ rest \in Seq(DirtyEvent) /\ Len(rest) <= MaxBatch
  /\ event \in DirtyEvent \cup {NoEvent}
  /\ failed \in BOOLEAN
  /\ owner \in {"idle", "signalling", "joining"}
  /\ handle \in BOOLEAN /\ signal \in BOOLEAN

(* What a health check reads in the status is true of the loop thread.  A  *)
(* batch in hand shows as Parsing, or as Shutdown once stop was called     *)
(* behind it: never as Idle, Dirty or Recover.  Parsing is shown only      *)
(* while a batch is in hand, and Dirty only while events wait (the comment *)
(* in daemon_loop: these states are set and cleared within process_batch). *)
BusyIsVisible == /\ pc = "files" => state \in {"Parsing", "Shutdown"}
                 /\ state = "Dirty" => queue # <<>>
StatusTruthful == BusyIsVisible /\ (state = "Parsing" => pc = "files")

(* A shutdown that finds the loop between two batches is final.  Nothing   *)
(* is processed any more, nothing leaves the queue, and not even starting  *)
(* the daemon again helps: the new loop reads the Shutdown that the old    *)
(* one left behind.  A loop caught in a batch or in its pause overwrites   *)
(* the Shutdown instead, and is not halted.                                *)
Halted == state = "Shutdown" /\ pc \notin {"debounce", "files", "pause"}
StoppedForGood ==
  [][Halted => Halted' /\ event' = event /\ Len(queue') >= Len(queue)]_daemonVars

(* The daemon implements the abstract event queue: at most once, in the    *)
(* order of arrival, and nothing discarded while at most MaxBatch wait.    *)
EQ == INSTANCE EventQueue WITH Event   <- DirtyEvent,
                               Limit   <- MaxBatch,
                               None    <- NoEvent,
                               waiting <- rest \o queue,
                               latest  <- event
ImplementsEventQueue == EQ!Spec

(* Work that a running loop was woken for is drained: Dirty is left, and   *)
(* only for the end of a batch or a shutdown.                              *)
DirtyIsServed ==
  (state = "Dirty" /\ handle) ~> (state \in {"Idle", "Recover", "Shutdown"})

(* "Graceful shutdown: signal stop and wait for current batch"             *)
(* (daemon.rs:194): a call of stop returns.                                *)
StopReturns == (owner = "joining") ~> (owner = "idle")
=============================================================================
