---------------------------- MODULE DaemonProofs ----------------------------
(***************************************************************************)
(* Proofs about module Daemon, for every set of paths, batch size and      *)
(* length of the queue, and about module Watcher: what stays true of the   *)
(* daemon when the debouncer drains its queue too.                         *)
(***************************************************************************)
EXTENDS Watcher, SequenceTheorems, TLAPS

(* A batch is a prefix of the queue, and no longer than MaxBatch: a lemma  *)
(* about Take (Iterator::take in process_batch).                           *)
LEMMA TakeProperties ==
  ASSUME NEW S, NEW s \in Seq(S), NEW n \in Nat
  PROVE  /\ Take(s, n) \in Seq(S)
         /\ Len(Take(s, n)) <= n
         /\ Len(s) > n => Take(s, n) = SubSeq(s, 1, n)
         /\ Len(s) <= n => Take(s, n) = s
<1>1. CASE Len(s) > n
  <2>1. \A i \in 1 .. n : s[i] \in S
    BY <1>1, LenProperties, ElementOfSeq
  <2>2. SubSeq(s, 1, n) \in Seq(S) /\ Len(SubSeq(s, 1, n)) <= n
    BY <2>1, SubSeqProperties
  <2> QED BY <1>1, <2>2 DEF Take
<1>2. CASE Len(s) <= n
  BY <1>2, LenProperties DEF Take
<1> QED BY <1>1, <1>2, LenProperties

-----------------------------------------------------------------------------
(* The type invariant, with the bound of a batch, holds of every reachable *)
(* state of the daemon.                                                    *)
LEMMA TypeInit == Init => TypeOK
<1>1. <<>> \in Seq(DirtyEvent) /\ Len(<<>>) = 0
  BY EmptySeq
<1> SUFFICES ASSUME Init PROVE TypeOK
  OBVIOUS
<1>2. rest \in Seq(DirtyEvent) /\ queue \in Seq(DirtyEvent) /\ Len(rest) <= MaxBatch
  BY <1>1, DaemonAssumption DEF Init
<1>3. failed \in BOOLEAN /\ handle \in BOOLEAN /\ signal \in BOOLEAN
  BY DEF Init
<1>4. event \in DirtyEvent \cup {NoEvent}
  BY DEF Init
<1> QED BY <1>2, <1>3, <1>4 DEF Init, TypeOK, DaemonState

LEMMA TypeStep == TypeOK /\ [Next]_daemonVars => TypeOK'
<1> SUFFICES ASSUME TypeOK, [Next]_daemonVars PROVE TypeOK'
  OBVIOUS
<1> USE DaemonAssumption DEF TypeOK, DaemonState, shared, local, owning
<1>1. ASSUME NEW e \in DirtyEvent, AddDirtyEvent(e) PROVE TypeOK'
  BY <1>1, AppendProperties DEF AddDirtyEvent, EnqueueDirty
<1>2. CASE OwnerStep
  BY <1>2 DEF OwnerStep, Start, StopBegin, StopSignal, StopJoin
<1>3. CASE NoSignal
  BY <1>3 DEF NoSignal
<1>4. CASE TakeSignal
  BY <1>4 DEF TakeSignal
<1>5. CASE Tick
  BY <1>5 DEF Tick
<1>6. CASE DrainBatch
  <2>1. Take(queue, MaxBatch) \in Seq(DirtyEvent) /\ Len(Take(queue, MaxBatch)) <= MaxBatch
    BY TakeProperties
  <2>2. <<>> \in Seq(DirtyEvent)
    BY EmptySeq
  <2> QED BY <1>6, <2>1, <2>2 DEF DrainBatch
<1>7. ASSUME NEW ok \in BOOLEAN, ProcessFile(ok) PROVE TypeOK'
  <2>1. Head(rest) \in DirtyEvent /\ Tail(rest) \in Seq(DirtyEvent)
        /\ Len(Tail(rest)) = Len(rest) - 1 /\ Len(rest) \in Nat
    BY <1>7, HeadTailProperties, LenProperties DEF ProcessFile, Processed
  <2>2. (failed \/ ~ok) \in BOOLEAN
    OBVIOUS
  <2> QED BY <1>7, <2>1, <2>2 DEF ProcessFile, Processed
<1>8. CASE FinishBatch
  BY <1>8 DEF FinishBatch
<1>9. CASE ResumeIdle
  BY <1>9 DEF ResumeIdle
<1>10. CASE UNCHANGED daemonVars
  BY <1>10 DEF daemonVars
<1> QED
  BY <1>1, <1>2, <1>3, <1>4, <1>5, <1>6, <1>7, <1>8, <1>9, <1>10 DEF Next, LoopStep

THEOREM TypeCorrect == Spec => []TypeOK
  BY TypeInit, TypeStep, PTL DEF Spec
-----------------------------------------------------------------------------
(* Why the status is truthful: a loop thread that no one holds a handle of *)
(* is not running, so it cannot be in a batch when it is replaced.  Why no *)
(* event is overtaken: outside of a batch the loop has no events in hand.  *)
HandleInv == ~handle => pc \in {"none", "exited"}
RestInv   == pc # "files" => rest = <<>>
IInv == TypeOK /\ StatusTruthful /\ HandleInv /\ RestInv

LEMMA IInvInit == Init => IInv
  BY TypeInit DEF Init, IInv, StatusTruthful, BusyIsVisible, HandleInv, RestInv

LEMMA IInvStep == IInv /\ [Next]_daemonVars => IInv'
<1> SUFFICES ASSUME IInv, [Next]_daemonVars PROVE IInv'
  OBVIOUS
<1>t. TypeOK'
  BY TypeStep DEF IInv
<1> SUFFICES StatusTruthful' /\ HandleInv' /\ RestInv'
  BY <1>t DEF IInv
<1> USE DEF IInv, TypeOK, StatusTruthful, BusyIsVisible, HandleInv, RestInv,
            shared, local, owning
<1>1. ASSUME NEW e \in DirtyEvent, AddDirtyEvent(e)
      PROVE  StatusTruthful' /\ HandleInv' /\ RestInv'
  <2>1. Append(queue, e) # <<>>
    BY AppendProperties
  <2> QED BY <1>1, <2>1 DEF AddDirtyEvent, EnqueueDirty
<1>2. CASE OwnerStep
  BY <1>2 DEF OwnerStep, Start, StopBegin, StopSignal, StopJoin
<1>3. CASE NoSignal
  BY <1>3 DEF NoSignal
<1>4. CASE TakeSignal
  BY <1>4 DEF TakeSignal
<1>5. CASE Tick
  BY <1>5 DEF Tick
<1>6. CASE DrainBatch
  BY <1>6 DEF DrainBatch
<1>7. ASSUME NEW ok \in BOOLEAN, ProcessFile(ok)
      PROVE  StatusTruthful' /\ HandleInv' /\ RestInv'
  BY <1>7 DEF ProcessFile, Processed
<1>8. CASE FinishBatch
  BY <1>8 DEF FinishBatch
<1>9. CASE ResumeIdle
  BY <1>9 DEF ResumeIdle
<1>10. CASE UNCHANGED daemonVars
  BY <1>10 DEF daemonVars
<1> QED
  BY <1>1, <1>2, <1>3, <1>4, <1>5, <1>6, <1>7, <1>8, <1>9, <1>10 DEF Next, LoopStep

LEMMA Invariant == Spec => []IInv
  BY IInvInit, IInvStep, PTL DEF Spec

(* The status a health check reads is true of the loop thread, however     *)
(* events, stop, start and the end of a batch interleave.                  *)
THEOREM StatusIsTruthful == Spec => []StatusTruthful
  BY Invariant, PTL DEF IInv
-----------------------------------------------------------------------------
(* A shutdown that finds the loop between two batches is never undone: not *)
(* by an event, not by start, and the queue only grows from then on.       *)
LEMMA HaltedStep ==
  TypeOK /\ [Next]_daemonVars
    => (Halted => Halted' /\ event' = event /\ Len(queue') >= Len(queue))
<1> SUFFICES ASSUME TypeOK, [Next]_daemonVars, Halted
             PROVE  Halted' /\ event' = event /\ Len(queue') >= Len(queue)
  OBVIOUS
<1>q. Len(queue) \in Nat
  BY LenProperties DEF TypeOK
<1> USE <1>q DEF Halted, shared, local, owning
<1>1. ASSUME NEW e \in DirtyEvent, AddDirtyEvent(e)
      PROVE  Halted' /\ event' = event /\ Len(queue') >= Len(queue)
  <2>1. Len(Append(queue, e)) = Len(queue) + 1
    BY AppendProperties DEF TypeOK
  <2> QED BY <1>1, <2>1 DEF AddDirtyEvent, EnqueueDirty
<1>2. CASE OwnerStep
  BY <1>2 DEF OwnerStep, Start, StopBegin, StopSignal, StopJoin
<1>3. CASE LoopStep
  BY <1>3 DEF LoopStep, NoSignal, TakeSignal, Tick, DrainBatch, FinishBatch,
              ResumeIdle, ProcessFile, Processed
<1>4. CASE UNCHANGED daemonVars
  BY <1>4 DEF daemonVars
<1> QED BY <1>1, <1>2, <1>3, <1>4 DEF Next

THEOREM ShutdownIsFinal == Spec => StoppedForGood
<1>1. TypeOK /\ [Next]_daemonVars
        => [Halted => Halted' /\ event' = event /\ Len(queue') >= Len(queue)]_daemonVars
  BY HaltedStep
<1> QED BY <1>1, TypeCorrect, PTL DEF Spec, StoppedForGood
-----------------------------------------------------------------------------
(* The detailed daemon implements the abstract queue.  An event that is    *)
(* reported joins the young end of what waits; draining the dirty queue    *)
(* into a batch discards what exceeds the batch, and is a stutter when     *)
(* nothing does; a processed file is the event handled.  Every other step  *)
(* is a stutter.                                                           *)
LEMMA ConcatLemma ==
  ASSUME NEW S, NEW s \in Seq(S), NEW t \in Seq(S)
  PROVE  /\ \A e \in S : s \o Append(t, e) = Append(s \o t, e)
         /\ s # <<>> => /\ s \o t # <<>>
                       /\ Head(s \o t) = Head(s)
                       /\ Tail(s \o t) = Tail(s) \o t
  OBVIOUS

LEMMA RefinementInit == Init => EQ!Init
<1>1. <<>> \o <<>> = <<>>
  BY EmptySeq, ConcatEmptySeq
<1> QED BY <1>1 DEF Init, EQ!Init

LEMMA RefinementStep == IInv /\ [Next]_daemonVars => [EQ!Next]_<<rest \o queue, event>>
<1> SUFFICES ASSUME IInv, [Next]_daemonVars
             PROVE  [EQ!Next]_<<rest \o queue, event>>
  OBVIOUS
<1>t. rest \in Seq(DirtyEvent) /\ queue \in Seq(DirtyEvent)
  BY DEF IInv, TypeOK
<1> USE DEF shared, local, owning
<1>1. ASSUME NEW e \in DirtyEvent, AddDirtyEvent(e) PROVE EQ!Submit(e)
  <2>1. rest \o Append(queue, e) = Append(rest \o queue, e)
    BY <1>t, ConcatLemma
  <2> QED BY <1>1, <2>1 DEF AddDirtyEvent, EnqueueDirty, EQ!Submit
<1>2. ASSUME OwnerStep \/ NoSignal \/ TakeSignal \/ Tick \/ FinishBatch \/ ResumeIdle
             \/ UNCHANGED daemonVars
      PROVE  UNCHANGED <<rest \o queue, event>>
  BY <1>2 DEF OwnerStep, Start, StopBegin, StopSignal, StopJoin, NoSignal, TakeSignal,
              Tick, FinishBatch, ResumeIdle, daemonVars
<1>3. CASE DrainBatch
  <2>1. rest \o queue = queue /\ rest' \o queue' = Take(queue, MaxBatch)
    BY <1>3, <1>t, TakeProperties, ConcatEmptySeq, DaemonAssumption
       DEF DrainBatch, IInv, RestInv
  <2>2. CASE Len(queue) > MaxBatch
    BY <1>3, <1>t, <2>1, <2>2, TakeProperties, DaemonAssumption DEF DrainBatch, EQ!Discard, EQ!Next
  <2>3. CASE Len(queue) <= MaxBatch
    BY <1>3, <1>t, <2>1, <2>3, TakeProperties, DaemonAssumption DEF DrainBatch
  <2> QED BY <2>2, <2>3, <1>t, LenProperties, DaemonAssumption
<1>4. ASSUME NEW ok \in BOOLEAN, ProcessFile(ok) PROVE EQ!Handle
  BY <1>4, <1>t, ConcatLemma DEF ProcessFile, Processed, EQ!Handle
<1> QED BY <1>1, <1>2, <1>3, <1>4 DEF Next, LoopStep, EQ!Next

THEOREM Refinement == Spec => ImplementsEventQueue
  BY RefinementInit, RefinementStep, Invariant, PTL DEF Spec, ImplementsEventQueue, EQ!Spec
-----------------------------------------------------------------------------
(* The daemon under its watcher.                                           *)
Read == {Nothing} \cup [path : Paths, found : BOOLEAN]

(* The types of what module Watcher adds, by the threads that change them. *)
FilesType  == disk \subseteq Paths /\ changes \in 0 .. MaxChanges
IndexType  == index \subseteq Paths
NotifyType == notified \in Seq(DirtyEvent) /\ debounce \in [Paths -> {"none", "fresh", "ripe"}]
              /\ channel \subseteq Paths
DebType    == todo \subseteq Paths /\ dpc \in {"sleep", "channel", "queue", "work"}
ReadType   == dread \in Read /\ lread \in Read /\ pread \in Read
UnseenType == unseen \subseteq Paths /\ dropped \subseteq unseen

LEMMA WTypeParts ==
  WTypeOK <=> TypeOK /\ FilesType /\ IndexType /\ NotifyType /\ DebType /\ ReadType /\ UnseenType
BY DEF WTypeOK, FilesType, IndexType, NotifyType, DebType, ReadType, UnseenType, Read

LEMMA WTypePartsNext ==
  TypeOK' /\ FilesType' /\ IndexType' /\ NotifyType' /\ DebType' /\ ReadType' /\ UnseenType'
    => WTypeOK'
BY DEF WTypeOK, FilesType, IndexType, NotifyType, DebType, ReadType, UnseenType, Read

(* What an indexing leaves are rows of files.                              *)
LEMMA WrittenType ==
  ASSUME IndexType, NEW r \in Read, r # Nothing, NEW ok \in BOOLEAN,
         index' \in Written(r, ok)
  PROVE  IndexType'
<1>1. r.path \in Paths
  BY DEF Read
<1>2. index' = index \/ index' = index \cup {r.path}
  BY DEF Written
<1> QED BY <1>1, <1>2 DEF IndexType

LEMMA ReadingType == ASSUME NEW q \in Paths PROVE Reading(q) \in Read
<1>1. (q \in disk) \in BOOLEAN
  OBVIOUS
<1> QED BY <1>1 DEF Reading, Read

(* A dirty event joins the queue.                                          *)
LEMMA EnqueueType ==
  ASSUME TypeOK, NEW e \in DirtyEvent, EnqueueDirty(e), UNCHANGED <<lock, pc, local, owning>>
  PROVE  TypeOK'
BY AppendProperties DEF EnqueueDirty, TypeOK, DaemonState, local, owning

(* The loop has processed an event; which one is not recorded here.        *)
LEMMA ProcessedType ==
  ASSUME TypeOK, NEW ok \in BOOLEAN, Processed(ok), event' = event
  PROVE  TypeOK'
<1>1. Tail(rest) \in Seq(DirtyEvent) /\ Len(Tail(rest)) = Len(rest) - 1 /\ Len(rest) \in Nat
  BY HeadTailProperties, LenProperties DEF Processed, TypeOK
<1>2. (failed \/ ~ok) \in BOOLEAN
  OBVIOUS
<1> QED BY <1>1, <1>2, DaemonAssumption DEF Processed, TypeOK, shared, owning

LEMMA HeadIsEvent ==
  ASSUME NEW s \in Seq(DirtyEvent), s # <<>>
  PROVE  Head(s) \in DirtyEvent /\ Head(s).path \in Paths /\ Tail(s) \in Seq(DirtyEvent)
<1>1. Head(s) \in DirtyEvent /\ Tail(s) \in Seq(DirtyEvent)
  BY HeadTailProperties
<1> QED BY <1>1 DEF DirtyEvent
-----------------------------------------------------------------------------
LEMMA WTypeInit == WInit => WTypeOK
<1> SUFFICES ASSUME WInit PROVE WTypeOK
  OBVIOUS
<1>1. <<>> \in Seq(DirtyEvent) /\ Len(<<>>) = 0
  BY EmptySeq
<1>2. TypeOK
  <2>1. rest \in Seq(DirtyEvent) /\ queue \in Seq(DirtyEvent) /\ Len(rest) <= MaxBatch
    BY <1>1, DaemonAssumption DEF WInit
  <2>2. failed \in BOOLEAN /\ handle \in BOOLEAN /\ signal \in BOOLEAN
    BY DEF WInit
  <2> QED BY <2>1, <2>2 DEF WInit, TypeOK, DaemonState
<1>3. FilesType /\ IndexType
  BY WatcherAssumption DEF WInit, FilesType, IndexType
<1>4. NotifyType
  BY <1>1 DEF WInit, NotifyType
<1>5. DebType /\ ReadType /\ UnseenType
  BY DEF WInit, DebType, ReadType, UnseenType, Read
<1> QED BY <1>2, <1>3, <1>4, <1>5, WTypeParts

(* A change of the files, whatever its events.                             *)
LEMMA ChangeType ==
  ASSUME WTypeOK, NEW d \in SUBSET Paths, NEW events \in Seq(DirtyEvent), Change(d, events)
  PROVE  WTypeOK'
<1>1. \A i \in DOMAIN events : events[i] \in DirtyEvent /\ events[i].path \in Paths
  <2>1. \A i \in DOMAIN events : events[i] \in DirtyEvent
    BY ElementOfSeq, LenProperties
  <2> QED BY <2>1 DEF DirtyEvent
<1>2. UnseenType'
  BY <1>1, WTypeParts DEF Change, UnseenType, Range
<1>3. NotifyType'
  <2>1. notified \o events \in Seq(DirtyEvent)
    BY WTypeParts, ConcatProperties DEF NotifyType
  <2> QED BY <2>1, WTypeParts DEF Change, NotifyType
<1>4. FilesType'
  BY WatcherAssumption, WTypeParts DEF Change, FilesType
<1>5. TypeOK'
  BY WTypeParts DEF Change, daemonVars, shared, local, owning, TypeOK
<1>6. IndexType' /\ DebType' /\ ReadType'
  BY WTypeParts DEF Change, IndexType, DebType, ReadType, deb
<1> QED BY <1>2, <1>3, <1>4, <1>5, <1>6, WTypePartsNext

LEMMA UserType ==
  ASSUME WTypeOK, NEW p \in Paths, NEW q \in Paths, Write(p) \/ Delete(p) \/ Rename(p, q)
  PROVE  WTypeOK'
<1>1. disk \subseteq Paths
  BY WTypeParts DEF FilesType
<1>2. \A e \in DirtyEvent : <<e>> \in Seq(DirtyEvent)
  OBVIOUS
<1>3. \A e, f \in DirtyEvent : <<e, f>> \in Seq(DirtyEvent)
  OBVIOUS
<1>4. \A t \in DirtyEventType : [path |-> p, type |-> t] \in DirtyEvent
                                /\ [path |-> q, type |-> t] \in DirtyEvent
  BY DEF DirtyEvent
<1>5. CASE Write(p)
  <2>1. PICK t \in DirtyEventType : Change(disk \cup {p}, <<[path |-> p, type |-> t]>>)
    BY <1>5 DEF Write, DirtyEventType
  <2> QED BY <1>1, <1>2, <1>4, <2>1, ChangeType
<1>6. CASE Delete(p)
  <2>1. PICK t \in DirtyEventType : Change(disk \ {p}, <<[path |-> p, type |-> t]>>)
    BY <1>6 DEF Delete, DirtyEventType
  <2> QED BY <1>1, <1>2, <1>4, <2>1, ChangeType
<1>7. CASE Rename(p, q)
  <2>1. PICK t \in DirtyEventType :
          Change((disk \ {p}) \cup {q}, <<[path |-> p, type |-> t], [path |-> q, type |-> t]>>)
    BY <1>7 DEF Rename, DirtyEventType
  <2>2. <<[path |-> p, type |-> t], [path |-> q, type |-> t]>> \in Seq(DirtyEvent)
    BY <1>3, <1>4
  <2> QED BY <1>1, <2>1, <2>2, ChangeType
<1> QED BY <1>5, <1>6, <1>7

(* The notify thread, and time.                                            *)
LEMMA NotifyStepType ==
  ASSUME WTypeOK, HandleEvent \/ \E p \in Paths : Ripen(p) PROVE WTypeOK'
<1>1. CASE HandleEvent
  <2>1. /\ Head(notified) \in DirtyEvent /\ Head(notified).path \in Paths
        /\ Tail(notified) \in Seq(DirtyEvent)
    BY <1>1, HeadIsEvent, WTypeParts DEF HandleEvent, NotifyType
  <2>2. TypeOK'
    BY <1>1, <2>1, EnqueueType, WTypeParts DEF HandleEvent
  <2>3. NotifyType'
    BY <1>1, <2>1, WTypeParts DEF HandleEvent, NotifyType
  <2>4. FilesType' /\ IndexType' /\ DebType' /\ ReadType' /\ UnseenType'
    BY <1>1, WTypeParts
       DEF HandleEvent, FilesType, IndexType, DebType, ReadType, UnseenType, seen, files, deb
  <2> QED BY <2>2, <2>3, <2>4, WTypePartsNext
<1>2. ASSUME NEW p \in Paths, Ripen(p) PROVE WTypeOK'
  <2>1. NotifyType'
    BY <1>2, WTypeParts DEF Ripen, NotifyType
  <2>2. TypeOK'
    BY <1>2, WTypeParts DEF Ripen, daemonVars, shared, local, owning, TypeOK
  <2>3. FilesType' /\ IndexType' /\ DebType' /\ ReadType' /\ UnseenType'
    BY <1>2, WTypeParts
       DEF Ripen, FilesType, IndexType, DebType, ReadType, UnseenType, seen, files, deb
  <2> QED BY <2>1, <2>2, <2>3, WTypePartsNext
<1> QED BY <1>1, <1>2

(* The debouncer.                                                          *)
LEMMA DebouncerStepType == ASSUME WTypeOK, DebouncerStep PROVE WTypeOK'
<1> USE WTypeParts, WTypePartsNext
<1>1. CASE RetainDebounce \/ DrainChannel \/ DebounceDone
  <2>1. TypeOK'
    BY <1>1 DEF RetainDebounce, DrainChannel, DebounceDone, daemonVars, shared, local, owning,
                TypeOK
  <2>2. DebType' /\ NotifyType'
    BY <1>1 DEF RetainDebounce, DrainChannel, DebounceDone, DebType, NotifyType
  <2>3. FilesType' /\ IndexType' /\ ReadType' /\ UnseenType'
    BY <1>1 DEF RetainDebounce, DrainChannel, DebounceDone, FilesType, IndexType, ReadType,
                UnseenType, seen, files
  <2> QED BY <2>1, <2>2, <2>3
<1>2. CASE DrainQueue
  <2>1. \A i \in DOMAIN queue : queue[i] \in DirtyEvent /\ queue[i].path \in Paths
    <3>1. \A i \in DOMAIN queue : queue[i] \in DirtyEvent
      BY ElementOfSeq, LenProperties DEF TypeOK
    <3> QED BY <3>1 DEF DirtyEvent
  <2>2. DebType'
    BY <1>2, <2>1 DEF DrainQueue, DebType
  <2>3. <<>> \in Seq(DirtyEvent)
    BY EmptySeq
  <2>4. TypeOK'
    BY <1>2, <2>3 DEF DrainQueue, DrainDirty, TypeOK, DaemonState, local, owning
  <2>5. FilesType' /\ IndexType' /\ NotifyType' /\ ReadType' /\ UnseenType'
    BY <1>2 DEF DrainQueue, FilesType, IndexType, NotifyType, ReadType, UnseenType, seen, files
  <2> QED BY <2>2, <2>4, <2>5
<1>3. ASSUME NEW p \in Paths, DebounceRead(p) PROVE WTypeOK'
  <2>1. ReadType' /\ UnseenType'
    BY <1>3, ReadingType DEF DebounceRead, LookAt, ReadType, UnseenType
  <2>2. TypeOK'
    BY <1>3 DEF DebounceRead, daemonVars, shared, local, owning, TypeOK
  <2>3. FilesType' /\ IndexType' /\ NotifyType' /\ DebType'
    BY <1>3 DEF DebounceRead, FilesType, IndexType, NotifyType, DebType, files
  <2> QED BY <2>1, <2>2, <2>3
<1>4. ASSUME NEW ok \in BOOLEAN, DebounceWrite(ok) PROVE WTypeOK'
  <2>1. IndexType'
    BY <1>4, WrittenType DEF DebounceWrite, ReadType
  <2>2. ReadType' /\ DebType'
    BY <1>4 DEF DebounceWrite, ReadType, DebType, Read
  <2>3. TypeOK'
    BY <1>4 DEF DebounceWrite, daemonVars, shared, local, owning, TypeOK
  <2>4. FilesType' /\ NotifyType' /\ UnseenType'
    BY <1>4 DEF DebounceWrite, FilesType, NotifyType, UnseenType, seen, files
  <2> QED BY <2>1, <2>2, <2>3, <2>4
<1>5. ASSUME NEW p \in Paths, DebounceDrop(p) PROVE WTypeOK'
  <2>1. DebType' /\ UnseenType'
    BY <1>5 DEF DebounceDrop, Drop, DebType, UnseenType
  <2>2. TypeOK'
    BY <1>5 DEF DebounceDrop, daemonVars, shared, local, owning, TypeOK
  <2>3. FilesType' /\ IndexType' /\ NotifyType' /\ ReadType'
    BY <1>5 DEF DebounceDrop, FilesType, IndexType, NotifyType, ReadType, files
  <2> QED BY <2>1, <2>2, <2>3
<1> QED BY <1>1, <1>2, <1>3, <1>4, <1>5 DEF DebouncerStep

(* The loop.                                                               *)
LEMMA LoopStepType == ASSUME WTypeOK, WLoopStep PROVE WTypeOK'
<1> USE WTypeParts, WTypePartsNext
<1>1. CASE LoopRead
  <2>1. Head(rest).path \in Paths
    BY <1>1, HeadIsEvent DEF LoopRead, TypeOK
  <2>2. ReadType' /\ UnseenType'
    BY <1>1, <2>1, ReadingType DEF LoopRead, LookAt, ReadType, UnseenType, deb
  <2>3. TypeOK'
    BY <1>1 DEF LoopRead, daemonVars, shared, local, owning, TypeOK
  <2>4. FilesType' /\ IndexType' /\ NotifyType' /\ DebType'
    BY <1>1 DEF LoopRead, FilesType, IndexType, NotifyType, DebType, files, deb
  <2> QED BY <2>2, <2>3, <2>4
<1>2. CASE LoopRemove
  <2>1. TypeOK'
    BY <1>2, ProcessedType DEF LoopRemove
  <2>2. IndexType'
    BY <1>2 DEF LoopRemove, IndexType
  <2>3. FilesType' /\ NotifyType' /\ DebType' /\ ReadType' /\ UnseenType'
    BY <1>2 DEF LoopRemove, FilesType, NotifyType, DebType, ReadType, UnseenType, seen, files, deb
  <2> QED BY <2>1, <2>2, <2>3
<1>3. CASE LoopOther
  <2>1. Next
    BY <1>3 DEF LoopOther, Next, LoopStep
  <2>2. TypeOK'
    BY <2>1, TypeStep
  <2>3. FilesType' /\ IndexType' /\ NotifyType' /\ DebType' /\ ReadType' /\ UnseenType'
    BY <1>3 DEF LoopOther, FilesType, IndexType, NotifyType, DebType, ReadType, UnseenType, seen,
                files, deb
  <2> QED BY <2>2, <2>3
<1>4. ASSUME NEW ok \in BOOLEAN, LoopWrite(ok) PROVE WTypeOK'
  <2>1. TypeOK'
    BY <1>4, ProcessedType DEF LoopWrite
  <2>2. IndexType'
    BY <1>4, WrittenType DEF LoopWrite, ReadType
  <2>3. ReadType'
    BY <1>4 DEF LoopWrite, ReadType, Read, deb
  <2>4. FilesType' /\ NotifyType' /\ DebType' /\ UnseenType'
    BY <1>4 DEF LoopWrite, FilesType, NotifyType, DebType, UnseenType, seen, files, deb
  <2> QED BY <2>1, <2>2, <2>3, <2>4
<1>5. CASE LoopDrop
  <2>1. TypeOK'
    BY <1>5, ProcessedType DEF LoopDrop
  <2>2. UnseenType'
    BY <1>5 DEF LoopDrop, Drop, UnseenType
  <2>3. FilesType' /\ IndexType' /\ NotifyType' /\ DebType' /\ ReadType'
    BY <1>5 DEF LoopDrop, FilesType, IndexType, NotifyType, DebType, ReadType, files, deb
  <2> QED BY <2>1, <2>2, <2>3
<1> QED BY <1>1, <1>2, <1>3, <1>4, <1>5 DEF WLoopStep

(* Polling.                                                                *)
LEMMA PollType ==
  ASSUME WTypeOK, (\E p \in Paths : PollRead(p)) \/ (\E ok \in BOOLEAN : PollWrite(ok))
  PROVE  WTypeOK'
<1> USE WTypeParts, WTypePartsNext
<1>1. ASSUME NEW p \in Paths, PollRead(p) PROVE WTypeOK'
  <2>1. ReadType' /\ UnseenType'
    BY <1>1, ReadingType DEF PollRead, LookAt, ReadType, UnseenType, deb
  <2>2. TypeOK'
    BY <1>1 DEF PollRead, daemonVars, shared, local, owning, TypeOK
  <2>3. FilesType' /\ IndexType' /\ NotifyType' /\ DebType'
    BY <1>1 DEF PollRead, FilesType, IndexType, NotifyType, DebType, files, deb
  <2> QED BY <2>1, <2>2, <2>3
<1>2. ASSUME NEW ok \in BOOLEAN, PollWrite(ok) PROVE WTypeOK'
  <2>1. IndexType'
    BY <1>2, WrittenType DEF PollWrite, ReadType
  <2>2. ReadType'
    BY <1>2 DEF PollWrite, ReadType, Read, deb
  <2>3. TypeOK'
    BY <1>2 DEF PollWrite, daemonVars, shared, local, owning, TypeOK
  <2>4. FilesType' /\ NotifyType' /\ DebType' /\ UnseenType'
    BY <1>2 DEF PollWrite, FilesType, NotifyType, DebType, UnseenType, seen, files, deb
  <2> QED BY <2>1, <2>2, <2>3, <2>4
<1> QED BY <1>1, <1>2

LEMMA WTypeStep == WTypeOK /\ [WNext]_watcherVars => WTypeOK'
<1> SUFFICES ASSUME WTypeOK, [WNext]_watcherVars PROVE WTypeOK'
  OBVIOUS
<1>1. CASE UNCHANGED watcherVars
  <2>1. TypeOK'
    BY <1>1, WTypeParts DEF watcherVars, daemonVars, shared, local, owning, TypeOK
  <2>2. FilesType' /\ IndexType' /\ NotifyType' /\ DebType' /\ ReadType' /\ UnseenType'
    BY <1>1, WTypeParts DEF watcherVars, FilesType, IndexType, NotifyType, DebType, ReadType,
                            UnseenType, seen, files, deb
  <2> QED BY <2>1, <2>2, WTypePartsNext
<1> QED BY <1>1, UserType, NotifyStepType, DebouncerStepType, LoopStepType, PollType DEF WNext

(* Queues, maps, batches and places are what they should be, with two      *)
(* consumers on the queue.                                                 *)
THEOREM WatcherTypeCorrect == WSpec => []WTypeOK
BY WTypeInit, WTypeStep, PTL DEF WSpec
-----------------------------------------------------------------------------
LEMMA VisibleStep ==
  WTypeOK /\ BusyIsVisible /\ [WNext]_watcherVars => BusyIsVisible'
<1> SUFFICES ASSUME WTypeOK, BusyIsVisible, [WNext]_watcherVars PROVE BusyIsVisible'
  OBVIOUS
<1> USE DEF BusyIsVisible
<1>1. CASE UNCHANGED <<state, queue, pc>>
  BY <1>1
<1>2. CASE HandleEvent
  <2>1. Append(queue, Head(notified)) # <<>>
    BY <1>2, WTypeParts, HeadIsEvent, AppendProperties DEF HandleEvent, NotifyType, TypeOK
  <2> QED BY <1>2, <2>1 DEF HandleEvent, EnqueueDirty
<1>3. CASE DrainQueue
  BY <1>3 DEF DrainQueue, DrainDirty
<1>4. CASE NoSignal \/ Tick \/ DrainBatch \/ FinishBatch \/ ResumeIdle
  BY <1>4 DEF NoSignal, Tick, DrainBatch, FinishBatch, ResumeIdle, shared
<1>5. (\E p \in Paths : Write(p) \/ Delete(p) \/ Ripen(p) \/ PollRead(p))
        \/ (\E p, q \in Paths : Rename(p, q)) \/ (\E ok \in BOOLEAN : PollWrite(ok))
      => UNCHANGED <<state, queue, pc>>
  BY DEF Write, Delete, Rename, Change, Ripen, PollRead, PollWrite, daemonVars, shared
<1>6. DebouncerStep /\ ~DrainQueue => UNCHANGED <<state, queue, pc>>
  BY DEF DebouncerStep, RetainDebounce, DrainChannel, DebounceDone, DebounceRead,
         DebounceDrop, DebounceWrite, daemonVars, shared
<1>7. WLoopStep /\ ~LoopOther => UNCHANGED <<state, queue, pc>>
  BY DEF WLoopStep, LoopRead, LoopDrop, LoopRemove, LoopWrite, Processed, daemonVars, shared
<1>8. UNCHANGED watcherVars => UNCHANGED <<state, queue, pc>>
  BY DEF watcherVars, daemonVars, shared
<1> QED BY <1>1, <1>2, <1>3, <1>4, <1>5, <1>6, <1>7, <1>8 DEF WNext, LoopOther

(* However events, the two consumers of the queue and the end of a batch   *)
(* interleave, a batch in hand never shows as Idle, Dirty or Recover, and  *)
(* Dirty is never shown of an empty queue.                                 *)
THEOREM BusyStaysVisible == WSpec => []BusyIsVisible
<1>1. WInit => BusyIsVisible
  BY DEF WInit, BusyIsVisible
<1> QED BY <1>1, VisibleStep, WatcherTypeCorrect, PTL DEF WSpec
=============================================================================
