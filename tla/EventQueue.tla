----------------------------- MODULE EventQueue -----------------------------
(***************************************************************************)
(* What the dirty queue and its worker promise to whoever reports a file   *)
(* event, with no threads, locks or batches: an event waits, and is then   *)
(* either handled, in its turn, or discarded, and that only when more than *)
(* Limit events wait and only from the young end of the queue.  Nothing    *)
(* promises that an event does not wait for ever.                          *)
(***************************************************************************)
EXTENDS Naturals, Sequences

CONSTANTS Event,   \* what may be reported
          Limit,   \* how many waiting events survive a discard (a natural)
          None     \* no event has been handled yet

VARIABLES waiting,  \* the events reported and not yet handled, oldest first
          latest    \* the event handled last

Init == waiting = <<>> /\ latest = None

Submit(e) == waiting' = Append(waiting, e) /\ UNCHANGED latest

Handle == /\ waiting # <<>>
          /\ latest' = Head(waiting)
          /\ waiting' = Tail(waiting)

Discard == /\ Len(waiting) > Limit
           /\ waiting' = SubSeq(waiting, 1, Limit)
           /\ UNCHANGED latest

Next == (\E e \in Event : Submit(e)) \/ Handle \/ Discard

Spec == Init /\ [][Next]_<<waiting, latest>>
=============================================================================
