----------------------------- MODULE EventQueue -----------------------------
(***************************************************************************)
(* The event queue of Tk::Event (pTk/mTk/tclGeneric/tclNotify.c): a list   *)
(* with a first, a last and a marker pointer, to which every source of     *)
(* events adds (QueueEvent) and from which Tcl_ServiceEvent takes.  An     *)
(* event stays in the list while its handler runs, its "proc" field NULL,  *)
(* because the handler may add events, delete events and service the queue *)
(* again (a callback that calls update, waitVariable, DoOneEvent...).      *)
(*                                                                         *)
(* The list is the sequence `queue'; last and marker are the pointers the  *)
(* code keeps beside it, so that a pointer that goes stale has the effect  *)
(* it has on the list.  frames is the C stack of Tcl_ServiceEvent calls:   *)
(* each keeps the address of its event, which Tcl_DeleteEvents may free    *)
(* and the allocator give to a new event while the handler still runs.     *)
(* cell is that address: the event that was first to lie there names it.   *)
(***************************************************************************)
EXTENDS SequencesExt

CONSTANTS
    Event,          \* the events, each queued at most once
    Deferrable,     \* the events whose handler may return 0
    NULL,           \* the null pointer
    MaxUnwind       \* bound: how often an exception leaves Tcl_ServiceEvent

ASSUME NULLAssumption == NULL \notin Event
ASSUME DeferrableAssumption == Deferrable \subseteq Event
ASSUME MaxUnwindAssumption == MaxUnwind \in Nat

VARIABLES
    queue,          \* the list from firstEventPtr
    last,           \* lastEventPtr
    marker,         \* markerEventPtr
    inService,      \* the events whose proc field is NULL
    frames,         \* the events of the active Tcl_ServiceEvent calls, outermost first
    position,       \* history: how each event was queued
    born,           \* history: when it was queued, 0 for an event not queued yet
    cell,           \* the memory each event was allocated in
    clock,          \* history: the number of calls of QueueEvent
    handled,        \* history: the events whose handler returned 1
    deleted,        \* history: the events Tcl_DeleteEvents removed
    unwinds         \* the number of exceptions so far

vars == <<queue, last, marker, inService, frames, position, born, cell, clock,
          handled, deleted, unwinds>>

Position == {"TCL_QUEUE_TAIL", "TCL_QUEUE_HEAD", "TCL_QUEUE_MARK"}

Pointer == Event \cup {NULL}

InQueue(e) == \E i \in DOMAIN queue : queue[i] = e

Index(e) == CHOOSE i \in DOMAIN queue : queue[i] = e

Init ==
    /\ queue = <<>>
    /\ last = NULL
    /\ marker = NULL
    /\ inService = {}
    /\ frames = <<>>
    /\ position = [e \in Event |-> "TCL_QUEUE_TAIL"]
    /\ born = [e \in Event |-> 0]
    /\ cell = [e \in Event |-> e]
    /\ clock = 0
    /\ handled = {}
    /\ deleted = {}
    /\ unwinds = 0

-----------------------------------------------------------------------------
(***************************************************************************)
(* QueueEvent.  Each position writes through the pointer it uses: with a   *)
(* last or a marker that is not in the list, the new event is linked to    *)
(* memory the list no longer reaches.                                      *)
(***************************************************************************)

\* (Mutant: the tail is not remembered.)
QueueTailForgetsLast(e) ==
    /\ queue' = IF queue = <<>> THEN <<e>>
                ELSE IF InQueue(last) THEN SubSeq(queue, 1, Index(last)) \o <<e>>
                ELSE queue
    /\ UNCHANGED <<last, marker>>

\* lastEventPtr->nextPtr = evPtr: what followed last is cut off.
QueueTail(e) ==
    /\ queue' = IF queue = <<>> THEN <<e>>
                ELSE IF InQueue(last) THEN SubSeq(queue, 1, Index(last)) \o <<e>>
                ELSE queue
    /\ last' = e
    /\ UNCHANGED marker

QueueHead(e) ==
    /\ queue' = <<e>> \o queue
    /\ last' = IF queue = <<>> THEN e ELSE last
    /\ UNCHANGED marker

\* (Mutant: the marker stays where it was.)
QueueMarkStays(e) ==
    LET at == IF marker = NULL THEN 1 ELSE Index(marker) + 1
    IN  /\ queue' = InsertAt(queue, at, e)
        /\ marker' = IF marker = NULL THEN e ELSE marker
        /\ last' = IF at = Len(queue) + 1 THEN e ELSE last

\* The event goes after the marker, or first when there is none, and becomes
\* the marker.
QueueMark(e) ==
    LET at == IF marker = NULL THEN 1 ELSE Index(marker) + 1
    IN  /\ queue' = IF marker = NULL \/ InQueue(marker)
                    THEN InsertAt(queue, at, e)
                    ELSE queue
        /\ marker' = e
        /\ last' = IF at = Len(queue) + 1 THEN e ELSE last

\* The freed memory whose address an active call still holds.
Freed ==
    {c \in Event :
        /\ \E i \in DOMAIN frames : cell[frames[i]] = c
        /\ \A f \in Event : InQueue(f) => cell[f] # c}

\* ckalloc before QueueEvent returns memory that is nobody's: new, or one of the
\* cells freed under a running handler.
QueueEvent(e, p) ==
    /\ born[e] = 0
    /\ \E c \in {e} \cup Freed : cell' = [cell EXCEPT ![e] = c]
    /\ \/ p = "TCL_QUEUE_TAIL" /\ QueueTail(e)
       \/ p = "TCL_QUEUE_HEAD" /\ QueueHead(e)
       \/ p = "TCL_QUEUE_MARK" /\ QueueMark(e)
    /\ clock' = clock + 1
    /\ born' = [born EXCEPT ![e] = clock + 1]
    /\ position' = [position EXCEPT ![e] = p]
    /\ UNCHANGED <<inService, frames, handled, deleted, unwinds>>

-----------------------------------------------------------------------------
(***************************************************************************)
(* Removal, as Tcl_DeleteEvents and the end of Tcl_ServiceEvent write it:  *)
(* last and marker fall back to the event before the one removed.          *)
(***************************************************************************)

Previous(i) == IF i = 1 THEN NULL ELSE queue[i - 1]

\* (Mutant: removing the end of the list leaves lastEventPtr behind.)
UnlinkStaleLast(e) ==
    LET i == Index(e)
    IN  /\ queue' = RemoveAt(queue, i)
        /\ marker' = IF marker = e THEN Previous(i) ELSE marker
        /\ UNCHANGED last

\* (Mutant: removing the marker forgets the events queued at the mark.)
UnlinkDropsMarker(e) ==
    LET i == Index(e)
    IN  /\ queue' = RemoveAt(queue, i)
        /\ last' = IF i = Len(queue) THEN Previous(i) ELSE last
        /\ marker' = IF marker = e THEN NULL ELSE marker

Unlink(e) ==
    LET i == Index(e)
    IN  /\ queue' = RemoveAt(queue, i)
        /\ last' = IF i = Len(queue) THEN Previous(i) ELSE last
        /\ marker' = IF marker = e THEN Previous(i) ELSE marker

\* Tcl_DeleteEvents for one matching event.  The loop treats every event on
\* its own, so a call that matches several is as many of these in a row.  An
\* event whose handler is running may be deleted too.
DeleteEvents(e) ==
    /\ InQueue(e)
    /\ Unlink(e)
    /\ inService' = inService \ {e}
    /\ deleted' = deleted \cup {e}
    /\ UNCHANGED <<frames, position, born, cell, clock, handled, unwinds>>

-----------------------------------------------------------------------------
(***************************************************************************)
(* Tcl_ServiceEvent.  The scan skips the events whose proc is NULL; it     *)
(* clears proc and calls the handler.  A nested call is one more frame.    *)
(***************************************************************************)

\* (Mutant: the scan does not skip events whose handler is running.)
EligibleAlways(i) == i \in DOMAIN queue

Eligible(i) == queue[i] \notin inService

\* The scan, from index i on, reaches index j.
ScanStops(i, j) ==
    /\ j \in i .. Len(queue)
    /\ Eligible(j)
    /\ \A k \in i .. j - 1 : ~ Eligible(k)

\* A call of Tcl_ServiceEvent that finds an event to process.
ServiceEvent(e) ==
    /\ \E j \in DOMAIN queue : queue[j] = e /\ ScanStops(1, j)
    /\ inService' = inService \cup {e}
    /\ frames' = Append(frames, e)
    /\ UNCHANGED <<queue, last, marker, position, born, cell, clock, handled, deleted, unwinds>>

Top == frames[Len(frames)]

\* Event f lies where the call for event e believes its event to be.
LiesAt(f, e) == InQueue(f) /\ cell[f] = cell[e]

\* The handler of the innermost call returns 1: the list is searched for the
\* address of the event, and what lies there is removed and freed.  After a
\* DeleteEvents that is nothing, or an event queued since in the same memory.
HandlerReturns1(e) ==
    /\ frames # <<>>
    /\ Top = e
    /\ \/ \E f \in Event :
            /\ LiesAt(f, e)
            /\ Unlink(f)
            /\ inService' = inService \ {e, f}
       \/ /\ \A f \in Event : ~ LiesAt(f, e)
          /\ inService' = inService \ {e}
          /\ UNCHANGED <<queue, last, marker>>
    /\ frames' = Front(frames)
    /\ handled' = handled \cup {e}
    /\ UNCHANGED <<position, born, cell, clock, deleted, unwinds>>

\* (Mutant: a deferred event ends the scan.)
HandlerReturns0Stops(e) ==
    /\ frames # <<>>
    /\ Top = e
    /\ e \in Deferrable
    /\ InQueue(e)
    /\ inService' = inService \ {e}
    /\ frames' = Front(frames)
    /\ UNCHANGED <<queue, last, marker, position, born, cell, clock, handled, deleted,
                   unwinds>>

\* The handler returns 0: proc is restored and the scan goes on behind the
\* event.  A handler whose event was deleted must not return 0 (comment in
\* Tcl_ServiceEvent: "if the proc returns 0, the event is still in the list").
HandlerReturns0(e) ==
    /\ frames # <<>>
    /\ Top = e
    /\ e \in Deferrable
    /\ InQueue(e)
    /\ \/ \E j \in DOMAIN queue :
            /\ ScanStops(Index(e) + 1, j)
            /\ inService' = (inService \ {e}) \cup {queue[j]}
            /\ frames' = Append(Front(frames), queue[j])
       \/ /\ \A j \in Index(e) + 1 .. Len(queue) : ~ Eligible(j)
          /\ inService' = inService \ {e}
          /\ frames' = Front(frames)
    /\ UNCHANGED <<queue, last, marker, position, born, cell, clock, handled, deleted, unwinds>>

\* A Perl exception (Event.xs calls handlers without G_EVAL) is caught by an
\* eval around one of the active calls: the frames inside it are abandoned,
\* and their events keep proc = NULL.
Unwind(depth) ==
    /\ unwinds < MaxUnwind
    /\ depth < Len(frames)
    /\ frames' = SubSeq(frames, 1, depth)
    /\ unwinds' = unwinds + 1
    /\ UNCHANGED <<queue, last, marker, inService, position, born, cell, clock, handled,
                   deleted>>

Next ==
    \/ \E e \in Event :
        \/ \E p \in Position : QueueEvent(e, p)
        \/ DeleteEvents(e)
        \/ ServiceEvent(e)
        \/ HandlerReturns1(e)
        \/ HandlerReturns0(e)
    \/ \E depth \in 0 .. Len(frames) : Unwind(depth)

Spec == Init /\ [][Next]_vars

\* The main loop keeps calling Tcl_ServiceEvent, and every handler returns in
\* the end; one that may defer may do so every time.
Fairness ==
    /\ WF_vars(\E e \in Event : ServiceEvent(e))
    /\ \A e \in Event \ Deferrable : SF_vars(HandlerReturns1(e))
    /\ \A e \in Deferrable : SF_vars(HandlerReturns0(e) \/ HandlerReturns1(e))

FairSpec == Spec /\ Fairness

-----------------------------------------------------------------------------
TypeOK ==
    /\ queue \in Seq(Event)
    /\ last \in Pointer
    /\ marker \in Pointer
    /\ inService \subseteq Event
    /\ frames \in Seq(Event)
    /\ position \in [Event -> Position]
    /\ clock \in Nat
    /\ born \in [Event -> 0 .. clock]
    /\ cell \in [Event -> Event]
    /\ handled \subseteq Event
    /\ deleted \subseteq Event
    /\ unwinds \in Nat

\* The pointers kept beside the list stay right however a nested service call
\* or a deletion changes the list under a running handler: no event is in the
\* list twice, lastEventPtr is its end and markerEventPtr is in it or NULL.
PointersValid ==
    /\ \A i, j \in DOMAIN queue : queue[i] = queue[j] => i = j
    /\ last = IF queue = <<>> THEN NULL ELSE queue[Len(queue)]
    /\ marker = NULL \/ InQueue(marker)

Ordinary(e) == position[e] = "TCL_QUEUE_TAIL"

\* The marker parts the list: up to it everything was queued at the mark or at
\* the head, behind it nothing was queued at the mark; without a marker no
\* event queued at the mark is left.
MarkerSplits ==
    /\ marker = NULL =>
        \A i \in DOMAIN queue : position[queue[i]] # "TCL_QUEUE_MARK"
    /\ \A i, j \in DOMAIN queue : queue[j] = marker =>
        IF i <= j THEN ~ Ordinary(queue[i])
                  ELSE position[queue[i]] # "TCL_QUEUE_MARK"

\* Whether event e is to be served before event f, both in the list (comment of
\* QueueEvent: events at the mark first in, first out and before any event at
\* the tail; events at the head last in, first out).
Precedes(e, f) ==
    \/ Ordinary(f) /\ ~ Ordinary(e)
    \/ /\ position[e] = position[f]
       /\ IF position[e] = "TCL_QUEUE_HEAD" THEN born[f] < born[e]
                                            ELSE born[e] < born[f]

\* The order QueueEvent documents holds of the list at every moment, whatever
\* was removed or deferred since: no event overtakes one it must follow.
ServiceOrder ==
    \A i, j \in DOMAIN queue : Precedes(queue[i], queue[j]) => i < j

\* Event e was queued in the memory of an event that had been deleted under its
\* handler, and that handler has returned 1 since.
TakenForAnother(e) ==
    \E f \in handled \cap deleted : cell[f] = cell[e] /\ born[f] < born[e]

\* No queued event is lost or served twice: it leaves the list only because its
\* handler returned 1 or Tcl_DeleteEvents took it, and then for good.  There is
\* one way to lose an event: the comparison of addresses at the end of
\* Tcl_ServiceEvent takes it for the deleted one whose memory it got.
NothingLost ==
    \A e \in Event :
        /\ born[e] # 0 =>
            InQueue(e) \/ e \in handled \cup deleted \/ TakenForAnother(e)
        /\ InQueue(e) \/ e \in handled \cup deleted => born[e] # 0
        /\ InQueue(e) => e \notin handled \cup deleted

\* The handler of an event is not entered again by the service calls nested in
\* it, even after it deferred or its event was deleted.
NeverReentered ==
    /\ \A i, j \in DOMAIN frames : frames[i] = frames[j] => i = j
    /\ \A i \in DOMAIN frames : born[frames[i]] # 0
    /\ \A i \in DOMAIN frames : InQueue(frames[i]) => frames[i] \in inService

\* Of the events that lay in one cell only the last can be in the list, and the
\* calls that hold the address of the cell are nested in the order of the events:
\* a handler that returns cannot remove the event of a call around it.
CellsShared ==
    /\ \A e \in Event : cell[e] # e => born[cell[e]] # 0
    /\ \A e, f \in Event : LiesAt(f, e) /\ e # f /\ born[e] # 0 =>
        ~ InQueue(e) /\ born[e] < born[f]
    /\ \A i, j \in DOMAIN frames : cell[frames[i]] = cell[frames[j]] /\ i < j =>
        born[frames[i]] < born[frames[j]]
    /\ \A i \in DOMAIN frames : InQueue(frames[i]) \/ frames[i] \in deleted

\* The invariant that is inductive: the order of the list needs the marker to be
\* where MarkerSplits says, the marker needs a list without duplicates, the list
\* and the frames need every event to be queued once, and what a returning handler
\* removes needs CellsShared.
Inductive ==
    /\ TypeOK
    /\ PointersValid
    /\ MarkerSplits
    /\ ServiceOrder
    /\ NothingLost
    /\ NeverReentered
    /\ CellsShared

\* An event whose proc is NULL is being handled by some active call, unless an
\* exception abandoned that call: only then can the event never be served.
NoneStranded ==
    unwinds = 0 => \A e \in inService : \E i \in DOMAIN frames : frames[i] = e

\* With returning handlers and a running main loop, an event that was queued
\* leaves the queue, unless an exception abandoned its handler: neither a
\* deferring handler, nor nesting, nor events that overtake it, nor what other
\* exceptions left behind keep it waiting for ever.
EventuallyServed ==
    \A e \in Event \ Deferrable :
        InQueue(e) ~> \/ ~ InQueue(e)
                      \/ e \in inService /\ \A i \in DOMAIN frames : frames[i] # e

-----------------------------------------------------------------------------
\* How the list is the two parts of EventOrder: the urgent part ends at the
\* marker.
MarkerIndex == IF marker = NULL THEN 0 ELSE Index(marker)
UrgentPart == SubSeq(queue, 1, MarkerIndex)
OrdinaryPart == SubSeq(queue, MarkerIndex + 1, Len(queue))

Order == INSTANCE EventOrder WITH urgent <- UrgentPart, ordinary <- OrdinaryPart

\* Every operation on the pointers is one operation on the two parts, or none:
\* the three positions, the removal of the marker itself and a removal from the
\* middle do what the queue promises and nothing else.
RefinesEventOrder == Order!Spec

=============================================================================
