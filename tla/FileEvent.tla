----------------------------- MODULE FileEvent -----------------------------
(***************************************************************************)
(* fileevent on one file handle: the FileHandler of the Unix notifier      *)
(* (tclUnixNotfy.c), the PerlIOHandler objects of Event/Event.xs above it, *)
(* and the tie of Event/Event/IO.pm, whose methods wait in an event loop   *)
(* of their own until the handle is ready (READLINE, PRINT...).            *)
(*                                                                         *)
(* Everything runs in one thread, but callbacks and waits nest, and any    *)
(* callback may set and delete handlers, close, read and wait: `frames' is *)
(* that stack.  An object lives while it is tied, and while a frame holds  *)
(* a reference to it: several objects of the same handle may be alive.     *)
(* Callbacks of this event source run without G_EVAL, so that an exception *)
(* abandons frames.  The event queue is a count of each kind of event; its *)
(* order is the subject of EventQueue.                                     *)
(*                                                                         *)
(* PerlIO_watch croaks when the handle was not opened for a mode the masks *)
(* ask for.  The masks were set before: the object then asks for what is   *)
(* not watched, and may watch what nobody asks for.                        *)
(*                                                                         *)
(* After a callback that let its object go, PerlIOEventProc tests a field  *)
(* of the freed object.  Nothing is allocated between the free and the     *)
(* test, and the field is not where the allocator links free blocks: it is *)
(* as PerlIO_DESTROY left it, NULL.                                        *)
(***************************************************************************)
EXTENDS SequencesExt, FiniteSets

CONSTANTS
    Mode,           \* TCL_READABLE = 2, TCL_WRITABLE = 4, TCL_EXCEPTION = 8
    NULL,           \* no object, no file handler
    Openings,       \* for each way to open the handle, the masks PerlIO_watch accepts
    MaxTies,        \* bound: how many objects are tied
    MaxWaits,       \* bound: how deep a wait may be on the stack
    MaxDepth,       \* bound: how deep callbacks and waits nest
    MaxEvents,      \* bound: how many FileHandlerEvents, and PerlIOEvents of an object, are queued
    MaxUnwind,      \* bound: how often an exception abandons frames
    Abandoned,      \* bound: for which masks PerlIO_watch accepts it does
    Closable        \* bound: the masks PerlIO_watch accepts of the handles closed

ASSUME ModeAssumption == Mode \subseteq Nat
ASSUME MaxTiesAssumption == MaxTies \in Nat
\* The tests of PerlIO_watch fail for more of the modes, never for fewer.
ASSUME OpeningsAssumption ==
    \A masks \in Openings :
        /\ masks \subseteq SUBSET Mode
        /\ {} \in masks
        /\ \A mask \in masks : SUBSET mask \subseteq masks
ASSUME NULLAssumption == NULL \notin 1 .. MaxTies

VARIABLES
    obj,            \* the PerlIOHandler of each object
    live,           \* the objects in the list from firstPerlIOHandler
    current,        \* the object the handle is tied to
    ties,           \* how many objects were tied
    fileHandler,    \* the FileHandler of the descriptor, or NULL
    fileEvents,     \* how many FileHandlerEvents are queued
    ioEvents,       \* how many PerlIOEvents are queued
    frames,         \* the running callbacks and waits, outermost first
    pinned,         \* the objects with a reference an exception leaked
    open,           \* whether the handle has a descriptor
    accepts,        \* the masks PerlIO_watch accepts
    closed,         \* history: the objects whose handle CLOSE closed
    unwinds         \* the number of exceptions so far

vars == <<obj, live, current, ties, fileHandler, fileEvents, ioEvents, frames, pinned,
          open, accepts, closed, unwinds>>

handle == <<open, accepts, closed>>

Object == 1 .. MaxTies

TCL_EXCEPTION == 8

\* handler is handlerMask, callback says which of readHandler, writeHandler and
\* exceptionHandler are set: CLOSE clears the first and not the second.  croaked is
\* history: PerlIO_watch croaked for the object.
PerlIOHandler == [ready : SUBSET Mode, wait : SUBSET Mode, handler : SUBSET Mode,
                  calling : SUBSET Mode, mask : SUBSET Mode, callback : SUBSET Mode,
                  pending : BOOLEAN, croaked : BOOLEAN]

FileHandler == [owner : Object, mask : SUBSET Mode, ready : SUBSET Mode]

\* A callback frame keeps the rest of doMask, a wait frame keeps oldWait.
Frame == [kind : {"callback", "wait"}, object : Object, mode : Mode, saved : SUBSET Mode]

Fresh == [ready |-> {}, wait |-> {}, handler |-> {}, calling |-> {}, mask |-> {},
          callback |-> {}, pending |-> FALSE, croaked |-> FALSE]

Init ==
    /\ obj = [o \in Object |-> Fresh]
    /\ live = {}
    /\ current = NULL
    /\ ties = 0
    /\ fileHandler = NULL
    /\ fileEvents = 0
    /\ ioEvents = 0
    /\ frames = <<>>
    /\ pinned = {}
    /\ open = TRUE
    /\ accepts \in Openings
    /\ closed = {}
    /\ unwinds = 0

Top == frames[Len(frames)]

-----------------------------------------------------------------------------
(***************************************************************************)
(* PerlIO_watch, on the record r of object o.  It croaks, or tells the     *)
(* notifier if the mask changes: first to delete the handler of the        *)
(* descriptor, whoever owns it, then to create the new one.  A closed      *)
(* handle has no descriptor: then only the mask changes.  (The handle is   *)
(* not opened again.)                                                      *)
(***************************************************************************)
Wanted(r) == r.wait \cup r.handler

\* "Handle not opened for input", "... for output", "fileno not same".
Refused(r) == Wanted(r) \notin accepts

Watched(r) == IF Refused(r) THEN [r EXCEPT !.croaked = TRUE] ELSE [r EXCEPT !.mask = Wanted(r)]

\* Tcl_CreateFileHandler, after Tcl_DeleteFileHandler: a new record, in which
\* nothing is ready yet.
CreateFileHandler(o, mask) == [owner |-> o, mask |-> mask, ready |-> {}]

DeleteFileHandler == NULL

\* (Mutant: a mask that became empty is not taken from the notifier.)
NotifiedNotEmpty(h, o, r) ==
    IF Refused(r) \/ ~ open \/ r.mask = Wanted(r) \/ Wanted(r) = {} THEN h
    ELSE CreateFileHandler(o, Wanted(r))

\* The notifier's handler, h before PerlIO_watch.
Notified(h, o, r) ==
    IF Refused(r) \/ ~ open \/ r.mask = Wanted(r) THEN h
    ELSE IF Wanted(r) = {} THEN DeleteFileHandler
    ELSE CreateFileHandler(o, Wanted(r))

Unwatched(r) == [r EXCEPT !.wait = {}, !.handler = {}]

\* PerlIO_DESTROY takes the object out of the list and unwatches it.
Destroy(o, r, h) ==
    /\ obj' = [obj EXCEPT ![o] = Fresh]
    /\ fileHandler' = Notified(h, o, Unwatched(r))
    /\ live' = live \ {o}

\* o is updated to r and watched, and destroyed if nothing refers to it any more.
Update(o, r, held) ==
    IF held
    THEN /\ obj' = [obj EXCEPT ![o] = Watched(r)]
         /\ fileHandler' = Notified(fileHandler, o, r)
         /\ live' = live
    ELSE Destroy(o, Watched(r), Notified(fileHandler, o, r))

\* A frame of the stack st holds a reference to o, or a lost frame leaked one.
Referenced(o, st, leaks) ==
    o \in leaks \/ \E i \in DOMAIN st : st[i].object = o

-----------------------------------------------------------------------------
(***************************************************************************)
(* The calls of the program: fileevent, the waiting methods of the tie, and *)
(* CLOSE.  They come from the main program and from any callback.          *)
(***************************************************************************)

\* The handle is tied: TIEHANDLE puts the new object, as `handler' leaves it, first
\* in the list, which is therefore ordered by age.
Tie(r) ==
    LET o == ties + 1
    IN  /\ current = NULL
        /\ ties < MaxTies
        /\ ties' = o
        /\ current' = o
        /\ obj' = [obj EXCEPT ![o] = Watched(r)]
        /\ fileHandler' = Notified(fileHandler, o, r)
        /\ live' = live \cup {o}
        /\ UNCHANGED <<fileEvents, ioEvents, frames, pinned, handle, unwinds>>

\* fileevent with a callback, on a handle that is not tied yet.  (With an empty
\* callback the new object is untied, and destroyed, at once.)
TieHandler(m) == Tie([Fresh EXCEPT !.handler = {m}, !.callback = {m}])

\* fileevent without a callback asks for it, and ties the handle to do so.
TieQuery == Tie(Fresh)

\* fileevent with a callback, on a tied handle.
SetHandler(m) ==
    /\ current # NULL
    /\ Update(current, [obj[current] EXCEPT !.handler = @ \cup {m},
                                            !.callback = @ \cup {m}], TRUE)
    /\ UNCHANGED <<current, ties, fileEvents, ioEvents, frames, pinned, handle, unwinds>>

\* fileevent with an empty callback: the handler goes and the handle is untied,
\* which destroys the object unless a frame still refers to it.  A croak for what
\* is left of the masks comes before the untie.
DeleteHandler(m) ==
    LET r == [obj[current] EXCEPT !.handler = @ \ {m}, !.callback = @ \ {m}]
    IN  /\ current # NULL
        /\ Update(current, r, Refused(r) \/ Referenced(current, frames, pinned))
        /\ current' = IF Refused(r) THEN current ELSE NULL
        /\ UNCHANGED <<ties, fileEvents, ioEvents, frames, pinned, handle, unwinds>>

\* CLOSE: nothing is watched any more; the callbacks and the tie stay.  The object
\* keeps its pointers to the streams, which close closed: they count as opened.
Close ==
    /\ accepts \in Closable
    /\ current # NULL
    /\ Update(current, Unwatched(obj[current]), TRUE)
    /\ open' = FALSE
    /\ closed' = closed \cup {current}
    /\ UNCHANGED <<current, ties, fileEvents, ioEvents, frames, pinned, accepts, unwinds>>

\* close on a handle that is not tied is Perl's own: no object learns of it, and
\* those still alive have no streams.
CloseUntied ==
    /\ accepts \in Closable
    /\ current = NULL
    /\ accepts # {{}}
    /\ open' = FALSE
    /\ accepts' = {{}}
    /\ UNCHANGED <<obj, live, current, ties, fileHandler, fileEvents, ioEvents, frames,
                   pinned, closed, unwinds>>

\* PerlIO_wait returns at once in a callback for the mode (callingMask); otherwise
\* it inhibits the callback, watches if the mode is not watched already, which may
\* croak, and runs the event loop.
Wait(m) ==
    LET r == [obj[current] EXCEPT !.wait = @ \cup {m}]
        frame == [kind |-> "wait", object |-> current, mode |-> m,
                  saved |-> obj[current].wait \cap {m}]
    IN  /\ current # NULL
        /\ Len(frames) < MaxWaits
        /\ m \notin obj[current].calling
        /\ IF m \in r.mask
           THEN /\ obj' = [obj EXCEPT ![current] = r]
                /\ frames' = Append(frames, frame)
                /\ UNCHANGED <<live, fileHandler>>
           ELSE /\ Update(current, r, TRUE)
                /\ frames' = IF Refused(r) THEN frames ELSE Append(frames, frame)
        /\ UNCHANGED <<current, ties, fileEvents, ioEvents, pinned, handle, unwinds>>

\* (Mutant: a wait forgets the one around it.)
WaitReturnsForgets ==
    /\ frames # <<>>
    /\ Top.kind = "wait"
    /\ LET o == Top.object
           m == Top.mode
       IN  /\ m \in obj[o].ready
           /\ Update(o, [obj[o] EXCEPT !.wait = @ \ {m}, !.ready = @ \ {m}],
                     o = current \/ Referenced(o, Front(frames), pinned))
    /\ frames' = Front(frames)
    /\ UNCHANGED <<current, ties, fileEvents, ioEvents, pinned, handle, unwinds>>

\* The innermost wait finds its mode ready: it restores waitMask, watches, and
\* unless that croaks consumes the readiness.
WaitReturns ==
    /\ frames # <<>>
    /\ Top.kind = "wait"
    /\ LET o == Top.object
           m == Top.mode
           r == [obj[o] EXCEPT !.wait = (@ \ {m}) \cup Top.saved]
       IN  /\ m \in obj[o].ready
           /\ Update(o, IF Refused(r) THEN r ELSE [r EXCEPT !.ready = @ \ {m}],
                     o = current \/ Referenced(o, Front(frames), pinned))
    /\ frames' = Front(frames)
    /\ UNCHANGED <<current, ties, fileEvents, ioEvents, pinned, handle, unwinds>>

-----------------------------------------------------------------------------
(***************************************************************************)
(* The event loop.  What the device and the PerlIO buffers hold is any     *)
(* subset of the modes, new whenever the code looks.                       *)
(***************************************************************************)
\* (Mutant: a handler that is waited for is called, too.)
CallableInWait(r) == r.ready \cap r.handler

Callable(r) == (r.ready \ r.wait) \cap r.handler

Due(r) == Callable(r) # {} /\ ~ r.pending

\* What PerlIO_MaskCheck warns of.  It then watches again, and that croaks: by
\* MaskAgrees the masks are refused.
Astray(o) == ~ (obj[o].mask \subseteq Wanted(obj[o]))

\* PerlIO_is_readable and PerlIO_is_writable, called by PerlIOSetupProc and by
\* the loop of PerlIO_wait: there is something in the buffer.  PerlIO_has_exception
\* looks at no buffer.
BufferFound(o, m) ==
    /\ open
    /\ o \in live
    /\ m # TCL_EXCEPTION
    /\ m \in obj[o].mask \ obj[o].ready
    /\ obj' = [obj EXCEPT ![o].ready = @ \cup {m}]
    /\ UNCHANGED <<live, current, ties, fileHandler, fileEvents, ioEvents, frames, pinned,
                   handle, unwinds>>

\* Tcl_WaitForEvent: select reports some of the modes in the mask, and for a closed
\* descriptor nothing.
Select(selected) ==
    /\ open
    /\ fileHandler # NULL
    /\ selected \subseteq fileHandler.mask
    /\ selected # {}
    /\ fileHandler' = [fileHandler EXCEPT !.ready = selected]
    /\ fileEvents' = IF fileHandler.ready = {} THEN fileEvents + 1 ELSE fileEvents
    /\ fileEvents' <= MaxEvents
    /\ UNCHANGED <<obj, live, current, ties, ioEvents, frames, pinned, handle, unwinds>>

\* PerlIOCheckProc queues an event for every object with something to call.
Check ==
    LET due == {o \in live : Due(obj[o])}
    IN  /\ \A o \in live : ~ Astray(o)
        /\ due # {}
        /\ ioEvents + Cardinality(due) <= MaxEvents * MaxTies
        /\ ioEvents' = ioEvents + Cardinality(due)
        /\ obj' = [o \in Object |-> [obj[o] EXCEPT !.pending = @ \/ o \in due]]
        /\ UNCHANGED <<live, current, ties, fileHandler, fileEvents, frames, pinned, handle, unwinds>>

\* FileHandlerEventProc looks the handler up again and calls PerlIOFileProc; the
\* descriptor may have a new one by now, or none.  A handler of a freed object (see
\* OwnerAlive) finds empty masks in it, as PerlIO_DESTROY left them.
ServiceFileEvent ==
    /\ fileEvents > 0
    /\ fileEvents' = fileEvents - 1
    /\ \/ /\ fileHandler = NULL
          /\ UNCHANGED <<fileHandler, obj>>
       \/ /\ fileHandler # NULL
          /\ ~ Astray(fileHandler.owner)
          /\ fileHandler' = [fileHandler EXCEPT !.ready = {}]
          /\ obj' = [obj EXCEPT ![fileHandler.owner].ready =
                        @ \cup (fileHandler.ready \cap fileHandler.mask
                                \cap obj[fileHandler.owner].mask)]
    /\ UNCHANGED <<live, current, ties, ioEvents, frames, pinned, handle, unwinds>>

\* The first mode of rest with a callback is called, in the frame above `below';
\* without one the event is done.
CallNext(o, r, rest, below) ==
    LET callable == rest \cap r.callback
    IN  IF callable = {}
        THEN /\ obj' = [obj EXCEPT ![o] = r]
             /\ frames' = below
        ELSE \E m \in callable :
                /\ \A k \in callable : m <= k
                /\ obj' = [obj EXCEPT ![o] = [r EXCEPT !.calling = @ \cup {m}]]
                /\ frames' = Append(below, [kind |-> "callback", object |-> o, mode |-> m,
                                            saved |-> {k \in rest : m < k}])

Newest(o) == \A p \in live : p <= o

\* (Mutant: pending stays set.)
ServiceIOEventPending ==
    /\ ioEvents > 0
    /\ Len(frames) < MaxDepth
    /\ ioEvents' = ioEvents - 1
    /\ \/ /\ live = {}
          /\ UNCHANGED <<obj, frames>>
       \/ \E o \in live :
            LET r == [obj[o] EXCEPT !.ready = @ \cap obj[o].mask]
            IN  /\ Newest(o)
                /\ CallNext(o, [r EXCEPT !.ready = @ \ Callable(r)], Callable(r), frames)
    /\ UNCHANGED <<live, current, ties, fileHandler, fileEvents, pinned, handle, unwinds>>

\* PerlIOEventProc finds the first object of the handle, decides on doMask and
\* clears what it will call.
ServiceIOEvent ==
    /\ ioEvents > 0
    /\ Len(frames) < MaxDepth
    /\ ioEvents' = ioEvents - 1
    /\ \/ /\ live = {}
          /\ UNCHANGED <<obj, frames>>
       \/ \E o \in live :
            LET r == [obj[o] EXCEPT !.ready = @ \cap obj[o].mask]
            IN  /\ Newest(o)
                /\ ~ Astray(o)
                /\ CallNext(o, [r EXCEPT !.ready = @ \ Callable(r), !.pending = FALSE],
                            Callable(r), frames)
    /\ UNCHANGED <<live, current, ties, fileHandler, fileEvents, pinned, handle, unwinds>>

\* The innermost callback returns.  Its reference may have been the last: then
\* the object is destroyed, and its callbacks with it.
CallbackReturns ==
    /\ frames # <<>>
    /\ Top.kind = "callback"
    /\ LET o == Top.object
           r == [obj[o] EXCEPT !.calling = @ \ {Top.mode}]
       IN  \/ /\ o = current \/ Referenced(o, Front(frames), pinned)
              /\ CallNext(o, r, Top.saved, Front(frames))
              /\ UNCHANGED <<live, fileHandler>>
           \/ /\ ~ (o = current \/ Referenced(o, Front(frames), pinned))
              /\ Destroy(o, r, fileHandler)
              /\ frames' = Front(frames)
    /\ UNCHANGED <<current, ties, fileEvents, ioEvents, pinned, handle, unwinds>>

\* An exception that is caught at some depth.  The callback frames above leak the
\* reference they hold.  No mask is restored.  objs and h are what the step that
\* raised it made of the objects and of the notifier's handler.
Abandon(depth, objs, h) ==
    LET lost == {frames[i] : i \in depth + 1 .. Len(frames)}
        leaks == pinned \cup {f.object : f \in {g \in lost : g.kind = "callback"}}
        gone == {o \in live : /\ o # current
                              /\ ~ Referenced(o, SubSeq(frames, 1, depth), leaks)}
    IN  /\ unwinds < MaxUnwind
        /\ accepts \in Abandoned
        /\ frames' = SubSeq(frames, 1, depth)
        /\ pinned' = leaks
        /\ unwinds' = unwinds + 1
        /\ live' = live \ gone
        /\ obj' = [o \in Object |-> IF o \in gone THEN Fresh ELSE objs[o]]
        /\ fileHandler' = IF open /\ \E o \in gone : objs[o].mask # {}
                         THEN DeleteFileHandler
                         ELSE h
        /\ UNCHANGED <<current, ties, handle>>

\* An exception in the innermost callback or wait, or a croak of a call above that
\* nobody caught.
Die(depth) ==
    /\ depth < Len(frames)
    /\ Abandon(depth, obj, fileHandler)
    /\ UNCHANGED <<fileEvents, ioEvents>>

\* An exception in the event loop passes the wait that runs it.
LeavesLoop(depth) == frames # <<>> /\ Top.kind = "wait" => depth < Len(frames)

\* PerlIO_MaskCheck croaks in PerlIOFileProc, in PerlIOEventProc or in PerlIOCheckProc.
\* An event that was being served stays in the queue with proc = NULL and is never
\* served; objects newer than the one that is astray have been checked.
LoopCroaks(depth) ==
    /\ LeavesLoop(depth)
    /\ \/ /\ fileEvents > 0
          /\ fileHandler # NULL
          /\ Astray(fileHandler.owner)
          /\ fileEvents' = fileEvents - 1
          /\ Abandon(depth, obj, [fileHandler EXCEPT !.ready = {}])
          /\ UNCHANGED ioEvents
       \/ /\ ioEvents > 0
          /\ \E o \in live : Newest(o) /\ Astray(o)
          /\ ioEvents' = ioEvents - 1
          /\ Abandon(depth, obj, fileHandler)
          /\ UNCHANGED fileEvents
       \/ \E o \in live :
            LET due == {p \in live : o < p /\ Due(obj[p])}
            IN  /\ Astray(o)
                /\ \A p \in live : Astray(p) => p <= o
                /\ ioEvents + Cardinality(due) <= MaxEvents * MaxTies
                /\ ioEvents' = ioEvents + Cardinality(due)
                /\ Abandon(depth, [p \in Object |->
                                     [obj[p] EXCEPT !.pending = @ \/ p \in due]],
                           fileHandler)
                /\ UNCHANGED fileEvents

Next ==
    \/ \E m \in Mode :
        \/ TieHandler(m)
        \/ SetHandler(m)
        \/ DeleteHandler(m)
        \/ Wait(m)
        \/ \E o \in Object : BufferFound(o, m)
    \/ TieQuery
    \/ Close
    \/ CloseUntied
    \/ WaitReturns
    \/ \E selected \in SUBSET Mode : Select(selected)
    \/ Check
    \/ ServiceFileEvent
    \/ ServiceIOEvent
    \/ CallbackReturns
    \/ \E depth \in 0 .. Len(frames) : Die(depth) \/ LoopCroaks(depth)

Spec == Init /\ [][Next]_vars

\* The event loop runs, and callbacks and waits return when they can.
Fairness ==
    /\ SF_vars(\E selected \in SUBSET Mode : Select(selected))
    /\ WF_vars(ServiceFileEvent)
    /\ WF_vars(Check)
    /\ SF_vars(ServiceIOEvent)
    /\ SF_vars(CallbackReturns)
    /\ SF_vars(WaitReturns)

FairSpec == Spec /\ Fairness

-----------------------------------------------------------------------------
TypeOK ==
    /\ obj \in [Object -> PerlIOHandler]
    /\ live \subseteq Object
    /\ current \in Object \cup {NULL}
    /\ ties \in 0 .. MaxTies
    /\ fileHandler \in FileHandler \cup {NULL}
    /\ fileEvents \in Nat
    /\ ioEvents \in Nat
    /\ frames \in Seq(Frame)
    /\ pinned \subseteq Object
    /\ open \in BOOLEAN
    /\ accepts \in Openings \cup {{{}}}
    /\ closed \subseteq Object
    /\ unwinds \in Nat

\* An object watches exactly what it waits for and has handlers for, however waits,
\* callbacks, CLOSE and exceptions interleave, unless PerlIO_watch croaked and still
\* would: PerlIO_MaskCheck, when it warns, never repairs anything.
MaskAgrees ==
    \A o \in Object : obj[o].mask # Wanted(obj[o]) =>
        Refused(obj[o]) /\ obj[o].croaked

\* The notifier never calls PerlIOFileProc for an object that was freed, as long as
\* the handle has its descriptor: its handler belongs to a live object and has that
\* object's mask.  (PerlIO_watch leaves a handler of a closed descriptor behind.)
OwnerAlive ==
    open /\ fileHandler # NULL =>
        /\ fileHandler.owner \in live
        /\ fileHandler.mask = obj[fileHandler.owner].mask
        /\ fileHandler.mask # {}

\* The tied object, marked pending, has an event in the queue, and every event
\* finds the tied object: its callbacks are not held back for ever, although
\* events find their object by the handle and older objects queue events too.
\* Only a croak of PerlIO_watch for the object loses the event.
PendingIsQueued ==
    current # NULL =>
        /\ current \in live /\ Newest(current)
        /\ obj[current].pending /\ ~ obj[current].croaked => ioEvents > 0

\* An object is in the list exactly as long as the handle is tied to it or a frame
\* refers to it, and the newest one that was tied is the only one that can be tied.
LiveIsReferenced ==
    /\ \A o \in Object :
        /\ o \in live <=> o = current \/ Referenced(o, frames, pinned)
        /\ o \in live => o <= ties
        /\ o \notin live => obj[o] = Fresh
    /\ current # NULL => current = ties

Inductive ==
    /\ TypeOK
    /\ MaskAgrees
    /\ OwnerAlive
    /\ PendingIsQueued
    /\ LiveIsReferenced

WaitFrame(o, m) ==
    \E i \in DOMAIN frames :
        frames[i].kind = "wait" /\ frames[i].object = o /\ frames[i].mode = m

CallbackFrame(o, m) ==
    \E i \in DOMAIN frames :
        frames[i].kind = "callback" /\ frames[i].object = o /\ frames[i].mode = m

\* waitMask is what the waits on the stack need: nested waits for the same mode
\* restore it for each other.  CLOSE takes it from a wait; only an exception or a
\* wait that croaked leaves a mode in it that nobody waits for.
WaitMaskIsStack ==
    \A o \in live :
        /\ o \notin closed => \A m \in Mode : WaitFrame(o, m) => m \in obj[o].wait
        /\ unwinds = 0 /\ ~ obj[o].croaked => \A m \in obj[o].wait : WaitFrame(o, m)

\* "Inhibit callbacks": no callback for a mode starts above a wait for that mode
\* of the same object, unless the handle was closed under the wait.
Inhibited ==
    \A i, j \in DOMAIN frames :
        /\ i < j
        /\ frames[i].kind = "wait"
        /\ frames[j].kind = "callback"
        /\ frames[i].object = frames[j].object
        /\ frames[i].mode = frames[j].mode
        => frames[i].object \in closed

\* A wait of the stack below frame i is for the same mode of the same object.
WaitBelow(i) ==
    \E j \in 1 .. i - 1 :
        /\ frames[j].kind = "wait"
        /\ frames[j].object = frames[i].object
        /\ frames[j].mode = frames[i].mode

\* What a wait will restore, oldWait, is its mode if a wait below it needs it.
OldWaitIsBelow ==
    \A i \in DOMAIN frames : frames[i].kind = "wait" =>
        /\ frames[i].saved \subseteq {frames[i].mode}
        /\ frames[i].object \notin closed /\ WaitBelow(i) => frames[i].mode \in frames[i].saved
        /\ unwinds = 0 /\ ~ obj[frames[i].object].croaked
              /\ frames[i].mode \in frames[i].saved => WaitBelow(i)

\* Neither the mode of a callback nor the rest of its doMask is waited for below.
DoMaskInhibited ==
    \A i, j \in DOMAIN frames :
        /\ i < j
        /\ frames[i].kind = "wait"
        /\ frames[j].kind = "callback"
        /\ frames[i].object = frames[j].object
        => \/ frames[i].object \in closed
           \/ frames[i].mode \notin {frames[j].mode} \cup frames[j].saved

WaitsInductive == WaitMaskIsStack /\ OldWaitIsBelow /\ DoMaskInhibited

\* The device is ready for whatever select is asked for.
DeviceReady ==
    \A selected \in SUBSET Mode : Select(selected) => selected = fileHandler.mask

\* The tied object and its mask stay what they are: a change makes the notifier
\* forget what select found.
Settled ==
    current # NULL => current' = current /\ obj'[current].mask = obj[current].mask

\* A handler that stays set and watched is called again and again while the device
\* is ready, whatever waits and callbacks come in between, also those of older
\* objects of the handle.  What may hold it back: a wait for its own mode that lasts
\* for ever, a mask that never settles, a croak of PerlIO_watch, and that the
\* descriptor is closed or left to an older object: its PerlIO_watch puts the older
\* object in the notifier's handler, or deletes it, and the tied object, whose mask
\* did not change, never asks for it again.
HandlerCalled ==
    \A m \in Mode :
        (/\ <>[][DeviceReady /\ Settled]_vars
         /\ <>[](/\ current # NULL
                 /\ \A o \in live : ~ obj[o].croaked
                 /\ open /\ fileHandler # NULL /\ fileHandler.owner = current
                 /\ m \in obj[current].handler \ obj[current].wait))
        => []<>CallbackFrame(current, m)

=============================================================================
