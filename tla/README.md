# A TLA+ model of perl-tk's event machinery

perl-tk is Tk 8.4 with Perl in place of Tcl. One thread runs everything. What
makes it hard is not parallelism but nesting: a callback may run the event loop
again (`update`, `waitVariable`, reading from a handle with a `fileevent`,
`DoOneEvent`), may delete what is being served, and may die with an exception
that jumps over C frames. The state the frames share - lists with pointers kept
beside them, flags that stand for events in a queue, masks with one bit per
mode - must survive every such nesting. That is what this project models, checks
with TLC and proves with TLAPS.

Paths below are relative to `src/`.

## 1. Inventory

| Component | State | Operations | Hard behaviour | What makes it correct |
|---|---|---|---|---|
| Event queue (`pTk/mTk/tclGeneric/tclNotify.c`) | list of events, `firstEventPtr`, `lastEventPtr`, `markerEventPtr`, `proc` of each event | `QueueEvent` at tail, head, mark; `Tcl_DeleteEvents`; `Tcl_ServiceEvent` | handlers queue, delete and service while their own event is in the list; a handler may defer; exceptions skip the removal | pointers never stale; documented order; nothing lost, nothing entered twice |
| Event loop (same file, `tclUnix/tclUnixNotfy.c`, `unix/tkUnixEvent.c`) | event sources, `serviceMode`, `blockTime`, `inTraversal`, `readyMasks`, X events on the socket, inside Xlib and in the queue | `Tcl_DoOneEvent`, `Tcl_ServiceAll`, `Tcl_WaitForEvent`, setup and check procedures, `update` | nested loops with different flags; X events a round trip took from the socket; signals | no sleep while something it serves is ready; `update` leaves nothing; nothing is starved |
| Timers (`tclTimer.c`) | list ordered by time, `timerPending`, `lastTimerId` | create, delete, check, serve | passes in passes; timers created by timers; one queued event for all | once each, in order, no starvation, no lost wake-up |
| Idle handlers (`tclTimer.c`) | list, `lastIdlePtr`, `idleGeneration` | `Tcl_DoWhenIdle`, `Tcl_CancelIdleCall`, `TclServiceIdle` | the same, with cancellation by value | once each, first in first out, a pass ends |
| After commands (`tclTimer.c`, `Tk/After.pm`, `Tk/Widget.pm`) | `AfterInfo` list, `_After_` of each widget | `after`, `repeat`, `cancel`, `time`, destruction | cancel and destroy inside the callback; ids that are gone | a cancelled timer does not run; a destroyed widget has none |
| File events (`Event/Event.xs`, `Event/Event/IO.pm`, `tclUnixNotfy.c`) | per object: ready, wait, handler, calling and watched mask, `pending`; per descriptor: mask, ready mask | `fileevent`, tie, untie, `CLOSE`, the waiting methods, select, two kinds of events | callbacks and waits nest; an untied object lives on while a frame refers to it; exceptions | masks agree unless a watch was refused; the notifier never calls a freed object; callbacks are not held back |
| Signals (`LangAsyncCheck` in `Event/pTkCallback.c`, `tclAsync.c`) | Perl's pending signals | check in the loop and after an interrupted select | a signal between check and select; loops inside a handler | seen in the end; the loop looks again afterwards |
| Callbacks (`Event/pTkCallback.c`) | Perl values | make, compare, call | reference counts | a callback lives while it may be called |
| Deferred freeing (`tclPreserve.c`) | reference array | `Tcl_Preserve`, `Tcl_Release`, `Tcl_EventuallyFree` | free while in use, reentrant free procedures | freed once, when the last user is gone |
| Widget life cycle (`Tk/Widget.pm`, `tkGlue.c`) | `_Destroy_` list, saved grabs and focus, Busy state | `OnDestroy`, `_Destroyed`, `grabSave`, `Busy`/`Unbusy` | callbacks that destroy; nested Busy | each callback once; grab and focus come back |
| Waits (`Tk/Widget.pm`, `generic/tkCmds.c`) | the C stack, `done` of each wait | `waitVariable`, `waitVisibility`, `waitWindow` | waits return in LIFO order only; what they wait for may happen in a signal handler | an inner wait can hold back an outer one; a wait returns when its time has come |
| Selection: ownership (`generic/tkSelect.c`) | `selectionInfoPtr`; at the server the owner, and events under way | `Tk_OwnSelection`, `Tk_ClearSelection`, `TkSelDeadWindow`, `TkSelClearSelection` | claims are not acknowledged; late SelectionClear events; refused claims; windows destroyed inside others, with callbacks in between | nobody believes wrongly to be the owner; the loser is told |
| Selection: transfer (`unix/tkUnixSelect.c`, `generic/tkSelect.c`) | `TkSelRetrievalInfo`, `IncrInfo`, `CommandInfo`, one property | `TkSelGetSelection`, `ConvertSelection`, INCR on both sides, timeouts | both sides wait in nested loops; the peer dies; one handler serves several transfers | the whole text or an error; every wait ends |
| Window events, bindings, grab, focus (`pTk/mTk/generic`) | Tk's own | Tk's own | `delayedMotion`; head and mark events of grab and focus | order of enter, leave and focus events |
| Undo (`Tk/TextUndo.pm`), traces (`Tk/Trace.pm`), menus, composite widgets, drag and drop, send, configuration, glue of commands and encodings, images | - | - | sequential, or protocols whose other side is not here | - |

How they interact: sources (timers, files, X, Perl's own) *queue* events from
their check procedures or from handlers; `Tcl_DoOneEvent` *serves* one event,
else asks the sources how long to wait, waits in `select`, lets them check, and
serves; idle handlers run when nothing else was done. Handlers call Perl
callbacks, and those call anything, the loop included. Exceptions of Tk's own
callbacks are caught by the command that called them; those of the Perl event
sources and of `fileevent` callbacks are not (`Event.xs:736`, `Event.xs:1095`),
and leave all C frames up to the next `eval` without any cleaning up.

## 2. Plan

Order: the queue, which everything uses; what fills it; then what runs it.

1. `EventQueue` with `EventOrder` - done, proved, refinement proved.
2. `Timer` with `TimerService` - done, proved, refinement proved.
3. `Idle` - done, proved.
4. `FileEvent` - done, safety proved.
5. `After`: the `after` commands, `Tk::After` objects and the destruction of
   their widgets - done, proved.
6. `EventLoop`: `Tcl_DoOneEvent` and its sources, `update`, signals, waits -
   done, safety proved.
7. `SelectionOwner` and `Selection`, the protocols with another application and
   the X server - done, safety proved.
8. Left: `Preserve` (`tclPreserve.c`), `Destroy` (`_Destroyed`, `OnDestroy`, grab
   and Busy), `TextUndo`, as far as they earn it; a `Focus` module for the events
   `tkGrab.c` and `tkFocus.c` queue at head and mark.

Runs stay few: one per question, with the instance large enough for two levels
of nesting, one exception, and one element more than the code distinguishes.

## 3. Modules

**`EventQueue`** (`tclNotify.c`). `queue` is the list; `last` and `marker` are
the pointers, so that a stale one has the effect it has in C: linking behind a
`last` that is not in the list changes nothing the list reaches. `inService` is
"`proc` is NULL", `frames` the stack of `Tcl_ServiceEvent` calls. Actions:
`QueueEvent`, `DeleteEvents`, `ServiceEvent` (scan, clear `proc`, call),
`HandlerReturns1` (search again from the front and unlink), `HandlerReturns0`
(restore `proc`, go on with the scan), `Unwind`. `cell` is the memory of an event:
`DeleteEvents` frees it, also under the handler of the event, and a new event may get
it (`Freed`); when that handler returns 1, `Tcl_ServiceEvent` compares addresses and
unlinks whatever lies at its own (`LiesAt`). The event's flags and the
handler's decision to defer are one nondeterministic choice of the events in
`Deferrable`. Histories (`position`, `born`, `handled`, `deleted`) only serve the
properties.

**`EventOrder`** is what the queue promises: an urgent part and an ordinary
part, in no need of pointers. `EventQueue!RefinesEventOrder` maps the list cut
at the marker to it.

**`Timer`** (`tclTimer.c`). `timers` is the list of tokens, `deadline` their
times, `queued` the number of timer events in the queue. `ServiceTimers` starts
a pass (clears `timerPending`, remembers `lastTimerId` and the time, runs the
first due timer), `HandlerReturns` continues it with the next one or ends it,
`passes` is the stack. `Tick` is the clock.

**`TimerService`** is what timers promise: alarms that go off once, not early,
and in the order of their times. `Timer!RefinesTimerService` maps to it.

**`Idle`** (`tclTimer.c`). The same shape, with `lastIdlePtr` as a pointer and
cancellation by procedure and client data (`Call`), which removes every handler
that matches: `KeptLists` is what the scan leaves, the others in their old order
(stated as what holds of the list, and not with `SelectSeq`, so that it can be
reasoned about).

**`FileEvent`** (`Event.xs`, `IO.pm`, `tclUnixNotfy.c`). One Perl handle with one
descriptor. `obj[o]` is the `PerlIOHandler` of the o-th object tied to it,
`live` the list from `firstPerlIOHandler` (new objects go first, so the list is
ordered by age and a set is enough), `current` the tied object, `fileHandler` the
notifier's record. `frames` holds running callbacks, each with the rest of
`doMask`, and waits, each with `oldWait`. `accepts` says for which masks `PerlIO_watch`
does not croak, which depends on how the handle was opened; a croak leaves the masks as
its caller set them (`Refused`, `croaked`), and `LoopCroaks` is what
`PerlIO_MaskCheck` makes of such an object (`Astray`) inside the loop. `Update` is
`PerlIO_watch` on a changed object, followed by `PerlIO_DESTROY` (`Destroy`) when nothing
refers to it any more. `TieHandler`, `TieQuery` (the query, which ties the handle too),
`SetHandler`, `DeleteHandler` are `fileevent`; `Close` is `CLOSE` of the tie,
`CloseUntied` Perl's own `close`, of which objects that are still alive learn nothing;
`Wait` and
`WaitReturns` are `PerlIO_wait` around a nested loop; `Select`,
`ServiceFileEvent`, `Check`, `ServiceIOEvent` are the way of readiness from the
device to the callback; `CallbackReturns` goes on to the next mode; `Die` is an
exception caught `depth` frames above the bottom. What the device does is any
choice, each time the code looks. A handle that was closed has no descriptor any
more; opening it again is not modelled, for `open` on a tied handle needs a
method `OPEN` that `IO.pm` does not have. After `CLOSE` the object keeps its pointers
to the streams, so that `PerlIO_watch` takes the handle for opened.

**`After`** (`Tk/After.pm`, `tclTimer.c`, `Tk/Widget.pm`). Three structures name a
pending callback: `infos`, the list of `AfterInfo`; `entries[w]`, the hash
`_After_` of the widget (`exists[w]` says whether there is one); and the id in the
object, `obj[o]`. `hook[w]` is `_cancelAll` in the widget's `_Destroy_` list, `phase`
how far `Tk_DestroyWindow` has got: "dying" from the flag `TK_ALREADY_DEAD` on, when
`Tk::Exists` is false; "destroying" when `_Destroyed` has taken its list; "gone"
after `LangDeadWindow`. `stack` holds the callbacks and destructions in progress.
`New` is `after`, `afterIdle` and `repeat`; `Cancel` is `cancel`, `afterCancel` and
`time(0)`; `DESTROY` is Perl's, when the last reference goes; `AfterProc` takes the
`AfterInfo` away and calls `once` or `repeat`, `CallbackReturns` ends the call, also
after an exception, which `LangDoCallback` catches. `AfterInfoKeys` is `afterInfo`
without an id, which makes a hash where there is none. `DestroyWindow`, `Destroyed`,
`CancelAll` and `LangDeadWindow` are the steps of the destruction; between them
anything may happen, for bindings and `OnDestroy` callbacks run there. Any pending
`AfterInfo` may be called whenever a loop runs: when it is due is the matter of
`Timer` and `Idle`. The widgets are not the main window, whose end is the end of
the interpreter. `late` and `peeked` are histories the properties' provisos need.

**`EventLoop`** (`tclNotify.c`, `tclUnixNotfy.c`, `tkUnixEvent.c`, `tclTimer.c`).
`frames` is the stack of loops: the caller (`DoOneEvent` once, a wait, `update`
before and after its `XSync`, `Tcl_ServiceAll`), the flags, and in `pc` how far the
round has got: "service" is the first `Tcl_ServiceEvent`, "select" the sleep,
"check" the second `Tcl_ServiceEvent`, "idle" `TclServiceIdle`, "call" and
"idlecall" a callback, "signal" a handler run inside `Tcl_WaitForEvent`. `queue` has
events of four sorts (a window event, the file, the X socket, the timer); the
modules above have what each of them is in detail, and one of each stands for them
here. `asked`, `wire`, `xlib` are the places of an X event before the queue: not yet
sent, on the socket, inside Xlib. `Setup` is the setup procedures (they only choose
the block time), `Select` the sleep and the check procedures, `Interrupt` and
`SignalReturns` an EINTR with the Perl handler in between. A callback may run
any loop (`DoOneEvent`), register and delete, read the file, ask the server, let a
wait come true (`Finish`), or die.

**`SelectionOwner`** (`tkSelect.c`). `info[a]` is the `TkSelectionInfo` of
application a, by the serial of its claim; `request[a]` what it has sent, of which
the server has read `processed[a]`; `clears[a]` the SelectionClear events on their
way, each with the serial the server puts into it. `OwnSelection` and
`ClearSelection` are the operations of the program. The destruction of a window is in
two parts, for its callbacks may run in between (`Dying`): `StartDestroy` sets
`TK_ALREADY_DEAD`, after which the window gets no events, and `DeadWindow` sends
XDestroyWindow and forgets the record (`Forget`, `TkSelDeadWindow`). A window inside the
destroyed one only forgets (`DeadChild`): the server takes it away with the outer
one (`Takes`), until when it may be the owner without a record. `HandleClear` is
`TkSelClearSelection`; it compares the serial of the event with what is left of that of
the claim in an int, which is why there is a constant `Word` (`IsMeant`).
`SetSelectionOwner`, `RefuseOwner` (a claim with an old time, or for a window that is
gone) and `DestroyWindow` are the server's, and external.

**`Selection`** (`tkUnixSelect.c`, `tkSelect.c`). `retrieval[r]` is a
`TkSelRetrievalInfo`, `frames` the requestor's loops (`TkSelGetSelection`, and the
one inside `SelectionNotify` for INCR); `transfer` is the owner's stack of
`ConvertSelection` calls in their loops, with `offset` (-2: the last chunk has gone,
-1: finished), `numIncrs` and `idleTime`; `next` is the `byteOffset` of
`HandleTclCommand`. `toOwner` and `toRequestor` are events in order. `ConvertShort`,
`ConvertNothing`, `ConvertIncr` and `ConvertVanishes` are the outcomes of
`ConvertSelection` up to its loop (`SelectionSize` asks for one more portion only: it
passes the type INCR, for which `HandleCompat` counts words, so that no portion looks
full to it), `PropertyDeleted` is `TkSelPropProc`,
`NewValue` and `Receive` are `SelRcvIncrProc`; `SelTimeout` and `IncrTimeout` the two
timers. What a callback or the rest of the program may do in between, `Trick`, is
dying, deleting or replacing the handler, using it locally, or changing the text.
`spoiled` remembers which retrievals were going on when such a thing happened, when
the owner timed out, or when another retrieval was still on its way or began
(`Quiet`); the rest `Whole` and `ErrorHasCause` are about. `SetInfo` and `SetTransfer`
write a whole `TkSelRetrievalInfo` or `IncrInfo`. Some names begin with "Retrieval",
so that one module can hold the proofs of both modules of the selection.

**`ListLemmas`, `EventQueueProofs`, `TimerProofs`, `IdleProofs`,
`FileEventProofs`, `AfterProofs`, `EventLoopProofs`, `SelectionProofs`** hold
the proofs. The modules are instantiated by their .cfg files directly, but for
`SelectionOwner`: `MCSelectionOwner` gives it windows inside one another.

Operators whose comment begins with "(Mutant:" are not part of the model: each
is a definition as a plausible bug would leave it, and stands before the
definition it would replace. The property it breaks is in `PROJECT.json`.

## 4. Runs

| Run | Instance | Shows |
|---|---|---|
| `event_queue` | 3 events, one that may defer, 1 exception | pointers, order, bookkeeping, no reentry, refinement of `EventOrder`; each of the three leaves the queue, also behind one that defers for ever |
| `timer` | 4 timers, delays 0, 1, 2, clock to 2, 1 exception | pending flag, once each, generations, refinement of `TimerService`, no starvation |
| `idle` | 5 handlers of 2 calls, 1 exception | last pointer, order, once each, generations, no starvation |
| `file_event` | 2 objects, 2 modes, 2 frames, handles opened for reading, where `PerlIO_watch` croaks, with 1 exception, or for both, with closes | owner, pending, nested waits, inhibition |
| `file_event_live` | the same, waits not inside other frames, no close | a handler that stays set and watched is called again and again |
| `after` | 2 widgets, 2 objects, 4 ids, 3 frames | hash, list and objects agree, a repeat goes on, no double calls, cancel and destruction are final |
| `event_loop` | 2 loops, flags of all and of window events, 1 X event, 1 signal or exception | no sleep on work, service mode, `update` leaves nothing, timers and the socket are not starved |
| `selection_owner` | 2 applications, a window and one inside it each, 2 requests each | nobody believes wrongly to own, no late event takes a newer claim, who loses is told |
| `selection` | 2 retrievals, texts of 1, 3 and 4 bytes in chunks of 2, 1 trick | whole text or a justified error for a retrieval that is alone |
| `selection_live` | 2 retrievals, a text of 2 bytes in chunks of 2, 1 trick | every retrieval and every transfer ends, also when the other side has died |
| `selection_crossed` | 1 retrieval, a text of 3 bytes, 1 trick | violated: finding 1 |
| `wait_signalled` | all flags, 2 loops, 1 signal | violated: finding 2 |

Bounds: `MaxUnwind`, `MaxTimers`, `MaxTime`, `MaxIdle`, `MaxTies`, `MaxDepth`,
`MaxWaits`, `Abandoned`, `Closable`, `MaxEvents`, `MaxId`, `MaxFrames`, `MaxX`,
`MaxAccidents`, `MaxRequests`, `MaxTricks` and the sizes of `Event`, `Retrieval`, `App` and `Window` are guards of the actions
that would exceed them.

- Queue: three events are one that runs and one on either side of it, at any of
  the three positions; that removals and the marker do right for every length is
  proved. `EventuallyServed` does not cover events queued at the head or at the mark
  without end, which overtake one at the tail for ever.
- Timers: four are one that runs, one that is due behind it, and two that
  callbacks create.
- Files: two objects are an old one that a frame keeps alive and the one now tied;
  two frames are a callback or wait inside another. One event of a kind and object
  suffices for `MaxEvents`, since both kinds of file events carry no data and are queued
  at most once per object. `Abandoned` leaves the exception to the handle opened for
  reading only, where `PerlIO_watch` croaks, and `Closable` the closes to the one opened
  for both and, since one more close may follow that of an untied handle, to the one
  that has no streams left. A close and an exception do not meet in a run; the theorems
  have no such limit. In `file_event_live`, `MaxWaits` 1 keeps room for
  a callback above every wait, and `Closable` is empty, for the handle of `HandlerCalled`
  stays open.
- After commands: two objects of one widget or of two are a callback and the one
  it acts on, three frames are a callback in a callback of which one is in a
  destruction, and four ids let a repeat submit itself again inside itself and
  still leave one for the other object.
- Event loop: two frames are a loop and one in its callback, with the flags
  `{"window"}` for `DoOneEvent` besides those of `MainLoop`, the waits, `update` and
  `update idletasks`; one X event on its way is enough, for all are alike; one
  accident is a signal with a loop in its handler, or an exception.
- Ownership: two claims of one application, of which the event for the first
  comes after the second, against one and two of the other; a window inside another
  is destroyed for itself, or with it, or in its callbacks. `Word` 3 is more than the
  requests, as 2^32 is in practice: what holds when a serial is too long for an int is
  proved, not run.
- Transfer: with chunks of 2 bytes, a text of 1 fits into the property, 3 ends in a
  broken chunk and 4 in a full one, after which an empty one must follow; `MaxLength`
  is the longest, and lengths and offsets are not told apart beyond it. Two
  retrievals are one inside the other or one behind the other; `Patience` 2 is
  the least for which one tick is not yet a timeout (5 in the code). The liveness
  run has one length only, a full chunk with an empty one behind it, so that it
  can have the trick: a handler that goes in `SelectionSize` leaves the transfer that only
  its timer ends.

For the safety properties that are proved, the bounds do not matter.

`CHECK_DEADLOCK FALSE` everywhere but in the `after` run: with all events served,
timers run, or bounds reached, the program waits for input. `After` can always take
a step, for `afterInfo` is a method that may be called at any time.

### Fairness

- Queue: the main loop calls `Tcl_ServiceEvent` again and again (weak fairness),
  and every handler returns (strong, since nested handlers come in between), or an
  exception leaves it. A handler that may defer may do so for ever:
  `EventuallyServed` is about the others, and says that an event an exception left
  with `proc` NULL is the one that stays.
- Timers and idle handlers: some loop keeps running, the main one or one inside
  a callback - `MainLoop`, `waitVariable` and the like do nothing else. No
  callback is assumed to return, and any may die.
- Files: `select` is called as long as there is a file handler (strong, because
  events in the queue go first), events are served, callbacks return, and waits
  return when they can. The premises of `HandlerCalled` are real: a wait for
  the same mode inhibits the callback; CLOSE ends it; a mask that changes in
  every round makes the notifier forget what it found each time; an object for which
  `PerlIO_watch` croaked is not watched; and an older object of the handle that watches, or
  is destroyed, puts itself in the notifier's handler, or deletes it, and the tied object
  never asks for it again, since its own mask did not change (`Event.xs:531`).

- Event loop: the process runs (weak fairness of `Loop`), time passes, the server
  answers what it was asked, and a callback that runs loops of its own again and
  again returns in the end (strong). The file may stay readable, X events may come
  without end, and the program may register timers and idle handlers for ever.
- Selection: one of the two sides goes on, that is, handles its events, and its timer
  goes off once a second; the other may have died. `EveryGetReturns` is about the
  runs in which the requestor goes on, and assumes nothing of the owner; `TransferEnds` is
  about those in which the owner does, and assumes nothing of the requestor.
- Ownership: the server reads what it is sent, and an application its events.

## 5. Proofs

Assumptions are those of the modules: bounds are natural numbers, `NULL` is none
of the objects, modes are natural numbers; for the transfer of a selection, that no window is inside itself and what is inside an inner window is inside the outer
one; that an unsigned int has a value; that `PerlIO_watch` accepts an
empty mask, and with a mask every smaller one; finitely
many retrievals, texts of one byte or more and of at most `MaxLength`, a chunk and a
timeout of at least one, and an announcement that can be told from data (in the code
it has a type of its own). Nothing else is assumed, and no bound has a particular
value.

- `EventQueueProofs`. `Inductive` = type, `PointersValid`, `MarkerSplits`,
  `ServiceOrder`, `NothingLost`, `NeverReentered`. The order alone is not
  inductive: a new event at the mark is placed by the marker, so the marker must
  be known to part the list (`MarkerSplits`); that it stays in the list needs a
  list without duplicates; and that needs every event to be queued once. One
  lemma per action; insertion and removal are treated once, in `ListLemmas`.
  `NothingLost` has one exception, `TakenForAnother`: what the memory of an event
  is (`cell`) must be known well enough to show that only an event queued where another was
  deleted under its handler can be taken for it.
  That no event is left in the queue by a frame that has gone (`NoneStranded`)
  follows from a second invariant about frames, and is proved only. `Refinement` is
  `Spec => Order!Spec` under the mapping of the list cut at the marker: each
  operation is one operation on the two parts, or none.
- `TimerProofs`. `Inductive` adds `Ordered` (by time, then age) and
  `NewerIsLater` (what was created after a pass began is due no earlier than the
  pass looked at the clock). Together they give the claim of the comment in
  `TimerHandlerEventProc`: the generation test ends a pass only when it owes
  nothing (`PassServesItsGeneration`). `Refinement` proves the step simulation
  to `TimerService`.
- `IdleProofs`. `Inductive` = type, `LastValid`, `Fifo`, `CalledOnce`,
  `GenerationsTell`. The proofs speak of the handlers in the list, not of their
  positions (`Sorted`, `Generations`, `PassGenerations`, equal to the conjuncts by
  `FifoParts` and `GenerationsTellMembers`): handlers are numbered as they are
  registered, the list is sorted by number, and its generations do not fall. That
  the test `generation <= oldGeneration` lets a pass run exactly what was there when
  it began (`PassServesThosePresent`, `FirstInFirstOut`) is `GenerationsTell`: for
  each pass that waits in a callback, a handler is of its generation if and only if
  it was registered before the pass. `CancelEffect` says what the scan of
  `Tcl_CancelIdleCall` leaves, so that `lastIdlePtr` is the end of the list also
  when the end, or all, was cancelled (`LastPointerValid`).
- `FileEventProofs`. `Inductive` adds `LiveIsReferenced` (an object is in the
  list exactly while it is tied or a frame or leak refers to it). Without it, the
  object a frame holds could be freed under it and the notifier's `clientData` could
  dangle. That the masks agree (`MaskAgrees`) is one of the conjuncts, with the croaks of
  `PerlIO_watch` as its exception: an object whose masks differ is refused, so that the next
  watch croaks as well, changes nothing, and leaves the notifier's handler and the mask of the
  object equal (`OwnerAlive`). `UpdateEffect` carries `PerlIO_watch` and
  `PerlIO_DESTROY`; `CurrentUpdated`, `ObjectReleased`, `TouchKeeps` and `ObjectsUnchanged`
  are the four ways an action can treat the objects. A second invariant, `WaitsInductive`, is about the frames and rests on
  the first: `WaitMaskIsStack` is not inductive, for a wait that returns puts back
  what it saved. `OldWaitIsBelow` says that it saved its mode if a wait below needs
  it, and, while there was no exception or croak, only then; `DoMaskInhibited` says that the
  rest of a callback's `doMask` has no mode that is waited for below, although it was
  computed once and is used after each callback. `Inhibited` follows for every nesting of
  waits and callbacks, and after exceptions, which leave modes set and clear none.
- `AfterProofs`. `Inductive` = type, `EntriesArePending`, `InfosAreOwned`,
  `UnlistedAreLate`, `IdsAreOwned`, `HooksCover`, `RepeatGoesOn`, `PendingOnce`.
  That the hash is what is pending (`HashIsPending`) needs both directions:
  entries are pending, and what is pending is listed unless it was cancelled too
  late. An object keeps the id of a past call, and `submit` and `DESTROY` use it, so
  the invariant must say that even a stale id never names another's callback
  (`IdsAreOwned`). `HooksCover` says for which hashes `_cancelAll` will still come;
  `AutoCancelled` follows from it, `CancelStops` from `UnlistedAreLate`.
  `SubmitKeeps`, `UnlinkKeeps` and `SameObjectsKeeps` are the three ways an action
  treats the structures.

- `EventLoopProofs`. `Inductive` = type, `NestsInCallbacks`, `ModesNest`,
  `SourcesAsked`, `UpdateProgress`. `NeverSleepsOnWork` speaks of the moment of
  sleep, but what makes it true happens before: `SourcesAsked` says that what the
  setup procedures saw still holds in `select`, because callbacks, which could
  change it, run only where `NestsInCallbacks` allows. The modes nest
  (`ModesNest`), so that each loop restores what the one around it needs.
  `UpdateProgress` says what `update` has done at each point of a round; the action
  property `UpdateLeavesNothing` follows.
- `SelectionProofs`, ownership. `Inductive` = type, `Counts`, `InfoIsLatest`,
  `ClaimsAreKnown`, `DeadAreTaken`, `OwnerIsThere`, `ClearsAreOld`, `BelievesRightly`. The comparison of serials in
  `TkSelClearSelection` is right because a SelectionClear carries the serial of the
  last request the server has read, so that one that is on its way is older than
  the claim that holds (`ClearsAreOld`), and one that ends the known claim is not
  older than it (`BelievesRightly`). `OwnerKnows` is `ClaimsAreKnown` where the claim
  holds, with `DeadAreTaken` for a window that is dead: it was destroyed by a request, or an
  outer window is still being destroyed and will send one. `ClaimsAreKnown` needs the serial
  of the claim to fit into an unsigned int, and so `OwnerKnows` says `s < Word`; nothing else does:
  a serial that is cut off makes more events meant, never fewer, so that
  `BelievesRightly` holds for all.
- `SelectionProofs`, transfer. `RetrievalInductive` = type, `Bookkeeping`,
  `LoopsNest`, `Undisturbed`. That a retrieval has a beginning of the text says nothing
  of what is in the property, under way, or still with the owner, so `Whole` is far
  from inductive. `Undisturbed` says that a retrieval nothing interfered with is alone,
  and `InOrder` where it stands: at one of the six points `Asked`, `Answered`,
  `Refused`, `Announced`, `OwnersTurn` and `RequestorsTurn`, each of which fixes the
  events under way, the property, the innermost transfer and what has been collected,
  or `Finished`. The two sides take turns: at each point one kind of event is first
  in line, and handling it leads to the next. The arithmetic of the offsets
  (`NextPortion`: what the requestor has and the next portion make up a longer
  beginning of the text; less than a full chunk makes up all of it) is where
  `byteOffset` of `HandleTclCommand` must agree with the `offset` of the transfer; it
  is the part that fails once something else has used the handler, and the finding
  below is what happens then. What earlier retrievals left behind does no harm:
  their last events stand before the request (`Asked`), and their transfers are
  complete (`NoneServed`). `Typed` holds the types and counts in the form the proofs
  use (`TypedParts`): there are no more transfers and requests under way than
  retrievals that began, whatever nests in what.

Every safety invariant, action property and refinement that a run checks is proved.
The types of `EventQueue`, `Timer`, `Idle`, `FileEvent`, `After`, `EventLoop` and
`SelectionOwner` are proved and not run.

Only model-checked is liveness, which is out of the prover's reach, as fairness and
`ENABLED` are: `EventuallyServed` of the queue and of `Idle`, `EventuallyInvoked`,
`HandlerCalled`, `TimerServed`, `SocketRead`, `LossIsTold`, `EveryGetReturns` and
`TransferEnds`; and the two properties that fail, whose counterexamples only a run
gives.

## 6. Findings

1. One `CommandInfo` with its `byteOffset` serves every transfer of a handler, the
   local retrievals, and the count of `SelectionSize`. `HandleTclCommand` goes on
   where the last call stopped if that is the offset it is asked for, and else starts
   again from the beginning (`pTk/mTk/generic/tkSelect.c:1630`). When anything comes
   between two chunks of a transfer, every later chunk is the first portion of
   the text again, full again, and sets both idle times back: neither side ends, against
   the comment at `pTk/mTk/unix/tkUnixSelect.c:194`, by which the loop ends when the
   selection is there or no response has come in a few seconds. Run
   `selection_crossed`.
2. A signal handler that sets the variable of `waitVariable` runs inside
   `Tcl_WaitForEvent`, which then returns 0; the loop of `Tcl_DoOneEvent` goes on and
   sleeps again (`pTk/mTk/tclGeneric/tclNotify.c:971`), although the comment at its
   line 962 says the loop is left so that the caller can check, and
   `pod/Widget.pod:603` that the wait ends. Run `wait_signalled`.

Met on the way and without a run.

Event queue:

- `Tcl_ServiceEvent` compares the address of its event with the list after the handler
  has returned 1 (`tclNotify.c:638` and 648). When `Tcl_DeleteEvents` freed the event under
  its handler (line 529), an event that the handler queued afterwards may have got the
  address: it is unlinked, freed, and never served. `NothingLost` has this as its
  exception (`TakenForAnother`).

File events:

- `fileevent` with an empty callback unties the handle, and with the object go the
  handlers of both modes (`Event/Event/IO.pm:126`), although `pod/fileevent.pod:43`
  calls them independent.
- `callingMask` has one bit per mode. When callbacks of one mode nest, the inner one
  clears the bit of the outer one (`Event/Event.xs:737`), and a read in the outer one
  then waits in a loop, against the comment at `Event/Event.xs:601`.
- `PerlIO_watch` deletes the descriptor's handler whoever owns it
  (`Event/Event.xs:535`): an old object that is destroyed takes the handler of the
  newer one with it, and one that watches again takes its readiness; the newer one does not
  ask again, for its own mask has not changed. `HandlerCalled` has this as its proviso.
- `PerlIO_watch` croaks when its callers have changed the masks already
  (`Event/Event.xs:508`, 514, 526 against 624, 637, 969): a handle opened for reading for which
  `fileevent` wants to write keeps its old watch, and every later call for it croaks,
  also the one of `PerlIO_MaskCheck` inside the event loop.
- A handle closed while it is not tied leaves older objects without a descriptor:
  `PerlIO_watch` then deletes no file handler (`Event/Event.xs:533`), and the notifier
  keeps the `clientData` of an object that is freed. `select` reports nothing for a closed
  descriptor, but may for the next file that gets its number. `OwnerAlive` is about the
  time before.
- A callback that dies keeps its handler (`Event/Event.xs:736`), although
  `pod/fileevent.pod:86` says it is deleted; an exception leaves `waitMask` and a
  reference behind (`WaitMaskIsStack` and `LiveIsReferenced` say exactly when).
- `PerlIOEventProc` reads an object after the callback that may have freed it
  (`Event/Event.xs:739`).

After commands:

- `afterInfo` without an id makes the hash whose absence `submit` takes as the sign
  that `_cancelAll` is still to be registered (`Tk/Widget.pm:509`,
  `Tk/After.pm:35`): such callbacks outlive the widget. `AutoCancelled` has this as
  its proviso.
- `cancel` removes no timer when `Tk::Exists` is false (`Tk/After.pm:68`), but takes
  the object from the hash: one cancelled by a `<Destroy>` binding is called
  afterwards. `CancelStops` has this as its proviso.
- `repeat` submits itself before it calls (`Tk/After.pm:78`), although
  `pod/after.pod:102` says afterwards, so that a callback that runs the loop may be
  called inside itself; `Tk::After::Cancelled` has no method `time`.

Event loop:

- An exception leaves `serviceMode` at `TCL_SERVICE_NONE` (`tclNotify.c:846`):
  `Tcl_ServiceAll` does nothing from then on.
- `DoOneEvent` with window events and without file events never reads the X socket:
  only a file event does. Where X events wait there, `select` returns at once, again
  and again. `updateWidgets` (`Tk.pm:785`) asks for such flags without waiting, and
  sees only what is inside Xlib already. `SocketRead` is
  about loops with both flags.
- A loop run by a signal handler inside `Tcl_WaitForEvent` leaves its `readyMasks` to
  the outer one, which then makes events of what has been read already: `SignalReturns`.
- `LangCmpCallback` compares a list with itself (`Event/pTkCallback.c:286`).

Selection:

- The serial of a claim is an int (`generic/tkSelect.h:30`, set from an unsigned long at
  `generic/tkSelect.c:520`), compared as unsigned (line 1528): after 2^32 requests of a connection
  every SelectionClear is meant, also one for an older claim. `OwnerKnows` is about the claims
  before.
- A window destroyed inside another sends no request (`generic/tkWindow.c:1478`), but forgets its
  selection (line 1511): while the `<Destroy>` callbacks of the outer windows run it owns
  the selection at the server, and the application knows nothing of it.
- `SelectionSize` passes the type INCR (`unix/tkUnixSelect.c:1039`), for which `HandleCompat`
  returns a number of longs (`generic/tkSelect.c:277`): the loop that counts the text ends after one
  portion, and the size announced is a lower bound only, as it may be.
- A callback that dies in a later chunk is taken for the end of the text
  (`pTk/mTk/unix/tkUnixSelect.c:359`), although `pod/selection.pod:100` says that the
  retrieval is rejected as if there were no selection; the requestor gets a part of the text and no error.
- A text that changes during a transfer is mixed with the old one: `incr.time` is
  set (line 1116 of the same file) and never compared.
- The end of an inner transfer deselects the PropertyChange events of the requestor
  (line 1153), and the outer one can only time out. An answer that comes after its
  retrieval timed out is taken for the next one. A handler deleted while
  `SelectionSize` counts leaves `numIncrs` at 1.

## 7. Not modelled

Most of the tree is not perl-tk's own logic but vendored Tk, Tcl, Tix, image and
Windows code, tests, and the configuration of the build, some 580,000 lines; the
map covers a small share of it. What is modelled is the part every program passes
through, and the protocols with other processes.

- Event queue: that a handler returns 0 for its event after `Tcl_DeleteEvents` freed it, which
  reads and writes freed memory.
- Timers, idle handlers: wrap-around of `lastTimerId` and
  `idleGeneration` (2^31 registrations in one pass) and of `afterId`; a clock that is
  set back.
- Event loop: event sources written in Perl (`Event.xs`), `Tcl_SetServiceMode` called
  by the program, `Tk_RestrictEvents` and `TkUnixDoOneXEvent`, events queued from
  outside by `event generate`; `Tcl_Async*`, whose table perl-tk never fills;
  threads (not built); a signal between the last Perl operation and `select`
  (`tclUnixNotfy.c:828`), which nothing defends against.
- File events: several handles at once (they share only the list); `PerlIO_END`; a
  handle that is opened again; a descriptor number that another file gets after it was closed;
  memory reuse after free (the head of `FileEvent` says what the one read of freed
  memory sees).
- After commands: `afterCancel` with anything but an object that `after` returned
  (`pod/after.pod:111` demands one, and the callback form is deprecated there): a key
  from `afterInfo` would remove the `AfterInfo` and leave the hash entry;
  `AfterCleanupProc`.
- Selection, ownership: the order in which nested calls of `Tk_DestroyWindow` return (the
  model lets any window go whose inner windows are being destroyed); a toplevel inside a
  destroyed window, which sends a request of its own, and embedded windows of the same process;
  XDestroyWindow stands in one step with `TkSelDeadWindow`, which follows it without a callback
  in between; serial numbers that do not fit into a long.
- Selection: MULTIPLE requests, encodings and formats, the default targets, event
  loops run by the selection callback itself, and `send`.
- The components the inventory leaves to Tk or to later steps, each with its reason
  in `PROJECT.json`.
