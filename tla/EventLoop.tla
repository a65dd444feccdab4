------------------------------ MODULE EventLoop ------------------------------
(***************************************************************************)
(* The event loop: Tcl_DoOneEvent and Tcl_ServiceAll (tclNotify.c) with    *)
(* the sources they ask: the file handlers behind select (tclUnixNotfy.c), *)
(* the timers and idle handlers (tclTimer.c) and the X display             *)
(* (tkUnixEvent.c), whose events wait on the socket, then inside Xlib,     *)
(* then in the queue.  A callback may run the loop again (DoOneEvent,      *)
(* update, MainLoop, waitVariable...) with other flags, so that events one *)
(* loop asked for are left to another; a signal may interrupt select and   *)
(* run Perl code there.                                                    *)
(*                                                                         *)
(* Modules of their own have the details of the queue (EventQueue), of the *)
(* timers (Timer), the idle handlers (Idle) and the file handlers          *)
(* (FileEvent).  Here one timer, one idle handler, one file and one        *)
(* display stand for them, and `queue' holds the events no one is serving. *)
(***************************************************************************)
EXTENDS SequencesExt

CONSTANTS
    Flags,          \* the event flags callers give to DoOneEvent
    MaxFrames,      \* bound: loops inside one another
    MaxX,           \* bound: X events on their way at a time
    MaxAccidents    \* bound: signals in select and exceptions that leave a loop

Kinds == {"window", "file", "timer", "idle"}

ASSUME FlagsAssumption == Flags \subseteq SUBSET Kinds
ASSUME BoundsAssumption ==
    MaxFrames \in Nat /\ MaxX \in Nat /\ MaxAccidents \in Nat

VARIABLES
    frames,         \* the active calls, outermost first
    queue,          \* the events of the queue whose handler is not running
    mode,           \* serviceMode
    blockTime,      \* how long select may sleep
    masks,          \* readyMasks: what the last select found
    asked,          \* requests whose event the X server has yet to send
    wire,           \* X events on the socket
    xlib,           \* X events in Xlib's own queue
    ready,          \* whether the file has something to read
    timer,          \* the timer: none, later or due
    idle,           \* whether an idle handler is registered
    signals,        \* the number of signals so far
    dies            \* the number of exceptions so far

vars == <<frames, queue, mode, blockTime, masks, asked, wire, xlib, ready, timer,
          idle, signals, dies>>

server == <<asked, wire, xlib>>
counts == <<signals, dies>>

\* on: the flags; wait: without TCL_DONT_WAIT; done: what a waiting caller
\* waits for has happened; caller: who called, update before and after XSync.
Frame == [caller : {"once", "wait", "update", "sync", "all"},
          on : (SUBSET Kinds) \ {{}},
          wait : BOOLEAN, done : BOOLEAN, oldMode : {"all", "none"},
          pc : {"service", "select", "signal", "check", "idle", "call", "idlecall"}]

Event == {"window", "file", "xfile", "timer"}

Init ==
    /\ frames = <<>>
    /\ queue = <<>>
    /\ mode = "all"
    /\ blockTime = "none"
    /\ masks = {}
    /\ asked = 0
    /\ wire = 0
    /\ xlib = 0
    /\ ready = FALSE
    /\ timer = "none"
    /\ idle = FALSE
    /\ signals = 0
    /\ dies = 0

Top == frames[Len(frames)]
At(pc) == frames # <<>> /\ Top.pc = pc
Goto(pc) == frames' = [frames EXCEPT ![Len(frames)].pc = pc]

Queued(event) == \E i \in DOMAIN queue : queue[i] = event
Windows(n) == [i \in 1 .. n |-> "window"]
OnTheWay == asked + wire + xlib + Cardinality({i \in DOMAIN queue : queue[i] = "window"})

-----------------------------------------------------------------------------
(***************************************************************************)
(* Calls and returns.                                                      *)
(***************************************************************************)

\* "No event flags is equivalent to TCL_ALL_EVENTS."
Effective(flags) == IF flags = {} THEN Kinds ELSE flags

\* With nothing but idle events to serve the loop goes to them at once.
First(on) == IF on = {"idle"} THEN "idle" ELSE "service"

Enter(caller, on, wait, pc) ==
    /\ Len(frames) < MaxFrames
    /\ frames' = Append(frames, [caller |-> caller, on |-> on, wait |-> wait,
                                 done |-> FALSE, oldMode |-> mode, pc |-> pc])
    /\ mode' = "none"

\* (Mutant: the service mode is set back to a fixed value.)
PopToAll ==
    /\ frames' = Front(frames)
    /\ mode' = "all"

\* The end of Tcl_DoOneEvent and Tcl_ServiceAll: the service mode is restored.
Pop ==
    /\ frames' = Front(frames)
    /\ mode' = Top.oldMode

\* The caller calls Tcl_DoOneEvent again.
Again(caller) ==
    /\ frames' = [frames EXCEPT ![Len(frames)].caller = caller,
                                ![Len(frames)].pc = First(Top.on)]
    /\ UNCHANGED mode

\* Tcl_DoOneEvent has served an event and returns 1: update starts over, a
\* waiting caller looks at what it waits for; Tcl_ServiceAll goes on to the next
\* event of the queue, an idle handler was its last.
Served ==
    \/ Top.caller \in {"update", "sync"} /\ Again("update")
    \/ Top.caller = "wait" /\ ~ Top.done /\ Again("wait")
    \/ Top.caller = "all" /\ Top.pc # "idlecall" /\ Goto("check") /\ UNCHANGED mode
    \/ /\ \/ Top.caller = "once"
          \/ Top.caller = "wait" /\ Top.done
          \/ Top.caller = "all" /\ Top.pc = "idlecall"
       /\ Pop

-----------------------------------------------------------------------------
(***************************************************************************)
(* The program: code outside of all loops, in a callback, or in a signal   *)
(* handler.                                                                *)
(***************************************************************************)
Callback == {"call", "idlecall", "signal"}

Running == frames # <<>> => Top.pc \in Callback

\* DoOneEvent once; MainLoop and tkwait; update and update idletasks.
DoOneEvent ==
    /\ Running
    /\ \/ \E flags \in Flags, wait \in BOOLEAN :
            LET on == Effective(flags)
            IN  Enter("once", on, wait /\ on # {"idle"}, First(on))
       \/ Enter("wait", Effective({}), TRUE, "service")
       \/ \E on \in {Kinds, {"idle"}} : Enter("update", on, FALSE, First(on))
    /\ UNCHANGED <<queue, blockTime, masks, server, ready, timer, idle, counts>>

\* What setTimer, deleteTimer, whenIdle and cancelIdle leave behind.
Register ==
    /\ Running
    /\ \/ timer' \in {"none", "later", "due"} \ {timer} /\ UNCHANGED idle
       \/ idle' = ~ idle /\ UNCHANGED timer
    /\ UNCHANGED <<frames, queue, mode, blockTime, masks, server, ready, counts>>

\* The program reads the file, whether or not a file handler told it to.
Read ==
    /\ Running
    /\ ready
    /\ ready' = FALSE
    /\ UNCHANGED <<frames, queue, mode, blockTime, masks, server, timer, idle, counts>>

\* A request that makes the server send an event (a window is mapped...).
Request ==
    /\ Running
    /\ OnTheWay < MaxX
    /\ asked' = asked + 1
    /\ UNCHANGED <<frames, queue, mode, blockTime, masks, wire, xlib, ready, timer,
                   idle, counts>>

\* XSync and every request with a reply: while Xlib waits for the reply it
\* takes the events before it from the socket.
RoundTrip ==
    /\ asked' = 0
    /\ wire' = 0
    /\ xlib' = asked + wire + xlib

Ask ==
    /\ Running
    /\ asked + wire > 0
    /\ RoundTrip
    /\ UNCHANGED <<frames, queue, mode, blockTime, masks, ready, timer, idle, counts>>

\* What the caller at depth i waits for comes about.
Finish(i) ==
    /\ Running
    /\ frames[i].caller = "wait"
    /\ ~ frames[i].done
    /\ frames' = [frames EXCEPT ![i].done = TRUE]
    /\ UNCHANGED <<queue, mode, blockTime, masks, server, ready, timer, idle, counts>>

\* A Perl exception leaves the loops inside depth; nobody restores the mode.
Die(depth) ==
    /\ frames # <<>>
    /\ Running
    /\ signals + dies < MaxAccidents
    /\ frames' = SubSeq(frames, 1, depth)
    /\ dies' = dies + 1
    /\ UNCHANGED <<queue, mode, blockTime, masks, server, ready, timer, idle, signals>>

-----------------------------------------------------------------------------
(***************************************************************************)
(* Outside: time, the X server, the writer of the file.                    *)
(***************************************************************************)
TimePasses ==
    /\ timer = "later"
    /\ timer' = "due"
    /\ UNCHANGED <<frames, queue, mode, blockTime, masks, server, ready, idle, counts>>

ServerSends ==
    /\ \/ asked > 0 /\ asked' = asked - 1
       \/ OnTheWay < MaxX /\ UNCHANGED asked
    /\ wire' = wire + 1
    /\ UNCHANGED <<frames, queue, mode, blockTime, masks, xlib, ready, timer, idle, counts>>

DataArrives ==
    /\ ~ ready
    /\ ready' = TRUE
    /\ UNCHANGED <<frames, queue, mode, blockTime, masks, server, timer, idle, counts>>

-----------------------------------------------------------------------------
(***************************************************************************)
(* Tcl_ServiceEvent: the first event of the queue whose handler accepts    *)
(* the flags.                                                              *)
(***************************************************************************)
Kind(event) == IF event = "xfile" THEN "file" ELSE event

Willing(i) == Kind(queue[i]) \in Top.on

\* (Mutant: XEventsQueued(QueuedAlready) does not read the socket.)
DisplayFileAlready(others) ==
    /\ queue' = others \o Windows(xlib)
    /\ xlib' = 0
    /\ Served
    /\ UNCHANGED <<asked, wire, timer>>

\* DisplayFileProc reads the socket and moves every event into the queue.
DisplayFile(others) ==
    /\ queue' = others \o Windows(xlib + wire)
    /\ xlib' = 0
    /\ wire' = 0
    /\ Served
    /\ UNCHANGED <<asked, timer>>

\* TimerHandlerEventProc: the timer may have been deleted since it was due.
ServeTimer ==
    \/ timer = "due" /\ timer' = "none" /\ Goto("call") /\ UNCHANGED mode
    \/ timer # "due" /\ Served /\ UNCHANGED timer

ServiceEvent(i) ==
    /\ At("service") \/ At("check")
    /\ Willing(i)
    /\ \A j \in 1 .. i - 1 : ~ Willing(j)
    /\ LET others == RemoveAt(queue, i)
       IN  \/ queue[i] = "xfile" /\ DisplayFile(others)
           \/ /\ queue[i] = "timer"
              /\ ServeTimer
              /\ queue' = others
              /\ UNCHANGED server
           \/ /\ queue[i] \in {"window", "file"}
              /\ Goto("call")
              /\ queue' = others
              /\ UNCHANGED <<server, timer, mode>>
    /\ UNCHANGED <<blockTime, masks, ready, idle, counts>>

NothingToServe == \A i \in DOMAIN queue : ~ Willing(i)

-----------------------------------------------------------------------------
(***************************************************************************)
(* The setup procedures, select, and the check procedures.                 *)
(***************************************************************************)

\* (Mutant: DisplaySetupProc trusts select to see the X events.)
MayPollForSocket ==
    \/ ~ Top.wait
    \/ "idle" \in Top.on /\ idle
    \/ "timer" \in Top.on /\ (timer = "due" \/ Queued("timer"))

\* Whether a source sets the block time to zero: DisplaySetupProc for events
\* inside Xlib, TimerSetupProc for idle handlers and due timers.
MayPoll ==
    \/ ~ Top.wait
    \/ "window" \in Top.on /\ xlib > 0
    \/ "idle" \in Top.on /\ idle
    \/ "timer" \in Top.on /\ (timer = "due" \/ Queued("timer"))

Setup ==
    /\ At("service")
    /\ NothingToServe
    /\ blockTime' = IF MayPoll THEN "poll"
                    ELSE IF "timer" \in Top.on /\ timer = "later" THEN "timer"
                    ELSE "none"
    /\ Goto("select")
    /\ UNCHANGED <<queue, mode, masks, server, ready, timer, idle, counts>>

\* (Mutant: TimerCheckProc looks only when nothing else was found.)
CheckTimerLast(on, found) ==
    IF found = {} /\ "timer" \in on /\ timer = "due" /\ ~ Queued("timer")
    THEN <<"timer">> ELSE <<>>

\* TimerCheckProc.
CheckTimer(on, found) ==
    IF "timer" \in on /\ timer = "due" /\ ~ Queued("timer") THEN <<"timer">> ELSE <<>>

\* The rest of Tcl_WaitForEvent, an event for every file found unless it has
\* one, and the check procedures; DisplayCheckProc empties Xlib's queue.
Arrive(on, found) ==
    LET file == IF "file" \in found /\ ~ Queued("file") THEN <<"file">> ELSE <<>>
        xfile == IF "xfile" \in found /\ ~ Queued("xfile") THEN <<"xfile">> ELSE <<>>
        windows == IF "window" \in on THEN Windows(xlib) ELSE <<>>
    IN  /\ queue' = queue \o file \o xfile \o CheckTimer(on, found) \o windows
        /\ xlib' = IF "window" \in on THEN 0 ELSE xlib

Readable == (IF ready THEN {"file"} ELSE {}) \cup (IF wire > 0 THEN {"xfile"} ELSE {})

\* readyMasks, forgotten where no interrupted select is left to read it again.
ReadLater(found) ==
    IF \E i \in 1 .. Len(frames) - 1 : frames[i].pc = "signal" THEN found ELSE {}

\* select returns: something can be read or its time is over.  (The block time,
\* set anew before every select, is forgotten here.)
Select ==
    /\ At("select")
    /\ \/ Readable # {}
       \/ blockTime = "poll"
       \/ blockTime = "timer" /\ timer = "due"
    /\ masks' = ReadLater(Readable)
    /\ blockTime' = "none"
    /\ Arrive(Top.on, Readable)
    /\ Goto("check")
    /\ UNCHANGED <<mode, asked, wire, ready, timer, idle, counts>>

\* A signal interrupts select (EINTR): LangAsyncCheck runs its Perl handler.
Interrupt ==
    /\ At("select")
    /\ Readable = {}
    /\ signals + dies < MaxAccidents
    /\ signals' = signals + 1
    /\ masks' = {}
    /\ blockTime' = "none"
    /\ Goto("signal")
    /\ UNCHANGED <<queue, mode, server, ready, timer, idle, dies>>

\* The signal handler returns into Tcl_WaitForEvent, which looks at readyMasks
\* only now: a loop inside the handler may have filled them.
SignalReturns ==
    /\ At("signal")
    /\ Arrive(Top.on, masks)
    /\ masks' = ReadLater(masks)
    /\ Goto("check")
    /\ UNCHANGED <<mode, blockTime, asked, wire, ready, timer, idle, counts>>

\* The second Tcl_ServiceEvent found nothing.
NothingFound ==
    /\ At("check")
    /\ NothingToServe
    /\ Goto("idle")
    /\ UNCHANGED <<queue, mode, blockTime, masks, server, ready, timer, idle, counts>>

-----------------------------------------------------------------------------
(***************************************************************************)
(* TclServiceIdle, and the end of a round.                                 *)
(***************************************************************************)
ServiceIdle ==
    /\ At("idle")
    /\ "idle" \in Top.on
    /\ idle
    /\ idle' = FALSE
    /\ Goto("idlecall")
    /\ UNCHANGED <<queue, mode, blockTime, masks, server, ready, timer, counts>>

\* (Mutant: update returns after XSync.)
NothingDoneSyncsLast ==
    /\ At("idle")
    /\ ~ ("idle" \in Top.on /\ idle)
    /\ \/ Top.wait /\ Goto("service") /\ UNCHANGED <<mode, server>>
       \/ Top.caller = "update" /\ RoundTrip /\ Pop
       \/ ~ Top.wait /\ Top.caller # "update" /\ Pop /\ UNCHANGED server
    /\ UNCHANGED <<queue, blockTime, masks, ready, timer, idle, counts>>

\* A loop that may wait starts over; else the call returns 0: update syncs with
\* the server and tries once more, the others return.
NothingDone ==
    /\ At("idle")
    /\ ~ ("idle" \in Top.on /\ idle)
    /\ \/ Top.wait /\ Goto("service") /\ UNCHANGED <<mode, server>>
       \/ Top.caller = "update" /\ RoundTrip /\ Again("sync")
       \/ ~ Top.wait /\ Top.caller # "update" /\ Pop /\ UNCHANGED server
    /\ UNCHANGED <<queue, blockTime, masks, ready, timer, idle, counts>>

CallbackReturns ==
    /\ At("call") \/ At("idlecall")
    /\ Served
    /\ UNCHANGED <<queue, blockTime, masks, server, ready, timer, idle, counts>>

\* Tcl_ServiceAll does nothing inside a loop; else it asks the sources once.
ServiceAll ==
    /\ Running
    /\ mode = "all"
    /\ Enter("all", Kinds, FALSE, "check")
    /\ Arrive(Kinds, {})
    /\ UNCHANGED <<blockTime, masks, asked, wire, ready, timer, idle, counts>>

-----------------------------------------------------------------------------
Program ==
    \/ DoOneEvent
    \/ Register
    \/ Read
    \/ Request
    \/ Ask
    \/ \E i \in DOMAIN frames : Finish(i)
    \/ \E depth \in 0 .. Len(frames) - 1 : Die(depth)
    \/ ServiceAll

Outside == TimePasses \/ ServerSends \/ DataArrives \/ Interrupt

Loop ==
    \/ \E i \in DOMAIN queue : ServiceEvent(i)
    \/ Setup
    \/ Select
    \/ NothingFound
    \/ ServiceIdle
    \/ NothingDone

Return == CallbackReturns \/ SignalReturns

Next == Program \/ Outside \/ Loop \/ Return

Spec == Init /\ [][Next]_vars

\* The process runs, time passes, the server answers, and a callback that runs
\* loops of its own again and again returns in the end.
Fairness ==
    /\ WF_vars(Loop)
    /\ WF_vars(TimePasses)
    /\ WF_vars(asked > 0 /\ ServerSends)
    /\ SF_vars(Return)

FairSpec == Spec /\ Fairness

-----------------------------------------------------------------------------
TypeOK ==
    /\ frames \in Seq(Frame)
    /\ queue \in Seq(Event)
    /\ mode \in {"all", "none"}
    /\ blockTime \in {"none", "timer", "poll"}
    /\ masks \subseteq {"file", "xfile"}
    /\ asked \in Nat
    /\ wire \in Nat
    /\ xlib \in Nat
    /\ ready \in BOOLEAN
    /\ timer \in {"none", "later", "due"}
    /\ idle \in BOOLEAN
    /\ signals \in Nat
    /\ dies \in Nat

\* select is about to sleep until something can be read or a time is over.
Sleeping == At("select") /\ Readable = {} /\ blockTime # "poll"

\* No wakeup is lost: the process sleeps only if its flags allow, with nothing
\* in the queue, inside Xlib or among the idle handlers that the flags of the
\* innermost loop would serve, and never past a timer they would serve -
\* whatever the other loops left behind (a round trip that moved X events from
\* the socket into Xlib, events another loop's flags refused).
NeverSleepsOnWork ==
    Sleeping =>
        /\ Top.wait
        /\ NothingToServe
        /\ "window" \in Top.on => xlib = 0
        /\ "idle" \in Top.on => ~ idle
        /\ "timer" \in Top.on /\ timer # "none" => blockTime = "timer"

\* The service mode is NONE as long as any loop runs, however they nest, and is
\* restored with the last one unless an exception left it; so Tcl_ServiceAll
\* never runs inside a loop.
ModeMeansLoop ==
    /\ mode = "all" => frames = <<>>
    /\ frames = <<>> /\ dies = 0 => mode = "all"
    /\ \A i \in DOMAIN frames : frames[i].caller = "all" => i = 1

\* update returns only when nothing is left: no idle handler, no event in the
\* queue or inside Xlib, and no event the server owed for an earlier request
\* (unless a signal handler made one in the last moment).
UpdateEnds ==
    /\ At("idle")
    /\ Top.caller \in {"update", "sync"}
    /\ Len(frames') < Len(frames)

UpdateLeavesNothing ==
    [][UpdateEnds =>
        /\ "idle" \in Top.on => ~ idle'
        /\ Top.on = Kinds => queue' = <<>> /\ xlib' = 0
        /\ signals = 0 => asked' = 0]_vars

\* A loop runs inside a callback or a signal handler of the loop around it.
NestsInCallbacks ==
    \A i \in DOMAIN frames :
        /\ i = Len(frames) \/ frames[i].pc \in Callback
        /\ frames[i].pc = "signal" => signals > 0

\* Every loop found the service mode NONE, the outermost ALL.
ModesNest ==
    /\ frames # <<>> => mode = "none"
    /\ frames = <<>> /\ dies = 0 => mode = "all"
    /\ \A i \in DOMAIN frames :
        /\ i > 1 => frames[i].oldMode = "none"
        /\ i = 1 /\ dies = 0 => frames[i].oldMode = "all"
        /\ frames[i].caller = "all" => i = 1

\* What the sources said before select still holds when it sleeps.
SourcesAsked ==
    At("select") =>
        /\ NothingToServe
        /\ blockTime # "poll" =>
            /\ Top.wait
            /\ "window" \in Top.on => xlib = 0
            /\ "idle" \in Top.on => ~ idle
            /\ "timer" \in Top.on /\ timer # "none" => blockTime = "timer"

\* What update has done by the end of a round.
UpdateProgress ==
    frames # <<>> /\ Top.caller \in {"update", "sync"} =>
        /\ Top.pc \in {"check", "idle"} /\ "window" \in Top.on => xlib = 0
        /\ Top.pc = "idle" /\ Top.on = Kinds => queue = <<>>
        /\ Top.caller = "sync" /\ Top.pc \notin Callback /\ signals = 0 => asked = 0

Inductive ==
    TypeOK /\ NestsInCallbacks /\ ModesNest /\ SourcesAsked /\ UpdateProgress

Serving(kinds) == frames # <<>> /\ kinds \subseteq Top.on

\* A due timer is served while the innermost loop has its flag, although events
\* ahead of it in the queue, a file that stays readable and X events come again
\* and again.
TimerServed ==
    (timer = "due" /\ Serving({"timer"})) ~> (timer # "due" \/ ~ Serving({"timer"}))

\* The X socket is read while the innermost loop serves files and windows.
SocketRead ==
    (wire > 0 /\ Serving({"file", "window"})) ~>
        (wire = 0 \/ ~ Serving({"file", "window"}))

\* "waits for that variable to be modified ... then it returns" (pod/Widget.pod):
\* once what it waits for has happened, a wait returns, unless the callback runs
\* one more loop inside it.
WaitReturns ==
    \A n \in 1 .. MaxFrames :
        (Len(frames) = n /\ Top.caller = "wait" /\ Top.done) ~> Len(frames) # n

=============================================================================
