------------------------------- MODULE Timer -------------------------------
(***************************************************************************)
(* The timer handlers of pTk/mTk/tclGeneric/tclTimer.c: a list ordered by  *)
(* firing time, one queued event for all that are due (timerPending), and  *)
(* TimerHandlerEventProc, which runs the due ones of its own generation.   *)
(* A callback may create and delete timers, and may run the event loop     *)
(* again (update, waitVariable): that is a pass inside a pass.  A Perl     *)
(* exception in a callback abandons passes; nothing cleans up behind it.   *)
(*                                                                         *)
(* The clock is gettimeofday; it is assumed not to be set back.            *)
(***************************************************************************)
EXTENDS SequencesExt

CONSTANTS
    MaxTimers,      \* bound: how many timers are created
    MaxTime,        \* bound: when the clock stops
    Delay,          \* the delays asked for, in clock ticks
    MaxUnwind       \* bound: how often an exception leaves a callback

ASSUME MaxTimersAssumption == MaxTimers \in Nat
ASSUME MaxTimeAssumption == MaxTime \in Nat
ASSUME DelayAssumption == Delay \subseteq Nat
ASSUME MaxUnwindAssumption == MaxUnwind \in Nat

VARIABLES
    timers,         \* the list from firstTimerHandlerPtr, as tokens
    deadline,       \* the time field of each token
    lastTimerId,
    timerPending,
    queued,         \* how many timer events the event queue holds
    passes,         \* the active calls of TimerHandlerEventProc, outermost first
    invoked,        \* history: the tokens whose proc was called
    cancelled,      \* history: the tokens Tcl_DeleteTimerHandler removed
    now,            \* Tcl_GetTime
    unwinds         \* the number of exceptions so far

vars == <<timers, deadline, lastTimerId, timerPending, queued, passes, invoked,
          cancelled, now, unwinds>>

Token == 1 .. MaxTimers

\* currentTimerId and time of a pass, and the timer whose proc is running.
Pass == [limit : 0 .. MaxTimers, time : Nat, running : Token]

Listed(t) == Contains(timers, t)

Init ==
    /\ timers = <<>>
    /\ deadline = [t \in Token |-> 0]
    /\ lastTimerId = 0
    /\ timerPending = FALSE
    /\ queued = 0
    /\ passes = <<>>
    /\ invoked = {}
    /\ cancelled = {}
    /\ now = 0
    /\ unwinds = 0

-----------------------------------------------------------------------------
\* (Mutant: a new timer goes to the end.)
InsertsAtEnd(at, time) == at = Len(timers) + 1

\* Where the scan of Tcl_CreateTimerHandler stops: at the first later timer.
InsertsAt(at, time) ==
    /\ \A i \in 1 .. at - 1 : deadline[timers[i]] <= time
    /\ at <= Len(timers) => deadline[timers[at]] > time

CreateTimerHandler(ms) ==
    /\ lastTimerId < MaxTimers
    /\ \E at \in 1 .. Len(timers) + 1 :
        /\ InsertsAt(at, now + ms)
        /\ timers' = InsertAt(timers, at, lastTimerId + 1)
    /\ lastTimerId' = lastTimerId + 1
    /\ deadline' = [deadline EXCEPT ![lastTimerId + 1] = now + ms]
    /\ UNCHANGED <<timerPending, queued, passes, invoked, cancelled, now, unwinds>>

\* A token that is not in the list any more is ignored.
DeleteTimerHandler(t) ==
    /\ \E i \in DOMAIN timers :
        /\ timers[i] = t
        /\ timers' = RemoveAt(timers, i)
    /\ cancelled' = cancelled \cup {t}
    /\ UNCHANGED <<deadline, lastTimerId, timerPending, queued, passes, invoked, now,
                   unwinds>>

\* (Mutant: the flag is not tested.)
TimerCheckAlways ==
    /\ timers # <<>>
    /\ deadline[Head(timers)] <= now
    /\ queued < 2
    /\ timerPending' = TRUE
    /\ queued' = queued + 1
    /\ UNCHANGED <<timers, deadline, lastTimerId, passes, invoked, cancelled, now, unwinds>>

\* TimerCheckProc, called by Tcl_DoOneEvent after it waited.
TimerCheck ==
    /\ timers # <<>>
    /\ deadline[Head(timers)] <= now
    /\ ~ timerPending
    /\ timerPending' = TRUE
    /\ queued' = queued + 1
    /\ UNCHANGED <<timers, deadline, lastTimerId, passes, invoked, cancelled, now, unwinds>>

-----------------------------------------------------------------------------
(***************************************************************************)
(* TimerHandlerEventProc: the first timer runs if it is due at the time    *)
(* the pass began and no newer than the pass; it leaves the list first.    *)
(***************************************************************************)
\* (Mutant: the generation is not tested.)
RunnableAnyAge(limit, time) ==
    /\ timers # <<>>
    /\ deadline[Head(timers)] <= time

Runnable(limit, time) ==
    /\ timers # <<>>
    /\ deadline[Head(timers)] <= time
    /\ Head(timers) <= limit

\* (Mutant: the handler stays in the list while its callback runs.)
RunFirstListed(below, limit, time) ==
    /\ passes' = Append(below, [limit |-> limit, time |-> time, running |-> Head(timers)])
    /\ invoked' = invoked \cup {Head(timers)}
    /\ timers' = timers

RunFirst(below, limit, time) ==
    /\ passes' = Append(below, [limit |-> limit, time |-> time, running |-> Head(timers)])
    /\ invoked' = invoked \cup {Head(timers)}
    /\ timers' = Tail(timers)

\* (Mutant: timerPending is cleared when the pass ends.)
ServiceTimersLate ==
    /\ queued > 0
    /\ queued' = queued - 1
    /\ IF Runnable(lastTimerId, now)
       THEN /\ RunFirst(passes, lastTimerId, now)
            /\ UNCHANGED timerPending
       ELSE /\ timerPending' = FALSE
            /\ UNCHANGED <<passes, invoked, timers>>
    /\ UNCHANGED <<deadline, lastTimerId, cancelled, now, unwinds>>

\* The queued event is serviced.  If every due timer was deleted meanwhile, the
\* pass is empty.
ServiceTimers ==
    /\ queued > 0
    /\ queued' = queued - 1
    /\ timerPending' = FALSE
    /\ \/ /\ Runnable(lastTimerId, now)
          /\ RunFirst(passes, lastTimerId, now)
       \/ /\ ~ Runnable(lastTimerId, now)
          /\ UNCHANGED <<passes, invoked, timers>>
    /\ UNCHANGED <<deadline, lastTimerId, cancelled, now, unwinds>>

Top == passes[Len(passes)]

\* The callback of the innermost pass returns: the pass goes on or ends.
HandlerReturns ==
    /\ passes # <<>>
    /\ \/ /\ Runnable(Top.limit, Top.time)
          /\ RunFirst(Front(passes), Top.limit, Top.time)
       \/ /\ ~ Runnable(Top.limit, Top.time)
          /\ passes' = Front(passes)
          /\ UNCHANGED <<invoked, timers>>
    /\ UNCHANGED <<deadline, lastTimerId, timerPending, queued, cancelled, now, unwinds>>

\* An exception in the callback abandons the passes above the eval that
\* catches it.
Unwind(depth) ==
    /\ unwinds < MaxUnwind
    /\ depth < Len(passes)
    /\ passes' = SubSeq(passes, 1, depth)
    /\ unwinds' = unwinds + 1
    /\ UNCHANGED <<timers, deadline, lastTimerId, timerPending, queued, invoked, cancelled,
                   now>>

Tick ==
    /\ now < MaxTime
    /\ now' = now + 1
    /\ UNCHANGED <<timers, deadline, lastTimerId, timerPending, queued, passes, invoked,
                   cancelled, unwinds>>

Next ==
    \/ \E ms \in Delay : CreateTimerHandler(ms)
    \/ \E t \in Token : DeleteTimerHandler(t)
    \/ TimerCheck
    \/ ServiceTimers
    \/ HandlerReturns
    \/ \E depth \in 0 .. Len(passes) : Unwind(depth)
    \/ Tick

Spec == Init /\ [][Next]_vars

\* Some event loop keeps running, the main one or one inside a callback, and
\* time passes.  No callback is assumed to return.
Fairness == WF_vars(TimerCheck) /\ WF_vars(ServiceTimers) /\ WF_vars(Tick)

FairSpec == Spec /\ Fairness

-----------------------------------------------------------------------------
TypeOK ==
    /\ timers \in Seq(Token)
    /\ deadline \in [Token -> Nat]
    /\ lastTimerId \in 0 .. MaxTimers
    /\ timerPending \in BOOLEAN
    /\ queued \in Nat
    /\ passes \in Seq(Pass)
    /\ invoked \subseteq Token
    /\ cancelled \subseteq Token
    /\ now \in Nat
    /\ unwinds \in Nat

\* The flag tells the truth about the queue: exactly one timer event waits
\* there while it is set and none while it is not, although an event in service
\* stays linked, passes nest, and an exception skips the end of a pass.
PendingIsQueued == queued = IF timerPending THEN 1 ELSE 0

Before(t, u) ==
    \/ deadline[t] < deadline[u]
    \/ deadline[t] = deadline[u] /\ t < u

\* The list is ordered by time, among equals by age (point 4 of the comment in
\* TimerHandlerEventProc rests on it).
Ordered == \A i, j \in DOMAIN timers : i < j => Before(timers[i], timers[j])

\* A timer is in the list, was invoked, or was deleted: one of the three, from
\* its creation on.  No pass, nested or abandoned, loses one or runs it twice.
ExactlyOnce ==
    \A t \in Token :
        /\ t <= lastTimerId <=> Listed(t) \/ t \in invoked \/ t \in cancelled
        /\ Listed(t) => t \notin invoked /\ t \notin cancelled
        /\ t \in invoked => t \notin cancelled

\* p looked at the clock when all newer timers were still to be created.
SawOlderOnly(p) ==
    /\ p.time <= now
    /\ p.limit <= lastTimerId
    /\ \A t \in Token : p.limit < t /\ t <= lastTimerId => p.time <= deadline[t]

\* A timer created during a pass is due no earlier than the pass looked at the
\* clock; so a newer generation never stands before an older one that is due.
NewerIsLater == \A i \in DOMAIN passes : SawOlderOnly(passes[i])

Inductive == TypeOK /\ PendingIsQueued /\ Ordered /\ ExactlyOnce /\ NewerIsLater

\* The timers a pass answers for: due when it began and not newer than it.
Owed(p) == {t \in Token : Listed(t) /\ t <= p.limit /\ deadline[t] <= p.time}

\* A pass that ends has served every timer it answers for (comment: "we don't
\* have to worry about newer generation timers appearing before later ones"),
\* and none that was created during it.
PassServesItsGeneration ==
    [][HandlerReturns =>
        IF Len(passes') < Len(passes) THEN Owed(Top) = {}
        ELSE passes'[Len(passes)].running \in Owed(Top)]_vars

\* Every timer that comes due is invoked or deleted, also while callbacks wait
\* for ever in loops of their own and after exceptions.
EventuallyInvoked ==
    \A t \in Token :
        lastTimerId >= t /\ deadline[t] <= MaxTime ~> t \in invoked \cup cancelled

-----------------------------------------------------------------------------
Service == INSTANCE TimerService WITH
    scheduled <- {t \in Token : Listed(t)}, created <- lastTimerId

\* The list, the pending event and the nested passes implement a set of alarms
\* that go off once, not early, and in the order of their times.
RefinesTimerService == Service!Spec

=============================================================================
