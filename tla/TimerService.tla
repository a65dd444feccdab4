--------------------------- MODULE TimerService ---------------------------
(***************************************************************************)
(* What Tcl_CreateTimerHandler promises ("when milliseconds have elapsed,  *)
(* proc will be invoked exactly once"), without the list, the queued event *)
(* or the passes: a set of alarms, of which the one that is due first goes *)
(* off first and among equals the older one.                               *)
(***************************************************************************)
EXTENDS Naturals

CONSTANTS MaxTimers, MaxTime, Delay

VARIABLES scheduled, deadline, created, invoked, now

svars == <<scheduled, deadline, created, invoked, now>>

Before(t, u) ==
    \/ deadline[t] < deadline[u]
    \/ deadline[t] = deadline[u] /\ t < u

Init ==
    /\ scheduled = {}
    /\ deadline = [t \in 1 .. MaxTimers |-> 0]
    /\ created = 0
    /\ invoked = {}
    /\ now = 0

Schedule(ms) ==
    /\ created < MaxTimers
    /\ created' = created + 1
    /\ scheduled' = scheduled \cup {created + 1}
    /\ deadline' = [deadline EXCEPT ![created + 1] = now + ms]
    /\ UNCHANGED <<invoked, now>>

Cancel(t) ==
    /\ scheduled' = scheduled \ {t}
    /\ UNCHANGED <<deadline, created, invoked, now>>

Invoke(t) ==
    /\ t \in scheduled \ invoked
    /\ deadline[t] <= now
    /\ \A u \in scheduled : u # t => Before(t, u)
    /\ scheduled' = scheduled \ {t}
    /\ invoked' = invoked \cup {t}
    /\ UNCHANGED <<deadline, created, now>>

Tick ==
    /\ now' = now + 1
    /\ UNCHANGED <<scheduled, deadline, created, invoked>>

Next ==
    \/ \E ms \in Delay : Schedule(ms)
    \/ \E t \in scheduled : Cancel(t) \/ Invoke(t)
    \/ Tick

Spec == Init /\ [][Next]_svars

=============================================================================
