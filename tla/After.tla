-------------------------------- MODULE After --------------------------------
(***************************************************************************)
(* The after objects of Tk/After.pm with the `after' methods of            *)
(* Tk/Widget.pm, over the list of AfterInfo structures that                *)
(* Tcl_AfterObjCmd and AfterProc keep, and the destruction of the widgets  *)
(* they belong to.                                                         *)
(*                                                                         *)
(* Three structures name the pending callbacks: the list of AfterInfo, the *)
(* hash `_After_' of the widget and the id in the object itself.  A        *)
(* callback may do anything: create and cancel after objects, destroy the  *)
(* widget, run the event loop again.  So may the handlers of a widget that *)
(* is being destroyed, when Tk::Exists already denies the widget.          *)
(*                                                                         *)
(* When an AfterInfo is due is the business of Timer and Idle: here any    *)
(* pending one may run whenever the event loop does.                       *)
(***************************************************************************)
EXTENDS Naturals, Sequences, FiniteSets

CONSTANTS
    Widget,
    Obj,            \* the after objects that may exist at a time
    MaxId,          \* bound: how many ids Tcl_AfterObjCmd gives out
    MaxDepth        \* bound: how deep callbacks and destructions nest

ASSUME MaxIdAssumption == MaxId \in Nat
ASSUME MaxDepthAssumption == MaxDepth \in Nat

VARIABLES
    infos,          \* the list from firstAfterPtr: who is called back
    afterId,        \* the id Tcl_AfterObjCmd gave out last
    obj,            \* the Tk::After objects
    entries,        \* the hash _After_ of each widget ...
    exists,         \* ... and whether there is one
    hook,           \* _cancelAll is still in the widget's _Destroy_ list
    phase,          \* how far the destruction of each widget has got
    stack,          \* the calls in progress, innermost first
    late,           \* history: the objects cancelled when Tk::Exists denied
                    \* the widget, or created when _cancelAll had run
    peeked          \* history: the widgets that owe their hash to afterInfo

vars == <<infos, afterId, obj, entries, exists, hook, phase, stack, late, peeked>>

Id == 1 .. MaxId

undef == 0      \* no id

AfterInfo == [id : Id, obj : Obj]

\* There is no such object; it may be created.
Unborn == [class |-> "none"]

TkAfter == [class : {"After", "Cancelled"}, w : Widget, id : Id \union {undef},
            method : {"once", "repeat"}]

Phase == {"alive", "dying", "destroying", "gone"}

\* A callback of an after object, or a widget in Tk_DestroyWindow.
Frame == [call : Obj] \union [destroy : Widget]

Init ==
    /\ infos = {}
    /\ afterId = 0
    /\ obj = [o \in Obj |-> Unborn]
    /\ entries = [w \in Widget |-> {}]
    /\ exists = [w \in Widget |-> FALSE]
    /\ hook = [w \in Widget |-> FALSE]
    /\ phase = [w \in Widget |-> "alive"]
    /\ stack = <<>>
    /\ late = {}
    /\ peeked = {}

Top(f) == stack # <<>> /\ Head(stack) = f

\* Tk::Exists: false from the moment Tk_DestroyWindow sets TK_ALREADY_DEAD.
Exists(w) == phase[w] = "alive"

Born(o) == obj[o] # Unborn

Without(set, id) == {e \in set : e.id # id}

\* The method submit of object o with fields f, when the list is `pending'.
\* OnDestroy reaches _Destroyed only until that has taken the _Destroy_ list.
Submit(o, f, pending) ==
    LET w == f.w
        info == [id |-> afterId + 1, obj |-> o]
    IN  /\ afterId < MaxId
        /\ afterId' = afterId + 1
        /\ infos' = pending \union {info}
        /\ entries' = [entries EXCEPT ![w] = Without(@, f.id) \union {info}]
        /\ exists' = [exists EXCEPT ![w] = TRUE]
        /\ hook' = [hook EXCEPT ![w] =
                        \/ @
                        \/ /\ ~exists[w]
                           /\ f.id = undef      \* else delete makes the hash
                           /\ phase[w] \in {"alive", "dying"}]
        /\ obj' = [obj EXCEPT ![o] = [f EXCEPT !.id = afterId + 1]]

\* $w->after, $w->afterIdle and $w->repeat: Tk::After->new.
New(o, w, method) ==
    /\ ~Born(o)
    /\ Submit(o, [class |-> "After", w |-> w, id |-> undef, method |-> method], infos)
    /\ late' = IF Exists(w) \/ hook'[w] THEN late ELSE late \union {o}
    /\ UNCHANGED <<phase, stack, peeked>>

\* (Mutant: the timer is left to run.)
CancelObjectOnly(o) ==
    /\ Born(o)
    /\ obj[o].class = "After"
    /\ obj[o].id # undef
    /\ LET w == obj[o].w
           id == obj[o].id
       IN  /\ entries' = [entries EXCEPT ![w] = Without(@, id)]
           /\ late' = IF Exists(w) THEN late ELSE late \union {o}
    /\ obj' = [obj EXCEPT ![o].id = undef]
    /\ UNCHANGED <<infos, afterId, exists, hook, phase, stack, peeked>>

\* $obj->cancel, $obj->time(0) and $w->afterCancel($obj).
Cancel(o) ==
    /\ Born(o)
    /\ obj[o].class = "After"
    /\ obj[o].id # undef
    /\ LET w == obj[o].w
           id == obj[o].id
       IN  /\ infos' = IF Exists(w) THEN Without(infos, id) ELSE infos
           /\ entries' = [entries EXCEPT ![w] = Without(@, id)]
           /\ late' = IF Exists(w) THEN late ELSE late \union {o}
    /\ obj' = [obj EXCEPT ![o].id = undef]
    /\ UNCHANGED <<afterId, exists, hook, phase, stack, peeked>>

\* The last reference to an object goes away; its DESTROY calls cancel, with
\* the id of a past callback when it has one.
DESTROY(o) ==
    /\ Born(o)
    /\ \A i \in infos : i.obj # o
    /\ \A w \in Widget : \A e \in entries[w] : e.obj # o
    /\ \A i \in DOMAIN stack : stack[i] # [call |-> o]
    /\ LET w == obj[o].w
           id == obj[o].id
       IN  /\ infos' = IF Exists(w) /\ obj[o].class = "After" THEN Without(infos, id)
                       ELSE infos
           /\ entries' = [entries EXCEPT ![w] =
                              IF obj[o].class = "After" THEN Without(@, id) ELSE @]
    /\ obj' = [obj EXCEPT ![o] = Unborn]
    /\ late' = late \ {o}
    /\ UNCHANGED <<afterId, exists, hook, phase, stack, peeked>>

\* $w->afterInfo without an id: `keys' makes the hash when there is none.
AfterInfoKeys(w) ==
    /\ exists' = [exists EXCEPT ![w] = TRUE]
    /\ peeked' = IF exists[w] THEN peeked ELSE peeked \union {w}
    /\ UNCHANGED <<infos, afterId, obj, entries, hook, phase, stack, late>>

-----------------------------------------------------------------------------
(* The event loop: AfterProc takes the AfterInfo from the list, then calls   *)
(* the method of the object.                                                 *)

Push(f) ==
    /\ Len(stack) < MaxDepth
    /\ stack' = <<f>> \o stack

\* Tk::After::Cancelled::once and repeat do nothing.
RunCancelled(i) ==
    /\ obj[i.obj].class = "Cancelled"
    /\ infos' = infos \ {i}
    /\ UNCHANGED <<afterId, obj, entries, exists, hook, phase, stack, late, peeked>>

\* (Mutant: the hash keeps the entry.)
RunOnceListed(i) ==
    LET o == i.obj
    IN  /\ obj[o].class = "After"
        /\ obj[o].method = "once"
        /\ infos' = infos \ {i}
        /\ Push([call |-> o])
        /\ UNCHANGED <<afterId, obj, entries, exists, hook, phase, late, peeked>>

RunOnce(i) ==
    LET o == i.obj
    IN  /\ obj[o].class = "After"
        /\ obj[o].method = "once"
        /\ infos' = infos \ {i}
        /\ entries' = [entries EXCEPT ![obj[o].w] = Without(@, obj[o].id)]
        /\ exists' = [exists EXCEPT ![obj[o].w] = TRUE]
        /\ Push([call |-> o])
        /\ UNCHANGED <<afterId, obj, hook, phase, late, peeked>>

\* (Mutant: AfterProc leaves the AfterInfo in the list for the next call.)
RunRepeatUnlinksLater(i) ==
    LET o == i.obj
    IN  /\ obj[o].class = "After"
        /\ obj[o].method = "repeat"
        /\ Submit(o, obj[o], infos)
        /\ Push([call |-> o])
        /\ UNCHANGED <<phase, late, peeked>>

\* (Mutant: the callback comes before the next submit.)
RunRepeatCallsFirst(i) ==
    LET o == i.obj
    IN  /\ obj[o].class = "After"
        /\ obj[o].method = "repeat"
        /\ infos' = infos \ {i}
        /\ Push([call |-> o])
        /\ UNCHANGED <<afterId, obj, entries, exists, hook, phase, late, peeked>>

RunRepeat(i) ==
    LET o == i.obj
    IN  /\ obj[o].class = "After"
        /\ obj[o].method = "repeat"
        /\ Submit(o, obj[o], infos \ {i})
        /\ Push([call |-> o])
        /\ UNCHANGED <<phase, late, peeked>>

AfterProc(i) == RunCancelled(i) \/ RunOnce(i) \/ RunRepeat(i)

\* The callback returns or dies, which LangDoCallback catches.
CallbackReturns ==
    /\ \E o \in Obj : Top([call |-> o])
    /\ stack' = Tail(stack)
    /\ UNCHANGED <<infos, afterId, obj, entries, exists, hook, phase, late, peeked>>

-----------------------------------------------------------------------------
(* Tk_DestroyWindow.  Between these steps the <Destroy> bindings and the     *)
(* OnDestroy callbacks run, of this widget and of the widgets inside it.     *)

\* TK_ALREADY_DEAD is set.
DestroyWindow(w) ==
    /\ phase[w] = "alive"
    /\ phase' = [phase EXCEPT ![w] = "dying"]
    /\ Push([destroy |-> w])
    /\ UNCHANGED <<infos, afterId, obj, entries, exists, hook, late, peeked>>

\* Lang_DeleteWidget calls _Destroyed, which takes the _Destroy_ list away.
Destroyed(w) ==
    /\ Top([destroy |-> w])
    /\ phase[w] = "dying"
    /\ phase' = [phase EXCEPT ![w] = "destroying"]
    /\ UNCHANGED <<infos, afterId, obj, entries, exists, hook, stack, late, peeked>>

\* (Mutant: the objects keep their class.)
CancelAllCancelsOnly(w) ==
    LET objs == {e.obj : e \in entries[w]}
    IN  /\ Top([destroy |-> w])
        /\ phase[w] = "destroying"
        /\ hook[w]
        /\ obj' = [o \in Obj |-> IF o \in objs THEN [obj[o] EXCEPT !.id = undef] ELSE obj[o]]
        /\ entries' = [entries EXCEPT ![w] = {}]
        /\ exists' = [exists EXCEPT ![w] = FALSE]
        /\ hook' = [hook EXCEPT ![w] = FALSE]
        /\ UNCHANGED <<infos, afterId, phase, stack, late, peeked>>

\* _Destroyed calls _cancelAll: cancel leaves the AfterInfo alone, for
\* Tk::Exists is false, but the objects change their class.
CancelAll(w) ==
    LET objs == {e.obj : e \in entries[w]}
    IN  /\ Top([destroy |-> w])
        /\ phase[w] = "destroying"
        /\ hook[w]
        /\ obj' = [o \in Obj |-> IF o \in objs
                                 THEN [obj[o] EXCEPT !.class = "Cancelled", !.id = undef]
                                 ELSE obj[o]]
        /\ entries' = [entries EXCEPT ![w] = {}]
        /\ exists' = [exists EXCEPT ![w] = FALSE]
        /\ hook' = [hook EXCEPT ![w] = FALSE]
        /\ UNCHANGED <<infos, afterId, phase, stack, late, peeked>>

\* The last of the destruction: the Perl object is no longer a widget.
LangDeadWindow(w) ==
    /\ Top([destroy |-> w])
    /\ phase[w] = "destroying"
    /\ ~hook[w]
    /\ phase' = [phase EXCEPT ![w] = "gone"]
    /\ stack' = Tail(stack)
    /\ UNCHANGED <<infos, afterId, obj, entries, exists, hook, late, peeked>>

Next ==
    \/ \E o \in Obj, w \in Widget, method \in {"once", "repeat"} : New(o, w, method)
    \/ \E o \in Obj : Cancel(o) \/ DESTROY(o)
    \/ \E i \in infos : AfterProc(i)
    \/ CallbackReturns
    \/ \E w \in Widget :
          \/ AfterInfoKeys(w)
          \/ DestroyWindow(w)
          \/ Destroyed(w)
          \/ CancelAll(w)
          \/ LangDeadWindow(w)

Spec == Init /\ [][Next]_vars

-----------------------------------------------------------------------------
(* Properties.                                                               *)

\* Every field stays in its set.
TypeOK ==
    /\ infos \subseteq AfterInfo
    /\ afterId \in 0 .. MaxId
    /\ obj \in [Obj -> TkAfter \union {Unborn}]
    /\ entries \in [Widget -> SUBSET AfterInfo]
    /\ exists \in [Widget -> BOOLEAN]
    /\ hook \in [Widget -> BOOLEAN]
    /\ phase \in [Widget -> Phase]
    /\ stack \in Seq(Frame)
    /\ late \subseteq Obj
    /\ peeked \subseteq Widget

Pending(o) == {i \in infos : i.obj = o}

\* What afterInfo lists for a widget is what AfterProc will call for it, no
\* more and no less (After.pm, submit, once, cancel, against tclTimer.c).
HashIsPending ==
    \A w \in Widget :
        Exists(w) => entries[w] = {i \in infos : obj[i.obj].w = w}

\* A repeat goes on until it is cancelled: it is pending exactly once, under the
\* id its object knows, from the time it was created, whatever its callback
\* does and however often the callback is called from within itself (submit).
RepeatGoesOn ==
    \A o \in Obj :
        (/\ Born(o)
         /\ obj[o].class = "After"
         /\ obj[o].method = "repeat"
         /\ obj[o].id # undef)
            => Pending(o) = {[id |-> obj[o].id, obj |-> o]}

\* The step calls the callback of o.
Calls(o) == Len(stack') > Len(stack) /\ Head(stack') = [call |-> o]

\* A cancelled object is never called again, also if it was cancelled by its own
\* callback or by a callback that runs inside it, provided that the widget
\* existed when it was cancelled (After.pm, cancel).
CancelStops == [][\A o \in Obj : Calls(o) => obj[o].id # undef \/ o \in late]_vars

\* No callback of a widget is called when the widget is gone, provided that it
\* was created before _cancelAll ran, that no cancel came when the widget was
\* being destroyed, and that the first use of the hash was not afterInfo
\* (After.pm, _cancelAll).
AutoCancelled ==
    [][\A o \in Obj :
          (Calls(o) /\ phase[obj[o].w] = "gone") => o \in late \/ obj[o].w \in peeked]_vars

\* An object is pending at most once, so no call can be made twice: not even a
\* cancel that had no effect lets a repeat register itself again (submit).
PendingOnce == \A i, j \in infos : i.obj = j.obj => i = j

-----------------------------------------------------------------------------
(* The parts of the inductive invariant of AfterProofs.                      *)

\* An entry of a hash names a pending callback of an object of that widget.
EntriesArePending ==
    \A w \in Widget : \A e \in entries[w] :
        /\ e \in infos
        /\ exists[w]
        /\ obj[e.obj].class = "After"
        /\ obj[e.obj].w = w
        /\ obj[e.obj].id = e.id

\* A pending callback has an object, which knows the id or was cancelled when
\* its widget did not exist.
InfosAreOwned ==
    \A i \in infos :
        /\ Born(i.obj)
        /\ i.id <= afterId
        /\ obj[i.obj].id \in {undef, i.id}
        /\ obj[i.obj].id = undef => ~Exists(obj[i.obj].w)

\* What is pending and not in the hash was cancelled too late.
UnlistedAreLate ==
    \A i \in infos :
        obj[i.obj].class = "After" =>
            IF obj[i.obj].id = undef THEN i.obj \in late
                                     ELSE i \in entries[obj[i.obj].w]

\* An id, also a stale one, names callbacks of one object only.
IdsAreOwned ==
    \A o \in Obj :
        Born(o) => /\ obj[o].id <= afterId
                   /\ obj[o].class = "Cancelled" => obj[o].id = undef
                   /\ \A i \in infos : i.id = obj[o].id => i.obj = o

\* _cancelAll will come for every hash but those afterInfo has made, and for
\* every object but the late ones.
HooksCover ==
    \A w \in Widget :
        /\ Exists(w) /\ exists[w] => hook[w] \/ w \in peeked
        /\ \A e \in entries[w] : hook[w] \/ w \in peeked \/ e.obj \in late
        /\ phase[w] = "gone" => ~hook[w]

Inductive ==
    /\ TypeOK
    /\ EntriesArePending
    /\ InfosAreOwned
    /\ UnlistedAreLate
    /\ IdsAreOwned
    /\ HooksCover
    /\ RepeatGoesOn
    /\ PendingOnce

=============================================================================
