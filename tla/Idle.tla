-------------------------------- MODULE Idle --------------------------------
(***************************************************************************)
(* The idle handlers of pTk/mTk/tclGeneric/tclTimer.c: a list with a first *)
(* and a last pointer, served by TclServiceIdle in generations.  A handler *)
(* may register and cancel idle handlers and may run the event loop again, *)
(* which is a pass inside a pass; an exception abandons passes.            *)
(*                                                                         *)
(* A handler is numbered by its registration.  Handlers of the same `call' *)
(* have the same procedure and client data: Tcl_CancelIdleCall cannot tell *)
(* them apart.                                                             *)
(***************************************************************************)
EXTENDS SequencesExt

CONSTANTS
    Call,           \* the procedures with their client data
    MaxIdle,        \* bound: how many idle handlers are registered
    MaxUnwind,      \* bound: how often an exception leaves a handler
    NULL            \* the null pointer

ASSUME MaxIdleAssumption == MaxIdle \in Nat
ASSUME MaxUnwindAssumption == MaxUnwind \in Nat
ASSUME NULLAssumption == NULL \notin 1 .. MaxIdle

VARIABLES
    idleList,       \* the list from idleList
    lastIdlePtr,
    idleGeneration,
    generation,     \* the generation field of each handler
    call,           \* the proc and clientData fields of each handler
    registered,     \* history: how many handlers were registered
    passes,         \* the active calls of TclServiceIdle, outermost first
    served,         \* history: the handlers that were called
    cancelled,      \* history: the handlers Tcl_CancelIdleCall removed
    unwinds         \* the number of exceptions so far

vars == <<idleList, lastIdlePtr, idleGeneration, generation, call, registered, passes,
          served, cancelled, unwinds>>

Handler == 1 .. MaxIdle

\* oldGeneration of a pass, the handler it is running and, as history, how many
\* handlers had been registered when it began.
Pass == [old : Nat, running : Handler, limit : 0 .. MaxIdle]

Listed(h) == Contains(idleList, h)

Index(h) == CHOOSE i \in DOMAIN idleList : idleList[i] = h

Init ==
    /\ idleList = <<>>
    /\ lastIdlePtr = NULL
    /\ idleGeneration = 0
    /\ generation = [h \in Handler |-> 0]
    /\ call \in [Handler -> Call]
    /\ registered = 0
    /\ passes = <<>>
    /\ served = {}
    /\ cancelled = {}
    /\ unwinds = 0

-----------------------------------------------------------------------------
\* (Mutant: the new handler goes to the front.)
DoWhenIdleFront ==
    LET h == registered + 1
    IN  /\ registered < MaxIdle
        /\ registered' = h
        /\ generation' = [generation EXCEPT ![h] = idleGeneration]
        /\ idleList' = <<h>> \o idleList
        /\ lastIdlePtr' = IF idleList = <<>> THEN h ELSE lastIdlePtr
        /\ UNCHANGED <<idleGeneration, call, passes, served, cancelled, unwinds>>

\* lastIdlePtr->nextPtr = idlePtr: a last pointer that is not in the list links
\* the new handler to memory the list does not reach.
DoWhenIdle ==
    LET h == registered + 1
    IN  /\ registered < MaxIdle
        /\ registered' = h
        /\ generation' = [generation EXCEPT ![h] = idleGeneration]
        /\ idleList' = IF lastIdlePtr = NULL THEN <<h>>
                       ELSE IF Listed(lastIdlePtr)
                       THEN SubSeq(idleList, 1, Index(lastIdlePtr)) \o <<h>>
                       ELSE idleList
        /\ lastIdlePtr' = h
        /\ UNCHANGED <<idleGeneration, call, passes, served, cancelled, unwinds>>

Cancelled(c) == {h \in Handler : Listed(h) /\ call[h] = c}

\* What the scan for c leaves in the list (there is exactly one such list): the
\* other handlers, in their old order.
KeptLists(c) ==
    {kept \in SetToSeqs({h \in Handler : Listed(h)} \ Cancelled(c)) :
        \A i, j \in DOMAIN kept : i < j => Index(kept[i]) < Index(kept[j])}

\* (Mutant: cancelling the end of the list leaves lastIdlePtr behind.)
CancelIdleCallStaleLast(c) ==
    /\ Cancelled(c) # {}
    /\ idleList' \in KeptLists(c)
    /\ cancelled' = cancelled \cup Cancelled(c)
    /\ UNCHANGED <<lastIdlePtr, idleGeneration, generation, call, registered, passes,
                   served, unwinds>>

\* Every handler with this call goes.  lastIdlePtr is set only when the scan
\* removes the end of the list: to prevPtr, the last handler it kept.
CancelIdleCall(c) ==
    /\ Cancelled(c) # {}
    /\ idleList' \in KeptLists(c)
    /\ lastIdlePtr' = IF call[Last(idleList)] # c THEN lastIdlePtr
                      ELSE IF idleList' = <<>> THEN NULL ELSE Last(idleList')
    /\ cancelled' = cancelled \cup Cancelled(c)
    /\ UNCHANGED <<idleGeneration, generation, call, registered, passes, served, unwinds>>

-----------------------------------------------------------------------------
(***************************************************************************)
(* TclServiceIdle: the first handler runs if its generation is not newer   *)
(* than the one the pass began with; it leaves the list first.             *)
(***************************************************************************)
Runnable(old) == idleList # <<>> /\ generation[Head(idleList)] <= old

\* (Mutant: lastIdlePtr is not cleared when the list runs empty.)
RunFirstKeepsLast(below, old, limit) ==
    /\ passes' = Append(below, [old |-> old, running |-> Head(idleList), limit |-> limit])
    /\ served' = served \cup {Head(idleList)}
    /\ idleList' = Tail(idleList)
    /\ UNCHANGED lastIdlePtr

RunFirst(below, old, limit) ==
    /\ passes' = Append(below, [old |-> old, running |-> Head(idleList), limit |-> limit])
    /\ served' = served \cup {Head(idleList)}
    /\ idleList' = Tail(idleList)
    /\ lastIdlePtr' = IF Len(idleList) = 1 THEN NULL ELSE lastIdlePtr

\* (Mutant: the generation is not advanced.)
ServiceIdleSameGeneration ==
    /\ idleList # <<>>
    /\ RunFirst(passes, idleGeneration, registered)
    /\ UNCHANGED <<idleGeneration, generation, call, registered, cancelled, unwinds>>

ServiceIdle ==
    /\ idleList # <<>>
    /\ idleGeneration' = idleGeneration + 1
    /\ IF Runnable(idleGeneration)
       THEN RunFirst(passes, idleGeneration, registered)
       ELSE UNCHANGED <<idleList, lastIdlePtr, passes, served>>
    /\ UNCHANGED <<generation, call, registered, cancelled, unwinds>>

Top == passes[Len(passes)]

\* The handler of the innermost pass returns: the pass goes on or ends.
HandlerReturns ==
    /\ passes # <<>>
    /\ \/ /\ Runnable(Top.old)
          /\ RunFirst(Front(passes), Top.old, Top.limit)
       \/ /\ ~ Runnable(Top.old)
          /\ passes' = Front(passes)
          /\ UNCHANGED <<idleList, lastIdlePtr, served>>
    /\ UNCHANGED <<idleGeneration, generation, call, registered, cancelled, unwinds>>

\* An exception in the handler abandons the passes above the eval that catches
\* it.
Unwind(depth) ==
    /\ unwinds < MaxUnwind
    /\ depth < Len(passes)
    /\ passes' = SubSeq(passes, 1, depth)
    /\ unwinds' = unwinds + 1
    /\ UNCHANGED <<idleList, lastIdlePtr, idleGeneration, generation, call, registered,
                   served, cancelled>>

Next ==
    \/ DoWhenIdle
    \/ \E c \in Call : CancelIdleCall(c)
    \/ ServiceIdle
    \/ HandlerReturns
    \/ \E depth \in 0 .. Len(passes) : Unwind(depth)

Spec == Init /\ [][Next]_vars

\* Some event loop comes to its idle phase again and again, the main one or one
\* inside a handler.  No handler is assumed to return.
Fairness == WF_vars(ServiceIdle)

FairSpec == Spec /\ Fairness

-----------------------------------------------------------------------------
TypeOK ==
    /\ idleList \in Seq(Handler)
    /\ lastIdlePtr \in Handler \cup {NULL}
    /\ idleGeneration \in Nat
    /\ generation \in [Handler -> Nat]
    /\ call \in [Handler -> Call]
    /\ registered \in 0 .. MaxIdle
    /\ passes \in Seq(Pass)
    /\ served \subseteq Handler
    /\ cancelled \subseteq Handler
    /\ unwinds \in Nat

\* lastIdlePtr is the end of the list, whoever took handlers out of it: a
\* stale one would lose the next handler.
LastValid == lastIdlePtr = IF idleList = <<>> THEN NULL ELSE idleList[Len(idleList)]

\* The list is in the order of registration, so that handlers run first in,
\* first out, and its generations never decrease or exceed the current one.
Fifo ==
    /\ \A i, j \in DOMAIN idleList : i < j => idleList[i] < idleList[j]
    /\ \A i, j \in DOMAIN idleList :
        i < j => generation[idleList[i]] <= generation[idleList[j]]
    /\ \A i \in DOMAIN idleList : generation[idleList[i]] <= idleGeneration

\* A handler is in the list, was called, or was cancelled: exactly one of the
\* three from its registration on.
CalledOnce ==
    \A h \in Handler :
        /\ h <= registered <=> Listed(h) \/ h \in served \/ h \in cancelled
        /\ Listed(h) => h \notin served /\ h \notin cancelled
        /\ h \in served => h \notin cancelled

\* The generations tell a pass which handlers were there when it began, also
\* after passes nested in it advanced the generation.
GenerationsTell ==
    \A i \in DOMAIN passes :
        /\ passes[i].old < idleGeneration
        /\ passes[i].limit <= registered
        /\ \A j \in DOMAIN idleList :
            generation[idleList[j]] <= passes[i].old <=> idleList[j] <= passes[i].limit

Inductive == TypeOK /\ LastValid /\ Fifo /\ CalledOnce /\ GenerationsTell

\* "It will invoke all idle handlers that are present at the time the call is
\* invoked, but not those added during idle processing" (comment of
\* TclServiceIdle): a pass that ends leaves none of the first, and one that goes
\* on runs none of the second.
PassServesThosePresent ==
    [][HandlerReturns =>
        IF Len(passes') < Len(passes)
        THEN \A i \in DOMAIN idleList : idleList[i] > Top.limit
        ELSE passes'[Len(passes)].running <= Top.limit]_vars

\* Every idle handler is called or cancelled in the end, also when handlers wait
\* for ever in loops of their own and after exceptions.
EventuallyServed ==
    \A h \in Handler : registered >= h ~> h \in served \cup cancelled

=============================================================================
