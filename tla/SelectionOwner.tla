--------------------------- MODULE SelectionOwner ---------------------------
(***************************************************************************)
(* Who owns a selection: the list selectionInfoPtr of each application     *)
(* (pTk/mTk/generic/tkSelect.c) and the X server.  An application claims   *)
(* the selection without waiting for the server, and learns that it lost   *)
(* it by a SelectionClear event, which may be late: it may have claimed    *)
(* the selection again meanwhile.  Each side reads the other's messages in *)
(* order, but knows nothing of what is under way.  One selection.          *)
(*                                                                         *)
(* The windows inside a destroyed one send no request of their own: the    *)
(* server takes them away with the outer one, after its <Destroy> callback *)
(* (Tk_DestroyWindow, tkWindow.c).                                         *)
(***************************************************************************)
EXTENDS Integers

CONSTANTS
    App,            \* the applications connected to the display
    Window,         \* the windows of each application
    Inside,         \* the windows inside a window; a toplevel is in none
    Word,           \* how many unsigned ints there are
    NULL,
    MaxRequests     \* bound: requests each application sends

ASSUME NullAssumption == NULL \notin App \X Nat
ASSUME MaxRequestsAssumption == MaxRequests \in Nat
ASSUME WordAssumption == Word \in Nat \ {0}
ASSUME InsideAssumption ==
    /\ Inside \in [Window -> SUBSET Window]
    /\ \A w \in Window :
        w \notin Inside[w] /\ \A v \in Inside[w] : Inside[v] \subseteq Inside[w]

VARIABLES
    info,           \* serial of the TkSelectionInfo of each application, 0 for none
    sent,           \* the number of requests sent, the last serial number
    request,        \* the request of each serial number
    alreadyDead,    \* the windows Tk_DestroyWindow was called for
    dead,           \* those of them the selection code has forgotten
    lost,           \* history: the claims whose clearProc was called
    processed,      \* server: how many requests of each application it has read
    owner,          \* server: the claim that owns the selection, <<app, serial>>
    clears,         \* SelectionClear events under way to each application
    refused         \* history: the requests the server refused

vars == <<info, sent, request, alreadyDead, dead, lost,
          processed, owner, clears, refused>>

Serial == 1 .. MaxRequests

Request == [op : {"own", "clear", "destroy"}, window : Window \cup {NULL}]

\* The serial of a SelectionClear is that of the last request of its receiver
\* the server has read.  It grows from event to event, so that a set is a queue.
Clear == [window : Window, serial : Serial]

WindowOf(a, s) == request[a][s].window

\* Request t destroys the window, or one it is in.
Takes(a, t, w) ==
    /\ request[a][t].op = "destroy"
    /\ w = request[a][t].window \/ w \in Inside[request[a][t].window]

\* The server has taken the window away.
Gone(a, w) == \E t \in 1 .. processed[a] : Takes(a, t, w)

\* The window is being destroyed: its callbacks may still run.
Dying(a, w) == w \in alreadyDead[a] \ dead[a]

Pending(a) == sent[a] > processed[a]
IsFirst(a, c) == \A d \in clears[a] : c.serial <= d.serial

Init ==
    /\ info = [a \in App |-> 0]
    /\ sent = [a \in App |-> 0]
    /\ request = [a \in App |-> [s \in Serial |-> NULL]]
    /\ alreadyDead = [a \in App |-> {}]
    /\ dead = [a \in App |-> {}]
    /\ lost = [a \in App |-> {}]
    /\ processed = [a \in App |-> 0]
    /\ owner = NULL
    /\ clears = [a \in App |-> {}]
    /\ refused = {}

-----------------------------------------------------------------------------
\* NextRequest and the request itself.
Send(a, op, w) ==
    /\ sent[a] < MaxRequests
    /\ sent' = [sent EXCEPT ![a] = @ + 1]
    /\ request' = [request EXCEPT ![a][sent[a] + 1] =
                      [op |-> op, window |-> w]]

\* Tk_OwnSelection.  The clearProc of another window of the same application is
\* called here, after everything else; it gets no event from the server.
OwnSelection(a, w) ==
    /\ w \notin dead[a]
    /\ Send(a, "own", w)
    /\ info' = [info EXCEPT ![a] = sent[a] + 1]
    /\ lost' = [lost EXCEPT ![a] =
                   IF info[a] # 0 /\ WindowOf(a, info[a]) # w
                     THEN @ \cup {info[a]} ELSE @]
    /\ UNCHANGED <<alreadyDead, dead, processed, owner, clears, refused>>

\* Tk_ClearSelection, whoever owns the selection.
ClearSelection(a) ==
    /\ Send(a, "clear", NULL)
    /\ info' = [info EXCEPT ![a] = 0]
    /\ lost' = [lost EXCEPT ![a] = @ \cup ({info[a]} \ {0})]
    /\ UNCHANGED <<alreadyDead, dead, processed, owner, clears, refused>>

\* Tk_DestroyWindow begins; callbacks run until the window is forgotten.
StartDestroy(a, w) ==
    /\ w \notin alreadyDead[a]
    /\ alreadyDead' = [alreadyDead EXCEPT ![a] = @ \cup {w}]
    /\ UNCHANGED <<info, sent, request, dead, lost, processed, owner, clears, refused>>

\* Tk_DestroyWindow ends: the children went before it, or are in callbacks.
EndsDestroy(a, w) ==
    /\ Dying(a, w)
    /\ Inside[w] \subseteq alreadyDead[a]
    /\ dead' = [dead EXCEPT ![a] = @ \cup {w}]

\* (Mutant: the record outlives its window.)
DeadWindowKeepsInfo(a, w) ==
    /\ EndsDestroy(a, w)
    /\ \A p \in dead[a] : w \notin Inside[p]
    /\ Send(a, "destroy", w)
    /\ UNCHANGED <<info, alreadyDead, lost, processed, owner, clears, refused>>

\* TkSelDeadWindow.  No clearProc.
Forget(a, w) ==
    info' = [info EXCEPT ![a] = IF @ # 0 /\ WindowOf(a, @) = w THEN 0 ELSE @]

\* XDestroyWindow and TkSelDeadWindow, for a window destroyed for itself.
DeadWindow(a, w) ==
    /\ EndsDestroy(a, w)
    /\ \A p \in dead[a] : w \notin Inside[p]
    /\ Send(a, "destroy", w)
    /\ Forget(a, w)
    /\ UNCHANGED <<alreadyDead, lost, processed, owner, clears, refused>>

\* TkSelDeadWindow alone, for one that is destroyed because its parent is.  The
\* parent itself may be gone already: the child's callback may have destroyed it.
DeadChild(a, w) ==
    /\ EndsDestroy(a, w)
    /\ \E p \in alreadyDead[a] :
        /\ w \in Inside[p]
        /\ \A q \in Inside[p] : w \in Inside[q] => q \in alreadyDead[a]
    /\ Forget(a, w)
    /\ UNCHANGED <<sent, request, alreadyDead, lost, processed, owner, clears, refused>>

\* (Mutant: the serial of the event is not looked at.)
AnyClearIsMeant(a, c) ==
    /\ info[a] # 0
    /\ WindowOf(a, info[a]) = c.window
    /\ c.window \notin alreadyDead[a]

\* (Mutant: an event that tells of the claim itself is too old.)
LaterClearIsMeant(a, c) ==
    /\ info[a] # 0
    /\ WindowOf(a, info[a]) = c.window
    /\ c.window \notin alreadyDead[a]
    /\ c.serial > info[a] % Word

\* The event is about the claim the application knows: as far as an int can tell,
\* which keeps the last 32 bits of a serial number that is a long.  A window that
\* is being destroyed gets no events.
IsMeant(a, c) ==
    /\ info[a] # 0
    /\ WindowOf(a, info[a]) = c.window
    /\ c.window \notin alreadyDead[a]
    /\ c.serial >= info[a] % Word

\* TkSelClearSelection.
HandleClear(a) ==
    /\ \E c \in clears[a] :
        /\ IsFirst(a, c)
        /\ clears' = [clears EXCEPT ![a] = @ \ {c}]
        /\ info' = [info EXCEPT ![a] = IF IsMeant(a, c) THEN 0 ELSE @]
        /\ lost' = [lost EXCEPT ![a] =
                       IF IsMeant(a, c) THEN @ \cup {info[a]} ELSE @]
    /\ UNCHANGED <<sent, request, alreadyDead, dead, processed, owner, refused>>

-----------------------------------------------------------------------------
\* The X server reads requests of each connection in order.

ReadRequest(a) == processed' = [processed EXCEPT ![a] = @ + 1]

NextRequest(a) == request[a][processed[a] + 1]

\* The owner changes.  The old one is told unless it is the same connection that
\* claims the selection for a window again.
ChangeOwner(a, new) ==
    /\ owner' = new
    /\ clears' =
         IF owner = NULL \/ (new # NULL /\ owner[1] = a) THEN clears
           ELSE [clears EXCEPT ![owner[1]] =
                    @ \cup {[window |-> WindowOf(owner[1], owner[2]),
                             serial |-> processed'[owner[1]]]}]

\* XSetSelectionOwner, for a window or for None.
SetSelectionOwner(a) ==
    /\ Pending(a)
    /\ NextRequest(a).op \in {"own", "clear"}
    /\ NextRequest(a).op = "own" => ~ Gone(a, NextRequest(a).window)
    /\ ReadRequest(a)
    /\ ChangeOwner(a, IF NextRequest(a).op = "own"
                        THEN <<a, processed[a] + 1>> ELSE NULL)
    /\ UNCHANGED <<info, sent, request, alreadyDead, dead, lost, refused>>

\* The time of a request is that of the event in progress, if there is one; it may
\* be older than the last change of the owner.  The claim of a window that went with
\* its parent is an error (ErrorProc).
RefuseOwner(a) ==
    /\ Pending(a)
    /\ NextRequest(a).op \in {"own", "clear"}
    /\ ReadRequest(a)
    /\ refused' = refused \cup {<<a, processed[a] + 1>>}
    /\ UNCHANGED <<info, sent, request, alreadyDead, dead, lost, owner, clears>>

\* XDestroyWindow: what the window owned, or a window inside it, has no owner, and
\* nobody is told.
DestroyWindow(a) ==
    /\ Pending(a)
    /\ NextRequest(a).op = "destroy"
    /\ ReadRequest(a)
    /\ owner' = IF /\ owner # NULL /\ owner[1] = a
                   /\ Takes(a, processed[a] + 1, WindowOf(a, owner[2]))
                  THEN NULL ELSE owner
    /\ UNCHANGED <<info, sent, request, alreadyDead, dead, lost, clears, refused>>

Next ==
    \E a \in App :
        \/ \E w \in Window : OwnSelection(a, w)
        \/ ClearSelection(a)
        \/ \E w \in Window : StartDestroy(a, w)
        \/ \E w \in Window : DeadWindow(a, w)
        \/ \E w \in Window : DeadChild(a, w)
        \/ HandleClear(a)
        \/ SetSelectionOwner(a)
        \/ RefuseOwner(a)
        \/ DestroyWindow(a)

Spec == Init /\ [][Next]_vars

\* The server reads what it is sent, and each application reads its events.
Fairness ==
    \A a \in App :
        /\ WF_vars(SetSelectionOwner(a) \/ RefuseOwner(a) \/ DestroyWindow(a))
        /\ WF_vars(HandleClear(a))

FairSpec == Spec /\ Fairness

-----------------------------------------------------------------------------
TypeOK ==
    /\ info \in [App -> 0 .. MaxRequests]
    /\ sent \in [App -> 0 .. MaxRequests]
    /\ request \in [App -> [Serial -> Request \cup {NULL}]]
    /\ alreadyDead \in [App -> SUBSET Window]
    /\ dead \in [App -> SUBSET Window]
    /\ lost \in [App -> SUBSET Serial]
    /\ processed \in [App -> 0 .. MaxRequests]
    /\ owner \in (App \X Serial) \cup {NULL}
    /\ clears \in [App -> SUBSET Clear]
    /\ refused \subseteq App \X Serial

\* Request t of an application ends its claim s.
Ends(a, t, s) == request[a][t].op # "destroy" \/ Takes(a, t, WindowOf(a, s))

\* An application that thinks it owns the selection does, or will: its claim is
\* under way, or is the server's owner, or the SelectionClear that ends it is on
\* its way and will not be ignored.  Only a claim with an old time, or of a window
\* the server has taken away, leaves it wrong until it claims or clears again: the
\* comment in Tk_OwnSelection says so.  A window that is being destroyed is told
\* nothing any more, and its record goes with it.
BelievesRightly ==
    \A a \in App : info[a] # 0 =>
        \/ info[a] > processed[a]
        \/ owner = <<a, info[a]>>
        \/ \E c \in clears[a] : IsMeant(a, c)
        \/ <<a, info[a]>> \in refused
        \/ Dying(a, WindowOf(a, info[a]))

\* No SelectionClear, however late, takes a claim from an application that has
\* it: who owns the selection at the server knows it, unless it has given the
\* selection up, or claimed it again, or destroyed the window, by a request of its
\* own, or will by that which ends the destruction of an outer window.  This is so
\* of the claims whose serial number an unsigned int can hold.
OwnerKnows ==
    \A a \in App, s \in Serial : owner = <<a, s>> /\ s < Word =>
        \/ info[a] = s
        \/ \E t \in s + 1 .. sent[a] : Ends(a, t, s)
        \/ /\ WindowOf(a, s) \in dead[a]
           /\ \E p \in Window : Dying(a, p) /\ WindowOf(a, s) \in Inside[p]

\* Each side has seen a beginning of what the other sent.
Counts ==
    \A a \in App :
        /\ processed[a] <= sent[a]
        /\ info[a] <= sent[a]
        /\ \A c \in clears[a] : c.serial <= processed[a]
        /\ \A s \in 1 .. sent[a] :
              /\ request[a][s] \in Request
              /\ request[a][s].op # "clear" => request[a][s].window \in Window
        /\ \A s \in Serial : owner = <<a, s>> =>
              s <= processed[a] /\ request[a][s].op = "own"

\* The claim an application knows is its latest, and its window is there; if it was
\* taken away, it is being destroyed.
InfoIsLatest ==
    \A a \in App : info[a] # 0 =>
        /\ request[a][info[a]].op = "own"
        /\ WindowOf(a, info[a]) \notin dead[a]
        /\ \A t \in info[a] + 1 .. sent[a] :
              /\ request[a][t].op = "destroy"
              /\ Takes(a, t, WindowOf(a, info[a])) =>
                    WindowOf(a, info[a]) \in alreadyDead[a]

\* A claim that is under way, or holds, is the one the application knows, unless
\* the application has claimed or cleared since, or its window is dead.
ClaimsAreKnown ==
    \A a \in App, s \in Serial :
        (/\ s <= sent[a] /\ s < Word
         /\ request[a][s].op = "own"
         /\ s > processed[a] \/ owner = <<a, s>>)
        => \/ info[a] = s
           \/ \E t \in s + 1 .. sent[a] : request[a][t].op # "destroy"
           \/ WindowOf(a, s) \in dead[a]

\* A dead window is destroyed by a request, or will be by that of an outer window.
DeadAreTaken ==
    \A a \in App : \A w \in dead[a] :
        \/ \E t \in 1 .. sent[a] : Takes(a, t, w)
        \/ \E p \in Window : Dying(a, p) /\ w \in Inside[p]

\* A window that owns the selection is there.
OwnerIsThere ==
    \A a \in App, s \in Serial : owner = <<a, s>> => ~ Gone(a, WindowOf(a, s))

\* What a SelectionClear tells of is older than the claim that holds.
ClearsAreOld ==
    \A a \in App, s \in Serial :
        owner = <<a, s>> => \A c \in clears[a] : c.serial < s

Inductive ==
    /\ TypeOK
    /\ Counts
    /\ InfoIsLatest
    /\ ClaimsAreKnown
    /\ DeadAreTaken
    /\ OwnerIsThere
    /\ ClearsAreOld
    /\ BelievesRightly

\* An application that loses the selection is told: the clearProc of the claim is
\* called, unless the same window claims again, or goes, before the news arrives.
LossIsTold ==
    \A a \in App, s \in Serial :
        (/\ info[a] = s /\ s <= processed[a]
         /\ owner # <<a, s>> /\ <<a, s>> \notin refused)
        ~> \/ s \in lost[a]
           \/ \E t \in s + 1 .. sent[a] : request[a][t].window = WindowOf(a, s)
           \/ s <= sent[a] /\ WindowOf(a, s) \in alreadyDead[a]

=============================================================================
