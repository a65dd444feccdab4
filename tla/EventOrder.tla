----------------------------- MODULE EventOrder -----------------------------
(***************************************************************************)
(* What the event queue of Tk::Event promises, without pointers: two       *)
(* sequences, the urgent events and the ordinary ones behind them.  An     *)
(* event put at the mark is the last of the urgent ones, so it is served   *)
(* after the marks before it and before everything ordinary; an event put  *)
(* at the tail is the last of all; an event put at the head is the first   *)
(* of all (it starts no urgent part of its own).  Any event may be taken   *)
(* out, which changes the order of no others.                              *)
(***************************************************************************)
EXTENDS SequencesExt

CONSTANT Event

VARIABLES urgent, ordinary

Init == urgent = <<>> /\ ordinary = <<>>

PutAtTail(e) ==
    /\ ordinary' = Append(ordinary, e)
    /\ UNCHANGED urgent

PutAtMark(e) ==
    /\ urgent' = Append(urgent, e)
    /\ UNCHANGED ordinary

PutAtHead(e) ==
    \/ /\ urgent # <<>>
       /\ urgent' = <<e>> \o urgent
       /\ UNCHANGED ordinary
    \/ /\ urgent = <<>>
       /\ ordinary' = <<e>> \o ordinary
       /\ UNCHANGED urgent

TakeUrgent(i) ==
    /\ urgent' = RemoveAt(urgent, i)
    /\ UNCHANGED ordinary

TakeOrdinary(i) ==
    /\ ordinary' = RemoveAt(ordinary, i)
    /\ UNCHANGED urgent

Next ==
    \/ \E e \in Event : PutAtTail(e) \/ PutAtMark(e) \/ PutAtHead(e)
    \/ \E i \in DOMAIN urgent : TakeUrgent(i)
    \/ \E i \in DOMAIN ordinary : TakeOrdinary(i)

Spec == Init /\ [][Next]_<<urgent, ordinary>>

=============================================================================
