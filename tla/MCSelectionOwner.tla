-------------------------- MODULE MCSelectionOwner --------------------------
(***************************************************************************)
(* An instance of SelectionOwner: a toplevel and a window in it.           *)
(***************************************************************************)
EXTENDS SelectionOwner

CONSTANTS top, child

MCInside == [w \in Window |-> IF w = top THEN {child} ELSE {}]

=============================================================================
