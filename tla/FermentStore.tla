----------------------------- MODULE FermentStore ---------------------------
(***************************************************************************)
(* What the rest of the program may assume of a stored ferment: one atomic *)
(* object.  It changes by one admitted command at a time, each applied to  *)
(* the ferment as it is at that moment, and by nothing else.               *)
(*                                                                         *)
(* FermentSession implements it although its handlers wait between looking *)
(* at the ferment and changing it; FermentDriver although its steps are    *)
(* chosen by the advisor and let through by the FSM; FermentLog although   *)
(* it stores a ferment twice, once as a document and once as events.       *)
(***************************************************************************)

CONSTANTS
    New,                \* a ferment that was just created
    Commands,           \* what can be asked of a ferment
    Admits(_, _),       \* whether a ferment takes a command
    ApplyCommand(_, _)  \* what it is then

VARIABLE ferment

Init == ferment = New

Mutate(c) == Admits(ferment, c) /\ ferment' = ApplyCommand(ferment, c)

Next == \E c \in Commands : Mutate(c)

Spec == Init /\ [][Next]_ferment
=============================================================================
