----------------------------- MODULE PowerControl -----------------------------
(***************************************************************************)
(* What the System Management pane promises: the machine goes down only    *)
(* after the operator was asked, saw "No" as the answer on offer, moved to *)
(* "Yes" while the question stood, and gave it; and it goes down the way   *)
(* the question said.                                                      *)
(***************************************************************************)
EXTENDS Naturals

VARIABLES
    asked,    \* what the question on the screen is about, "nothing" if none is
    answer,   \* the answer on offer while a question stands
    ordered   \* the command the machine was given last

Orders == {"reboot", "poweroff"}

Init == asked = "nothing" /\ answer = "No" /\ ordered = "none"

Ask(o) ==
    /\ asked = "nothing"
    /\ asked' = o
    /\ answer' = "No"
    /\ UNCHANGED ordered

Turn ==
    /\ asked # "nothing"
    /\ answer' \in {"Yes", "No"}
    /\ UNCHANGED <<asked, ordered>>

Withdraw ==
    /\ asked' = "nothing"
    /\ answer' = "No"
    /\ UNCHANGED ordered

Execute ==
    /\ asked \in Orders
    /\ answer = "Yes"
    /\ ordered' = asked
    /\ UNCHANGED <<asked, answer>>

\* The program starts again: no question stands, and no order is outstanding.
Restart == asked' = "nothing" /\ answer' = "No" /\ ordered' = "none"

Next == (\E o \in Orders : Ask(o)) \/ Turn \/ Withdraw \/ Execute \/ Restart

Spec == Init /\ [][Next]_<<asked, answer, ordered>>
===============================================================================
