----------------------------- MODULE DhcpRequest -----------------------------
(***************************************************************************)
(* What the "Apply Settings" button promises in DHCP mode, whatever runs   *)
(* behind it: a request is accepted only when none is pending, comes to    *)
(* one outcome, is answered once, with a status that says this outcome,    *)
(* and only then may the next be accepted.  The end of the program         *)
(* abandons a pending request and clears the status.                       *)
(***************************************************************************)

VARIABLES
    request,  \* "none", "pending", or the outcome "ok" or "err" not shown yet
    shown     \* the status on the screen

\* The status that tells of an outcome.
Says == [ok |-> "applied", err |-> "dhcpFailed"]

Init == request = "none" /\ shown = ""

Accept ==
    /\ request = "none" /\ request' = "pending"
    /\ shown' = "requesting"

ComesTo(outcome) ==
    /\ request = "pending" /\ request' = outcome
    /\ UNCHANGED shown

Answer ==
    /\ request \in {"ok", "err"} /\ request' = "none"
    /\ shown' = Says[request]

Abandon ==
    /\ request # "none" /\ request' = "none"
    /\ shown' = ""

\* The status is cleared by what the user does next, or tells what became of a
\* static configuration.  Nothing but an answer says that a request failed.
Elsewhere ==
    /\ shown' \in {"", "applied", "staticFailed"}
    /\ UNCHANGED request

Next ==
    \/ Accept \/ ComesTo("ok") \/ ComesTo("err") \/ Answer \/ Abandon
    \/ Elsewhere

Spec == Init /\ [][Next]_<<request, shown>>

FairSpec ==
    /\ Spec
    /\ WF_<<request, shown>>(ComesTo("ok") \/ ComesTo("err"))
    /\ WF_<<request, shown>>(Answer)
==============================================================================
