---------------------------- MODULE MCGpioLines ----------------------------
(* Bounds of TLC's run of the GPIO module. *)
EXTENDS GpioInductive

CONSTANTS
    calm    \* a bound: a line other processes leave alone, whose level only
            \* the gateway changes, to a value the page's own buttons post

Calm ==
    /\ level'[calm] # level[calm] \/ owner'[calm] = Other => req' # req
    /\ \A q \in Request : req'[q].kind = "set" /\ req'[q].line = calm => req'[q].value \in Level

MCSpec ==
    /\ Init /\ owner[calm] = None /\ level[calm] = 0
    /\ [][Next /\ Calm]_vars
    /\ Fairness
=============================================================================
