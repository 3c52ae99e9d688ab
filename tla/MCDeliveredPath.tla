--------------------------- MODULE MCDeliveredPath ---------------------------
(* A small instance of CommandPath for TLC, under fairness. *)
EXTENDS CommandPath

\* Two commands meet on a device that stays; one that leaves, or restarts,
\* meets one command.
OneAtFaults ==
    deviceFaults = 0 \/ \A c \in Command \ {1} : status[c] = "absent"
=============================================================================
