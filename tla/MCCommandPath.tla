--------------------------- MODULE MCCommandPath ---------------------------
(* A small instance of the server's queue for TLC, with and without a device.
   case, which never changes, says which a behaviour shows.

     "queue"  CommandQueue: the device sends whatever it likes
     "path"   CommandPath: one command, one flush beside the bridge's, and the
              device of CommandDevice                                       *)
EXTENDS CommandPath, TLC

CONSTANT Only  \* the worker of "path"

VARIABLE case

CaseInit == PathInit /\ case \in {"queue", "path"}

CaseNext ==
    /\ \/ case = "queue" /\ Next /\ UNCHANGED <<deviceVars, wire, replies, effects>>
       \/ /\ case = "path" /\ PathNext
          /\ \A c \in Command \ {1} : status'[c] = "absent"
          /\ \A w \in Worker \ {Only} : flusher'[w] = Idle
    /\ UNCHANGED case

CaseSpec == CaseInit /\ [][CaseNext]_<<pathVars, case>>

\* The flushes of requests are interchangeable.
WorkerSymmetry == Permutations(Worker)

\* DoneMeansExecuted: a command the server (mqtt-handlers.js) calls done was
\* executed by the device (mqtt.c), whatever was repeated, lost or restarted on
\* the way.
DeviceDoneMeansExecuted == case = "path" => DoneMeansExecuted
=============================================================================
