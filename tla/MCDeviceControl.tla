--------------------------- MODULE MCDeviceControl ---------------------------
(* TLC instances of DeviceControl with two relays.  Its devices:

     Cut       a sensor, two seconds, a loss of power at any step
     Skewed    a sensor, and clocks that differ or are set; nothing fails
     Unheard   a sensor, and what is published may be lost as well
     Faulty    no sensor, and the flash fails as well                       *)
EXTENDS DeviceControl

Cut     == [faults |-> {"power"}, fitted |-> TRUE, steady |-> TRUE]
Skewed  == [faults |-> {}, fitted |-> TRUE, steady |-> FALSE]
Unheard == [faults |-> {"power", "publish"}, fitted |-> TRUE, steady |-> TRUE]
Faulty  == [faults |-> FaultKind \ {"gpio"}, fitted |-> FALSE, steady |-> TRUE]

MCDevices == {Cut, Skewed, Unheard, Faulty}

(* What concerns the time between two jobs is asked before a factory reset, and
   the time passes on two of the devices *)
OneQuestionEach ==
    /\ device = Faulty \/ reset = "no"
    /\ device \in {Cut, Skewed} \/ clock = 0

(* A device without a sensor to which nothing happens *)
Untroubled == {[faults |-> {}, fitted |-> FALSE, steady |-> TRUE]}
=============================================================================
