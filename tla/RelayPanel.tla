----------------------------- MODULE RelayPanel -----------------------------
(* What relay.c and device_mode.c promise together: the relays move one at a
   time and only while the mode is on, the mode goes off only once every relay
   is off, and a start-up never shows an energised relay behind an off mode. *)
EXTENDS Naturals

CONSTANT Channels       \* RELAY_CHANNEL_COUNT

VARIABLES up, on, relays

panelVars == <<up, on, relays>>

Channel == 1..Channels

AllOff == [c \in Channel |-> FALSE]

Init == ~up /\ ~on /\ relays = AllOff

Switch(c) ==
    /\ up /\ on
    /\ relays' = [relays EXCEPT ![c] = ~@]
    /\ UNCHANGED <<up, on>>

TurnOff == up /\ on /\ relays = AllOff /\ on' = FALSE /\ UNCHANGED <<up, relays>>

TurnOn == up /\ ~on /\ on' = TRUE /\ UNCHANGED <<up, relays>>

Start ==
    /\ ~up /\ up'
    /\ on' \in BOOLEAN
    /\ relays' \in [Channel -> BOOLEAN]
    /\ on' \/ relays' = AllOff

Stop == up /\ ~up' /\ ~on' /\ relays' = AllOff

Next == (\E c \in Channel : Switch(c)) \/ TurnOff \/ TurnOn \/ Start \/ Stop

Spec == Init /\ [][Next]_panelVars
=============================================================================
