-------------------------- MODULE MCBleProvisioning -------------------------
(* A small instance of BleProvisioning: two networks, of which the access point
   accepts one. *)
EXTENDS BleProvisioning

CONSTANTS s1, s2, p1

MCSsids == {s1, s2}
MCPasswords == {p1}
MCCredentials == MCSsids \X MCPasswords
MCAccepted == {<<s1, p1>>}

\* No task uses an event group that another has deleted, and what the groups
\* say when every event has been handled is true (wifi.c, ble_prov.c).
EventGroupsHold == NoHandleToDeleted /\ ConnectedMeansUp
=============================================================================
