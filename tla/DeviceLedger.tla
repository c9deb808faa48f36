---------------------------- MODULE DeviceLedger ----------------------------
(***************************************************************************)
(* What the session lock file promises, with every process of the helper   *)
(* abstracted away: a device is opened only while it is recorded, and      *)
(* recording it ends only when it is closed.  Whoever reads the record,    *)
(* after whatever crash, then finds every decrypted device in it.          *)
(***************************************************************************)

CONSTANT Device

VARIABLES
    recorded,   \* the devices some record names
    open        \* the devices that are decrypted

vars == <<recorded, open>>

Init ==
    /\ recorded = {}
    /\ open = {}

\* A device is recorded before anything opens it.
Record(d) ==
    /\ recorded' = recorded \union {d}
    /\ UNCHANGED open

Open(d) ==
    /\ d \in recorded
    /\ open' = open \union {d}
    /\ UNCHANGED recorded

\* Devices are closed, and some that are not open are no longer recorded.
Settle ==
    /\ open' \in SUBSET open
    /\ recorded' \in SUBSET recorded
    /\ open' \subseteq recorded'

Next ==
    \/ \E d \in Device : Record(d) \/ Open(d)
    \/ Settle

Spec == Init /\ [][Next]_vars

=============================================================================
