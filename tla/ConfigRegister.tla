--------------------------- MODULE ConfigRegister ---------------------------
(***************************************************************************)
(* What config.c promises to the handlers that edit flashConfig and call   *)
(* configSave: the flash behaves as one register that survives restarts.   *)
(* A save is not instantaneous, and it may fail; until it has returned     *)
(* true a restart may find the old or the new configuration, and from then *)
(* on it finds the new one.                                                *)
(***************************************************************************)
CONSTANTS Configs, Default

VARIABLES
    current,     \* flashConfig, the configuration in RAM
    restorable,  \* the configurations a restart may come up with
    phase        \* "off" until restored, then "idle" or "saving"

vars == <<current, restorable, phase>>

Init ==
    /\ current = Default
    /\ restorable = {Default}
    /\ phase = "off"

Restart ==
    /\ phase = "off"
    /\ current' \in restorable
    /\ restorable' = {current'}
    /\ phase' = "idle"

PowerLoss ==
    /\ phase # "off"
    /\ phase' = "off"
    /\ UNCHANGED <<current, restorable>>

Edit ==
    /\ phase = "idle"
    /\ current' \in Configs
    /\ UNCHANGED <<restorable, phase>>

BeginSave ==
    /\ phase = "idle"
    /\ phase' = "saving"
    /\ restorable' = restorable \cup {current}
    /\ UNCHANGED current

SaveReturnsTrue ==
    /\ phase = "saving"
    /\ phase' = "idle"
    /\ restorable' = {current}
    /\ UNCHANGED current

SaveReturnsFalse ==
    /\ phase = "saving"
    /\ phase' = "idle"
    /\ UNCHANGED <<current, restorable>>

Next ==
    \/ Restart \/ PowerLoss \/ Edit
    \/ BeginSave \/ SaveReturnsTrue \/ SaveReturnsFalse

Spec == Init /\ [][Next]_vars
=============================================================================
