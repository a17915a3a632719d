----------------------------- MODULE MCEngineLoop -----------------------------
(* Two sensors, with numbers that are those of the TERMINATE and              *)
(* THERMAL_ZONE_NOTIFY messages, and the pipe as it is: sixteen pages hold    *)
(* ten messages and the first page of an eleventh.                            *)
EXTENDS EngineLoop

MCOrder == <<1, 3>>

Asynchronous == [poll_interval_sec |-> 0, async |-> TRUE]

\* A fixed interval, and sensors that notify or not.
Polling == [poll_interval_sec |-> 2, async |-> FALSE]

AllConfigs == {Asynchronous, Polling}
=============================================================================
