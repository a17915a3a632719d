------------------------------ MODULE MCDaemon ------------------------------
(* A process at a time, in the foreground with D-Bus and every engine, or   *)
(* in the background without; two kernel zones, the second is INT3400.      *)
EXTENDS Daemon

MCBoot == <<"step_wise", "fair_share">>

MCOptions ==
    {[daemonize |-> FALSE, dbus |-> TRUE, adaptive |-> TRUE, exclusive |-> TRUE],
     [daemonize |-> TRUE, dbus |-> FALSE, adaptive |-> FALSE, exclusive |-> TRUE]}
=============================================================================
