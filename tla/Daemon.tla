------------------------------- MODULE Daemon -------------------------------
(***************************************************************************)
(* The life of a thermald process (main.cpp): its lock, the choice of an   *)
(* engine, the start of the engine's thread, the calls of the D-Bus        *)
(* interface that reach the engine as a whole, termination, and what the   *)
(* process leaves behind when it dies: the preference files and the        *)
(* policies of the kernel's zones, which the engine takes over and gives   *)
(* up by their position in /sys/class/thermal.                             *)
(*                                                                         *)
(* Two threads: the main thread is at pc, the engine's thread handles one  *)
(* message of the pipe at a time. The loop of that thread is the subject   *)
(* of EngineLoop; here it only runs, is deaf (a disabled daemon whose      *)
(* poll() keeps timing out never gets to the pipe) or has ended.           *)
(***************************************************************************)
EXTENDS Integers, Sequences, FiniteSetsExt

CONSTANTS
    Instances,   \* slots for processes
    Options,     \* the [daemonize, dbus, adaptive, exclusive] a process may get
    KZones,      \* number of zones in /sys/class/thermal, in directory order
    Int3400,     \* the position of the zone of type INT3400, 0 for none
    Policies,    \* the governors of the kernel
    Boot,        \* the policies the zones have before any process ran
    Unreadable,  \* the sets of zones whose policy may be unreadable
    MaxCalls     \* bound on the D-Bus calls one process serves

ASSUME OptionAssumption ==
    Options \subseteq [daemonize : BOOLEAN, dbus : BOOLEAN, adaptive : BOOLEAN, exclusive : BOOLEAN]
ASSUME ZoneAssumption == KZones \in Nat \ {0} /\ Int3400 \in 0 .. KZones
ASSUME PolicyAssumption ==
    "user_space" \in Policies /\ Boot \in [1 .. KZones -> Policies] /\ {} \in Unreadable

VARIABLES
    policy,    \* policy of every kernel zone
    mode,      \* mode of the INT3400 zone
    uuid,      \* the INT3400 policy in force
    conf,      \* thd_preference.conf: "none", "empty" or a preference
    path,      \* inode of the lock file, 0 for none
    proc,      \* what every process is doing
    engine     \* the engine of every process

kernel == <<policy, mode, uuid>>
vars == <<kernel, conf, path, proc, engine>>

Zones == 1 .. KZones
Preferences == {"ENERGY_CONSERVE", "PERFORMANCE", "DISABLE"}
Inodes == 1 .. 2 * Cardinality(Instances) + 1

NoEngine == [exclusive |-> FALSE, status |-> FALSE, preference |-> "none",
             thd_pref |-> "none", zone_preferences |-> << >>, pipe |-> << >>,
             thread |-> "none", skipped |-> FALSE, lost |-> FALSE]

\* inode: the one opened; locked: the process has the lock on it; calls: D-Bus
\* calls served; next: the preference being set. Two history variables: found, the
\* policies the engine found when it was started, and reader, what its thread was
\* doing when they were given back.
NoProcess == [pc |-> "off", options |-> "none", inode |-> 0, locked |-> FALSE, calls |-> 0,
              next |-> "none", found |-> << >>, reader |-> "none"]

Init ==
    /\ policy = Boot /\ mode = "disabled" /\ uuid = "found"
    /\ conf \in {"none", "PERFORMANCE"} /\ path = 0
    /\ proc = [i \in Instances |-> NoProcess] /\ engine = [i \in Instances |-> NoEngine]

Put(v, i, value) == [v EXCEPT ![i] = value]

-----------------------------------------------------------------------------
(* The preference file.                                                    *)

\* Extraction from an empty file leaves the value alone.
refresh(file, old) ==
    IF file = "none" THEN "ENERGY_CONSERVE" ELSE IF file = "empty" THEN old ELSE file

NewEngine(exclusive) ==
    [exclusive |-> exclusive, status |-> TRUE, preference |-> "ENERGY_CONSERVE",
     thd_pref |-> refresh(conf, "ENERGY_CONSERVE"), zone_preferences |-> << >>, pipe |-> << >>,
     thread |-> "none", skipped |-> FALSE, lost |-> FALSE]

-----------------------------------------------------------------------------
(* The kernel's zones, in the order of the directory.                      *)

\* Mutant: the policies found last are the ones to restore.
RecordedLast(prefs, found) == found

\* Every take-over appends what it finds.
Recorded(prefs, found) == prefs \o found

\* The policy is chosen in the INT3400 device, when there is one.
set_default_uuid == uuid' = IF Int3400 # 0 THEN "set" ELSE uuid

\* set_default_uuid, then every zone whose policy can be read. bad are the
\* zones whose policy cannot.
takeover_thermal_control(e, bad) ==
    /\ set_default_uuid
    /\ policy' = [z \in Zones |-> IF z \in bad THEN policy[z] ELSE "user_space"]
    /\ mode' = IF Int3400 # 0 THEN "enabled" ELSE mode

\* The k-th of the zones whose policy can be read.
Readable(bad, k) ==
    CHOOSE z \in Zones \ bad : Cardinality({y \in Zones \ bad : y <= z}) = k

TakenOver(e, bad) ==
    LET found == [k \in 1 .. Cardinality(Zones \ bad) |-> policy[Readable(bad, k)]]
    IN  [e EXCEPT !.zone_preferences = Recorded(@, found), !.skipped = @ \/ bad # {}]

\* A policy beyond the end of the vector is any string: the kernel takes it
\* for one of its governors or leaves the zone alone.
giveup_thermal_control(e) ==
    IF ~e.exclusive \/ e.zone_preferences = << >> THEN UNCHANGED kernel
    ELSE /\ policy' \in {p \in [Zones -> Policies] : \A z \in Zones :
                           z <= Len(e.zone_preferences) => p[z] = e.zone_preferences[z]}
         /\ mode' = IF Int3400 # 0 THEN "disabled" ELSE mode
         /\ uuid' = uuid

-----------------------------------------------------------------------------
(* From the start of the process to its main loop.                         *)

\* check_thermald_running opens the lock file, creating it if there is none;
\* a process that cannot open it goes on without a lock.
OpenLock(i, options) ==
    /\ proc[i].pc = "off"
    /\ \/ /\ path' = IF path # 0 THEN path
                     ELSE Min(Inodes \ {proc[j].inode : j \in Instances})
          /\ proc' = Put(proc, i, [NoProcess EXCEPT !.pc = "lock", !.options = options, !.inode = path'])
       \/ /\ proc' = Put(proc, i, [NoProcess EXCEPT !.pc = "daemon", !.options = options])
          /\ path' = path
    /\ UNCHANGED <<kernel, conf, engine>>

Lock(i) ==
    /\ proc[i].pc = "lock"
    /\ proc' = Put(proc, i, IF \E j \in Instances : proc[j].locked /\ proc[j].inode = proc[i].inode
                            THEN NoProcess
                            ELSE [proc[i] EXCEPT !.pc = "daemon", !.locked = TRUE])
    /\ UNCHANGED <<kernel, conf, path, engine>>

\* daemon() forks, and a record lock is not inherited by the child; when it
\* fails, main ends.
Daemonize(i) ==
    /\ proc[i].pc = "daemon"
    /\ \/ proc' = Put(proc, i, [proc[i] EXCEPT !.pc = IF proc[i].options.adaptive THEN "adaptive" ELSE "default",
                                               !.locked = @ /\ ~proc[i].options.daemonize])
       \/ /\ proc[i].options.daemonize
          /\ proc' = Put(proc, i, [proc[i] EXCEPT !.pc = "close"])
    /\ UNCHANGED <<kernel, conf, path, engine>>

\* An engine that came up: its thread runs before thd_engine_start is over.
ThreadCreated(i, e) ==
    /\ engine' = Put(engine, i, [e EXCEPT !.thread = "run"])
    /\ proc' = Put(proc, i, [proc[i] EXCEPT !.pc = "start"])
    /\ UNCHANGED <<kernel, conf, path>>

\* The adaptive engine takes exclusive control when the firmware has
\* conditions; when it cannot be used the default engine is tried.
thd_engine_create_adaptive_engine(i) ==
    /\ proc[i].pc = "adaptive"
    /\ \/ \E conditions \in BOOLEAN : ThreadCreated(i, NewEngine(conditions))
       \/ /\ proc' = Put(proc, i, [proc[i] EXCEPT !.pc = "default"])
          /\ engine' = Put(engine, i, NewEngine(FALSE))
          /\ UNCHANGED <<kernel, conf, path>>

\* The default engine comes up, or main ends: clean_up_lockfile.
thd_engine_create_default_engine(i) ==
    /\ proc[i].pc = "default"
    /\ \/ ThreadCreated(i, NewEngine(proc[i].options.exclusive))
       \/ /\ engine' = Put(engine, i, NoEngine)
          /\ proc' = Put(proc, i, [proc[i] EXCEPT !.pc = "close"])
          /\ UNCHANGED <<kernel, conf, path>>

\* The rest of thd_engine_start. bad: the policies that cannot be read.
thd_engine_start(i, bad) ==
    LET e == [engine[i] EXCEPT !.thd_pref = refresh(conf, @), !.preference = refresh(conf, engine[i].thd_pref)]
    IN  /\ proc[i].pc = "start"
        /\ bad = {} \/ e.exclusive
        /\ proc' = Put(proc, i, [proc[i] EXCEPT !.pc = "serve", !.found = policy])
        /\ IF e.exclusive
           THEN takeover_thermal_control(e, bad) /\ engine' = Put(engine, i, TakenOver(e, bad))
           ELSE UNCHANGED kernel /\ engine' = Put(engine, i, e)
        /\ UNCHANGED <<conf, path>>

-----------------------------------------------------------------------------
(* The engine's thread.                                                    *)

HasThread(e) == e.thread \in {"run", "deaf"}

\* The engine after process_pref_change has read new_pref.
Applied(e, new_pref) ==
    IF new_pref = "DISABLE" THEN [e EXCEPT !.thd_pref = new_pref, !.status = FALSE]
    ELSE [e EXCEPT !.thd_pref = new_pref, !.status = TRUE, !.preference = new_pref]

process_pref_change(i, bad) ==
    LET e == Applied([engine[i] EXCEPT !.pipe = Tail(@)], refresh(conf, engine[i].thd_pref))
    IN  IF e.status /\ e.exclusive
        THEN takeover_thermal_control(e, bad) /\ engine' = Put(engine, i, TakenOver(e, bad))
        ELSE bad = {} /\ UNCHANGED kernel /\ engine' = Put(engine, i, e)

proc_message(i, bad) ==
    /\ engine[i].thread = "run" /\ engine[i].pipe # << >>
    /\ IF Head(engine[i].pipe) = "TERMINATE"
       THEN /\ bad = {} /\ UNCHANGED kernel
            /\ engine' = Put(engine, i, [engine[i] EXCEPT !.pipe = Tail(@), !.thread = "end"])
       ELSE process_pref_change(i, bad)
    /\ UNCHANGED <<conf, path, proc>>

\* A disabled daemon's poll() times out: from now on it always seems due, and
\* the loop goes back to poll() before it looks at the pipe.
Deafen(i) ==
    /\ engine[i].thread = "run" /\ ~engine[i].status
    /\ engine' = Put(engine, i, [engine[i] EXCEPT !.thread = "deaf"])
    /\ UNCHANGED <<kernel, conf, path, proc>>

-----------------------------------------------------------------------------
(* Calls of the D-Bus interface, in the main thread.                       *)

\* The pipe does not block: a write fails while it is full (also of messages that
\* EngineLoop models), which is logged and nothing else. lost, a history variable,
\* tells that the engine was not told of a change.
Sent(e, m) ==
    IF HasThread(e)
    THEN {[e EXCEPT !.pipe = Append(@, m)], [e EXCEPT !.lost = @ \/ m = "PREF_CHANGED"]}
    ELSE {e}

\* The message reaches the engine of process i, or is lost.
send_message(i, m) == \E e \in Sent(engine[i], m) : engine' = Put(engine, i, e)

\* The call is over: the engine is told, whatever came of it.
Notified(i) ==
    /\ send_message(i, "PREF_CHANGED")
    /\ proc' = Put(proc, i, [proc[i] EXCEPT !.pc = "serve", !.next = "none"])

\* SetCurrentPreference: an unknown name is rejected, a known one goes to the
\* truncated file unless that cannot be opened.
set_current_preference(i, p) ==
    /\ proc[i].pc = "serve" /\ proc[i].options.dbus /\ proc[i].calls < MaxCalls
    /\ \/ /\ p \in Preferences
          /\ conf' = "empty"
          /\ proc' = Put(proc, i, [proc[i] EXCEPT !.pc = "write", !.calls = @ + 1, !.next = p])
          /\ engine' = engine
       \/ /\ send_message(i, "PREF_CHANGED")
          /\ proc' = Put(proc, i, [proc[i] EXCEPT !.calls = @ + 1])
          /\ conf' = conf
    /\ UNCHANGED <<kernel, path>>

\* write() to the file, which may fail.
WritePreference(i) ==
    /\ proc[i].pc = "write"
    /\ \/ /\ conf' = proc[i].next
          /\ proc' = Put(proc, i, [proc[i] EXCEPT !.pc = "save"])
          /\ engine' = engine
       \/ conf' = conf /\ Notified(i)
    /\ UNCHANGED <<kernel, path>>

\* Mutant: a save file that cannot be written ends the call.
SavePreferenceSilent(i) ==
    /\ proc[i].pc = "save"
    /\ \/ Notified(i)
       \/ /\ proc' = Put(proc, i, [proc[i] EXCEPT !.pc = "serve", !.next = "none"])
          /\ engine' = engine
    /\ UNCHANGED <<kernel, conf, path>>

\* The value before goes to a save file that nothing reads; when that fails the
\* call is reported to have failed, although the preference has changed.
SavePreference(i) ==
    /\ proc[i].pc = "save"
    /\ Notified(i)
    /\ UNCHANGED <<kernel, conf, path>>

\* SetUserMaxTemperature, SetUserPassiveTemperature: a file of the zone, then
\* the message. An unknown zone or a file that cannot be written ends the call.
set_user_temperature(i) ==
    /\ proc[i].pc = "serve" /\ proc[i].options.dbus /\ proc[i].calls < MaxCalls
    /\ proc' = Put(proc, i, [proc[i] EXCEPT !.calls = @ + 1])
    /\ engine' = engine \/ send_message(i, "PREF_CHANGED")
    /\ UNCHANGED <<kernel, conf, path>>

-----------------------------------------------------------------------------
(* The end of an engine and of the process.                                *)

\* thd_engine_terminate sends its message and sleeps for a second. Nobody waits for
\* the thread: it may read the message in that time, later or never.
Terminating(i, then) ==
    /\ send_message(i, "TERMINATE")
    /\ proc' = Put(proc, i, [proc[i] EXCEPT !.pc = then])
    /\ UNCHANGED <<kernel, conf, path>>

\* sig_int_handler, installed unless the process has put itself in the
\* background.
Signal(i) == proc[i].pc = "serve" /\ ~proc[i].options.daemonize /\ Terminating(i, "quit")

Terminate(i) == proc[i].pc = "serve" /\ proc[i].options.dbus /\ Terminating(i, "exit_callback")

Reinit(i) ==
    /\ proc[i].pc = "serve" /\ proc[i].options.dbus /\ proc[i].calls < MaxCalls
    /\ Terminating(i, "reinit")

\* After the sleep thd_engine_terminate gives up the zones; its callers sleep
\* again before they free the engine.
process_terminate(i) ==
    /\ proc[i].pc \in {"quit", "reinit"}
    /\ giveup_thermal_control(engine[i])
    /\ proc' = Put(proc, i, [proc[i] EXCEPT !.pc = IF @ = "quit" THEN "free" ELSE "renew",
                                           !.reader = engine[i].thread])
    /\ UNCHANGED <<conf, path, engine>>

\* Terminate calls sig_int_handler, which terminates the engine once more.
ExitCallback(i) ==
    /\ proc[i].pc = "exit_callback"
    /\ giveup_thermal_control(engine[i])
    /\ send_message(i, "TERMINATE")
    /\ proc' = Put(proc, i, [proc[i] EXCEPT !.pc = "quit"])
    /\ UNCHANGED <<conf, path>>

\* Mutant: the thread is waited for.
QuitJoined(i) ==
    /\ proc[i].pc = "free" /\ ~HasThread(engine[i])
    /\ engine' = Put(engine, i, NoEngine)
    /\ proc' = Put(proc, i, [proc[i] EXCEPT !.pc = "close"])
    /\ UNCHANGED <<kernel, conf, path>>

\* The engine is freed, whether its thread has ended or not. One that has not works
\* on freed memory until the process is gone; the model does not follow it.
Quit(i) ==
    /\ proc[i].pc = "free"
    /\ engine' = Put(engine, i, NoEngine)
    /\ proc' = Put(proc, i, [proc[i] EXCEPT !.pc = "close"])
    /\ UNCHANGED <<kernel, conf, path>>

\* clean_up_lockfile: closing the file drops the lock, then the name goes.
CloseLock(i) ==
    /\ proc[i].pc = "close"
    /\ proc' = Put(proc, i, IF proc[i].inode = 0 THEN NoProcess
                            ELSE [proc[i] EXCEPT !.pc = "unlink", !.locked = FALSE])
    /\ UNCHANGED <<kernel, conf, path, engine>>

Unlink(i) ==
    /\ proc[i].pc = "unlink"
    /\ path' = 0
    /\ proc' = Put(proc, i, NoProcess)
    /\ UNCHANGED <<kernel, conf, engine>>

\* The default engine takes the place of the one there was. When it does not
\* come up the process goes on with an engine that has no thread. A thread of
\* the old engine that has not ended works on freed memory: anything may follow,
\* and the model ends the process there.
Restart(i) ==
    LET e == NewEngine(engine[i].exclusive)
    IN  /\ proc[i].pc = "renew"
        /\ IF HasThread(engine[i])
           THEN /\ proc' = Put(proc, i, [proc[i] EXCEPT !.pc = "undefined"])
                /\ engine' = Put(engine, i, NoEngine)
           ELSE \/ /\ proc' = Put(proc, i, [proc[i] EXCEPT !.pc = "start", !.calls = @ + 1,
                                                           !.reader = "none"])
                   /\ engine' = Put(engine, i, [e EXCEPT !.thread = "run"])
                \/ /\ proc' = Put(proc, i, [proc[i] EXCEPT !.pc = "serve", !.calls = @ + 1,
                                                           !.reader = "none", !.found = policy])
                   /\ engine' = Put(engine, i, e)
        /\ UNCHANGED <<kernel, conf, path>>

\* SIGKILL, SIGTERM in the background, a crash (also after a use of freed
\* memory), or exit() in thd_dbus_on_name_lost: nothing is cleaned up but what
\* the kernel releases.
Die(i) ==
    /\ proc[i].pc # "off"
    /\ proc' = Put(proc, i, NoProcess)
    /\ engine' = Put(engine, i, NoEngine)
    /\ UNCHANGED <<kernel, conf, path>>

-----------------------------------------------------------------------------

Main(i) ==
    \/ Lock(i)
    \/ Daemonize(i)
    \/ thd_engine_create_adaptive_engine(i)
    \/ thd_engine_create_default_engine(i)
    \/ \E bad \in Unreadable : thd_engine_start(i, bad)
    \/ WritePreference(i)
    \/ SavePreference(i)
    \/ ExitCallback(i)
    \/ process_terminate(i)
    \/ Quit(i)
    \/ CloseLock(i)
    \/ Unlink(i)
    \/ Restart(i)

Thread(i) ==
    \/ \E bad \in Unreadable : proc_message(i, bad)
    \/ Deafen(i)

World(i) ==
    \/ \E options \in Options : OpenLock(i, options)
    \/ \E p \in Preferences \cup {"unknown"} : set_current_preference(i, p)
    \/ set_user_temperature(i)
    \/ Signal(i)
    \/ Terminate(i)
    \/ Reinit(i)
    \/ Die(i)

Next == \E i \in Instances : Main(i) \/ Thread(i) \/ World(i)

Spec == Init /\ [][Next]_vars

\* The main thread goes on between its calls. Nothing is assumed of the engine's.
FairSpec == Spec /\ \A i \in Instances : WF_proc(Main(i))

-----------------------------------------------------------------------------

\* The preference the engine has read last: process_pref_change keeps DISABLE
\* in status, thd_engine_start in preference.
InForce(e) == IF e.status THEN e.preference ELSE "DISABLE"

\* Whatever fails on the way (thd_preference.cpp), an engine that has read its
\* messages acts on the preference the file holds, unless the file is empty or a
\* message to the engine was lost.
PreferenceInForce ==
    \A i \in Instances :
        /\ proc[i].pc = "serve" /\ HasThread(engine[i])
        /\ engine[i].pipe = << >> /\ ~engine[i].lost
        => conf = "empty" \/ InForce(engine[i]) = refresh(conf, "none")

\* Giving up leaves the kernel's zones with the policies the engine found, whatever
\* number of take-overs came before it, also between two give-ups of one termination,
\* as long as every policy could be read (giveup_thermal_control goes by position).
\* They stay like this until the engine is freed if its thread had ended, or was
\* deaf, by then; one that still reads its pipe can take the zones over again.
PoliciesRestored ==
    [][\A i \in Instances : ~engine[i].skipped =>
          /\ ExitCallback(i) \/ process_terminate(i) => policy' = proc[i].found
          /\ (Quit(i) \/ Restart(i)) /\ proc[i].reader # "run" => policy = proc[i].found]_vars

\* A request to terminate ends the process, whatever the engine's thread does.
TerminationCompletes ==
    \A i \in Instances : proc[i].pc \in {"exit_callback", "quit"} ~> proc[i].pc = "off"
=============================================================================
