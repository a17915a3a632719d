------------------------------ MODULE EngineLoop ------------------------------
(***************************************************************************)
(* The engine thread (thd_engine.cpp): its poll() loop, the pipe other     *)
(* threads and the zones use to send it messages, and the polling interval *)
(* the messages control. Of a zone only the polling trip of each sensor is *)
(* kept: whether the sensor is above it, and whether the trip is on.       *)
(* The other threads interleave between any two steps of the loop.         *)
(***************************************************************************)
EXTENDS Integers, Sequences, FiniteSetsExt, Functions

CONSTANTS
    SensorOrder,       \* the ids of the sensors, as the zones are read
    Configs,           \* the [poll_interval_sec, async] the daemon may start with
    PipePages,         \* 16: the pages a pipe can hold
    MaxEvents,         \* bound on the kernel events that wait
    MaxCalls           \* bound on the calls other threads make

Sensors == Range(SensorOrder)

ASSUME SensorAssumption == SensorOrder \in Seq(Nat)
ASSUME ConfigAssumption == Configs \subseteq [poll_interval_sec : Nat, async : BOOLEAN]
ASSUME PipeAssumption == PipePages \in Nat \ {0}

VARIABLES
    poll_interval_sec, \* 0, or the interval given by option or configuration
    async,        \* every sensor can notify asynchronously
    hot,          \* sensors at or above their polling trip
    poll_on,      \* sensors whose polling trip is on
    pipe,         \* [data, the pieces in it; lost, history: some write was cut off]
    poll_sensor_mask, fast_poll_sensor_mask,
    poll_timeout, \* poll_timeout_msec in seconds, -1 for none
    saved_poll_interval,
    status,
    file,         \* the preference in the preference file
    terminate,
    pc,           \* where the thread is in its loop
    revents,      \* what the last poll() reported
    uevents,      \* number of kernel events waiting
    since_temp,   \* seconds since thz_last_temp_ind_time
    since_uevent, \* seconds since thz_last_uevent_time
    calls         \* calls made by other threads so far

masks == <<poll_sensor_mask, fast_poll_sensor_mask, poll_timeout, saved_poll_interval>>
clocks == <<since_temp, since_uevent>>
options == <<poll_interval_sec, async>>
vars == <<options, hot, poll_on, pipe, masks, status, file, terminate, pc, revents, uevents, clocks, calls>>

-----------------------------------------------------------------------------
(* The pipe. A message_capsul_t is one word (of 8 bytes) longer than a     *)
(* page: the identity, the sensor, and zeros. The kernel keeps what was    *)
(* written in pages and puts the odd word of a message into the last page  *)
(* when that has room. A write that does not fit is cut off between pages. *)

WAKEUP == 0
TERMINATE == 1
PREF_CHANGED == 2
THERMAL_ZONE_NOTIFY == 3
RELOAD_ZONES == 4
POLL_ENABLE == 5
POLL_DISABLE == 6
FAST_POLL_ENABLE == 7
FAST_POLL_DISABLE == 8

PageWords == 512

MessageWords == PageWords + 1

Message(id, s) == [msg_id |-> id, sensor |-> s]

\* Word k of a message, as a number.
Word(m, k) == IF k = 0 THEN m.msg_id ELSE IF k = 1 THEN m.sensor ELSE 0

\* Words from .. to - 1 of message m, in a page filled up to word at.
Piece(m, from, to, at) == [m |-> m, from |-> from, to |-> to, at |-> at]

Words(piece) == piece.to - piece.from

\* The pieces of which one begins a page.
PageStarts(data) == {k \in DOMAIN data : k = 1 \/ data[k].at = Words(data[k])}

\* Message m as it is laid out behind data.
Laid(data, m) ==
    LET n == Len(data)
    IN  data \o (IF n > 0 /\ data[n].at < PageWords
                 THEN <<Piece(m, 0, 1, data[n].at + 1), Piece(m, 1, MessageWords, PageWords)>>
                 ELSE <<Piece(m, 0, PageWords, PageWords), Piece(m, PageWords, MessageWords, 1)>>)

\* write() to the non-blocking pipe: a short or failed write is not repeated.
send_message(p, m) ==
    LET laid == Laid(p.data, m)
        fits == Max({k \in Len(p.data) .. Len(laid) :
                       Cardinality(PageStarts(SubSeq(laid, 1, k))) <= PipePages})
    IN  [data |-> SubSeq(laid, 1, fits), lost |-> p.lost \/ fits < Len(laid)]

\* read() of a message's length: its first two words, whatever they are of. A
\* pipe with one word leaves the sensor as it was on the stack.
ReadMessages(data) ==
    LET second == IF Words(data[1]) > 1 THEN {Word(data[1].m, data[1].from + 1)}
                  ELSE IF Len(data) > 1 THEN {Word(data[2].m, data[2].from)}
                  ELSE Sensors
    IN  {Message(Word(data[1].m, data[1].from), w) : w \in second}

\* The pipe after the read.
Unread(p) ==
    LET upTo[k \in 0 .. Len(p.data)] == IF k = 0 THEN 0 ELSE upTo[k - 1] + Words(p.data[k])
        left == {k \in DOMAIN p.data : upTo[k] > MessageWords}
        k    == Min(left)
        rest == <<[p.data[k] EXCEPT !.from = @ + MessageWords - upTo[k - 1]]>>
                \o SubSeq(p.data, k + 1, Len(p.data))
    IN  [p EXCEPT !.data = IF left = {} THEN << >> ELSE rest]

-----------------------------------------------------------------------------
(* A pass over the zones: the polling trip of each sensor is shown whether *)
(* the sensor is above it, and sends two messages when it switches.        *)

\* Mutant: fast polling is never switched off.
CheckSensorHalf(acc, s, above) ==
    IF s \in above /\ s \notin acc.on
    THEN [on   |-> acc.on \cup {s},
          pipe |-> send_message(send_message(acc.pipe, Message(POLL_ENABLE, s)),
                                Message(FAST_POLL_ENABLE, s))]
    ELSE IF s \notin above /\ s \in acc.on
    THEN [on   |-> acc.on \ {s},
          pipe |-> send_message(acc.pipe, Message(POLL_DISABLE, s))]
    ELSE acc

CheckSensor(acc, s, above) ==
    IF s \in above /\ s \notin acc.on
    THEN [on   |-> acc.on \cup {s},
          pipe |-> send_message(send_message(acc.pipe, Message(POLL_ENABLE, s)),
                                Message(FAST_POLL_ENABLE, s))]
    ELSE IF s \notin above /\ s \in acc.on
    THEN [on   |-> acc.on \ {s},
          pipe |-> send_message(send_message(acc.pipe, Message(POLL_DISABLE, s)),
                                Message(FAST_POLL_DISABLE, s))]
    ELSE acc

ReadZones(acc, above) ==
    LET after[k \in 0 .. Len(SensorOrder)] ==
            IF k = 0 THEN acc ELSE CheckSensor(after[k - 1], SensorOrder[k], above)
    IN  after[Len(SensorOrder)]

ReadAllZones == ReadZones([on |-> poll_on, pipe |-> pipe], hot)

-----------------------------------------------------------------------------

def_poll_interval == 4

thz_notify_debounce_interval == 3

\* thd_engine_start
BootTimeout ==
    IF poll_interval_sec # 0 THEN poll_interval_sec
    ELSE IF async THEN -1 ELSE def_poll_interval

\* Mutant: no timeout counts as a second.
poll_timeout_secUp == IF BootTimeout = -1 THEN 1 ELSE BootTimeout

\* The thread's poll_timeout_sec, computed once: -1 milliseconds are 0 s.
poll_timeout_sec == IF BootTimeout = -1 THEN 0 ELSE BootTimeout

Init ==
    /\ \E conf \in Configs : poll_interval_sec = conf.poll_interval_sec /\ async = conf.async
    /\ hot = {} /\ poll_on = {} /\ pipe = [data |-> << >>, lost |-> FALSE]
    /\ poll_sensor_mask = {} /\ fast_poll_sensor_mask = {}
    /\ poll_timeout = BootTimeout /\ saved_poll_interval = 0
    /\ status = TRUE /\ file = "ENABLED" /\ terminate = FALSE
    /\ pc = "poll" /\ revents = {} /\ uevents = 0
    /\ since_temp = poll_timeout_sec /\ since_uevent = thz_notify_debounce_interval
    /\ calls = 0

-----------------------------------------------------------------------------
(* The loop of thd_engine_thread, from one poll() to the next.             *)

Later(clock, seconds, bound) == IF clock + seconds > bound THEN bound ELSE clock + seconds

\* poll() returns after dt seconds, on its timeout or on an event.
Poll(dt) ==
    /\ pc = "poll" /\ ~terminate
    /\ revents' = (IF uevents > 0 THEN {"uevent"} ELSE {}) \cup (IF pipe.data # << >> THEN {"wakeup"} ELSE {})
    /\ \/ revents' = {} /\ poll_timeout # -1 /\ dt = poll_timeout
       \/ revents' # {} /\ (poll_timeout = -1 \/ dt < poll_timeout)
    /\ pc' = "temp"
    /\ since_temp' = Later(since_temp, dt, poll_timeout_sec)
    /\ since_uevent' = Later(since_uevent, dt, thz_notify_debounce_interval)
    /\ UNCHANGED <<options, hot, poll_on, pipe, masks, status, file, terminate, uevents, calls>>

\* A disabled daemon goes back to poll() without looking at its events.
PollTemp ==
    LET due == revents = {} \/ since_temp >= poll_timeout_sec
    IN  /\ pc = "temp"
        /\ pc' = IF due /\ ~status THEN "poll" ELSE "uevent"
        /\ IF due /\ status
           THEN /\ poll_on' = ReadAllZones.on
                /\ pipe' = ReadAllZones.pipe
                /\ since_temp' = 0
           ELSE UNCHANGED <<poll_on, pipe, since_temp>>
        /\ UNCHANGED <<options, hot, masks, status, file, terminate, revents, uevents, since_uevent, calls>>

\* Events that come in a burst are ignored, and keep the next one ignored.
PollUevent ==
    /\ pc = "uevent"
    /\ pc' = "wakeup"
    /\ IF "uevent" \in revents
       THEN /\ uevents' = uevents - 1
            /\ since_uevent' = 0
            /\ IF since_uevent >= thz_notify_debounce_interval
               THEN poll_on' = ReadAllZones.on /\ pipe' = ReadAllZones.pipe
               ELSE UNCHANGED <<poll_on, pipe>>
       ELSE UNCHANGED <<poll_on, pipe, uevents, since_uevent>>
    /\ UNCHANGED <<options, hot, masks, status, file, terminate, revents, since_temp, calls>>

poll_enable(s) ==
    /\ poll_sensor_mask' = poll_sensor_mask \cup {s}
    /\ poll_timeout' = def_poll_interval
    /\ UNCHANGED <<fast_poll_sensor_mask, saved_poll_interval>>

\* Mutant: one sensor stops the polling of all.
poll_disableAll(s) ==
    /\ poll_sensor_mask' = poll_sensor_mask \ {s}
    /\ poll_timeout' = -1
    /\ UNCHANGED <<fast_poll_sensor_mask, saved_poll_interval>>

poll_disable(s) ==
    /\ poll_sensor_mask' = poll_sensor_mask \ {s}
    /\ poll_timeout' = IF poll_sensor_mask' = {} THEN -1 ELSE poll_timeout
    /\ UNCHANGED <<fast_poll_sensor_mask, saved_poll_interval>>

fast_poll_enable(s) ==
    /\ fast_poll_sensor_mask' = fast_poll_sensor_mask \cup {s}
    /\ saved_poll_interval' = IF saved_poll_interval = 0 THEN poll_timeout ELSE saved_poll_interval
    /\ poll_timeout' = 1
    /\ UNCHANGED poll_sensor_mask

fast_poll_disable(s) ==
    /\ fast_poll_sensor_mask' = fast_poll_sensor_mask \ {s}
    /\ poll_timeout' = IF fast_poll_sensor_mask' = {} /\ saved_poll_interval # 0
                       THEN saved_poll_interval ELSE poll_timeout
    /\ UNCHANGED <<poll_sensor_mask, saved_poll_interval>>

\* Every zone is shown a temperature of 0, then the real one.
process_pref_change ==
    IF file = "DISABLED"
    THEN status' = FALSE /\ poll_on' = poll_on /\ pipe' = Unread(pipe)
    ELSE LET cooled == ReadZones([on |-> poll_on, pipe |-> Unread(pipe)], {})
             read   == ReadZones(cooled, hot)
         IN  status' = TRUE /\ poll_on' = read.on /\ pipe' = read.pipe

\* THERMAL_ZONE_NOTIFY. Nothing in the daemon sends it, nor RELOAD_ZONES (which
\* has no effect here), but a misread message can look like it.
thermal_zone_change ==
    LET read == ReadZones([on |-> poll_on, pipe |-> Unread(pipe)], hot)
    IN  poll_on' = read.on /\ pipe' = read.pipe /\ status' = status

\* Mutant: a terminate request is read and forgotten.
proc_messageDeaf(m) ==
    /\ IF m.msg_id = PREF_CHANGED THEN process_pref_change
       ELSE IF m.msg_id = THERMAL_ZONE_NOTIFY /\ status THEN thermal_zone_change
       ELSE pipe' = Unread(pipe) /\ UNCHANGED <<poll_on, status>>
    /\ terminate' = terminate
    /\ CASE m.msg_id = POLL_ENABLE /\ poll_interval_sec = 0  -> poll_enable(m.sensor)
         [] m.msg_id = POLL_DISABLE /\ poll_interval_sec = 0 -> poll_disable(m.sensor)
         [] m.msg_id = FAST_POLL_ENABLE                      -> fast_poll_enable(m.sensor)
         [] m.msg_id = FAST_POLL_DISABLE                     -> fast_poll_disable(m.sensor)
         [] OTHER                                              -> UNCHANGED masks

\* proc_message of the message at the head of the pipe.
proc_message(m) ==
    /\ IF m.msg_id = PREF_CHANGED THEN process_pref_change
       ELSE IF m.msg_id = THERMAL_ZONE_NOTIFY /\ status THEN thermal_zone_change
       ELSE pipe' = Unread(pipe) /\ UNCHANGED <<poll_on, status>>
    /\ terminate' = (terminate \/ m.msg_id = TERMINATE)
    /\ CASE m.msg_id = POLL_ENABLE /\ poll_interval_sec = 0  -> poll_enable(m.sensor)
         [] m.msg_id = POLL_DISABLE /\ poll_interval_sec = 0 -> poll_disable(m.sensor)
         [] m.msg_id = FAST_POLL_ENABLE                      -> fast_poll_enable(m.sensor)
         [] m.msg_id = FAST_POLL_DISABLE                     -> fast_poll_disable(m.sensor)
         [] OTHER                                              -> UNCHANGED masks

PollWakeup ==
    /\ pc = "wakeup"
    /\ pc' = "poll"
    /\ IF "wakeup" \in revents THEN \E m \in ReadMessages(pipe.data) : proc_message(m)
       ELSE UNCHANGED <<poll_on, pipe, status, terminate, masks>>
    /\ UNCHANGED <<options, hot, file, revents, uevents, clocks, calls>>

Terminated ==
    /\ pc = "poll" /\ terminate
    /\ pc' = "end"
    /\ UNCHANGED <<options, hot, poll_on, pipe, masks, status, file, terminate, revents, uevents, clocks, calls>>

-----------------------------------------------------------------------------
(* The world around the thread.                                            *)

\* Messages about sensor s are in the pipe.
About(s) == \E piece \in Range(pipe.data) : piece.m.msg_id >= POLL_ENABLE /\ piece.m.sensor = s

\* A sensor crosses its polling trip. Temperatures are slow: it has not done
\* so since messages about it were put in the pipe. The kernel notifies when
\* the daemon listens and the sensor can.
Drift(s) ==
    /\ hot' = IF s \in hot THEN hot \ {s} ELSE hot \cup {s}
    /\ \/ pc = "end" /\ uevents' = uevents
       \/ /\ pc # "end" /\ uevents < MaxEvents
          /\ ~About(s)
          /\ uevents' \in (IF poll_interval_sec # 0 THEN {0}
                           ELSE IF async THEN {uevents + 1} ELSE {uevents, uevents + 1})
    /\ UNCHANGED <<options, poll_on, pipe, masks, status, file, terminate, pc, revents, clocks, calls>>

\* A D-Bus call that ends in send_message.
Call(m) ==
    /\ calls < MaxCalls /\ calls' = calls + 1
    /\ pipe' = send_message(pipe, m)
    /\ UNCHANGED <<options, hot, poll_on, masks, status, terminate, pc, revents, uevents, clocks>>

\* SetCurrentPreference and its like: the file first, then the message.
set_preference(p) == file' = p /\ Call(Message(PREF_CHANGED, 0))

thd_engine_terminate == Call(Message(TERMINATE, 0)) /\ UNCHANGED file

user_add_sensor == Call(Message(WAKEUP, 0)) /\ UNCHANGED file

Thread ==
    \/ \E dt \in 0 .. def_poll_interval + poll_interval_sec : Poll(dt)
    \/ PollTemp
    \/ PollUevent
    \/ PollWakeup
    \/ Terminated

Others ==
    \/ \E s \in Sensors : Drift(s)
    \/ \E p \in {"ENABLED", "DISABLED"} : set_preference(p)
    \/ thd_engine_terminate
    \/ user_add_sensor

Next == Thread \/ Others

Spec == Init /\ [][Next]_vars

Places == {"poll", "temp", "uevent", "wakeup", "end"}

\* The thread can take its next step: poll() waits only when it has no
\* timeout and nothing to report.
Runnable ==
    /\ pc # "end"
    /\ pc = "poll" => terminate \/ poll_timeout # -1 \/ uevents > 0 \/ pipe.data # << >>

\* The thread is scheduled, and poll() returns (every step of the thread, and
\* no other, changes pc).
FairSpec == Spec /\ WF_pc(Runnable /\ pc' \in Places \ {pc})

-----------------------------------------------------------------------------

\* The messages in the pipe that switch sensor s on or off.
Switches(s, enable, disable) ==
    {k \in DOMAIN pipe.data :
        /\ pipe.data[k].from = 0
        /\ pipe.data[k].m.msg_id \in {enable, disable}
        /\ pipe.data[k].m.sensor = s}

\* A mask after the messages in the pipe have been handled: the last one about a
\* sensor decides.
Settled(mask, enable, disable) ==
    {s \in mask \cup Sensors :
        LET switches == Switches(s, enable, disable)
        IN  \/ switches = {} /\ s \in mask
            \/ \E k \in switches : /\ pipe.data[k].m.msg_id = enable
                                   /\ \A l \in switches : l <= k}

\* No switch of a polling trip is lost or applied out of order until a
\* write fails: the sensors whose trip is on are those the fast-poll mask
\* will hold once the pipe is empty, and so for the poll mask unless a fixed
\* interval is set.
MasksCatchUp ==
    ~pipe.lost =>
             /\ poll_on = Settled(fast_poll_sensor_mask, FAST_POLL_ENABLE, FAST_POLL_DISABLE)
             /\ poll_interval_sec = 0 =>
                  poll_on = Settled(poll_sensor_mask, POLL_ENABLE, POLL_DISABLE)

\* With nothing in the pipe and a polling trip on, the loop wakes up every
\* second, however enables and disables of several sensors were mixed.
PolledEverySecond == ~pipe.lost /\ pipe.data = << >> /\ poll_on # {} => poll_timeout = 1

\* A sensor that stays hot is found out and polled every second for good (but
\* for the moment in which another sensor's messages are handled), as long as
\* the daemon is enabled, not terminated and no write was cut off.
HotIsPolled ==
    \A s \in Sensors :
        <>[](s \in hot /\ status /\ pc # "end" /\ ~pipe.lost) =>
            <>[](s \in poll_on /\ (poll_timeout = 1 \/ pipe.data # << >>))

\* A terminate request ends the thread unless the daemon is disabled or a
\* write was cut off.
TerminateStops ==
    (\E piece \in Range(pipe.data) : piece.m.msg_id = TERMINATE)
        ~> (pc = "end" \/ ~status \/ pipe.lost)
=============================================================================
