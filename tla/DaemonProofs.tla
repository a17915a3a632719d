---------------------------- MODULE DaemonProofs ----------------------------
(***************************************************************************)
(* The preference on disk is in force and the policies are restored, for   *)
(* any number of zones, take-overs, calls and engines, while there is a    *)
(* single process at a time.                                               *)
(***************************************************************************)
EXTENDS Daemon, FiniteSetTheorems, SequenceTheorems, TLAPS

ProcFields == {"pc", "options", "inode", "locked", "calls", "next", "found", "reader"}

EngineFields == {"exclusive", "status", "preference", "thd_pref", "zone_preferences", "pipe",
                 "thread", "skipped", "lost"}

IsRecord(r, fields) == r = [f \in fields |-> r[f]]

Messages == {"PREF_CHANGED", "TERMINATE"}

Says(s, m) == \E k \in DOMAIN s : s[k] = m

-----------------------------------------------------------------------------
(* The pipe.                                                               *)

\* A pipe still says what it said after a send, and the new message too.
LEMMA SaysAppended ==
    ASSUME NEW s \in Seq(Messages), NEW m \in Messages
    PROVE  /\ Append(s, m) \in Seq(Messages)
           /\ Says(Append(s, m), m)
           /\ \A w : Says(s, w) => Says(Append(s, m), w)
<1>1. /\ Append(s, m) \in Seq(Messages) /\ Len(s) \in Nat
      /\ DOMAIN s = 1 .. Len(s) /\ DOMAIN Append(s, m) = 1 .. Len(s) + 1
      /\ Append(s, m)[Len(s) + 1] = m
      /\ \A k \in 1 .. Len(s) : Append(s, m)[k] = s[k]
  BY AppendProperties, LenProperties
<1> DEFINE t == Append(s, m)
           n == Len(s)
<1> HIDE DEF t, n
<1>2. t \in Seq(Messages)
  BY <1>1 DEF t
<1>3. Says(t, m)
  <2>1. n + 1 \in DOMAIN t
    BY <1>1 DEF t, n
  <2> QED
    BY <1>1, <2>1 DEF Says, t, n
<1>4. ASSUME NEW w, Says(s, w) PROVE Says(t, w)
  <2>1. PICK k \in DOMAIN s : s[k] = w
    BY <1>4 DEF Says
  <2>2. k \in DOMAIN t /\ t[k] = w
    BY <1>1, <2>1 DEF t
  <2> QED
    BY <2>2 DEF Says
<1> QED
  BY <1>2, <1>3, <1>4 DEF t

\* A read leaves a pipe of messages.
LEMMA AfterHead ==
    ASSUME NEW s \in Seq(Messages), s # << >>
    PROVE  Tail(s) \in Seq(Messages)
BY HeadTailProperties

-----------------------------------------------------------------------------
(* The records of processes and engines.                                   *)

Shape(p, e) ==
    /\ IsRecord(p, ProcFields)
    /\ IsRecord(e, EngineFields)
    /\ e.pipe \in Seq(Messages)

Shapes ==
    /\ proc = [i \in Instances |-> proc[i]]
    /\ engine = [i \in Instances |-> engine[i]]
    /\ \A i \in Instances : Shape(proc[i], engine[i])

\* A step of process i, and what it makes of i.
Becomes(i, p, e) == proc' = Put(proc, i, p) /\ engine' = Put(engine, i, e)

\* A process put back as it is changes nothing.
LEMMA Unmoved ==
    ASSUME Shapes, NEW i \in Instances
    PROVE  proc = Put(proc, i, proc[i]) /\ engine = Put(engine, i, engine[i])
BY Zenon DEF Shapes, Put

\* If the process that moves satisfies its part then all do.
LEMMA BecomesKeeps ==
    ASSUME Shapes, NEW i \in Instances, NEW p, NEW e, Becomes(i, p, e), Shape(p, e)
    PROVE  Shapes'
<1>1. /\ proc' = [j \in Instances |-> proc'[j]]
      /\ engine' = [j \in Instances |-> engine'[j]]
      /\ \A j \in Instances : /\ proc'[j] = IF j = i THEN p ELSE proc[j]
                              /\ engine'[j] = IF j = i THEN e ELSE engine[j]
  BY Zenon DEF Shapes, Becomes, Put
<1>2. \A j \in Instances : Shape(proc'[j], engine'[j])
  BY <1>1 DEF Shapes
<1> QED
  BY <1>1, <1>2 DEF Shapes, Shape, IsRecord, Says

\* The record of a process without engine.
LEMMA NoEngineShape ==
    /\ IsRecord(NoProcess, ProcFields) /\ IsRecord(NoEngine, EngineFields)
    /\ NoProcess.pc = "off"
    /\ NoEngine.thread = "none" /\ NoEngine.pipe = << >> /\ NoEngine.zone_preferences = << >>
BY DEF IsRecord, ProcFields, EngineFields, NoProcess, NoEngine

\* The record of a new engine.
LEMMA NewEngineShape ==
    ASSUME NEW x
    PROVE  /\ IsRecord(NewEngine(x), EngineFields)
           /\ NewEngine(x).thread = "none" /\ NewEngine(x).pipe = << >>
           /\ NewEngine(x).zone_preferences = << >> /\ NewEngine(x).exclusive = x
           /\ LET r == [NewEngine(x) EXCEPT !.thread = "run"]
              IN  /\ IsRecord(r, EngineFields)
                  /\ r.thread = "run" /\ r.pipe = << >>
                  /\ r.zone_preferences = << >> /\ r.exclusive = x
BY Zenon DEF IsRecord, EngineFields, NewEngine

\* A process without engine, or with a new one, satisfies its part.
LEMMA FreshKeeps ==
    ASSUME NEW p, IsRecord(p, ProcFields), NEW x
    PROVE  /\ Shape(p, NoEngine)
           /\ Shape(p, NewEngine(x))
           /\ Shape(p, [NewEngine(x) EXCEPT !.thread = "run"])
<1>1. << >> \in Seq(Messages)
  OBVIOUS
<1> DEFINE e == NewEngine(x)
           b == [NewEngine(x) EXCEPT !.thread = "run"]
<1>2. /\ IsRecord(e, EngineFields) /\ e.pipe = << >>
      /\ IsRecord(b, EngineFields) /\ b.pipe = << >>
  BY Zenon, NewEngineShape
<1> HIDE DEF e, b
<1>3. Shape(p, NoEngine) /\ Shape(p, e) /\ Shape(p, b)
  BY Zenon, <1>1, <1>2, NoEngineShape DEF Shape
<1> QED
  BY Zenon, <1>3 DEF e, b

\* The main thread does something that does not concern the engine.
LEMMA MovedKeeps ==
    ASSUME NEW p, NEW e, Shape(p, e), NEW q, IsRecord(q, ProcFields)
    PROVE  Shape(q, e)
BY DEF Shape

\* What sending message m makes of engine e.
IsSent(e, m, s) ==
    /\ IsRecord(s, EngineFields)
    /\ s.thread = e.thread /\ s.status = e.status /\ s.preference = e.preference
    /\ s.exclusive = e.exclusive /\ s.zone_preferences = e.zone_preferences
    /\ s.skipped = e.skipped
    /\ \/ s = e /\ ~HasThread(e)
       \/ s.pipe = Append(e.pipe, m) /\ s.lost = e.lost
       \/ s.pipe = e.pipe /\ s.lost = (e.lost \/ m = "PREF_CHANGED")

\* A message is appended, lost, or there is nobody to read it.
LEMMA SentShape ==
    ASSUME NEW e, IsRecord(e, EngineFields), NEW m, NEW s \in Sent(e, m)
    PROVE  IsSent(e, m, s)
<1>1. CASE s = e /\ ~HasThread(e)
  BY Zenon, <1>1 DEF IsSent
<1>2. CASE s = [e EXCEPT !.pipe = Append(@, m)]
  BY Zenon, <1>2 DEF IsSent, IsRecord, EngineFields
<1>3. CASE s = [e EXCEPT !.lost = @ \/ m = "PREF_CHANGED"]
  BY Zenon, <1>3 DEF IsSent, IsRecord, EngineFields
<1> QED
  BY Zenon, <1>1, <1>2, <1>3 DEF Sent

\* The engine is sent a message.
LEMMA SentKeeps ==
    ASSUME NEW p, NEW e, Shape(p, e), NEW m \in Messages, NEW s \in Sent(e, m),
           NEW q, IsRecord(q, ProcFields)
    PROVE  Shape(q, s)
<1>1. IsRecord(e, EngineFields) /\ e.pipe \in Seq(Messages)
  BY DEF Shape
<1>2. Append(e.pipe, m) \in Seq(Messages)
  BY <1>1, SaysAppended
<1>3. IsSent(e, m, s)
  BY Zenon, <1>1, SentShape
<1>4. IsRecord(s, EngineFields) /\ (s.pipe = Append(e.pipe, m) \/ s.pipe = e.pipe)
  BY Zenon, <1>3 DEF IsSent
<1> QED
  BY Zenon, <1>1, <1>2, <1>4 DEF Shape

\* Taking over the zones leaves the rest of the engine alone.
LEMMA TakenOverShape ==
    ASSUME NEW e, IsRecord(e, EngineFields), NEW bad
    PROVE  LET t == TakenOver(e, bad)
           IN  /\ IsRecord(t, EngineFields)
               /\ t.pipe = e.pipe /\ t.thread = e.thread /\ t.status = e.status
               /\ t.preference = e.preference /\ t.exclusive = e.exclusive /\ t.lost = e.lost
BY Zenon DEF TakenOver, IsRecord, EngineFields

\* So does applying a preference.
LEMMA AppliedShape ==
    ASSUME NEW e, IsRecord(e, EngineFields), NEW new_pref
    PROVE  LET a == Applied(e, new_pref)
           IN  /\ IsRecord(a, EngineFields)
               /\ a.pipe = e.pipe /\ a.thread = e.thread /\ a.exclusive = e.exclusive
               /\ a.zone_preferences = e.zone_preferences /\ a.skipped = e.skipped
BY Zenon DEF Applied, IsRecord, EngineFields

\* Handling a message keeps the invariant.
LEMMA MessageKeeps ==
    ASSUME Shapes, NEW i \in Instances, NEW bad, proc_message(i, bad)
    PROVE  Shapes'
<1> DEFINE p == proc[i]
           e == engine[i]
           r == [e EXCEPT !.pipe = Tail(@)]
<1>1. Shape(p, e) /\ e.pipe # << >> /\ e.pipe \in Seq(Messages)
  BY DEF Shapes, Shape, proc_message
<1>2. Tail(e.pipe) \in Seq(Messages)
  BY <1>1, AfterHead
<1>3. IsRecord(r, EngineFields) /\ r.pipe = Tail(e.pipe)
  BY Zenon, <1>1 DEF Shape, IsRecord, EngineFields
<1>4. proc' = Put(proc, i, p)
  BY Unmoved DEF proc_message
<1>5. CASE Head(e.pipe) = "TERMINATE"
  <2> DEFINE d == [e EXCEPT !.pipe = Tail(@), !.thread = "end"]
  <2>1. IsRecord(d, EngineFields) /\ d.pipe = Tail(e.pipe)
    BY Zenon, <1>1 DEF Shape, IsRecord, EngineFields
  <2>2. engine' = Put(engine, i, d)
    BY <1>5 DEF proc_message
  <2> HIDE DEF d
  <2>3. Shape(p, d)
    BY <1>1, <1>2, <2>1 DEF Shape
  <2> QED
    BY <1>4, <2>2, <2>3, BecomesKeeps DEF Becomes
<1>6. CASE Head(e.pipe) # "TERMINATE"
  <2> DEFINE a == Applied(r, refresh(conf, e.thd_pref))
  <2> HIDE DEF r
  <2>1. IsRecord(a, EngineFields) /\ a.pipe = Tail(e.pipe)
    BY <1>3, AppliedShape
  <2>2. engine' = Put(engine, i, a) \/ engine' = Put(engine, i, TakenOver(a, bad))
    BY <1>6 DEF proc_message, process_pref_change, r
  <2> HIDE DEF a
  <2> DEFINE t == TakenOver(a, bad)
  <2>3. IsRecord(t, EngineFields) /\ t.pipe = Tail(e.pipe)
    BY <2>1, TakenOverShape
  <2> HIDE DEF t
  <2>4. Shape(p, a) /\ Shape(p, t)
    BY <1>1, <1>2, <2>1, <2>3 DEF Shape
  <2> QED
    BY <1>4, <2>2, <2>4, BecomesKeeps DEF Becomes, t
<1> QED
  BY <1>5, <1>6

\* It holds at the start.
LEMMA ShapesInit == Init => Shapes
<1> SUFFICES ASSUME Init PROVE Shapes
  OBVIOUS
<1>1. \A i \in Instances : Shape(NoProcess, NoEngine)
  BY ZenonT(30), NoEngineShape, FreshKeeps
<1> QED
  BY <1>1 DEF Init, Shapes

\* Every step of any process keeps it.
LEMMA ShapesStep == Shapes /\ [Next]_vars => Shapes'
<1> SUFFICES ASSUME Shapes, [Next]_vars PROVE Shapes'
  OBVIOUS
<1>1. CASE UNCHANGED vars
  BY <1>1 DEF vars, Shapes, Shape, IsRecord, Says
<1>2. ASSUME NEW i \in Instances, Main(i) \/ Thread(i) \/ World(i) PROVE Shapes'
  <2> DEFINE p == proc[i]
             e == engine[i]
             At(pc) == [p EXCEPT !.pc = pc]
  <2>1. Shape(p, e) /\ IsRecord(p, ProcFields) /\ IsRecord(e, EngineFields)
    BY DEF Shapes, Shape
  <2>2. proc = Put(proc, i, p) /\ engine = Put(engine, i, e)
    BY Unmoved
  <2>3. \A pc : IsRecord(At(pc), ProcFields) /\ At(pc).pc = pc
    BY <2>1 DEF IsRecord, ProcFields
  <2>4. IsRecord(NoProcess, ProcFields) /\ NoProcess.pc = "off"
    BY NoEngineShape
  <2>5. \A q : IsRecord(q, ProcFields) /\ proc' = Put(proc, i, q) /\ engine' = engine => Shapes'
    BY <2>1, <2>2, MovedKeeps, BecomesKeeps DEF Becomes
  <2>6. \A q, d : Shape(q, d) /\ proc' = Put(proc, i, q) /\ engine' = Put(engine, i, d) => Shapes'
    BY BecomesKeeps DEF Becomes
  <2>7. \A q : IsRecord(q, ProcFields) =>
           /\ Shape(q, NoEngine)
           /\ \A x : Shape(q, NewEngine(x)) /\ Shape(q, [NewEngine(x) EXCEPT !.thread = "run"])
    BY Zenon, FreshKeeps
  <2>8. \A q, m : /\ IsRecord(q, ProcFields) /\ m \in {"PREF_CHANGED", "TERMINATE"}
                  /\ proc' = Put(proc, i, q) /\ send_message(i, m)
                  => Shapes'
    BY Zenon, <2>1, <2>6, SentKeeps DEF send_message, Messages
  <2> HIDE DEF At
  <2>10. CASE \E options \in Options : OpenLock(i, options)
    <3>1. PICK options \in Options : OpenLock(i, options)
      BY <2>10
    <3> DEFINE q(n) == [NoProcess EXCEPT !.pc = "lock", !.options = options, !.inode = n]
               u    == [NoProcess EXCEPT !.pc = "daemon", !.options = options]
    <3>2. IsRecord(q(path'), ProcFields) /\ IsRecord(u, ProcFields)
      BY Zenon, <2>4 DEF IsRecord, ProcFields
    <3>3. engine' = engine /\ (proc' = Put(proc, i, q(path')) \/ proc' = Put(proc, i, u))
      BY <3>1 DEF OpenLock
    <3> HIDE DEF q, u
    <3> QED
      BY Zenon, <2>5, <3>2, <3>3
  <2>11. CASE Lock(i)
    <3> DEFINE q == [p EXCEPT !.pc = "daemon", !.locked = TRUE]
    <3>1. IsRecord(q, ProcFields)
      BY Zenon, <2>1 DEF IsRecord, ProcFields
    <3>2. engine' = engine /\ (proc' = Put(proc, i, NoProcess) \/ proc' = Put(proc, i, q))
      BY <2>11 DEF Lock
    <3> HIDE DEF q
    <3> QED
      BY Zenon, <2>4, <2>5, <3>1, <3>2
  <2>12. CASE Daemonize(i)
    <3> DEFINE q == [p EXCEPT !.pc = IF p.options.adaptive THEN "adaptive" ELSE "default",
                              !.locked = @ /\ ~p.options.daemonize]
    <3>1. IsRecord(q, ProcFields)
      BY Zenon, <2>1 DEF IsRecord, ProcFields
    <3>2. engine' = engine /\ (proc' = Put(proc, i, q) \/ proc' = Put(proc, i, At("close")))
      BY <2>12 DEF Daemonize, At
    <3> HIDE DEF q
    <3> QED
      BY Zenon, <2>3, <2>5, <3>1, <3>2
  <2>13. CASE thd_engine_create_adaptive_engine(i)
    BY Zenon, <2>3, <2>6, <2>7, <2>13 DEF thd_engine_create_adaptive_engine, ThreadCreated, At
  <2>14. CASE thd_engine_create_default_engine(i)
    BY Zenon, <2>3, <2>6, <2>7, <2>14 DEF thd_engine_create_default_engine, ThreadCreated, At
  <2>15. CASE \E bad \in Unreadable : thd_engine_start(i, bad)
    <3>1. PICK bad \in Unreadable : thd_engine_start(i, bad)
      BY <2>15
    <3> DEFINE q == [p EXCEPT !.pc = "serve", !.found = policy]
               d == [e EXCEPT !.thd_pref = refresh(conf, @),
                              !.preference = refresh(conf, e.thd_pref)]
               t == TakenOver(d, bad)
    <3>2. IsRecord(q, ProcFields)
      BY Zenon, <2>1 DEF IsRecord, ProcFields
    <3>3. IsRecord(d, EngineFields) /\ d.pipe = e.pipe
      BY Zenon, <2>1 DEF IsRecord, EngineFields
    <3>4. proc' = Put(proc, i, q) /\ (engine' = Put(engine, i, d) \/ engine' = Put(engine, i, t))
      BY <3>1 DEF thd_engine_start
    <3> HIDE DEF q, d
    <3>5. IsRecord(t, EngineFields) /\ t.pipe = e.pipe
      BY <3>3, TakenOverShape
    <3> HIDE DEF t
    <3>6. Shape(q, d) /\ Shape(q, t)
      BY <2>1, <3>2, <3>3, <3>5 DEF Shape
    <3> QED
      BY Zenon, <2>6, <3>4, <3>6
  <2>16. CASE WritePreference(i) \/ SavePreference(i)
    <3> DEFINE q == [p EXCEPT !.pc = "serve", !.next = "none"]
    <3>1. IsRecord(q, ProcFields)
      BY Zenon, <2>1 DEF IsRecord, ProcFields
    <3>2. \/ proc' = Put(proc, i, At("save")) /\ engine' = engine
          \/ proc' = Put(proc, i, q) /\ send_message(i, "PREF_CHANGED")
      BY Zenon, <2>16 DEF WritePreference, SavePreference, Notified, At
    <3> HIDE DEF q
    <3> QED
      BY Zenon, <2>3, <2>5, <2>8, <3>1, <3>2
  <2>17. CASE ExitCallback(i)
    BY Zenon, <2>3, <2>8, <2>17 DEF ExitCallback, At
  <2>18. CASE process_terminate(i)
    <3> DEFINE q == [p EXCEPT !.pc = IF @ = "quit" THEN "free" ELSE "renew", !.reader = e.thread]
    <3>1. IsRecord(q, ProcFields)
      BY Zenon, <2>1 DEF IsRecord, ProcFields
    <3>2. engine' = engine /\ proc' = Put(proc, i, q)
      BY <2>18 DEF process_terminate
    <3> HIDE DEF q
    <3> QED
      BY Zenon, <2>5, <3>1, <3>2
  <2>19. CASE Quit(i)
    BY Zenon, <2>3, <2>6, <2>7, <2>19 DEF Quit, At
  <2>20. CASE CloseLock(i) \/ Unlink(i)
    <3> DEFINE q == [p EXCEPT !.pc = "unlink", !.locked = FALSE]
    <3>1. IsRecord(q, ProcFields)
      BY Zenon, <2>1 DEF IsRecord, ProcFields
    <3>2. engine' = engine /\ (proc' = Put(proc, i, NoProcess) \/ proc' = Put(proc, i, q))
      BY <2>20 DEF CloseLock, Unlink
    <3> HIDE DEF q
    <3> QED
      BY Zenon, <2>4, <2>5, <3>1, <3>2
  <2>21. CASE Restart(i)
    <3> DEFINE n == NewEngine(e.exclusive)
               q == [p EXCEPT !.pc = "start", !.calls = @ + 1, !.reader = "none"]
               u == [p EXCEPT !.pc = "serve", !.calls = @ + 1, !.reader = "none", !.found = policy]
    <3>1. IsRecord(q, ProcFields) /\ IsRecord(u, ProcFields)
      BY Zenon, <2>1 DEF IsRecord, ProcFields
    <3>2. \/ proc' = Put(proc, i, At("undefined")) /\ engine' = Put(engine, i, NoEngine)
          \/ proc' = Put(proc, i, q) /\ engine' = Put(engine, i, [n EXCEPT !.thread = "run"])
          \/ proc' = Put(proc, i, u) /\ engine' = Put(engine, i, n)
      BY <2>21 DEF Restart, At
    <3> HIDE DEF q, u
    <3> QED
      BY Zenon, <2>3, <2>6, <2>7, <3>1, <3>2
  <2>22. CASE \E bad \in Unreadable : proc_message(i, bad)
    BY <2>22, MessageKeeps
  <2>23. CASE Deafen(i)
    <3> DEFINE d == [e EXCEPT !.thread = "deaf"]
    <3>1. IsRecord(d, EngineFields) /\ d.pipe = e.pipe
      BY Zenon, <2>1 DEF IsRecord, EngineFields
    <3>2. proc' = Put(proc, i, p) /\ engine' = Put(engine, i, d)
      BY <2>2, <2>23 DEF Deafen
    <3> HIDE DEF d
    <3>3. Shape(p, d)
      BY <2>1, <3>1 DEF Shape
    <3> QED
      BY Zenon, <2>6, <3>2, <3>3
  <2>24. CASE \E n \in Preferences \cup {"unknown"} : set_current_preference(i, n)
    <3>1. PICK n \in Preferences \cup {"unknown"} : set_current_preference(i, n)
      BY <2>24
    <3> DEFINE q == [p EXCEPT !.pc = "write", !.calls = @ + 1, !.next = n]
               u == [p EXCEPT !.calls = @ + 1]
    <3>2. IsRecord(q, ProcFields) /\ IsRecord(u, ProcFields)
      BY Zenon, <2>1 DEF IsRecord, ProcFields
    <3>3. \/ proc' = Put(proc, i, q) /\ engine' = engine
          \/ proc' = Put(proc, i, u) /\ send_message(i, "PREF_CHANGED")
      BY Zenon, <3>1 DEF set_current_preference
    <3> HIDE DEF q, u
    <3> QED
      BY Zenon, <2>5, <2>8, <3>2, <3>3
  <2>25. CASE set_user_temperature(i)
    <3> DEFINE u == [p EXCEPT !.calls = @ + 1]
    <3>1. IsRecord(u, ProcFields)
      BY Zenon, <2>1 DEF IsRecord, ProcFields
    <3>2. proc' = Put(proc, i, u) /\ (engine' = engine \/ send_message(i, "PREF_CHANGED"))
      BY Zenon, <2>25 DEF set_user_temperature
    <3> HIDE DEF u
    <3> QED
      BY Zenon, <2>5, <2>8, <3>1, <3>2
  <2>26. CASE Signal(i) \/ Terminate(i) \/ Reinit(i)
    BY Zenon, <2>3, <2>8, <2>26 DEF Signal, Terminate, Reinit, Terminating, At
  <2>27. CASE Die(i)
    BY Zenon, <2>4, <2>6, <2>7, <2>27 DEF Die
  <2> QED
    BY Zenon, <1>2, <2>10, <2>11, <2>12, <2>13, <2>14, <2>15, <2>16, <2>17, <2>18, <2>19, <2>20, <2>21,
       <2>22, <2>23, <2>24, <2>25, <2>26, <2>27 DEF Main, Thread, World
<1> QED
  BY <1>1, <1>2 DEF Next

\* So it always holds.
LEMMA ShapesAlways == Spec => []Shapes
BY ShapesInit, ShapesStep, PTL DEF Spec

-----------------------------------------------------------------------------
(* A single process, one after the other: nobody else changes the file and *)
(* the policies.                                                           *)

Alone == \E i : Instances = {i}

\* The states in which the engine has been started, and in which it has given up.
Up == {"serve", "write", "save", "exit_callback", "quit", "reinit"}
GivenUp == {"free", "renew"}

\* The engine acts on what the file holds, is about to read it, or was not told.
Informed(e, file) ==
    HasThread(e) /\ file # "empty" /\ ~e.lost =>
        Says(e.pipe, "PREF_CHANGED") \/ InForce(e) = refresh(file, "none")

\* The first take-over recorded what was found; or there was none, there will be
\* none, and the policies are the ones found.
Kept(found, e, pol) ==
    \/ /\ e.exclusive
       /\ e.zone_preferences \in Seq(Policies)
       /\ Len(e.zone_preferences) >= KZones
       /\ \A z \in Zones : e.zone_preferences[z] = found[z]
    \/ /\ e.zone_preferences = << >>
       /\ pol = found
       /\ ~(e.exclusive /\ HasThread(e))

Solo(p, e, pol, file) ==
    /\ p.pc = "start" =>
         e.pipe = << >> /\ e.status /\ e.zone_preferences = << >> /\ ~e.skipped
    /\ p.pc = "write" => file = "empty"
    /\ p.pc = "serve" => Informed(e, file)
    /\ p.pc \in Up => p.found \in [Zones -> Policies] /\ (e.skipped \/ Kept(p.found, e, pol))
    /\ p.pc \in GivenUp /\ p.reader # "run" => e.thread # "run" /\ (e.skipped \/ pol = p.found)

SoloInv ==
    /\ policy \in [Zones -> Policies]
    /\ \A i \in Instances : Solo(proc[i], engine[i], policy, conf)

\* When every policy can be read, a take-over appends all of them in order.
LEMMA AllReadable ==
    ASSUME NEW e, IsRecord(e, EngineFields), policy \in [Zones -> Policies]
    PROVE  TakenOver(e, {}).zone_preferences = e.zone_preferences \o policy
<1>1. Zones \ {} = 1 .. KZones /\ KZones \in Nat /\ KZones >= 1
  BY ZoneAssumption DEF Zones
<1>2. Cardinality(Zones \ {}) = KZones
  BY <1>1, FS_Interval
<1>3. ASSUME NEW z \in 1 .. KZones
      PROVE  Cardinality({y \in Zones \ {} : y <= z}) = z
  <2>1. {y \in Zones \ {} : y <= z} = 1 .. z
    BY <1>1
  <2>2. z \in Int /\ 1 <= z
    BY <1>1
  <2>3. Cardinality(1 .. z) = z
    <3>1. Cardinality(1 .. z) = z - 1 + 1
      BY <2>2, FS_Interval
    <3>2. z - 1 + 1 = z
      BY <2>2
    <3> QED
      BY <3>1, <3>2, Zenon
  <2> QED
    BY <2>1, <2>3, Zenon
<1>4. ASSUME NEW k \in 1 .. KZones
      PROVE  Readable({}, k) = k
  <2>1. \A z \in Zones \ {} : Cardinality({y \in Zones \ {} : y <= z}) = k <=> z = k
    BY <1>1, <1>3
  <2> QED
    BY Zenon, <1>1, <2>1 DEF Readable
<1>5. [k \in 1 .. Cardinality(Zones \ {}) |-> policy[Readable({}, k)]] = policy
  <2>1. [k \in 1 .. KZones |-> policy[Readable({}, k)]] = [k \in 1 .. KZones |-> policy[k]]
    BY <1>4
  <2> QED
    BY <1>1, <1>2, <2>1
<1> QED
  BY Zenon, <1>5 DEF TakenOver, Recorded, IsRecord, EngineFields

\* What the first take-over recorded is in front of what the others record.
LEMMA RecordedFirst ==
    ASSUME NEW s \in Seq(Policies), NEW pol \in [Zones -> Policies],
           s = << >> \/ Len(s) >= KZones
    PROVE  /\ s \o pol \in Seq(Policies)
           /\ Len(s \o pol) >= KZones
           /\ \A z \in Zones : (s \o pol)[z] = IF s = << >> THEN pol[z] ELSE s[z]
<1>1. KZones \in Nat /\ pol \in Seq(Policies) /\ Len(pol) = KZones /\ Zones = 1 .. KZones
  BY ZoneAssumption DEF Zones, Seq
<1>2. /\ s \o pol \in Seq(Policies) /\ Len(s) \in Nat
      /\ Len(s \o pol) = Len(s) + Len(pol)
      /\ \A k \in 1 .. Len(s) + Len(pol) :
           (s \o pol)[k] = IF k <= Len(s) THEN s[k] ELSE pol[k - Len(s)]
  BY Zenon, <1>1, ConcatProperties, LenProperties
<1>3. s = << >> <=> Len(s) = 0
  BY EmptySeq
<1> DEFINE n == Len(s)
           c == s \o pol
<1>4. /\ n \in Nat /\ (s = << >> <=> n = 0) /\ (n = 0 \/ n >= KZones)
      /\ c \in Seq(Policies) /\ Len(c) = n + KZones
      /\ \A k \in 1 .. n + KZones : c[k] = IF k <= n THEN s[k] ELSE pol[k - n]
  BY <1>1, <1>2, <1>3
<1> HIDE DEF n, c
<1>5. ASSUME NEW z \in Zones PROVE c[z] = IF s = << >> THEN pol[z] ELSE s[z]
  <2>1. z \in 1 .. KZones /\ z \in 1 .. n + KZones /\ z - 0 = z
    BY <1>1, <1>4
  <2>2. CASE n = 0
    BY <1>4, <2>1, <2>2
  <2>3. CASE n >= KZones
    <3>1. z <= n /\ n # 0
      BY <1>1, <1>4, <2>1, <2>3
    <3> QED
      BY <1>4, <2>1, <3>1
  <2> QED
    BY <1>4, <2>2, <2>3
<1>6. Len(c) >= KZones
  BY <1>1, <1>4
<1> QED
  BY <1>4, <1>5, <1>6 DEF c

\* Giving the zones back restores the policies found.
LEMMA Restored ==
    ASSUME NEW e, NEW found \in [Zones -> Policies], policy \in [Zones -> Policies],
           giveup_thermal_control(e)
    PROVE  /\ policy' \in [Zones -> Policies]
           /\ Kept(found, e, policy) => policy' = found
<1>1. CASE ~e.exclusive \/ e.zone_preferences = << >>
  <2>1. policy' = policy
    BY <1>1 DEF giveup_thermal_control, kernel
  <2>2. Kept(found, e, policy) => policy = found
    <3>1. Len(<< >>) = 0 /\ ~(0 >= KZones)
      BY ZoneAssumption
    <3> QED
      BY <1>1, <3>1 DEF Kept
  <2> QED
    BY <2>1, <2>2
<1>2. CASE ~(~e.exclusive \/ e.zone_preferences = << >>)
  <2>1. /\ policy' \in [Zones -> Policies]
        /\ \A z \in Zones : z <= Len(e.zone_preferences) => policy'[z] = e.zone_preferences[z]
    BY <1>2 DEF giveup_thermal_control
  <2>2. ASSUME Kept(found, e, policy) PROVE policy' = found
    <3>1. /\ e.zone_preferences \in Seq(Policies) /\ Len(e.zone_preferences) >= KZones
          /\ \A z \in Zones : e.zone_preferences[z] = found[z]
      BY <1>2, <2>2 DEF Kept
    <3>2. Len(e.zone_preferences) \in Nat
      BY <3>1, LenProperties
    <3>3. \A z \in Zones : z <= Len(e.zone_preferences)
      BY <3>1, <3>2, ZoneAssumption DEF Zones
    <3> QED
      BY <2>1, <3>1, <3>3
  <2> QED
    BY <2>1, <2>2
<1> QED
  BY <1>1, <1>2

\* The invariant of a process alone holds at the start.
LEMMA SoloInvInit == Init => SoloInv
<1> SUFFICES ASSUME Init PROVE SoloInv
  OBVIOUS
<1>1. policy \in [Zones -> Policies]
  BY PolicyAssumption DEF Init, Zones
<1>2. \A i \in Instances : proc[i].pc = "off"
  BY Zenon, NoEngineShape DEF Init
<1> QED
  BY <1>1, <1>2 DEF SoloInv, Solo, Up, GivenUp

\* What a step of the only process makes of the state.
LEMMA SoloBecomes ==
    ASSUME Shapes, NEW i, Instances = {i}, NEW p, NEW e, Becomes(i, p, e),
           policy' \in [Zones -> Policies], Solo(p, e, policy', conf')
    PROVE  SoloInv'
<1>1. proc'[i] = p /\ engine'[i] = e
  BY DEF Shapes, Becomes, Put
<1>2. \A j \in Instances : Solo(proc'[j], engine'[j], policy', conf')
  BY <1>1
<1> QED
  BY <1>2 DEF SoloInv, Solo, Informed, Kept, HasThread, Says, InForce, refresh

\* A message leaves what was recorded, and the engine knows that it has it.
LEMMA SoloSent ==
    ASSUME NEW e, IsRecord(e, EngineFields), e.pipe \in Seq(Messages),
           NEW m \in Messages, NEW s \in Sent(e, m)
    PROVE  /\ \A found, pol : Kept(found, e, pol) => Kept(found, s, pol)
           /\ s.skipped = e.skipped
           /\ \A file : Informed(e, file) => Informed(s, file)
           /\ m = "PREF_CHANGED" => \A file : Informed(s, file)
<1>1. /\ s.thread = e.thread /\ s.status = e.status /\ s.preference = e.preference
      /\ s.exclusive = e.exclusive /\ s.zone_preferences = e.zone_preferences
      /\ s.skipped = e.skipped
      /\ \/ s = e /\ ~HasThread(e)
         \/ s.pipe = Append(e.pipe, m) /\ s.lost = e.lost
         \/ s.pipe = e.pipe /\ s.lost = (e.lost \/ m = "PREF_CHANGED")
  <2>1. IsSent(e, m, s)
    BY Zenon, SentShape
  <2> QED
    BY Zenon, <2>1 DEF IsSent
<1>2. /\ Says(Append(e.pipe, m), m)
      /\ \A w : Says(e.pipe, w) => Says(Append(e.pipe, m), w)
  BY SaysAppended
<1>3. HasThread(s) = HasThread(e) /\ InForce(s) = InForce(e)
  BY <1>1 DEF HasThread, InForce
<1>4. \A found, pol : Kept(found, e, pol) => Kept(found, s, pol)
  BY <1>1, <1>3 DEF Kept
<1>5. \A file : Informed(e, file) => Informed(s, file)
  BY Zenon, <1>1, <1>2, <1>3 DEF Informed
<1>6. m = "PREF_CHANGED" => \A file : Informed(s, file)
  BY Zenon, <1>1, <1>2, <1>3 DEF Informed
<1> QED
  BY <1>1, <1>4, <1>5, <1>6

\* A zone that could not be read leaves a trace.
LEMMA SkippedRecorded ==
    ASSUME NEW e, IsRecord(e, EngineFields), NEW bad, ~TakenOver(e, bad).skipped
    PROVE  bad = {} /\ ~e.skipped
<1>1. TakenOver(e, bad).skipped = (e.skipped \/ bad # {})
  BY DEF TakenOver, IsRecord, EngineFields
<1> QED
  BY <1>1, Zenon

\* Taking over writes policies.
LEMMA TakenOverPolicies ==
    ASSUME NEW e, NEW bad, policy \in [Zones -> Policies], takeover_thermal_control(e, bad)
    PROVE  policy' \in [Zones -> Policies]
BY PolicyAssumption DEF takeover_thermal_control

\* A preference that is applied is in force.
LEMMA AppliedInForce ==
    ASSUME NEW e, IsRecord(e, EngineFields), NEW new_pref
    PROVE  InForce(Applied(e, new_pref)) = new_pref
<1> DEFINE a == Applied(e, new_pref)
<1>1. CASE new_pref = "DISABLE"
  <2>1. a = [e EXCEPT !.thd_pref = new_pref, !.status = FALSE]
    BY <1>1 DEF Applied
  <2>2. a.status = FALSE
    BY Zenon, <2>1 DEF IsRecord, EngineFields
  <2> QED
    BY <1>1, <2>2 DEF InForce
<1>2. CASE new_pref # "DISABLE"
  <2>1. a = [e EXCEPT !.thd_pref = new_pref, !.status = TRUE, !.preference = new_pref]
    BY <1>2 DEF Applied
  <2>2. a.status = TRUE
    BY Zenon, <2>1 DEF IsRecord, EngineFields
  <2>3. a.preference = new_pref
    BY Zenon, <2>1 DEF IsRecord, EngineFields
  <2> QED
    BY <2>2, <2>3 DEF InForce
<1> QED
  BY <1>1, <1>2

\* Handling a message keeps the invariant of a process alone.
LEMMA SoloMessage ==
    ASSUME Shapes, SoloInv, NEW i, Instances = {i}, NEW bad, proc_message(i, bad)
    PROVE  SoloInv'
<1> DEFINE p == proc[i]
           e == engine[i]
           r == [e EXCEPT !.pipe = Tail(@)]
<1>1. /\ Shape(p, e) /\ Solo(p, e, policy, conf) /\ policy \in [Zones -> Policies]
      /\ e.thread = "run" /\ e.pipe # << >> /\ e.pipe \in Seq(Messages)
      /\ IsRecord(e, EngineFields)
  BY DEF Shapes, Shape, SoloInv, proc_message
<1>2. proc' = Put(proc, i, p) /\ conf' = conf
  BY Unmoved DEF proc_message
<1>3. p.pc # "start"
  BY <1>1 DEF Solo
<1>4. HasThread(e)
  BY <1>1 DEF HasThread
<1>5. CASE Head(e.pipe) = "TERMINATE"
  <2> DEFINE d == [e EXCEPT !.pipe = Tail(@), !.thread = "end"]
  <2>1. /\ d.thread = "end" /\ d.exclusive = e.exclusive /\ d.skipped = e.skipped
        /\ d.zone_preferences = e.zone_preferences
    BY <1>1 DEF IsRecord, EngineFields
  <2>2. engine' = Put(engine, i, d) /\ policy' = policy
    BY <1>5 DEF proc_message, kernel
  <2> HIDE DEF d
  <2>3. ~HasThread(d)
    BY Zenon, <2>1 DEF HasThread
  <2>4. Solo(p, d, policy, conf)
    BY <1>1, <1>3, <2>1, <2>3 DEF Solo, Informed, Kept
  <2> QED
    BY <1>1, <1>2, <2>2, <2>4, SoloBecomes DEF Becomes
<1>6. CASE Head(e.pipe) # "TERMINATE"
  <2> DEFINE a == Applied(r, refresh(conf, e.thd_pref))
             t == TakenOver(a, bad)
  <2>1. /\ IsRecord(r, EngineFields) /\ r.exclusive = e.exclusive /\ r.thread = e.thread
        /\ r.zone_preferences = e.zone_preferences /\ r.skipped = e.skipped
    BY Zenon, <1>1 DEF IsRecord, EngineFields
  <2>2. \/ takeover_thermal_control(a, bad) /\ engine' = Put(engine, i, t) /\ a.exclusive
        \/ policy' = policy /\ engine' = Put(engine, i, a)
    BY Zenon, <1>6 DEF proc_message, process_pref_change, kernel
  <2> HIDE DEF r
  <2>3. /\ IsRecord(a, EngineFields) /\ a.exclusive = e.exclusive /\ a.thread = e.thread
        /\ a.zone_preferences = e.zone_preferences /\ a.skipped = e.skipped
    BY Zenon, <2>1, AppliedShape
  <2>4. InForce(a) = refresh(conf, e.thd_pref)
    BY <2>1, AppliedInForce
  <2> HIDE DEF a
  <2>5. Informed(a, conf)
    BY <2>4 DEF Informed, refresh
  <2>6. CASE policy' = policy /\ engine' = Put(engine, i, a)
    <3>1. HasThread(a) = HasThread(e)
      BY Zenon, <2>3 DEF HasThread
    <3>2. Solo(p, a, policy, conf)
      BY Zenon, <1>1, <1>3, <2>3, <2>5, <3>1 DEF Solo, Kept
    <3> QED
      BY Zenon, <1>1, <1>2, <2>6, <3>2, SoloBecomes DEF Becomes
  <2>7. CASE takeover_thermal_control(a, bad) /\ engine' = Put(engine, i, t) /\ a.exclusive
    <3>1. /\ t.thread = a.thread /\ t.status = a.status /\ t.pipe = a.pipe
          /\ t.preference = a.preference /\ t.exclusive = a.exclusive /\ t.lost = a.lost
      BY <2>3, TakenOverShape
    <3>2. ~t.skipped => bad = {} /\ ~a.skipped
      BY SMTT(30), <2>3, SkippedRecorded
    <3>3. bad = {} => t.zone_preferences = e.zone_preferences \o policy
      BY ZenonT(30), <1>1, <2>3, AllReadable
    <3>4. policy' \in [Zones -> Policies]
      BY <1>1, <2>7, TakenOverPolicies
    <3> HIDE DEF t
    <3>5. Informed(t, conf)
      BY SMTT(30), <2>5, <3>1 DEF Informed, HasThread, InForce
    <3>6. ASSUME p.pc \in Up, ~t.skipped PROVE Kept(p.found, t, policy')
      <4>1. /\ e.zone_preferences \in Seq(Policies) /\ Len(e.zone_preferences) >= KZones
            /\ \A z \in Zones : e.zone_preferences[z] = p.found[z]
        BY SMTT(30), <1>1, <1>4, <2>3, <2>7, <3>2, <3>6 DEF Solo, Kept
      <4>2. e.zone_preferences # << >>
        BY SMTT(30), <4>1, ZoneAssumption
      <4> DEFINE z == e.zone_preferences
      <4>3. /\ z \o policy \in Seq(Policies) /\ Len(z \o policy) >= KZones
            /\ \A k \in Zones : (z \o policy)[k] = z[k]
        BY Zenon, <1>1, <4>1, <4>2, RecordedFirst
      <4> QED
        BY ZenonT(30), <2>7, <3>1, <3>2, <3>3, <3>6, <4>1, <4>3 DEF Kept
    <3>7. Solo(p, t, policy', conf)
      BY <1>1, <1>3, <3>5, <3>6 DEF Solo
    <3> QED
      BY Zenon, <1>2, <2>7, <3>4, <3>7, SoloBecomes DEF Becomes
  <2> QED
    BY <2>2, <2>6, <2>7
<1> QED
  BY <1>5, <1>6

\* Starting an engine keeps it.
LEMMA SoloStart ==
    ASSUME Shapes, SoloInv, NEW i, Instances = {i}, NEW bad, thd_engine_start(i, bad)
    PROVE  SoloInv'
<1> DEFINE p == proc[i]
           e == engine[i]
           q == [p EXCEPT !.pc = "serve", !.found = policy]
           d == [e EXCEPT !.thd_pref = refresh(conf, @), !.preference = refresh(conf, e.thd_pref)]
           t == TakenOver(d, bad)
<1>1. /\ IsRecord(p, ProcFields) /\ IsRecord(e, EngineFields) /\ p.pc = "start"
      /\ policy \in [Zones -> Policies] /\ Solo(p, e, policy, conf)
  BY DEF Shapes, Shape, SoloInv, thd_engine_start
<1>2. e.status /\ e.zone_preferences = << >> /\ ~e.skipped
  BY <1>1 DEF Solo
<1>3. q.pc = "serve" /\ q.found = policy
  BY <1>1 DEF IsRecord, ProcFields
<1>4. /\ IsRecord(d, EngineFields) /\ d.preference = refresh(conf, e.thd_pref)
      /\ d.zone_preferences = << >> /\ d.skipped = e.skipped /\ d.status = e.status
  BY Zenon, <1>1, <1>2 DEF IsRecord, EngineFields
<1>5. /\ proc' = Put(proc, i, q) /\ conf' = conf
      /\ \/ d.exclusive /\ takeover_thermal_control(d, bad) /\ engine' = Put(engine, i, t)
         \/ ~d.exclusive /\ policy' = policy /\ engine' = Put(engine, i, d)
  BY DEF thd_engine_start, kernel
<1> HIDE DEF q, d
<1>6. Informed(d, conf)
  BY Zenon, <1>2, <1>4 DEF Informed, InForce, refresh
<1>7. CASE ~d.exclusive /\ policy' = policy /\ engine' = Put(engine, i, d)
  <2>1. Kept(policy, d, policy)
    BY SMTT(30), <1>4, <1>7 DEF Kept
  <2>2. Solo(q, d, policy, conf)
    BY <1>1, <1>3, <1>6, <2>1 DEF Solo, Up, GivenUp
  <2> QED
    BY Zenon, <1>1, <1>5, <1>7, <2>2, SoloBecomes DEF Becomes
<1>8. CASE d.exclusive /\ takeover_thermal_control(d, bad) /\ engine' = Put(engine, i, t)
  <2>1. /\ t.thread = d.thread /\ t.status = d.status /\ t.pipe = d.pipe
        /\ t.preference = d.preference /\ t.exclusive = d.exclusive /\ t.lost = d.lost
    BY <1>4, TakenOverShape
  <2>2. ~t.skipped => bad = {}
    BY SMTT(30), <1>4, SkippedRecorded
  <2>3. bad = {} => t.zone_preferences = << >> \o policy
    BY ZenonT(30), <1>1, <1>4, AllReadable
  <2>4. policy' \in [Zones -> Policies]
    BY <1>1, <1>8, TakenOverPolicies
  <2>5. << >> \in Seq(Policies)
    OBVIOUS
  <2>6. /\ << >> \o policy \in Seq(Policies) /\ Len(<< >> \o policy) >= KZones
        /\ \A z \in Zones : (<< >> \o policy)[z] = policy[z]
    BY Zenon, <1>1, <2>5, RecordedFirst
  <2> HIDE DEF t
  <2>7. Informed(t, conf)
    BY <1>6, <2>1 DEF Informed, HasThread, InForce
  <2>8. ~t.skipped => Kept(policy, t, policy')
    BY Zenon, <1>8, <2>1, <2>2, <2>3, <2>6 DEF Kept
  <2>9. Solo(q, t, policy', conf)
    BY <1>1, <1>3, <2>7, <2>8 DEF Solo, Up, GivenUp
  <2> QED
    BY Zenon, <1>5, <1>8, <2>4, <2>9, SoloBecomes DEF Becomes
<1> QED
  BY <1>5, <1>7, <1>8

\* Starting again after an exit keeps it.
LEMMA SoloRestart ==
    ASSUME Shapes, SoloInv, NEW i, Instances = {i}, Restart(i)
    PROVE  SoloInv'
<1> DEFINE p == proc[i]
           e == engine[i]
           n == NewEngine(e.exclusive)
           b == [n EXCEPT !.thread = "run"]
           q == [p EXCEPT !.pc = "start", !.calls = @ + 1, !.reader = "none"]
           u == [p EXCEPT !.pc = "serve", !.calls = @ + 1, !.reader = "none", !.found = policy]
           x == [p EXCEPT !.pc = "undefined"]
<1>1. IsRecord(p, ProcFields)
  BY DEF Shapes, Shape
<1>2. policy' \in [Zones -> Policies] /\ policy' = policy /\ conf' = conf
  BY Zenon DEF SoloInv, Restart, kernel
<1>3. /\ q.pc = "start" /\ u.pc = "serve" /\ u.found = policy /\ x.pc = "undefined"
  BY <1>1 DEF IsRecord, ProcFields
<1>4. /\ n.thread = "none" /\ n.zone_preferences = << >>
      /\ b.pipe = << >> /\ b.zone_preferences = << >>
  BY Zenon, NewEngineShape
<1>5. b.status = TRUE /\ b.skipped = FALSE
  BY DEF NewEngine
<1>6. \/ proc' = Put(proc, i, x) /\ engine' = Put(engine, i, NoEngine)
      \/ proc' = Put(proc, i, q) /\ engine' = Put(engine, i, b)
      \/ proc' = Put(proc, i, u) /\ engine' = Put(engine, i, n)
  BY DEF Restart
<1> HIDE DEF q, u, x, n, b
<1>7. /\ Solo(x, NoEngine, policy', conf')
      /\ Solo(q, b, policy', conf')
  BY <1>3, <1>4, <1>5 DEF Solo, Up, GivenUp
<1>8. ~HasThread(n)
  BY <1>4 DEF HasThread
<1>9. Solo(u, n, policy', conf')
  BY <1>2, <1>3, <1>4, <1>8 DEF Solo, Informed, Kept, GivenUp
<1> QED
  BY Zenon, <1>2, <1>6, <1>7, <1>9, SoloBecomes DEF Becomes

\* Every step keeps it.
LEMMA SoloInvStep ==
    ASSUME Alone, Shapes, SoloInv, [Next]_vars
    PROVE  SoloInv'
<1>1. CASE UNCHANGED vars
  BY <1>1 DEF vars, kernel, SoloInv, Solo, Informed, Kept, HasThread, Says, InForce, refresh
<1>2. ASSUME NEW i \in Instances, Main(i) \/ Thread(i) \/ World(i) PROVE SoloInv'
  <2> DEFINE p == proc[i]
             e == engine[i]
             At(pc) == [p EXCEPT !.pc = pc]
  <2>1. Instances = {i}
    BY DEF Alone
  <2>2. /\ Shape(p, e) /\ IsRecord(p, ProcFields) /\ IsRecord(e, EngineFields)
        /\ e.pipe \in Seq(Messages)
        /\ policy \in [Zones -> Policies] /\ Solo(p, e, policy, conf)
    BY DEF Shapes, Shape, SoloInv
  <2>3. proc = Put(proc, i, p) /\ engine = Put(engine, i, e)
    BY Unmoved
  <2>4. \A pc : At(pc).pc = pc /\ At(pc).found = p.found /\ At(pc).reader = p.reader
    BY <2>2 DEF IsRecord, ProcFields
  <2>5. NoProcess.pc = "off"
    BY NoEngineShape
  <2>6. \A q, d, pol, file : q.pc \notin Up \cup GivenUp \cup {"start"} => Solo(q, d, pol, file)
    BY DEF Solo, Up
  <2>7. \A q, d : /\ proc' = Put(proc, i, q) /\ engine' = Put(engine, i, d)
                  /\ policy' \in [Zones -> Policies] /\ Solo(q, d, policy', conf')
                  => SoloInv'
    BY Zenon, <2>1, SoloBecomes DEF Becomes
  <2>8. \A m \in {"PREF_CHANGED", "TERMINATE"} : \A s \in Sent(e, m) :
           /\ \A found, pol : Kept(found, e, pol) => Kept(found, s, pol)
           /\ s.skipped = e.skipped
           /\ \A file : Informed(e, file) => Informed(s, file)
           /\ m = "PREF_CHANGED" => \A file : Informed(s, file)
    BY Zenon, <2>2, SoloSent DEF Messages
  <2> HIDE DEF At
  <2>10. CASE \E options \in Options : OpenLock(i, options)
    <3>1. PICK options \in Options : OpenLock(i, options)
      BY <2>10
    <3> DEFINE q(n) == [NoProcess EXCEPT !.pc = "lock", !.options = options, !.inode = n]
               u    == [NoProcess EXCEPT !.pc = "daemon", !.options = options]
    <3>2. q(path').pc = "lock" /\ u.pc = "daemon"
      BY DEF NoProcess
    <3>3. /\ engine' = engine /\ policy' = policy
          /\ proc' = Put(proc, i, q(path')) \/ proc' = Put(proc, i, u)
      BY <3>1 DEF OpenLock, kernel
    <3> HIDE DEF q, u
    <3>4. Solo(q(path'), e, policy', conf') /\ Solo(u, e, policy', conf')
      BY <2>6, <3>2 DEF Up, GivenUp
    <3> QED
      BY Zenon, <2>2, <2>3, <2>7, <3>3, <3>4
  <2>11. CASE Lock(i)
    <3> DEFINE q == [p EXCEPT !.pc = "daemon", !.locked = TRUE]
    <3>1. q.pc = "daemon"
      BY <2>2 DEF IsRecord, ProcFields
    <3>2. /\ engine' = engine /\ policy' = policy
          /\ proc' = Put(proc, i, NoProcess) \/ proc' = Put(proc, i, q)
      BY <2>11 DEF Lock, kernel
    <3> HIDE DEF q
    <3>3. Solo(q, e, policy', conf') /\ Solo(NoProcess, e, policy', conf')
      BY SMTT(30), <2>5, <2>6, <3>1 DEF Up, GivenUp
    <3> QED
      BY <2>2, <2>3, <2>7, <3>2, <3>3
  <2>12. CASE Daemonize(i)
    <3> DEFINE pc == IF p.options.adaptive THEN "adaptive" ELSE "default"
               q  == [p EXCEPT !.pc = pc, !.locked = @ /\ ~p.options.daemonize]
    <3>1. pc \in {"adaptive", "default"}
      OBVIOUS
    <3> HIDE DEF pc
    <3>2. q.pc = pc
      BY <2>2 DEF IsRecord, ProcFields
    <3>3. /\ engine' = engine /\ policy' = policy
          /\ proc' = Put(proc, i, q) \/ proc' = Put(proc, i, At("close"))
      BY <2>12 DEF Daemonize, At, pc, kernel
    <3> HIDE DEF q
    <3>4. Solo(q, e, policy', conf') /\ Solo(At("close"), e, policy', conf')
      BY <2>4, <2>6, <3>1, <3>2 DEF Up, GivenUp
    <3> QED
      BY Zenon, <2>2, <2>3, <2>7, <3>3, <3>4
  <2>13. CASE thd_engine_create_adaptive_engine(i) \/ thd_engine_create_default_engine(i)
    <3>1. PICK x \in {TRUE, FALSE, p.options.exclusive} :
            /\ policy' = policy
            /\ \/ /\ proc' = Put(proc, i, At("start"))
                  /\ engine' = Put(engine, i, [NewEngine(x) EXCEPT !.thread = "run"])
               \/ proc' = Put(proc, i, At("default")) /\ engine' = Put(engine, i, NewEngine(FALSE))
               \/ proc' = Put(proc, i, At("close")) /\ engine' = Put(engine, i, NoEngine)
      BY Zenon, <2>13 DEF thd_engine_create_adaptive_engine, thd_engine_create_default_engine,
                   ThreadCreated, kernel, At
    <3> DEFINE b == [NewEngine(x) EXCEPT !.thread = "run"]
    <3>2. b.pipe = << >> /\ b.zone_preferences = << >>
      BY Zenon, NewEngineShape
    <3>3. b.status = TRUE /\ b.skipped = FALSE
      BY DEF NewEngine
    <3> HIDE DEF b
    <3>4. Solo(At("start"), b, policy', conf')
      BY <2>4, <3>2, <3>3 DEF Solo, Up, GivenUp
    <3>5. \A d : Solo(At("default"), d, policy', conf') /\ Solo(At("close"), d, policy', conf')
      BY <2>4, <2>6 DEF Up, GivenUp
    <3> QED
      BY Zenon, <2>2, <2>7, <3>1, <3>4, <3>5 DEF b
  <2>15. CASE \E bad \in Unreadable : thd_engine_start(i, bad)
    BY Zenon, <2>1, <2>15, SoloStart
  <2>16. CASE WritePreference(i)
    <3> DEFINE q == [p EXCEPT !.pc = "serve", !.next = "none"]
    <3>1. q.pc = "serve" /\ q.found = p.found
      BY <2>2 DEF IsRecord, ProcFields
    <3>2. /\ policy' = policy /\ p.pc = "write"
          /\ \/ proc' = Put(proc, i, At("save")) /\ engine' = engine
             \/ /\ proc' = Put(proc, i, q)
                /\ \E s \in Sent(e, "PREF_CHANGED") : engine' = Put(engine, i, s)
      BY Zenon, <2>16 DEF WritePreference, Notified, send_message, At, kernel
    <3> HIDE DEF q
    <3>3. Solo(At("save"), e, policy, conf')
      BY Zenon, <2>2, <2>4, <3>2 DEF Solo, Up, GivenUp
    <3>4. \A s \in Sent(e, "PREF_CHANGED") : Solo(q, s, policy, conf')
      BY Zenon, <2>2, <2>8, <3>1, <3>2 DEF Solo, Up, GivenUp
    <3> QED
      BY Zenon, <2>2, <2>3, <2>7, <3>2, <3>3, <3>4
  <2>17. CASE SavePreference(i)
    <3> DEFINE q == [p EXCEPT !.pc = "serve", !.next = "none"]
    <3>1. q.pc = "serve" /\ q.found = p.found
      BY <2>2 DEF IsRecord, ProcFields
    <3>2. /\ policy' = policy /\ p.pc = "save" /\ proc' = Put(proc, i, q)
          /\ \E s \in Sent(e, "PREF_CHANGED") : engine' = Put(engine, i, s)
      BY Zenon, <2>17 DEF SavePreference, Notified, send_message, kernel
    <3> HIDE DEF q
    <3>3. \A s \in Sent(e, "PREF_CHANGED") : Solo(q, s, policy, conf')
      BY Zenon, <2>2, <2>8, <3>1, <3>2 DEF Solo, Up, GivenUp
    <3> QED
      BY Zenon, <2>2, <2>7, <3>2, <3>3
  <2>18. CASE ExitCallback(i)
    <3>1. /\ p.pc = "exit_callback" /\ giveup_thermal_control(e)
          /\ proc' = Put(proc, i, At("quit"))
          /\ \E s \in Sent(e, "TERMINATE") : engine' = Put(engine, i, s)
      BY Zenon, <2>18 DEF ExitCallback, send_message, At
    <3>2. p.found \in [Zones -> Policies] /\ (e.skipped \/ Kept(p.found, e, policy))
      BY SMTT(30), <2>2, <3>1 DEF Solo, Up
    <3>3. policy' \in [Zones -> Policies] /\ (Kept(p.found, e, policy) => policy' = p.found)
      BY ZenonT(30), <2>2, <3>1, <3>2, Restored
    <3>4. Kept(p.found, e, policy) => Kept(p.found, e, policy')
      BY Zenon, <3>3 DEF Kept
    <3>5. \A s \in Sent(e, "TERMINATE") : s.skipped \/ Kept(p.found, s, policy')
      BY Zenon, <2>8, <3>2, <3>4
    <3>6. At("quit").pc = "quit" /\ At("quit").found = p.found
      BY Zenon, <2>4
    <3>7. \A s \in Sent(e, "TERMINATE") : Solo(At("quit"), s, policy', conf')
      BY Zenon, <3>2, <3>5, <3>6 DEF Solo, GivenUp
    <3> QED
      BY Zenon, <2>7, <3>1, <3>3, <3>7
  <2>19. CASE process_terminate(i)
    <3> DEFINE q == [p EXCEPT !.pc = IF @ = "quit" THEN "free" ELSE "renew", !.reader = e.thread]
    <3>1. /\ p.pc \in Up /\ giveup_thermal_control(e)
          /\ proc' = Put(proc, i, q) /\ engine' = engine
      BY Zenon, <2>19 DEF process_terminate, Up
    <3>2. p.found \in [Zones -> Policies] /\ (e.skipped \/ Kept(p.found, e, policy))
      BY SMTT(30), <2>2, <3>1 DEF Solo
    <3>3. policy' \in [Zones -> Policies] /\ (Kept(p.found, e, policy) => policy' = p.found)
      BY ZenonT(30), <2>2, <3>1, <3>2, Restored
    <3>4. q.pc \in GivenUp /\ q.reader = e.thread /\ q.found = p.found
      BY <2>2 DEF IsRecord, ProcFields, GivenUp
    <3> HIDE DEF q
    <3>5. q.pc \notin Up \cup {"start"}
      BY <3>4 DEF GivenUp, Up
    <3>6. Solo(q, e, policy', conf')
      BY Zenon, <3>2, <3>3, <3>4, <3>5 DEF Solo, Up
    <3> QED
      BY Zenon, <2>3, <2>7, <3>1, <3>3, <3>6
  <2>28. CASE Quit(i)
    <3>1. /\ proc' = Put(proc, i, At("close")) /\ engine' = Put(engine, i, NoEngine)
          /\ policy' = policy
      BY Zenon, <2>28 DEF Quit, At, kernel
    <3>2. Solo(At("close"), NoEngine, policy', conf')
      BY SMTT(30), <2>4, <2>6 DEF Up, GivenUp
    <3> QED
      BY Zenon, <2>2, <2>7, <3>1, <3>2
  <2>20. CASE CloseLock(i) \/ Unlink(i)
    <3> DEFINE q == [p EXCEPT !.pc = "unlink", !.locked = FALSE]
    <3>1. q.pc = "unlink"
      BY <2>2 DEF IsRecord, ProcFields
    <3>2. /\ engine' = engine /\ policy' = policy
          /\ proc' = Put(proc, i, NoProcess) \/ proc' = Put(proc, i, q)
      BY <2>20 DEF CloseLock, Unlink, kernel
    <3> HIDE DEF q
    <3>3. Solo(q, e, policy', conf') /\ Solo(NoProcess, e, policy', conf')
      BY <2>5, <2>6, <3>1 DEF Up, GivenUp
    <3> QED
      BY <2>2, <2>3, <2>7, <3>2, <3>3
  <2>21. CASE Restart(i)
    BY Zenon, <2>1, <2>21, SoloRestart
  <2>22. CASE \E bad \in Unreadable : proc_message(i, bad)
    BY <2>1, <2>22, SoloMessage
  <2>23. CASE Deafen(i)
    <3> DEFINE d == [e EXCEPT !.thread = "deaf"]
    <3>1. /\ d.thread = "deaf" /\ d.pipe = e.pipe /\ d.exclusive = e.exclusive
          /\ d.zone_preferences = e.zone_preferences /\ d.preference = e.preference
      BY <2>2 DEF IsRecord, EngineFields
    <3>2. d.status = e.status /\ d.skipped = e.skipped /\ d.lost = e.lost
      BY <2>2 DEF IsRecord, EngineFields
    <3>3. /\ e.thread = "run" /\ proc' = Put(proc, i, p) /\ engine' = Put(engine, i, d)
          /\ conf' = conf /\ policy' = policy
      BY <2>3, <2>23 DEF Deafen, kernel
    <3> HIDE DEF d
    <3>4. HasThread(e) /\ HasThread(d) /\ InForce(d) = InForce(e)
      BY Zenon, <3>1, <3>2, <3>3 DEF HasThread, InForce
    <3>5. Informed(d, conf) <=> Informed(e, conf)
      BY Zenon, <3>1, <3>2, <3>4 DEF Informed
    <3>6. Kept(p.found, e, policy) => Kept(p.found, d, policy)
      BY Zenon, <3>1, <3>4 DEF Kept
    <3>7. Solo(p, d, policy, conf)
      BY Zenon, <2>2, <3>1, <3>2, <3>5, <3>6 DEF Solo
    <3> QED
      BY <2>2, <2>7, <3>3, <3>7
  <2>24. CASE \E n \in Preferences \cup {"unknown"} : set_current_preference(i, n)
    <3>1. PICK n \in Preferences \cup {"unknown"} : set_current_preference(i, n)
      BY <2>24
    <3> DEFINE q == [p EXCEPT !.pc = "write", !.calls = @ + 1, !.next = n]
               u == [p EXCEPT !.calls = @ + 1]
    <3>2. q.pc = "write" /\ q.found = p.found /\ u.pc = p.pc /\ u.found = p.found
      BY <2>2 DEF IsRecord, ProcFields
    <3>3. /\ p.pc = "serve" /\ policy' = policy
          /\ \/ proc' = Put(proc, i, q) /\ engine' = engine /\ conf' = "empty"
             \/ /\ proc' = Put(proc, i, u) /\ conf' = conf
                /\ \E s \in Sent(e, "PREF_CHANGED") : engine' = Put(engine, i, s)
      BY Zenon, <3>1 DEF set_current_preference, send_message, kernel
    <3> HIDE DEF q, u
    <3>4. conf' = "empty" => Solo(q, e, policy, conf')
      BY Zenon, <2>2, <3>2, <3>3 DEF Solo, Up, GivenUp
    <3>5. \A s \in Sent(e, "PREF_CHANGED") : Solo(u, s, policy, conf)
      BY Zenon, <2>2, <2>8, <3>2, <3>3 DEF Solo, Up, GivenUp
    <3> QED
      BY Zenon, <2>2, <2>3, <2>7, <3>3, <3>4, <3>5
  <2>25. CASE set_user_temperature(i)
    <3> DEFINE u == [p EXCEPT !.calls = @ + 1]
    <3>1. u.pc = p.pc /\ u.found = p.found
      BY <2>2 DEF IsRecord, ProcFields
    <3>2. /\ p.pc = "serve" /\ proc' = Put(proc, i, u) /\ conf' = conf /\ policy' = policy
          /\ \/ engine' = engine
             \/ \E s \in Sent(e, "PREF_CHANGED") : engine' = Put(engine, i, s)
      BY Zenon, <2>25 DEF set_user_temperature, send_message, kernel
    <3> HIDE DEF u
    <3>3. Solo(u, e, policy, conf)
      BY ZenonT(30), <2>2, <3>1, <3>2 DEF Solo, GivenUp
    <3>4. \A s \in Sent(e, "PREF_CHANGED") : Solo(u, s, policy, conf)
      BY ZenonT(30), <2>2, <2>8, <3>1, <3>2 DEF Solo, Up, GivenUp
    <3> QED
      BY Zenon, <2>2, <2>3, <2>7, <3>2, <3>3, <3>4
  <2>26. CASE Signal(i) \/ Terminate(i) \/ Reinit(i)
    <3>1. PICK then \in {"quit", "exit_callback", "reinit"} :
            /\ p.pc = "serve" /\ proc' = Put(proc, i, At(then))
            /\ \E s \in Sent(e, "TERMINATE") : engine' = Put(engine, i, s)
            /\ conf' = conf /\ policy' = policy
      BY Zenon, <2>26 DEF Signal, Terminate, Reinit, Terminating, send_message, At, kernel
    <3>2. \A s \in Sent(e, "TERMINATE") : Solo(At(then), s, policy, conf)
      BY ZenonT(30), <2>2, <2>4, <2>8, <3>1 DEF Solo, Up, GivenUp
    <3> QED
      BY Zenon, <2>2, <2>7, <3>1, <3>2
  <2>27. CASE Die(i)
    <3>1. proc' = Put(proc, i, NoProcess) /\ engine' = Put(engine, i, NoEngine) /\ policy' = policy
      BY <2>27 DEF Die, kernel
    <3>2. Solo(NoProcess, NoEngine, policy', conf')
      BY <2>5, <2>6 DEF Up, GivenUp
    <3> QED
      BY Zenon, <2>2, <2>7, <3>1, <3>2
  <2> QED
    BY Zenon, <1>2, <2>10, <2>11, <2>12, <2>13, <2>15, <2>16, <2>17, <2>18, <2>19, <2>20, <2>21,
       <2>22, <2>23, <2>24, <2>25, <2>26, <2>27, <2>28 DEF Main, Thread, World
<1> QED
  BY Zenon, <1>1, <1>2 DEF Next

\* So it always holds.
LEMMA SoloInvAlways == ASSUME Alone PROVE Spec => []SoloInv
<1>1. Shapes /\ SoloInv /\ [Next]_vars => SoloInv'
  BY SoloInvStep
<1> QED
  BY <1>1, SoloInvInit, ShapesAlways, PTL DEF Spec

\* One process at a time: once the engine's thread has read its messages, the
\* preference it acts on is the one in thd_preference.conf, whatever write or save
\* has failed, unless the file was left empty or a message to the engine was lost.
THEOREM PreferenceIsInForce == Alone => (Spec => []PreferenceInForce)
<1> SUFFICES ASSUME Alone PROVE Spec => []PreferenceInForce
  BY Zenon
<1>1. SoloInv => PreferenceInForce
  <2>1. ~Says(<< >>, "PREF_CHANGED")
    BY DEF Says
  <2> QED
    BY <2>1 DEF SoloInv, Solo, Informed, PreferenceInForce
<1> QED
  BY <1>1, SoloInvAlways, PTL

\* One process at a time: after any number of take-overs giveup_thermal_control leaves
\* every zone of the kernel with the policy thd_engine_start found there, if every
\* policy could be read, and it stays so until the engine is freed if the thread had
\* stopped reading its pipe.
THEOREM PoliciesAreRestored == Alone => (Spec => PoliciesRestored)
<1> SUFFICES ASSUME Alone PROVE Spec => PoliciesRestored
  BY Zenon
<1> DEFINE Back == \A i \in Instances : ~engine[i].skipped =>
             /\ ExitCallback(i) \/ process_terminate(i) => policy' = proc[i].found
             /\ (Quit(i) \/ Restart(i)) /\ proc[i].reader # "run" => policy = proc[i].found
<1>1. SoloInv => Back
  <2> SUFFICES ASSUME SoloInv, NEW i \in Instances, ~engine[i].skipped
               PROVE  /\ ExitCallback(i) \/ process_terminate(i) => policy' = proc[i].found
                      /\ (Quit(i) \/ Restart(i)) /\ proc[i].reader # "run" =>
                           policy = proc[i].found
    OBVIOUS
  <2>1. policy \in [Zones -> Policies] /\ Solo(proc[i], engine[i], policy, conf)
    BY DEF SoloInv
  <2>2. ASSUME ExitCallback(i) \/ process_terminate(i) PROVE policy' = proc[i].found
    <3>1. proc[i].pc \in Up /\ giveup_thermal_control(engine[i])
      BY Zenon, <2>2 DEF ExitCallback, process_terminate, Up
    <3>2. proc[i].found \in [Zones -> Policies] /\ Kept(proc[i].found, engine[i], policy)
      BY <2>1, <3>1 DEF Solo
    <3> QED
      BY Zenon, <2>1, <3>1, <3>2, Restored
  <2>3. ASSUME Quit(i) \/ Restart(i), proc[i].reader # "run" PROVE policy = proc[i].found
    <3>1. proc[i].pc \in GivenUp
      BY Zenon, <2>3 DEF Quit, Restart, GivenUp
    <3> QED
      BY <2>1, <2>3, <3>1 DEF Solo
  <2> QED
    BY <2>2, <2>3
<1> QED
  BY <1>1, SoloInvAlways, PTL DEF PoliciesRestored
=============================================================================
