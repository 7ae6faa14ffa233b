------------------------- MODULE ServerProcessProofs -------------------------
(***************************************************************************)
(* The server process: the sinks are stable while somebody logs, a signal  *)
(* inside the logger blocks for good, the pool of connections outlives every*)
(* request, and nothing is used after its end before a signal.  They follow*)
(* from one invariant.                                                     *)
(***************************************************************************)
EXTENDS ServerProcess, TLAPS

Labels == {"none", "start", "named", "idle", "handler", "return", "stop", "gone"}

\* What the proof needs of the types.
StateOK ==
  /\ mutex \in Contexts \cup {NoOne}
  /\ line = [c \in Contexts |-> line[c]]
  /\ main \in 1 .. 13
  /\ worker \in [Workers -> Labels]
  /\ frame \in Workers \cup {"main", NoOne}
  /\ handler \in {"none", "exit", "log", "return"}
  /\ caught \in {"none", "inside", "outside"}
  /\ closing \in BOOLEAN

\* Whoever holds the mutex has a line to write or is in a hook that sets or
\* deletes its name.
InHook(c) == c \in Workers /\ worker[c] \in {"start", "stop"}
HolderWrites == mutex # NoOne => line[mutex] # NoLine \/ InHook(mutex)

\* Until the server is constructed main is the only thread.
MainAlone ==
  main <= 7 => /\ \A t \in Workers : worker[t] = "none"
               /\ \A c \in Contexts : c # "main" => line[c] = NoLine

\* There is no handler without a signal, and no caught signal before the
\* handler is set.
QuietBefore ==
  /\ main <= 8 => caught = "none"
  /\ caught = "none" => handler = "none" /\ frame = NoOne /\ line["signal"] = NoLine

\* A handler on a thread that holds the mutex stays on it.
Blocked ==
  caught = "inside" =>
    /\ frame # NoOne /\ mutex = frame
    /\ handler # "none"
    /\ handler = "return" => line["signal"] # NoLine

\* After waitForShutdown no request runs or is read.
NoRequestLeft ==
  main >= 10 => /\ closing
                /\ \A t \in Workers : worker[t] \notin {"handler", "return"}

Inv == /\ StateOK /\ HolderWrites /\ MainAlone /\ QuietBefore /\ Blocked
       /\ NoRequestLeft

\* Where main stands at each of its statements.
LEMMA Positions ==
  ASSUME NEW i \in 1 .. 12
  PROVE  /\ Script[i] = "clearSinks" => i = 1
         /\ Script[i] = "addSink" => i = 2
         /\ Script[i] = "INFO" => i \in {3, 6}
         /\ Script[i] = "WARN" => i = 4
         /\ Script[i] = "ERROR" => i = 5
         /\ Script[i] = "IceServer" <=> i = 7
         /\ Script[i] = "setHandler" <=> i = 8
         /\ Script[i] = "wait" <=> i = 9
         /\ Script[i] = "bye" => i = 10
         /\ Script[i] = "~IceServer" <=> i = 11
         /\ Script[i] = "~FileSink" => i = 12
         /\ DOMAIN Script = 1 .. 12
         /\ Len(Script) = 12
<1> QED BY SMT DEF Script

\* Statements that main has left behind.
LEMMA Past ==
  ASSUME main \in 1 .. 13
  PROVE  /\ Done("setHandler") <=> main >= 9
         /\ Done("~IceServer") <=> main >= 12
         /\ Done("~FileSink") => main >= 13
<1>1. \A i \in 1 .. main - 1 : i \in 1 .. 12
  OBVIOUS
<1>2. Done("setHandler") <=> \E i \in 1 .. main - 1 : i = 8
  BY <1>1, Positions DEF Done
<1>3. Done("~IceServer") <=> \E i \in 1 .. main - 1 : i = 11
  BY <1>1, Positions DEF Done
<1>4. Done("~FileSink") => \E i \in 1 .. main - 1 : i = 12
  BY <1>1, Positions DEF Done
<1> QED BY <1>2, <1>3, <1>4

\* The statement that main has reached.
LEMMA Present ==
  ASSUME main \in 1 .. 13
  PROVE  /\ At("clearSinks") => main = 1
         /\ At("addSink") => main = 2
         /\ \A sev \in DOMAIN Severity : At(sev) => main \in 3 .. 6
         /\ At("IceServer") => main = 7
         /\ At("setHandler") => main = 8
         /\ At("wait") => main = 9
         /\ At("bye") => main = 10
         /\ At("~IceServer") => main = 11
         /\ At("~FileSink") => main = 12
         /\ \A op : At(op) => line["main"] = NoLine
<1>1. ASSUME NEW op, At(op)
      PROVE  main \in 1 .. 12 /\ Script[main] = op /\ line["main"] = NoLine
  <2>1. DOMAIN Script = 1 .. 12
    BY Positions
  <2> QED BY <1>1, <2>1 DEF At
<1>2. DOMAIN Severity = {"INFO", "WARN", "ERROR"}
  BY DEF Severity
<1>3. \A sev \in DOMAIN Severity : At(sev) => main \in 3 .. 6
  BY <1>1, <1>2, Positions
<1> QED BY <1>1, <1>3, Positions

\* A line is not the absence of a line.
LEMMA LineIsLine ==
  ASSUME NEW sev \in DOMAIN Severity, NEW what, NEW thread
  PROVE  Line(sev, what, thread) # NoLine
<1>1. Severity[sev] \in 1 .. 3
  BY DEF Severity
<1>2. Line(sev, what, thread).sev = Severity[sev]
  BY DEF Line
<1>3. NoLine.sev = 0
  BY DEF NoLine
<1> QED BY <1>1, <1>2, <1>3

LEMMA InvInit == Init => Inv
<1> SUFFICES ASSUME Init PROVE Inv
  OBVIOUS
<1> USE WorkersAssumption
<1>1. line = [c \in Contexts |-> line[c]]
  BY DEF Init, LogInit
<1>2. worker \in [Workers -> Labels]
  BY DEF Init, Labels
<1>3. StateOK
  <2>1. /\ mutex = NoOne /\ main = 1 /\ frame = NoOne
        /\ handler = "none" /\ caught = "none"
    BY DEF Init, LogInit
  <2>2. closing \in BOOLEAN
    BY DEF Init
  <2> QED BY <1>1, <1>2, <2>1, <2>2 DEF StateOK
<1>4. HolderWrites /\ MainAlone /\ QuietBefore /\ Blocked /\ NoRequestLeft
  BY DEF Init, LogInit, HolderWrites, InHook, MainAlone, QuietBefore, Blocked, NoRequestLeft
<1> QED BY <1>3, <1>4 DEF Inv

\* A context that prints has a line then, and nobody else's line changes.
LEMMA Prints ==
  ASSUME StateOK, NEW c \in Contexts, NEW sev \in DOMAIN Severity, NEW what, NEW thread,
         print(c, sev, what, thread)
  PROVE  /\ line' = [d \in Contexts |-> line'[d]]
         /\ line'[c] # NoLine
         /\ \A d \in Contexts : d # c => line'[d] = line[d]
         /\ mutex # NoOne => mutex # c \/ line[c] = NoLine
         /\ line[c] = NoLine
         /\ mutex' = mutex
<1>1. line' = [line EXCEPT ![c] = Line(sev, what, thread)]
  BY DEF print
<1>2. line = [d \in Contexts |-> line[d]]
  BY DEF StateOK
<1>3. line'[c] = Line(sev, what, thread) /\ \A d \in Contexts : d # c => line'[d] = line[d]
  BY <1>1, <1>2
<1>4. line' = [d \in Contexts |-> line'[d]]
  BY <1>1, <1>2
<1>5. line'[c] # NoLine
  BY <1>3, LineIsLine
<1> QED BY <1>3, <1>4, <1>5 DEF print

\* The statements of main but for its lines keep the invariant.
LEMMA MainSilent ==
  ASSUME Inv,
         \/ ClearSinks \/ AddFileSink \/ SetHandler \/ Wait \/ DestroyLocal
  PROVE  Inv'
<1> USE WorkersAssumption
<1>1. /\ UNCHANGED <<mutex, line, worker, frame, handler, caught, closing>>
      /\ main' = main + 1
  BY DEF ClearSinks, AddFileSink, SetHandler, Wait, DestroyLocal, clearSinks, addSink,
         NextStatement, logVars
<1>2. main \in 1 .. 12 /\ main # 7 /\ (main = 9 => Drained)
  BY Present DEF ClearSinks, AddFileSink, SetHandler, Wait, DestroyLocal, Inv, StateOK
<1>3. main = 8 \/ main # 8
  OBVIOUS
<1>4. StateOK' /\ HolderWrites' /\ Blocked'
  BY <1>1, <1>2 DEF Inv, StateOK, HolderWrites, InHook, Blocked
<1>5. MainAlone' /\ QuietBefore'
  BY <1>1, <1>2 DEF Inv, MainAlone, QuietBefore
<1>6. NoRequestLeft'
  <2>1. CASE main = 9
    BY <1>1, <1>2, <2>1 DEF Drained, Serving, NoRequestLeft
  <2>2. CASE main # 9
    BY <1>1, <1>2, <2>2 DEF Inv, NoRequestLeft
  <2> QED BY <2>1, <2>2
<1> QED BY <1>4, <1>5, <1>6 DEF Inv

\* main prints: its greetings and its last line.
LEMMA MainPrints ==
  ASSUME Inv, NormalExit \/ \E sev \in DOMAIN Severity : Greet(sev)
  PROVE  Inv'
<1> USE WorkersAssumption
<1>1. "INFO" \in DOMAIN Severity
  BY DEF Severity
<1>2. PICK sev, what, thread : sev \in DOMAIN Severity /\ print("main", sev, what, thread)
  BY <1>1 DEF NormalExit, Greet
<1>3. /\ UNCHANGED <<worker, frame, handler, caught, closing>>
      /\ main' = main + 1
  BY DEF NormalExit, Greet, NextStatement
<1>4. main \in 3 .. 6 \/ main = 10
  BY Present DEF NormalExit, Greet, Inv, StateOK
<1>5. /\ line' = [d \in Contexts |-> line'[d]]
      /\ line'["main"] # NoLine
      /\ \A d \in Contexts : d # "main" => line'[d] = line[d]
      /\ mutex' = mutex
  BY <1>2, Prints DEF Inv
<1>6. StateOK'
  BY <1>3, <1>4, <1>5 DEF Inv, StateOK
<1>7. HolderWrites'
  BY <1>3, <1>5 DEF Inv, HolderWrites, InHook, StateOK
<1>8. MainAlone' /\ QuietBefore' /\ Blocked' /\ NoRequestLeft'
  BY <1>3, <1>4, <1>5 DEF Inv, MainAlone, QuietBefore, Blocked, NoRequestLeft
<1> QED BY <1>6, <1>7, <1>8 DEF Inv

\* The construction of the server starts the threads.
LEMMA MainStarts ==
  ASSUME Inv, StartServer
  PROVE  Inv'
<1>1. UNCHANGED <<mutex, line, frame, handler, caught, closing>>
  BY DEF StartServer, logVars
<1>2. main = 7
  BY Present DEF StartServer, Inv, StateOK
<1>3. \/ main' = main /\ worker' = worker
      \/ main' = main + 1 /\ worker' = [t \in Workers |-> "start"]
  BY DEF StartServer, NextStatement
<1>4. StateOK' /\ HolderWrites' /\ Blocked'
  <2>1. worker' \in [Workers -> Labels]
    BY <1>3 DEF Inv, StateOK, Labels
  <2>2. \A t \in Workers : worker[t] = "none"
    BY <1>2 DEF Inv, MainAlone
  <2>3. HolderWrites'
    BY <1>1, <2>2 DEF Inv, HolderWrites, InHook
  <2> QED BY <1>1, <1>2, <1>3, <2>1, <2>3 DEF Inv, StateOK, Blocked
<1>5. MainAlone' /\ QuietBefore' /\ NoRequestLeft'
  BY <1>1, <1>2, <1>3 DEF Inv, MainAlone, QuietBefore, NoRequestLeft
<1> QED BY <1>4, <1>5 DEF Inv

\* A thread of the pool that is beyond its start is not there before the
\* server is constructed.
LEMMA ThreadsAfterStart ==
  ASSUME Inv, NEW t \in Workers, worker[t] # "none"
  PROVE  main >= 8
BY DEF Inv, MainAlone, StateOK

\* A thread of the pool moves on, with a line to write or without.
LEMMA ThreadMoves ==
  ASSUME Inv, NEW t \in Workers, NEW label \in Labels,
         worker[t] \notin {"none", "start", "stop"},
         label = "handler" => ~ closing,
         label = "return" => worker[t] = "handler",
         Goto(t, label),
         \/ UNCHANGED <<mutex, line>>
         \/ \E what, thread : print(t, "INFO", what, thread)
  PROVE  Inv'
<1> USE WorkersAssumption
<1>1. /\ UNCHANGED <<main, closing, frame, handler, caught>>
      /\ worker' = [worker EXCEPT ![t] = label]
  BY DEF Goto
<1>2. main >= 8
  BY ThreadsAfterStart
<1>3. "INFO" \in DOMAIN Severity /\ t \in Contexts /\ t # "main" /\ t # "signal"
  BY DEF Severity
<1>4. /\ mutex' = mutex
      /\ line' = [d \in Contexts |-> line'[d]]
      /\ \A d \in Contexts : line'[d] = line[d] \/ (d = t /\ line'[d] # NoLine)
  <2>1. CASE UNCHANGED <<mutex, line>>
    BY <2>1 DEF Inv, StateOK
  <2>2. CASE \E what, thread : print(t, "INFO", what, thread)
    BY <2>2, <1>3, Prints DEF Inv
  <2> QED BY <2>1, <2>2
<1>5. StateOK'
  BY <1>1, <1>4 DEF Inv, StateOK
<1>6. HolderWrites'
  BY <1>1, <1>4 DEF Inv, HolderWrites, InHook, StateOK
<1>7. MainAlone' /\ QuietBefore' /\ Blocked'
  BY <1>1, <1>2, <1>3, <1>4 DEF Inv, MainAlone, QuietBefore, Blocked
<1>8. NoRequestLeft'
  BY <1>1 DEF Inv, NoRequestLeft, StateOK
<1> QED BY <1>5, <1>6, <1>7, <1>8 DEF Inv

\* A thread takes the mutex for its name, or sets or deletes it and gives the
\* mutex back; the signal handler is not on it.
LEMMA HookMoves ==
  ASSUME Inv, NEW t \in Workers, NEW label \in {"start", "named", "stop", "gone"},
         worker[t] \in {"start", "stop"}, frame # t,
         Goto(t, label), line' = line,
         \/ mutex = NoOne /\ mutex' = t /\ label = worker[t]
         \/ mutex = t /\ mutex' = NoOne
  PROVE  Inv'
<1> USE WorkersAssumption
<1>1. /\ UNCHANGED <<main, closing, frame, handler, caught>>
      /\ worker' = [worker EXCEPT ![t] = label]
  BY DEF Goto
<1>2. main >= 8
  BY ThreadsAfterStart
<1>3. caught # "inside"
  BY DEF Inv, Blocked
<1>4. StateOK'
  BY <1>1 DEF Inv, StateOK, Labels
<1>5. HolderWrites'
  BY <1>1 DEF Inv, HolderWrites, InHook, StateOK
<1>6. MainAlone' /\ QuietBefore' /\ Blocked'
  BY <1>1, <1>2, <1>3 DEF Inv, MainAlone, QuietBefore, Blocked
<1>7. NoRequestLeft'
  BY <1>1 DEF Inv, NoRequestLeft, StateOK
<1> QED BY <1>4, <1>5, <1>6, <1>7 DEF Inv

LEMMA PoolStep ==
  ASSUME Inv, NEW t \in Workers, Worker(t) \/ Dispatch(t) \/ HookStop(t)
  PROVE  Inv'
<1> USE DEF WorkerAt, Labels, Runs
<1>1. CASE HookStart(t)
  <2>1. CASE /\ worker[t] = "start" /\ frame # t
             /\ \/ LockName(t) /\ Goto(t, "start")
                \/ registerThread(t) /\ Goto(t, "named")
    BY <2>1, HookMoves DEF LockName, registerThread
  <2>2. CASE worker[t] = "named" /\ print(t, "INFO", "howdy", thread_name[t]) /\ Goto(t, "idle")
    BY <2>2, ThreadMoves
  <2> QED BY <1>1, <2>1, <2>2 DEF HookStart
<1>2. CASE Dispatch(t)
  BY <1>2, ThreadMoves DEF Dispatch, logVars
<1>3. CASE Serve(t)
  BY <1>3, ThreadMoves DEF Serve, logVars
<1>4. CASE Return(t)
  BY <1>4, ThreadMoves DEF Return, logVars
<1>5. CASE HookStop(t)
  BY <1>5, ThreadMoves DEF HookStop
<1>6. CASE HookRemove(t)
  BY <1>6, HookMoves DEF HookRemove, LockName, removeThread
<1> QED BY <1>1, <1>2, <1>3, <1>4, <1>5, <1>6 DEF Worker

\* A step that ends the process.
LEMMA NoChange ==
  ASSUME Inv,
         UNCHANGED <<mutex, line, main, worker, frame, handler, caught, closing>>
  PROVE  Inv'
BY DEF Inv, StateOK, HolderWrites, InHook, MainAlone, QuietBefore, Blocked, NoRequestLeft

LEMMA SignalStep ==
  ASSUME Inv, NEW t \in Started \cup {"main"}, Signal(t)
  PROVE  Inv'
<1> USE WorkersAssumption
<1>1. t \in Workers \cup {"main"}
  BY DEF Started
<1>2. UNCHANGED <<mutex, line, main, worker, closing>>
  BY DEF Signal, logVars
<1>3. CASE /\ Done("setHandler") /\ frame' = t /\ handler' = "exit"
           /\ caught' = IF mutex = t THEN "inside" ELSE "outside"
  <2>1. main >= 9
    BY <1>3, Past DEF Inv, StateOK
  <2>2. t # NoOne
    BY <1>1 DEF NoOne
  <2>3. StateOK' /\ HolderWrites' /\ NoRequestLeft' /\ MainAlone'
    BY <1>1, <1>2, <1>3, <2>1 DEF Inv, StateOK, HolderWrites, InHook, NoRequestLeft, MainAlone
  <2>4. QuietBefore' /\ Blocked'
    BY <1>2, <1>3, <2>1, <2>2 DEF QuietBefore, Blocked, Inv, StateOK
  <2> QED BY <2>3, <2>4 DEF Inv
<1>4. CASE UNCHANGED <<frame, handler, caught>>
  BY <1>2, <1>4, NoChange
<1> QED BY <1>3, <1>4 DEF Signal

LEMMA HandlerStep ==
  ASSUME Inv, OnSignal
  PROVE  Inv'
<1> USE WorkersAssumption
<1>1. caught # "none"
  BY DEF OnSignal, HandlerExit, HandlerLog, HandlerReturn, Inv, QuietBefore
<1>2. main \in 9 .. 13
  BY <1>1 DEF Inv, QuietBefore, StateOK
<1>3. CASE handler = "exit" /\ HandlerExit
  <2>1. CASE Crash
    BY <2>1, NoChange DEF Crash, logVars
  <2>2. CASE /\ handler' = "log" /\ closing' = (closing \/ ~ Done("~IceServer"))
             /\ UNCHANGED <<logVars, main, status, port, worker, requests, frame, caught>>
    <3>1. UNCHANGED <<mutex, line, main, worker, frame, caught>>
      BY <2>2 DEF logVars
    <3>2. StateOK' /\ HolderWrites' /\ MainAlone' /\ QuietBefore' /\ Blocked'
      BY <1>1, <1>2, <2>2, <3>1
         DEF Inv, StateOK, HolderWrites, InHook, MainAlone, QuietBefore, Blocked
    <3>3. NoRequestLeft'
      BY <2>2, <3>1 DEF Inv, NoRequestLeft
    <3> QED BY <3>2, <3>3 DEF Inv
  <2> QED BY <1>3, <2>1, <2>2 DEF HandlerExit
<1>4. CASE handler = "log" /\ HandlerLog
  <2>1. /\ handler' = "return"
        /\ UNCHANGED <<main, worker, frame, caught, closing>>
        /\ print("signal", "INFO", "signal", thread_name[frame])
    BY <1>4 DEF HandlerLog
  <2>2. "INFO" \in DOMAIN Severity /\ "signal" \in Contexts
    BY DEF Severity
  <2>3. /\ line' = [d \in Contexts |-> line'[d]]
        /\ line'["signal"] # NoLine
        /\ \A d \in Contexts : d # "signal" => line'[d] = line[d]
        /\ mutex' = mutex
    BY <2>1, <2>2, Prints DEF Inv
  <2>4. StateOK' /\ HolderWrites'
    BY <2>1, <2>3 DEF Inv, StateOK, HolderWrites, InHook
  <2>5. MainAlone' /\ QuietBefore' /\ Blocked' /\ NoRequestLeft'
    BY <1>1, <1>2, <2>1, <2>3 DEF Inv, MainAlone, QuietBefore, Blocked, NoRequestLeft
  <2> QED BY <2>4, <2>5 DEF Inv
<1>5. CASE handler = "return" /\ HandlerReturn
  <2>1. /\ line["signal"] = NoLine
        /\ handler' = "none" /\ frame' = NoOne
        /\ UNCHANGED <<mutex, line, main, worker, caught, closing>>
    BY <1>5 DEF HandlerReturn, logVars
  <2>2. caught # "inside"
    BY <1>5, <2>1 DEF Inv, Blocked
  <2>3. StateOK' /\ HolderWrites' /\ MainAlone' /\ NoRequestLeft'
    BY <2>1 DEF Inv, StateOK, HolderWrites, InHook, MainAlone, NoRequestLeft
  <2>4. QuietBefore' /\ Blocked'
    BY <1>1, <1>2, <2>1, <2>2 DEF Inv, QuietBefore, Blocked
  <2> QED BY <2>3, <2>4 DEF Inv
<1> QED BY <1>3, <1>4, <1>5 DEF OnSignal, HandlerExit, HandlerLog, HandlerReturn

\* A context in write_out is not the one that the handler has interrupted.
LEMMA WriteStep ==
  ASSUME Inv, NEW c \in Contexts, WriteLine(c)
  PROVE  Inv'
<1> USE WorkersAssumption
<1>1. c # frame
  BY DEF WriteLine, Runs
<1>2. c # NoOne
  BY DEF NoOne
<1>3. CASE Crash
  BY <1>3, NoChange DEF Crash, logVars
<1>4. CASE pos \in DOMAIN sinks /\ WriteSink(c, sinks[pos] \notin Destroyed) /\ UNCHANGED procVars
  BY <1>4, NoChange DEF WriteSink, procVars
<1>5. CASE Lock(c) /\ UNCHANGED procVars
  <2>1. /\ line[c] # NoLine /\ mutex = NoOne /\ mutex' = c
        /\ UNCHANGED <<line, main, worker, frame, handler, caught, closing>>
    BY <1>5 DEF Lock, procVars
  <2>2. caught # "inside"
    BY <2>1 DEF Inv, Blocked
  <2> QED BY <2>1, <2>2
          DEF Inv, StateOK, HolderWrites, MainAlone, QuietBefore, Blocked, NoRequestLeft
<1>6. CASE Unlock(c) /\ UNCHANGED procVars
  <2>1. /\ mutex = c /\ mutex' = NoOne
        /\ line' = [line EXCEPT ![c] = NoLine]
        /\ UNCHANGED <<main, worker, frame, handler, caught, closing>>
    BY <1>6 DEF Unlock, procVars
  <2>2. caught # "inside"
    BY <1>1, <2>1 DEF Inv, Blocked
  <2>3. line = [d \in Contexts |-> line[d]]
    BY DEF Inv, StateOK
  <2>4. line' = [d \in Contexts |-> line'[d]]
    BY <2>1, <2>3
  <2>5. \A d \in Contexts : line'[d] = line[d] \/ line'[d] = NoLine
    BY <2>1, <2>3
  <2>6. StateOK' /\ HolderWrites'
    BY <2>1, <2>4 DEF Inv, StateOK, HolderWrites, InHook
  <2>7. MainAlone' /\ QuietBefore' /\ Blocked' /\ NoRequestLeft'
    BY <2>1, <2>2, <2>5 DEF Inv, MainAlone, QuietBefore, Blocked, NoRequestLeft
  <2> QED BY <2>6, <2>7 DEF Inv
<1> QED BY <1>3, <1>4, <1>5, <1>6 DEF WriteLine

LEMMA InvNext == Inv /\ [Next]_vars => Inv'
<1> SUFFICES ASSUME Inv, [Next]_vars PROVE Inv'
  OBVIOUS
<1>1. CASE Main
  <2>1. CASE ClearSinks \/ AddFileSink \/ SetHandler \/ Wait \/ DestroyLocal
    BY <2>1, MainSilent
  <2>2. CASE NormalExit \/ \E sev \in DOMAIN Severity : Greet(sev)
    BY <2>2, MainPrints
  <2>3. CASE StartServer
    BY <2>3, MainStarts
  <2>4. CASE Exit
    BY <2>4, NoChange DEF Exit, logVars
  <2> QED BY <1>1, <2>1, <2>2, <2>3, <2>4 DEF Main
<1>2. CASE \E t \in Workers : Worker(t) \/ Dispatch(t) \/ HookStop(t)
  BY <1>2, PoolStep
<1>3. CASE \E t \in Started \cup {"main"} : Signal(t)
  BY <1>3, SignalStep
<1>4. CASE OnSignal
  BY <1>4, HandlerStep
<1>5. CASE \E c \in Contexts : WriteLine(c)
  BY <1>5, WriteStep
<1>6. CASE OldServerEnds
  BY <1>6, NoChange DEF OldServerEnds, logVars
<1>7. CASE UNCHANGED vars
  BY <1>7, NoChange DEF vars, logVars, procVars
<1> QED BY <1>1, <1>2, <1>3, <1>4, <1>5, <1>6, <1>7 DEF Next

LEMMA Invariance == Spec => []Inv
<1>1. Init => Inv
  BY InvInit
<1>2. Inv /\ [Next]_vars => Inv'
  BY InvNext
<1> QED BY <1>1, <1>2, PTL DEF Spec

\* Before a signal is caught nothing is shut down, so main is not past
\* waitForShutdown and has destroyed nothing.
Unsignalled == caught = "none" => ~ closing /\ status # "crashed"

LEMMA UnsignalledNext == Inv /\ Unsignalled /\ [Next]_vars => Unsignalled'
<1> SUFFICES ASSUME Inv, Unsignalled, [Next]_vars PROVE Unsignalled'
  OBVIOUS
<1>1. ASSUME UNCHANGED <<caught, closing>>,
             status' \in {status, "ended", "aborted", "killed"}
      PROVE  Unsignalled'
  BY <1>1 DEF Unsignalled
<1>2. CASE Main
  BY <1>1, <1>2 DEF Main, ClearSinks, AddFileSink, StartServer, SetHandler, Wait,
                    NormalExit, DestroyLocal, Exit, Greet
<1>3. CASE \E t \in Workers : Worker(t) \/ Dispatch(t) \/ HookStop(t)
  BY <1>1, <1>3 DEF Worker, HookStart, Serve, Return, Dispatch, HookStop, HookRemove, Goto
<1>4. ASSUME NEW t \in Started \cup {"main"}, Signal(t)
      PROVE  Unsignalled'
  BY <1>4 DEF Signal, Unsignalled
<1>5. CASE OnSignal
  <2>1. caught # "none"
    BY <1>5 DEF OnSignal, HandlerExit, HandlerLog, HandlerReturn, Inv, QuietBefore
  <2>2. caught' = caught
    BY <1>5 DEF OnSignal, HandlerExit, HandlerLog, HandlerReturn, Crash
  <2> QED BY <2>1, <2>2 DEF Unsignalled
<1>6. ASSUME NEW c \in Contexts, WriteLine(c)
      PROVE  Unsignalled'
  <2>1. CASE UNCHANGED procVars
    BY <1>1, <2>1 DEF procVars
  <2>2. CASE Destroyed # {} /\ Crash
    <3>1. main >= 10
      BY <2>2, Past DEF Destroyed, Inv, StateOK
    <3>2. caught # "none"
      BY <3>1 DEF Inv, NoRequestLeft, Unsignalled
    <3> QED BY <2>2, <3>2 DEF Crash, Unsignalled
  <2> QED BY <1>6, <2>1, <2>2 DEF WriteLine
<1>7. CASE OldServerEnds
  BY <1>1, <1>7 DEF OldServerEnds
<1>8. CASE UNCHANGED vars
  BY <1>1, <1>8 DEF vars, procVars
<1> QED BY <1>2, <1>3, <1>4, <1>5, <1>6, <1>7, <1>8 DEF Next

\* A server that gets no SIGINT uses no object that main has destroyed, for any
\* number of threads and requests.
THEOREM CrashesAfterSignal == Spec => []CrashNeedsSignal
<1>1. Init => Unsignalled
  BY DEF Init, Unsignalled
<1>2. Inv /\ Unsignalled /\ [Next]_vars => Unsignalled'
  BY UnsignalledNext
<1>3. Unsignalled => CrashNeedsSignal
  BY DEF Unsignalled, CrashNeedsSignal
<1> QED BY <1>1, <1>2, <1>3, Invariance, PTL DEF Spec

\* For any number of threads, requests and sinks: a SIGINT that interrupts a
\* thread inside write_out or a hook that holds the mutex (Logging.cpp,
\* Logging.h:181-190) blocks its handler, and the mutex, for good.
THEOREM SignalInsideBlocks == Spec => []StuckInside
<1>1. Inv => StuckInside
  BY DEF Inv, Blocked, StuckInside
<1> QED BY <1>1, Invariance, PTL

\* The destructor of IceServer deletes the pool of connections only after the
\* last request, whatever the number of threads and requests.
THEOREM PoolIsDeletedLast == Spec => []PoolOutlivesRequests
<1>1. Inv => PoolOutlivesRequests
  <2> SUFFICES ASSUME Inv, Done("~IceServer") PROVE Serving = {}
    BY DEF PoolOutlivesRequests
  <2>1. main >= 12
    BY Past DEF Inv, StateOK
  <2> QED BY <2>1 DEF Inv, NoRequestLeft, Serving, StateOK
<1> QED BY <1>1, Invariance, PTL

\* addSink and clearSinks need no mutex: whenever main calls them nobody holds
\* it, and nobody else changes the vector.
THEOREM SinksChangeAlone == Spec => SinksStable
<1>1. Inv /\ [Next]_vars => [mutex # NoOne => UNCHANGED sinks]_vars
  <2> SUFFICES ASSUME Inv, Next, mutex # NoOne PROVE UNCHANGED sinks
    OBVIOUS
  <2>1. CASE ClearSinks \/ AddFileSink
    <3>1. main \in 1 .. 2 /\ line["main"] = NoLine
      BY <2>1, Present DEF ClearSinks, AddFileSink, Inv, StateOK
    <3>2. ~ InHook(mutex)
      BY <3>1 DEF Inv, MainAlone, InHook
    <3>3. mutex \in Contexts /\ line[mutex] = NoLine
      BY <3>1 DEF Inv, StateOK, MainAlone
    <3> QED BY <3>2, <3>3 DEF Inv, HolderWrites
  <2>2. CASE StartServer \/ SetHandler \/ Wait \/ DestroyLocal \/ Exit
    BY <2>2 DEF StartServer, SetHandler, Wait, DestroyLocal, Exit, logVars
  <2>3. CASE NormalExit \/ \E sev \in DOMAIN Severity : Greet(sev)
    BY <2>3 DEF NormalExit, Greet, print
  <2>4. CASE \E t \in Workers : Worker(t) \/ Dispatch(t) \/ HookStop(t)
    BY <2>4 DEF Worker, Dispatch, HookStop, HookRemove, HookStart, Serve, Return,
                LockName, registerThread, removeThread, print, logVars
  <2>5. CASE \E t \in Started \cup {"main"} : Signal(t)
    BY <2>5 DEF Signal, logVars
  <2>6. CASE OnSignal
    BY <2>6 DEF OnSignal, HandlerExit, HandlerLog, HandlerReturn, Crash, print, logVars
  <2>7. CASE \E c \in Contexts : WriteLine(c)
    BY <2>7 DEF WriteLine, Lock, Unlock, WriteSink, Crash, logVars
  <2>8. CASE OldServerEnds
    BY <2>8 DEF OldServerEnds, logVars
  <2> QED BY <2>1, <2>2, <2>3, <2>4, <2>5, <2>6, <2>7, <2>8 DEF Next, Main
<1> QED BY <1>1, Invariance, PTL DEF Spec, SinksStable
=============================================================================
