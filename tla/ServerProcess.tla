---------------------------- MODULE ServerProcess ----------------------------
(***************************************************************************)
(* The life of the server process: main (src/server/server.cpp), the       *)
(* threads of the Ice pool with their hooks and dispatches                 *)
(* (src/common/ThreadHook.h, src/server/IceServer.cpp), the handler of     *)
(* SIGINT (src/common/ExitHandler.cpp) that runs on whatever thread the    *)
(* signal interrupts, and the logger that all of them share.  What a       *)
(* request does is the subject of Accounts; here it only holds a           *)
(* connection of the pool and logs.                                        *)
(***************************************************************************)
EXTENDS Logger, FiniteSets

CONSTANTS
  Workers,       \* the threads of the Ice server pool
  MaxRequests,   \* bound: requests dispatched
  MaxReaped,     \* bound: threads that the pool ends because they are idle
  MaxSignals     \* bound: SIGINTs, one after the other

ASSUME WorkersAssumption ==
  /\ IsFiniteSet(Workers)
  /\ Workers \cap {"main", "signal", NoOne} = {}
  /\ Contexts = Workers \cup {"main", "signal"}
  /\ {"cout", "file"} \subseteq Sinks
  /\ MaxRequests \in Nat
  /\ MaxReaped \in 0 .. Cardinality(Workers) - 1
  /\ MaxSignals \in Nat

VARIABLES
  main,       \* the statement of Script that main has reached
  status,     \* "running", or how the process ended
  port,       \* TRUE if port 1337 is free
  closing,    \* the communicator has been shut down
  worker,     \* where each thread of the pool stands
  requests,   \* requests dispatched so far
  frame,      \* the thread that runs the signal handler, or NoOne
  handler,    \* where the signal handler stands
  signals,    \* signals so far
  caught      \* history: where the last signal met its thread

procVars == <<main, status, port, closing, worker, requests, frame, handler, caught,
              signals>>
vars     == <<logVars, procVars>>

\* Variant of main that adds the file after it has started the server.
ScriptSinkLate ==
  <<"clearSinks", "INFO", "WARN", "ERROR", "INFO", "IceServer", "addSink",
    "setHandler", "wait", "bye", "~IceServer", "~FileSink">>

\* main, and the destructors of its locals.
Script ==
  <<"clearSinks", "addSink", "INFO", "WARN", "ERROR", "INFO", "IceServer",
    "setHandler", "wait", "bye", "~IceServer", "~FileSink">>

Done(op) == \E i \in 1 .. main - 1 : Script[i] = op

\* A thread runs unless the process has ended or the signal handler is on it.
Runs(t) == status = "running" /\ frame # t

\* main has reached op, and its last line is written.
At(op) ==
  /\ Runs("main")
  /\ main \in DOMAIN Script
  /\ Script[main] = op
  /\ line["main"] = NoLine

Started == {t \in Workers : worker[t] \notin {"none", "gone"}}
Serving == {t \in Workers : worker[t] \in {"handler", "return"}}

Init ==
  /\ LogInit
  /\ main = 1
  /\ status = "running"
  /\ port \in BOOLEAN
  /\ closing = FALSE
  /\ worker = [t \in Workers |-> "none"]
  /\ requests = 0
  /\ frame = NoOne
  /\ handler = "none"
  /\ signals = 0
  /\ caught = "none"
-----------------------------------------------------------------------------
(***************************************************************************)
(* main.                                                                   *)
(***************************************************************************)
NextStatement == main' = main + 1

\* The option -q.
ClearSinks ==
  /\ At("clearSinks")
  /\ NextStatement
  /\ clearSinks \/ UNCHANGED logVars
  /\ UNCHANGED <<status, port, closing, worker, requests, frame, handler, caught, signals>>

AddFileSink ==
  /\ At("addSink")
  /\ NextStatement
  /\ addSink("file")
  /\ UNCHANGED <<status, port, closing, worker, requests, frame, handler, caught, signals>>

Greet(sev) ==
  /\ At(sev)
  /\ NextStatement
  /\ print("main", sev, "greeting", thread_name["main"])
  /\ UNCHANGED <<status, port, closing, worker, requests, frame, handler, caught, signals>>

\* The constructor opens the connections to the database, starts the threads
\* and listens; it fails, and nothing catches the exception, if the port is
\* taken or one of the others cannot be done.
StartServer ==
  /\ At("IceServer")
  /\ \/ /\ port
        /\ port' = FALSE
        /\ worker' = [t \in Workers |-> "start"]
        /\ NextStatement
        /\ UNCHANGED status
     \/ /\ status' = "aborted"
        /\ UNCHANGED <<main, port, worker>>
  /\ UNCHANGED <<logVars, closing, requests, frame, handler, caught, signals>>

SetHandler ==
  /\ At("setHandler")
  /\ NextStatement
  /\ UNCHANGED <<logVars, status, port, closing, worker, requests, frame, handler, caught, signals>>

\* Variant of waitForShutdown that does not wait for running requests.
DrainedAtOnce == closing

\* Variant of waitForShutdown that waits for the requests alone.
DrainedWhenIdle == Serving = {}

\* waitForShutdown returns when shutdown was called and no request runs.
Drained == closing /\ Serving = {}

Wait ==
  /\ At("wait")
  /\ Drained
  /\ NextStatement
  /\ UNCHANGED <<logVars, status, port, closing, worker, requests, frame, handler, caught, signals>>

NormalExit ==
  /\ At("bye")
  /\ NextStatement
  /\ print("main", "INFO", "normal exit", thread_name["main"])
  /\ UNCHANGED <<status, port, closing, worker, requests, frame, handler, caught, signals>>

\* return 0: the server deletes the pool of connections, but leaves the
\* communicator with its threads; then the file is closed and destroyed.
DestroyLocal ==
  /\ At("~IceServer") \/ At("~FileSink")
  /\ NextStatement
  /\ UNCHANGED <<logVars, status, port, closing, worker, requests, frame, handler, caught, signals>>

Exit ==
  /\ Runs("main")
  /\ main = Len(Script) + 1
  /\ status' = "ended"
  /\ UNCHANGED <<logVars, main, port, closing, worker, requests, frame, handler, caught, signals>>

\* The server that run_server.sh has told to stop gives the port back.
OldServerEnds ==
  /\ status = "running"
  /\ ~ port /\ ~ Done("IceServer")
  /\ port' = TRUE
  /\ UNCHANGED <<logVars, main, status, closing, worker, requests, frame, handler, caught, signals>>

Main == \/ ClearSinks \/ AddFileSink \/ StartServer \/ SetHandler \/ Wait
        \/ NormalExit \/ DestroyLocal \/ Exit
        \/ \E sev \in DOMAIN Severity : Greet(sev)
-----------------------------------------------------------------------------
(***************************************************************************)
(* The threads of the pool.                                                *)
(***************************************************************************)
WorkerAt(t, label) == Runs(t) /\ worker[t] = label /\ line[t] = NoLine

Goto(t, label) ==
  /\ worker' = [worker EXCEPT ![t] = label]
  /\ UNCHANGED <<main, status, port, closing, frame, handler, caught, signals>>

\* Variant of ThreadHook::start that logs before it registers.
HookStartUnnamed(t) ==
  \/ /\ WorkerAt(t, "start")
     /\ print(t, "INFO", "howdy", thread_name[t])
     /\ Goto(t, "named")
     /\ UNCHANGED requests
  \/ /\ WorkerAt(t, "named")
     /\ LockName(t)
     /\ Goto(t, "named")
     /\ UNCHANGED requests
  \/ /\ WorkerAt(t, "named")
     /\ registerThread(t)
     /\ Goto(t, "idle")
     /\ UNCHANGED requests

HookStart(t) ==
  \/ /\ WorkerAt(t, "start")
     /\ LockName(t)
     /\ Goto(t, "start")
     /\ UNCHANGED requests
  \/ /\ WorkerAt(t, "start")
     /\ registerThread(t)
     /\ Goto(t, "named")
     /\ UNCHANGED requests
  \/ /\ WorkerAt(t, "named")
     /\ print(t, "INFO", "howdy", thread_name[t])
     /\ Goto(t, "idle")
     /\ UNCHANGED requests

\* A request is read only until the communicator is shut down.
Dispatch(t) ==
  /\ WorkerAt(t, "idle")
  /\ ~ closing
  /\ requests < MaxRequests
  /\ requests' = requests + 1
  /\ Goto(t, "handler")
  /\ UNCHANGED logVars

\* A request that succeeds logs; one that throws does not.
Serve(t) ==
  /\ WorkerAt(t, "handler")
  /\ \/ print(t, "INFO", "request", thread_name[t])
     \/ UNCHANGED logVars
  /\ Goto(t, "return")
  /\ UNCHANGED requests

Return(t) ==
  /\ WorkerAt(t, "return")
  /\ Goto(t, "idle")
  /\ UNCHANGED <<logVars, requests>>

\* The pool ends a thread that has been idle for long, never its last one.
HookStop(t) ==
  /\ WorkerAt(t, "idle")
  /\ Cardinality({u \in Workers : worker[u] \in {"stop", "gone"}}) < MaxReaped
  /\ print(t, "INFO", "adios", thread_name[t])
  /\ Goto(t, "stop")
  /\ UNCHANGED requests

\* The second statement of ThreadHook::stop.
HookRemove(t) ==
  /\ WorkerAt(t, "stop")
  /\ \/ LockName(t) /\ Goto(t, "stop")
     \/ removeThread(t) /\ Goto(t, "gone")
  /\ UNCHANGED requests
-----------------------------------------------------------------------------
(***************************************************************************)
(* SIGINT.  Its disposition kills the process until main has set the       *)
(* handler.  The handler uses the server and the logger that main is       *)
(* about to destroy; what it does to objects that are gone is undefined:   *)
(* here the process crashes or the access has no effect.                   *)
(***************************************************************************)
Crash ==
  /\ status' = "crashed"
  /\ UNCHANGED <<logVars, main, port, closing, worker, requests, frame, handler, caught, signals>>

\* One at a time: SIGINT is blocked on the thread of the handler while it runs;
\* that another thread takes a second one in the meantime is left out.
Signal(t) ==
  /\ status = "running"
  /\ frame = NoOne
  /\ signals < MaxSignals
  /\ signals' = signals + 1
  /\ \/ /\ Done("setHandler")
        /\ frame' = t
        /\ handler' = "exit"
        /\ caught' = IF mutex = t THEN "inside" ELSE "outside"
        /\ UNCHANGED status
     \/ /\ ~ Done("setHandler")
        /\ status' = "killed"
        /\ UNCHANGED <<frame, handler, caught>>
  /\ UNCHANGED <<logVars, main, port, closing, worker, requests>>


HandlerExit ==
  /\ status = "running"
  /\ handler = "exit"
  /\ \/ /\ handler' = "log"
        /\ closing' = (closing \/ ~ Done("~IceServer"))
        /\ UNCHANGED <<logVars, main, status, port, worker, requests, frame, caught, signals>>
     \/ Done("~IceServer") /\ Crash

\* Variant of the handler that does not log.
HandlerSilent ==
  /\ status = "running"
  /\ handler = "log"
  /\ handler' = "return"
  /\ UNCHANGED <<logVars, main, status, port, closing, worker, requests, frame, caught, signals>>

HandlerLog ==
  /\ status = "running"
  /\ handler = "log"
  /\ handler' = "return"
  /\ print("signal", "INFO", "signal", thread_name[frame])
  /\ UNCHANGED <<main, status, port, closing, worker, requests, frame, caught, signals>>

HandlerReturn ==
  /\ status = "running"
  /\ handler = "return"
  /\ line["signal"] = NoLine
  /\ handler' = "none"
  /\ frame' = NoOne
  /\ UNCHANGED <<logVars, main, status, port, closing, worker, requests, caught, signals>>
-----------------------------------------------------------------------------
(***************************************************************************)
(* write_out, on any context.                                              *)
(***************************************************************************)
Destroyed == IF Done("~FileSink") THEN {"file"} ELSE {}

WriteLine(c) ==
  /\ Runs(c)
  /\ \/ /\ \/ Lock(c)
           \/ Unlock(c)
           \/ pos \in DOMAIN sinks /\ WriteSink(c, sinks[pos] \notin Destroyed)
        /\ UNCHANGED procVars
     \/ /\ mutex = c
        /\ line[c] # NoLine
        /\ pos \in DOMAIN sinks
        /\ sinks[pos] \in Destroyed
        /\ Crash

Worker(t) == HookStart(t) \/ Serve(t) \/ Return(t) \/ HookRemove(t)

OnSignal == HandlerExit \/ HandlerLog \/ HandlerReturn

Next ==
  \/ Main
  \/ \E t \in Workers : Worker(t) \/ Dispatch(t) \/ HookStop(t)
  \/ \E t \in Started \cup {"main"} : Signal(t)
  \/ OnSignal
  \/ \E c \in Contexts : WriteLine(c)
  \/ OldServerEnds

\* Threads are scheduled, and the clients that a request calls back answer.
\* Nobody has to send a request or a signal, and idle threads may stay.
Fairness ==
  /\ WF_vars(Main)
  /\ WF_vars(OnSignal)
  /\ \A t \in Workers : WF_vars(Worker(t))
  /\ \A c \in Contexts : WF_vars(WriteLine(c))

Spec == Init /\ [][Next]_vars /\ Fairness
-----------------------------------------------------------------------------
(***************************************************************************)
(* Properties.                                                             *)
(***************************************************************************)
Lines ==
  [sev : {Severity[s] : s \in DOMAIN Severity},
   what : {"greeting", "howdy", "request", "adios", "signal", "normal exit"},
   thread : {NoName, <<"MainThread">>}
            \cup {<<"Thread", n>> : n \in 0 .. Cardinality(Workers)}]

\* The values of the variables of the logger and of the process.
TypeOK ==
  /\ mutex \in Contexts \cup {NoOne}
  /\ sinks \in {<<>>, <<"cout">>, <<"file">>, <<"cout", "file">>}
  /\ pos \in 1 .. 3
  /\ line \in [Contexts -> Lines \cup {NoLine}]
  /\ \A s \in Sinks : \A i \in DOMAIN out[s] : out[s][i] \in Lines
  /\ sent \subseteq Sinks
  /\ thread_counter \in 0 .. Cardinality(Workers)
  /\ main \in 1 .. Len(Script) + 1
  /\ status \in {"running", "ended", "aborted", "killed", "crashed"}
  /\ {port, closing} \subseteq BOOLEAN
  /\ worker \in [Workers -> {"none", "start", "named", "idle", "handler",
                             "return", "stop", "gone"}]
  /\ requests \in 0 .. MaxRequests
  /\ frame \in Workers \cup {"main", NoOne}
  /\ handler \in {"none", "exit", "log", "return"}
  /\ signals \in 0 .. MaxSignals
  /\ caught \in {"none", "inside", "outside"}

\* The pool of connections, which the destructor of IceServer deletes without
\* asking, outlives every request: main only gets there when shutdown was
\* called and the last request, also one that waits for a callback, is over.
PoolOutlivesRequests == Done("~IceServer") => Serving = {}

\* addSink and clearSinks do not take the mutex, but nobody is in the loop
\* over the vector when they change it: main calls them before any other
\* thread exists.
SinksStable == [][mutex # NoOne => UNCHANGED sinks]_vars

\* The lines of the threads of the pool carry the name under which the thread
\* is registered, from its first line to its last, and no two of the threads
\* share a name.
LinesNamed ==
  /\ \A s \in Sinks : \A i \in DOMAIN out[s] :
       out[s][i].what \in {"howdy", "request", "adios"} => out[s][i].thread # NoName
  /\ \A t, u \in Started :
       t # u /\ thread_name[t] # NoName => thread_name[t] # thread_name[u]

\* The logger keeps its promise while the process lives and main and the
\* threads come and go: no line is torn, doubled or reordered between sinks,
\* and only a sink that was destroyed loses one.
Service == INSTANCE LogService WITH
  Messages <- Lines,
  pending  <- line,
  attached <- sinks,
  gone     <- Destroyed,
  got      <- [s \in Sinks |->
                IF s \in sent THEN SubSeq(out[s], 1, Len(out[s]) - 1) ELSE out[s]]
ImplementsLogService == Service!Spec


\* A SIGINT that interrupts a thread inside write_out, registerThread or
\* removeThread never comes to an end: its handler logs and waits for the mutex
\* that the thread under it holds, and with them waits whoever logs.
StuckInside == caught = "inside" => frame # NoOne /\ mutex = frame

\* Without a SIGINT nobody meets an object that main has destroyed, whatever the
\* threads of the pool, which outlive main's locals, still log.
CrashNeedsSignal == status = "crashed" => caught # "none"

\* The handler of SIGINT is there to clean up: nothing it does, and no line
\* that is still being written, may meet an object that main has destroyed.
UsesLiveObjects == status # "crashed"
=============================================================================
