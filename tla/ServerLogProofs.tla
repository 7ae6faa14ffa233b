--------------------------- MODULE ServerLogProofs ---------------------------
(***************************************************************************)
(* What the server process logs: its variables keep their types, the lines *)
(* of threads carry names that no two threads share, and the logger        *)
(* implements LogService while threads, signal and main come and go.       *)
(***************************************************************************)
EXTENDS ServerProcessProofs, FiniteSetTheorems, SequenceTheorems

\* Lines whose thread is named, if one of the pool has written them.
Named(l) == l.what \in {"howdy", "request", "adios"} => l.thread # NoName
NamedLines == {l \in Lines : Named(l)}

\* The names that registerThread has given out so far.
Given == {<<"Thread", n>> : n \in 0 .. thread_counter - 1}

Registered == {t \in Workers : worker[t] \notin {"none", "start"}}

\* Each thread of the pool that has registered has a name of its own until it
\* is removed, and the counter has counted it once.
NamesOK ==
  /\ thread_name = [c \in Contexts |-> thread_name[c]]
  /\ thread_name["main"] = <<"MainThread">>
  /\ thread_counter = Cardinality(Registered)
  /\ \A t \in Workers :
       IF worker[t] \in {"none", "start", "gone"}
       THEN thread_name[t] = NoName ELSE thread_name[t] \in Given
  /\ \A t, u \in Workers :
       t # u /\ thread_name[t] # NoName => thread_name[t] # thread_name[u]

\* The handler runs on a thread.
HandlerOnThread == handler # "none" => frame # NoOne

\* What the logger is given and passes on are well-named lines.
LinesOK ==
  /\ line \in [Contexts -> NamedLines \cup {NoLine}]
  /\ out \in [Sinks -> Seq(NamedLines)]

\* The sinks are those main has attached so far, each once.
Vectors == {<<>>, <<"cout">>, <<"file">>, <<"cout", "file">>}
SinksOK ==
  /\ sinks \in Vectors
  /\ main <= 2 => sinks \in {<<>>, <<"cout">>}

\* The mutex is free, or its holder is in a hook.
NobodyWrites == mutex = NoOne \/ line[mutex] = NoLine

\* The holder of the mutex has passed its line to exactly the sinks before pos
\* that want it and are still there, and it is the last they have received.
LoopOK ==
  /\ sent \subseteq Sinks
  /\ pos \in 1 .. Len(sinks) + 1
  /\ NobodyWrites => sent = {} /\ pos = 1
  /\ \A s \in sent :
       /\ line[mutex].sev >= Level[s]
       /\ \E i \in 1 .. pos - 1 : sinks[i] = s
       /\ out[s] # <<>>
       /\ out[s][Len(out[s])] = line[mutex]
  /\ \A i \in 1 .. pos - 1 :
       line[mutex].sev >= Level[sinks[i]] => sinks[i] \in sent \cup Destroyed

\* The rest of the types.
RestOK ==
  /\ status \in {"running", "ended", "aborted", "killed", "crashed"}
  /\ port \in BOOLEAN
  /\ requests \in 0 .. MaxRequests
  /\ signals \in 0 .. MaxSignals

LogInv ==
  Inv /\ NamesOK /\ HandlerOnThread /\ LinesOK /\ SinksOK /\ LoopOK /\ RestOK
-----------------------------------------------------------------------------
(***************************************************************************)
(* The names of threads.                                                   *)
(***************************************************************************)
\* No more threads register than there are.
LEMMA CounterBound ==
  ASSUME NamesOK
  PROVE  /\ thread_counter \in 0 .. Cardinality(Workers)
         /\ Cardinality(Workers) \in Nat
         /\ IsFiniteSet(Registered)
<1>1. IsFiniteSet(Workers) /\ Registered \in SUBSET Workers
  BY WorkersAssumption DEF Registered
<1>2. /\ IsFiniteSet(Registered)
      /\ Cardinality(Registered) <= Cardinality(Workers)
  BY <1>1, FS_Subset
<1>3. Cardinality(Registered) \in Nat /\ Cardinality(Workers) \in Nat
  BY <1>1, <1>2, FS_CardinalityType
<1>4. thread_counter = Cardinality(Registered)
  BY DEF NamesOK
<1> QED BY <1>2, <1>3, <1>4

\* The name of a registered thread is not the one that stands for none.
LEMMA GivenIsName ==
  ASSUME NEW n
  PROVE  <<"Thread", n>> # NoName
BY SMT DEF NoName

\* The names given out are among those a line may carry.
LEMMA GivenInRange ==
  ASSUME NamesOK, NEW n \in 0 .. thread_counter - 1
  PROVE  n \in 0 .. Cardinality(Workers)
<1>1. thread_counter \in 0 .. Cardinality(Workers) /\ Cardinality(Workers) \in Nat
  BY CounterBound
<1> QED BY <1>1

\* Who has which name and where the threads stand is all there is to names.
LEMMA NamesKept ==
  ASSUME NamesOK, UNCHANGED <<thread_name, thread_counter, worker>>
  PROVE  NamesOK'
BY DEF NamesOK, Registered, Given

\* A registered thread goes on and keeps its name.
LEMMA NamedMoves ==
  ASSUME NamesOK, worker \in [Workers -> Labels], NEW t \in Workers,
         NEW label \in {"idle", "handler", "return", "stop"},
         worker[t] \in {"named", "idle", "handler", "return"},
         worker' = [worker EXCEPT ![t] = label],
         UNCHANGED <<thread_name, thread_counter>>
  PROVE  NamesOK'
<1>1. Registered' = Registered
  BY DEF Registered
<1>2. Given' = Given
  BY DEF Given
<1> QED BY <1>1, <1>2 DEF NamesOK

\* The server starts its threads; none of them has registered.
LEMMA NamesAtStart ==
  ASSUME NamesOK, \A t \in Workers : worker[t] = "none",
         worker' = [t \in Workers |-> "start"],
         UNCHANGED <<thread_name, thread_counter>>
  PROVE  NamesOK'
<1>1. Registered' = {} /\ Registered = {}
  BY DEF Registered
<1>2. Given' = Given
  BY DEF Given
<1> QED BY <1>1, <1>2 DEF NamesOK

\* A thread registers and takes a name nobody has had.
LEMMA NamesRegistered ==
  ASSUME NamesOK, worker \in [Workers -> Labels], NEW t \in Workers,
         worker[t] = "start", worker' = [worker EXCEPT ![t] = "named"],
         registerThread(t)
  PROVE  NamesOK'
<1> USE WorkersAssumption
<1>1. Registered' = Registered \cup {t} /\ t \notin Registered
  BY DEF Registered
<1>2. thread_counter \in Nat /\ thread_counter = Cardinality(Registered)
  BY CounterBound, FS_CardinalityType DEF NamesOK
<1>3. thread_counter' = thread_counter + 1
  BY DEF registerThread
<1>4. thread_counter' = Cardinality(Registered')
  BY <1>1, <1>2, <1>3, CounterBound, FS_AddElement
<1> DEFINE new == <<"Thread", thread_counter>>
<1>5. Given' = Given \cup {new}
  BY <1>2, <1>3 DEF Given
<1>6. new \notin Given
  BY <1>2, SMT DEF Given
<1>7. new # NoName
  BY SMT DEF NoName
<1> HIDE DEF new
<1>8. thread_name' = [thread_name EXCEPT ![t] = new]
  BY DEF registerThread, new
<1>9. t \in Contexts /\ t # "main" /\ thread_name = [c \in Contexts |-> thread_name[c]]
  BY DEF NamesOK
<1>10. /\ thread_name' = [c \in Contexts |-> thread_name'[c]]
       /\ thread_name'[t] = new
       /\ \A c \in Contexts : c # t => thread_name'[c] = thread_name[c]
  BY <1>8, <1>9
<1>11. "main" \in Contexts /\ thread_name'["main"] = <<"MainThread">>
  BY <1>9, <1>10 DEF NamesOK
<1>12. \A u \in Workers : u # t => worker'[u] = worker[u] /\ thread_name'[u] = thread_name[u]
  BY <1>10
<1>13. \A u \in Workers : thread_name[u] = NoName \/ thread_name[u] \in Given
  BY DEF NamesOK
<1>14. ASSUME NEW u \in Workers
       PROVE  IF worker'[u] \in {"none", "start", "gone"}
              THEN thread_name'[u] = NoName ELSE thread_name'[u] \in Given'
  BY <1>5, <1>10, <1>12 DEF NamesOK
<1>15. ASSUME NEW u \in Workers, NEW v \in Workers, u # v, thread_name'[u] # NoName
       PROVE  thread_name'[u] # thread_name'[v]
  BY <1>6, <1>7, <1>10, <1>12, <1>13, <1>15 DEF NamesOK
<1> QED BY <1>4, <1>10, <1>11, <1>14, <1>15 DEF NamesOK

\* A thread that ends gives its name up.
LEMMA NamesRemoved ==
  ASSUME NamesOK, worker \in [Workers -> Labels], NEW t \in Workers,
         worker[t] = "stop", worker' = [worker EXCEPT ![t] = "gone"],
         removeThread(t)
  PROVE  NamesOK'
<1> USE WorkersAssumption
<1>1. Registered' = Registered
  BY DEF Registered
<1>2. Given' = Given /\ thread_counter' = thread_counter
  BY DEF Given, removeThread
<1>3. /\ thread_name' = [thread_name EXCEPT ![t] = NoName]
      /\ thread_name = [c \in Contexts |-> thread_name[c]]
      /\ t \in Contexts /\ t # "main" /\ "main" \in Contexts
  BY DEF NamesOK, removeThread
<1>4. /\ thread_name' = [c \in Contexts |-> thread_name'[c]]
      /\ thread_name'[t] = NoName
      /\ \A c \in Contexts : c # t => thread_name'[c] = thread_name[c]
  BY <1>3
<1>5. \A u \in Workers : u # t => worker'[u] = worker[u] /\ thread_name'[u] = thread_name[u]
  BY <1>4
<1>6. \A u \in Workers :
        IF worker'[u] \in {"none", "start", "gone"}
        THEN thread_name'[u] = NoName ELSE thread_name'[u] \in Given'
  BY <1>2, <1>4, <1>5 DEF NamesOK
<1>7. \A u, v \in Workers :
        u # v /\ thread_name'[u] # NoName => thread_name'[u] # thread_name'[v]
  BY <1>4, <1>5 DEF NamesOK
<1> QED BY <1>1, <1>2, <1>3, <1>4, <1>6, <1>7 DEF NamesOK

LEMMA NamesNext == Inv /\ NamesOK /\ [Next]_vars => NamesOK'
<1> SUFFICES ASSUME Inv, NamesOK, [Next]_vars PROVE NamesOK'
  OBVIOUS
<1>1. worker \in [Workers -> Labels]
  BY DEF Inv, StateOK
<1>2. CASE StartServer
  <2>1. main = 7
    BY <1>2, Present DEF StartServer, Inv, StateOK
  <2>2. \A t \in Workers : worker[t] = "none"
    BY <2>1 DEF Inv, MainAlone
  <2>3. UNCHANGED <<thread_name, thread_counter>>
    BY <1>2 DEF StartServer, logVars
  <2> QED BY <1>2, <2>2, <2>3, NamesAtStart, NamesKept DEF StartServer
<1>3. CASE \/ ClearSinks \/ AddFileSink \/ SetHandler \/ Wait \/ NormalExit
           \/ DestroyLocal \/ Exit \/ \E sev \in DOMAIN Severity : Greet(sev)
  <2>1. UNCHANGED <<thread_name, thread_counter, worker>>
    BY <1>3 DEF ClearSinks, AddFileSink, SetHandler, Wait, NormalExit, DestroyLocal,
                Exit, Greet, clearSinks, addSink, print, logVars
  <2> QED BY <2>1, NamesKept
<1>4. ASSUME NEW t \in Workers, Worker(t) \/ Dispatch(t) \/ HookStop(t)
      PROVE  NamesOK'
  <2> USE DEF WorkerAt, Goto
  <2>1. CASE HookStart(t)
    <3>1. CASE worker[t] = "start" /\ registerThread(t) /\ Goto(t, "named")
      BY <1>1, <3>1, NamesRegistered
    <3>3. CASE worker[t] = "start" /\ LockName(t) /\ Goto(t, "start")
      BY <1>1, <3>3, NamesKept DEF LockName
    <3>2. CASE worker[t] = "named" /\ print(t, "INFO", "howdy", thread_name[t]) /\ Goto(t, "idle")
      BY <1>1, <3>2, NamedMoves DEF print
    <3> QED BY <2>1, <3>1, <3>2, <3>3 DEF HookStart
  <2>2. CASE Dispatch(t)
    BY <1>1, <2>2, NamedMoves DEF Dispatch, logVars
  <2>3. CASE Serve(t)
    BY <1>1, <2>3, NamedMoves DEF Serve, print, logVars
  <2>4. CASE Return(t)
    BY <1>1, <2>4, NamedMoves DEF Return, logVars
  <2>5. CASE HookStop(t)
    BY <1>1, <2>5, NamedMoves DEF HookStop, print
  <2>6. CASE HookRemove(t)
    <3>1. CASE worker[t] = "stop" /\ LockName(t) /\ Goto(t, "stop")
      BY <1>1, <3>1, NamesKept DEF LockName
    <3>2. CASE worker[t] = "stop" /\ removeThread(t) /\ Goto(t, "gone")
      BY <1>1, <3>2, NamesRemoved
    <3> QED BY <2>6, <3>1, <3>2 DEF HookRemove
  <2> QED BY <1>4, <2>1, <2>2, <2>3, <2>4, <2>5, <2>6 DEF Worker
<1>5. CASE \E t \in Started \cup {"main"} : Signal(t)
  BY <1>5, NamesKept DEF Signal, logVars
<1>6. CASE OnSignal
  BY <1>6, NamesKept DEF OnSignal, HandlerExit, HandlerLog, HandlerReturn, Crash, print, logVars
<1>7. CASE \E c \in Contexts : WriteLine(c)
  BY <1>7, NamesKept DEF WriteLine, Lock, Unlock, WriteSink, Crash, logVars, procVars
<1>8. CASE OldServerEnds
  BY <1>8, NamesKept DEF OldServerEnds, logVars
<1>9. CASE UNCHANGED vars
  BY <1>9, NamesKept DEF vars, logVars, procVars
<1> QED BY <1>2, <1>3, <1>4, <1>5, <1>6, <1>7, <1>8, <1>9 DEF Next, Main
-----------------------------------------------------------------------------
(***************************************************************************)
(* Every step, as the logger sees it.                                      *)
(***************************************************************************)
\* The logger is left alone, or a hook takes the mutex or gives it back.
Quiet ==
  /\ UNCHANGED <<sinks, pos, line, out, sent>>
  /\ mutex' # mutex => NobodyWrites /\ NobodyWrites'

\* Context c hands a line to write_out.
Hands(c, l) ==
  /\ line[c] = NoLine
  /\ mutex # c
  /\ line' = [line EXCEPT ![c] = l]
  /\ UNCHANGED <<mutex, sinks, pos, out, sent>>

\* main changes the vector of sinks.
SetsSinks ==
  /\ \/ main = 1 /\ clearSinks
     \/ main = 2 /\ addSink("file")
  /\ line["main"] = NoLine
  /\ main' = main + 1

\* Context c takes the mutex, passes its line on, or gives the mutex back.
Writes(c) ==
  /\ \/ Lock(c)
     \/ Unlock(c)
     \/ pos \in DOMAIN sinks /\ WriteSink(c, sinks[pos] \notin Destroyed)
  /\ main' = main

\* What the threads and the handler log is a well-named line.
LEMMA PrintsNamed ==
  ASSUME Inv, NamesOK, NEW c \in Contexts, NEW sev \in DOMAIN Severity,
         NEW what \in {"greeting", "howdy", "request", "adios", "signal", "normal exit"},
         NEW t \in Workers \cup {"main"},
         what \in {"howdy", "request", "adios"} =>
           t \in Workers /\ worker[t] \notin {"none", "start", "gone"},
         ~ InHook(c),
         print(c, sev, what, thread_name[t])
  PROVE  \E l \in NamedLines : Hands(c, l)
<1> USE WorkersAssumption
<1> DEFINE l == Line(sev, what, thread_name[t])
<1>1. \A u \in Workers : thread_name[u] = NoName \/ thread_name[u] \in Given
  BY DEF NamesOK
<1>2. Given \subseteq {<<"Thread", n>> : n \in 0 .. Cardinality(Workers)}
  BY GivenInRange, Zenon DEF Given
<1>3. thread_name[t] \in {NoName, <<"MainThread">>}
                         \cup {<<"Thread", n>> : n \in 0 .. Cardinality(Workers)}
  BY <1>1, <1>2 DEF NamesOK
<1>4. l \in Lines
  <2>1. Severity[sev] \in {Severity[s] : s \in DOMAIN Severity}
    OBVIOUS
  <2> QED BY <1>3, <2>1 DEF Lines, Line
<1>5. l.what = what /\ l.thread = thread_name[t]
  BY DEF Line
<1>6. NoName \notin Given
  BY GivenIsName, Zenon DEF Given
<1>7. Named(l)
  BY <1>5, <1>6 DEF Named, NamesOK
<1>8. line[c] = NoLine /\ mutex # c
  <2>1. c # NoOne
    BY DEF NoOne
  <2> QED BY <2>1 DEF print, Inv, HolderWrites
<1>9. Hands(c, l)
  BY <1>8, Zenon DEF Hands, print
<1> QED BY <1>4, <1>7, <1>9 DEF NamedLines

\* A step leaves the logger alone, hands it a line, sets its sinks or is one of
\* write_out; only a step that leaves it alone can destroy the file sink.
LEMMA LogSteps ==
  ASSUME Inv, NamesOK, HandlerOnThread, [Next]_vars
  PROVE  \/ Quiet /\ main' \in {main, main + 1}
         \/ /\ \E c \in Contexts, l \in NamedLines : Hands(c, l)
            /\ main' = main \/ (main' = main + 1 /\ main < 12)
         \/ SetsSinks
         \/ \E c \in Contexts : Writes(c)
<1> USE WorkersAssumption
<1> DEFINE Conclusion ==
      \/ Quiet /\ main' \in {main, main + 1}
      \/ /\ \E c \in Contexts, l \in NamedLines : Hands(c, l)
         /\ main' = main \/ (main' = main + 1 /\ main < 12)
      \/ SetsSinks
      \/ \E c \in Contexts : Writes(c)
<1> SUFFICES Conclusion
  OBVIOUS
<1>1. ASSUME UNCHANGED logVars, main' \in {main, main + 1}
      PROVE  Conclusion
  BY <1>1 DEF logVars, Quiet
<1>2. main \in 1 .. 13 /\ frame \in Workers \cup {"main", NoOne} /\ NoOne \notin Workers
  BY DEF Inv, StateOK
<1>3. /\ "INFO" \in DOMAIN Severity /\ "main" \in Contexts /\ "signal" \in Contexts
      /\ ~ InHook("main") /\ ~ InHook("signal")
  BY DEF Severity, InHook
<1>4. CASE ClearSinks \/ AddFileSink
  <2>1. CASE ClearSinks
    BY <1>1, <2>1, <1>2, Present DEF ClearSinks, NextStatement, SetsSinks
  <2>2. CASE AddFileSink
    BY <2>2, <1>2, Present DEF AddFileSink, NextStatement, SetsSinks
  <2> QED BY <1>4, <2>1, <2>2
<1>5. CASE StartServer \/ SetHandler \/ Wait \/ DestroyLocal \/ Exit
  BY <1>1, <1>5 DEF StartServer, SetHandler, Wait, DestroyLocal, Exit, NextStatement
<1>6. CASE NormalExit
  <2>1. print("main", "INFO", "normal exit", thread_name["main"])
    BY <1>6 DEF NormalExit
  <2>2. \E l \in NamedLines : Hands("main", l)
    BY <1>3, <2>1, PrintsNamed
  <2>3. main = 10 /\ main' = main + 1
    BY <1>2, <1>6, Present DEF NormalExit, NextStatement
  <2> QED BY <1>3, <2>2, <2>3
<1>7. ASSUME NEW sev \in DOMAIN Severity, Greet(sev)
      PROVE  Conclusion
  <2>1. print("main", sev, "greeting", thread_name["main"])
    BY <1>7 DEF Greet
  <2>2. \E l \in NamedLines : Hands("main", l)
    BY <1>3, <2>1, PrintsNamed
  <2>3. main \in 3 .. 6 /\ main' = main + 1
    BY <1>2, <1>7, Present DEF Greet, NextStatement
  <2> QED BY <1>3, <2>2, <2>3
<1>8. ASSUME NEW t \in Workers, Worker(t) \/ Dispatch(t) \/ HookStop(t)
      PROVE  Conclusion
  <2>1. main' = main /\ t \in Contexts
    BY <1>8 DEF Worker, HookStart, Serve, Return, Dispatch, HookStop, HookRemove, Goto
  <2>2. CASE /\ line[t] = NoLine
             /\ LockName(t) \/ registerThread(t) \/ removeThread(t)
    BY <2>1, <2>2 DEF LockName, registerThread, removeThread, Quiet, NobodyWrites
  <2>8. CASE UNCHANGED logVars
    BY <2>1, <2>8 DEF Quiet, logVars
  <2>3. ASSUME NEW what \in {"howdy", "request", "adios"},
               print(t, "INFO", what, thread_name[t]),
               worker[t] \in {"named", "idle", "handler"}
        PROVE  Conclusion
    <3>1. \E l \in NamedLines : Hands(t, l)
      BY <1>3, <2>1, <2>3, PrintsNamed DEF InHook
    <3> QED BY <2>1, <3>1
  <2> HIDE DEF Conclusion
  <2>4. CASE HookStart(t)
    BY <2>2, <2>3, <2>4 DEF HookStart, WorkerAt
  <2>5. CASE Serve(t)
    BY <2>8, <2>3, <2>5 DEF Serve, WorkerAt
  <2>6. CASE HookStop(t)
    BY <2>3, <2>6 DEF HookStop, WorkerAt
  <2>7. CASE Return(t) \/ Dispatch(t)
    BY <2>8, <2>7 DEF Return, Dispatch
  <2>9. CASE HookRemove(t)
    BY <2>2, <2>9 DEF HookRemove, WorkerAt
  <2> QED BY <1>8, <2>4, <2>5, <2>6, <2>7, <2>9 DEF Worker
<1>9. CASE \E t \in Started \cup {"main"} : Signal(t)
  BY <1>1, <1>9 DEF Signal
<1>10. CASE HandlerExit \/ HandlerReturn
  BY <1>1, <1>10 DEF HandlerExit, HandlerReturn, Crash
<1>11. CASE HandlerLog
  <2>1. /\ print("signal", "INFO", "signal", thread_name[frame])
        /\ main' = main
    BY <1>11 DEF HandlerLog
  <2>2. frame \in Workers \cup {"main"}
    BY <1>2, <1>11 DEF HandlerLog, HandlerOnThread
  <2>3. \E l \in NamedLines : Hands("signal", l)
    BY <1>3, <2>1, <2>2, PrintsNamed
  <2> QED BY <1>3, <2>1, <2>3
<1>12. ASSUME NEW c \in Contexts, WriteLine(c)
       PROVE  Conclusion
  <2>1. CASE Crash
    BY <1>1, <2>1 DEF Crash
  <2>2. CASE Writes(c)
    BY <1>12, <2>2
  <2> QED BY <1>12, <2>1, <2>2 DEF WriteLine, Writes, procVars
<1>13. CASE OldServerEnds \/ UNCHANGED vars
  BY <1>1, <1>13 DEF OldServerEnds, vars, procVars
<1> HIDE DEF Conclusion
<1>14. CASE Main
  BY <1>4, <1>5, <1>6, <1>7, <1>14 DEF Main
<1>15. CASE OnSignal
  BY <1>10, <1>11, <1>15 DEF OnSignal
<1>16. Conclusion
  <2>1. CASE Next
    BY <1>8, <1>9, <1>12, <1>13, <1>14, <1>15, <2>1 DEF Next
  <2> QED BY <1>13, <2>1
<1> QED BY <1>16
-----------------------------------------------------------------------------
(***************************************************************************)
(* The loop of write_out.                                                  *)
(***************************************************************************)
LEMMA LogInvInit == Init => LogInv
<1> SUFFICES ASSUME Init PROVE LogInv
  OBVIOUS
<1> USE WorkersAssumption
<1>1. Inv
  BY InvInit
<1>2. NamesOK
  <2>1. worker = [t \in Workers |-> "none"] /\ thread_counter = 0
    BY DEF Init, LogInit
  <2>2. thread_name = [c \in Contexts |-> IF c = "main" THEN <<"MainThread">> ELSE NoName]
    BY DEF Init, LogInit
  <2>3. thread_name = [c \in Contexts |-> thread_name[c]]
    BY <2>2
  <2>4. thread_name["main"] = <<"MainThread">> /\ \A t \in Workers : thread_name[t] = NoName
    BY <2>2
  <2>5. Registered = {}
    BY <2>1 DEF Registered
  <2> QED BY <2>1, <2>3, <2>4, <2>5, FS_EmptySet DEF NamesOK
<1>3. LinesOK
  BY DEF Init, LogInit, LinesOK
<1>4. HandlerOnThread /\ SinksOK /\ RestOK
  BY DEF Init, LogInit, HandlerOnThread, SinksOK, Vectors, RestOK
<1>5. LoopOK
  BY DEF Init, LogInit, LoopOK, NobodyWrites
<1> QED BY <1>1, <1>2, <1>3, <1>4, <1>5 DEF LogInv

\* What main has destroyed stays destroyed.
LEMMA DestroyedGrows ==
  ASSUME main \in 1 .. 13, main' \in {main, main + 1}, main' \in 1 .. 13
  PROVE  /\ Destroyed \subseteq Destroyed'
         /\ Destroyed = IF main = 13 THEN {"file"} ELSE {}
         /\ Destroyed' = IF main' = 13 THEN {"file"} ELSE {}
<1>1. \A i \in 1 .. 12 : Script[i] = "~FileSink" <=> i = 12
  BY SMT DEF Script
<1>2. \A k \in 1 .. 13 : (\E i \in 1 .. k - 1 : Script[i] = "~FileSink") <=> k = 13
  BY <1>1
<1>3. Destroyed = IF main = 13 THEN {"file"} ELSE {}
  BY <1>2 DEF Destroyed, Done
<1>4. Destroyed' = IF main' = 13 THEN {"file"} ELSE {}
  BY <1>2 DEF Destroyed, Done
<1> QED BY <1>3, <1>4

\* Nobody writes while main sets the sinks.
LEMMA SinksAlone ==
  ASSUME Inv, main <= 2, line["main"] = NoLine
  PROVE  mutex = NoOne
<1>1. \A c \in Contexts : c # "main" => line[c] = NoLine
  BY DEF Inv, StateOK, MainAlone
<1>2. ~ InHook(mutex)
  BY DEF Inv, StateOK, MainAlone, InHook
<1>3. mutex # NoOne => mutex \in Contexts /\ line[mutex] # NoLine
  BY <1>2 DEF Inv, StateOK, HolderWrites
<1> QED BY <1>1, <1>3

\* An element appended to a sequence of one.
LEMMA AppendPair ==
  ASSUME NEW S, NEW a \in S, NEW b \in S
  PROVE  Append(<<a>>, b) = <<a, b>>
<1> DEFINE s == Append(<<a>>, b)
           t == <<a, b>>
<1>1. <<a>> \in Seq(S) /\ t \in Seq(S)
  OBVIOUS
<1>2. s \in Seq(S) /\ Len(s) = 2 /\ s[1] = a /\ s[2] = b
  BY <1>1, AppendProperties
<1>3. Len(t) = 2 /\ t[1] = a /\ t[2] = b
  OBVIOUS
<1> HIDE DEF s, t
<1>4. \A i \in 1 .. Len(s) : s[i] = t[i]
  BY <1>2, <1>3
<1>5. s = t
  BY <1>1, <1>2, <1>3, <1>4, SeqEqual
<1> QED BY <1>5 DEF s, t

LEMMA SinksNext ==
  ASSUME Inv, Inv', SinksOK,
         \/ SetsSinks
         \/ UNCHANGED sinks /\ main' \in {main, main + 1}
  PROVE  SinksOK'
<1>1. main \in 1 .. 13
  BY DEF Inv, StateOK
<1>2. CASE main = 1 /\ clearSinks /\ main' = main + 1
  BY <1>2 DEF clearSinks, SinksOK, Vectors
<1>3. CASE main = 2 /\ addSink("file") /\ main' = main + 1
  <2>1. sinks \in {<<>>, <<"cout">>} /\ sinks' = Append(sinks, "file")
    BY <1>3 DEF addSink, SinksOK
  <2>2. /\ Append(<<>>, "file") = <<"file">>
        /\ Append(<<"cout">>, "file") = <<"cout", "file">>
    <3>1. Append(<<>>, "file") = <<"file">>
      OBVIOUS
    <3>2. "cout" \in {"cout", "file"} /\ "file" \in {"cout", "file"}
      OBVIOUS
    <3> QED BY <3>1, <3>2, AppendPair
  <2>3. sinks' \in {<<"file">>, <<"cout", "file">>}
    BY <2>1, <2>2, Zenon
  <2> QED BY <1>3, <2>3 DEF SinksOK, Vectors
<1>4. CASE UNCHANGED sinks /\ main' \in {main, main + 1}
  BY <1>1, <1>4 DEF SinksOK
<1> QED BY <1>2, <1>3, <1>4 DEF SetsSinks

LEMMA LinesNext ==
  ASSUME LinesOK, mutex \in Contexts \cup {NoOne},
         \/ Quiet
         \/ \E c \in Contexts, l \in NamedLines : Hands(c, l)
         \/ SetsSinks
         \/ \E c \in Contexts : Writes(c)
  PROVE  LinesOK'
<1>1. CASE Quiet
  BY <1>1 DEF Quiet, LinesOK
<1>2. ASSUME NEW c \in Contexts, NEW l \in NamedLines, Hands(c, l)
      PROVE  LinesOK'
  BY <1>2 DEF Hands, LinesOK
<1>3. CASE SetsSinks
  BY <1>3 DEF SetsSinks, clearSinks, addSink, LinesOK
<1>4. ASSUME NEW c \in Contexts, Lock(c) \/ Unlock(c)
      PROVE  LinesOK'
  BY <1>4 DEF Lock, Unlock, LinesOK
<1>5. ASSUME NEW c \in Contexts, NEW write, WriteSink(c, write)
      PROVE  LinesOK'
  <2>1. line[c] \in NamedLines
    BY <1>5 DEF WriteSink, LinesOK
  <2>2. line' = line
    BY <1>5 DEF WriteSink
  <2>3. \/ out' = out
        \/ out' = [out EXCEPT ![sinks[pos]] = Append(@, line[c])]
    BY <1>5 DEF WriteSink
  <2>4. \A s \in Sinks : Append(out[s], line[c]) \in Seq(NamedLines)
    <3>1. \A s \in Sinks : out[s] \in Seq(NamedLines)
      BY DEF LinesOK
    <3> QED BY <2>1, <3>1, AppendProperties
  <2>5. out' \in [Sinks -> Seq(NamedLines)]
    BY <2>3, <2>4 DEF LinesOK
  <2> QED BY <2>2, <2>5 DEF LinesOK
<1> QED BY <1>1, <1>2, <1>3, <1>4, <1>5 DEF Writes

\* Nothing that the loop is about has changed, but what is destroyed.
LEMMA LoopKept ==
  ASSUME LoopOK, Destroyed \subseteq Destroyed',
         UNCHANGED <<sinks, pos, out, sent>>,
         \/ NobodyWrites /\ NobodyWrites'
         \/ mutex' = mutex /\ line'[mutex] = line[mutex]
  PROVE  LoopOK'
<1>1. CASE NobodyWrites /\ NobodyWrites'
  <2>1. sent = {} /\ pos = 1 /\ 1 .. pos - 1 = {}
    BY <1>1 DEF LoopOK
  <2> QED BY <1>1, <2>1 DEF LoopOK
<1>2. CASE mutex' = mutex /\ line'[mutex] = line[mutex]
  BY <1>2 DEF LoopOK, NobodyWrites
<1> QED BY <1>1, <1>2

\* The sinks of a vector are all different.
LEMMA SinksDiffer ==
  ASSUME NEW q \in Vectors
  PROVE  /\ q \in Seq({"cout", "file"}) /\ Len(q) \in 0 .. 2
         /\ \A i, j \in 1 .. Len(q) : q[i] = q[j] => i = j
<1>1. CASE q = <<>>
  BY <1>1
<1>2. CASE q = <<"cout">>
  BY <1>2
<1>3. CASE q = <<"file">>
  BY <1>3
<1>4. CASE q = <<"cout", "file">>
  BY <1>4
<1> QED BY <1>1, <1>2, <1>3, <1>4 DEF Vectors

\* One round of the loop.
LEMMA LoopRound ==
  ASSUME LoopOK, LinesOK, SinksOK, Destroyed \subseteq Destroyed',
         NEW c \in Contexts, pos \in DOMAIN sinks,
         WriteSink(c, sinks[pos] \notin Destroyed)
  PROVE  LoopOK'
<1> DEFINE s == sinks[pos]
<1>1. /\ mutex = c /\ mutex' = c
      /\ pos' = pos + 1
      /\ UNCHANGED <<sinks, line>>
      /\ ~ NobodyWrites'
  BY WorkersAssumption DEF WriteSink, NoOne, NobodyWrites
<1>2. /\ pos \in 1 .. Len(sinks)
      /\ s \in {"cout", "file"} /\ s \in Sinks
      /\ \A i \in 1 .. pos - 1 : i \in 1 .. Len(sinks) /\ sinks[i] # s
      /\ 1 .. pos' - 1 = (1 .. pos - 1) \cup {pos}
  BY <1>1, SinksDiffer, WorkersAssumption DEF SinksOK
<1>3. s \notin sent
  BY <1>2 DEF LoopOK
<1>4. pos' \in 1 .. Len(sinks') + 1
  BY <1>1, <1>2, SinksDiffer DEF SinksOK
<1> HIDE DEF s
<1>5. CASE s \notin Destroyed /\ line[c].sev >= Level[s]
  <2>1. out' = [out EXCEPT ![s] = Append(out[s], line[c])] /\ sent' = sent \cup {s}
    BY <1>5 DEF WriteSink, s
  <2>2. /\ out'[s] = Append(out[s], line[c])
        /\ \A r \in Sinks : r # s => out'[r] = out[r]
    BY <1>2, <2>1 DEF LinesOK
  <2>3. out'[s] # <<>> /\ out'[s][Len(out'[s])] = line[c]
    <3>1. out[s] \in Seq(NamedLines)
      BY <1>2 DEF LinesOK
    <3> QED BY <2>2, <3>1
  <2>4. sent \subseteq Sinks
    BY DEF LoopOK
  <2>5. ASSUME NEW r \in sent'
        PROVE  /\ line'[mutex'].sev >= Level[r]
               /\ \E i \in 1 .. pos' - 1 : sinks'[i] = r
               /\ out'[r] # <<>>
               /\ out'[r][Len(out'[r])] = line'[mutex']
    <3>1. CASE r = s
      BY <1>1, <1>2, <1>5, <2>3, <3>1 DEF s
    <3>2. CASE r \in sent
      <4>1. out'[r] = out[r]
        BY <1>3, <2>2, <2>4, <3>2
      <4> QED BY <1>1, <1>2, <3>2, <4>1 DEF LoopOK
    <3> QED BY <2>1, <3>1, <3>2
  <2>6. ASSUME NEW i \in 1 .. pos' - 1, line'[mutex'].sev >= Level[sinks'[i]]
        PROVE  sinks'[i] \in sent' \cup Destroyed'
    BY <1>1, <1>2, <2>1, <2>6 DEF LoopOK, s
  <2> QED BY <1>1, <1>2, <1>4, <2>1, <2>4, <2>5, <2>6 DEF LoopOK
<1>6. CASE ~ (s \notin Destroyed /\ line[c].sev >= Level[s])
  <2>1. UNCHANGED <<out, sent>>
    BY <1>6 DEF WriteSink, s
  <2>2. ASSUME NEW r \in sent'
        PROVE  /\ line'[mutex'].sev >= Level[r]
               /\ \E i \in 1 .. pos' - 1 : sinks'[i] = r
               /\ out'[r] # <<>>
               /\ out'[r][Len(out'[r])] = line'[mutex']
    BY <1>1, <1>2, <2>1 DEF LoopOK
  <2>3. ASSUME NEW i \in 1 .. pos' - 1, line'[mutex'].sev >= Level[sinks'[i]]
        PROVE  sinks'[i] \in sent' \cup Destroyed'
    BY <1>1, <1>2, <1>6, <2>1, <2>3 DEF LoopOK, s
  <2> QED BY <1>1, <1>4, <2>1, <2>2, <2>3 DEF LoopOK
<1> QED BY <1>5, <1>6

LEMMA LoopNext ==
  ASSUME Inv, Inv', LoopOK, LinesOK, SinksOK,
         \/ Quiet /\ main' \in {main, main + 1}
         \/ /\ \E c \in Contexts, l \in NamedLines : Hands(c, l)
            /\ main' = main \/ (main' = main + 1 /\ main < 12)
         \/ SetsSinks
         \/ \E c \in Contexts : Writes(c)
  PROVE  LoopOK'
<1>1. main \in 1 .. 13 /\ main' \in 1 .. 13 /\ mutex \in Contexts \cup {NoOne}
  BY DEF Inv, StateOK
<1>2. main' \in {main, main + 1}
  BY DEF SetsSinks, Writes
<1>3. Destroyed \subseteq Destroyed'
  BY <1>1, <1>2, DestroyedGrows
<1>4. CASE Quiet
  <2>1. CASE mutex' = mutex
    BY <1>3, <1>4, <2>1, LoopKept DEF Quiet
  <2>2. CASE mutex' # mutex
    BY <1>3, <1>4, <2>2, LoopKept DEF Quiet
  <2> QED BY <2>1, <2>2
<1>5. ASSUME NEW c \in Contexts, NEW l \in NamedLines, Hands(c, l)
      PROVE  LoopOK'
  <2>1. /\ mutex' = mutex
        /\ mutex # NoOne => line'[mutex] = line[mutex]
    BY <1>1, <1>5 DEF Hands, LinesOK
  <2> QED BY <1>3, <1>5, <2>1, LoopKept DEF Hands, NobodyWrites
<1>6. CASE SetsSinks
  <2>1. mutex = NoOne /\ main <= 2
    BY <1>6, SinksAlone DEF SetsSinks
  <2>2. sent = {} /\ pos = 1
    BY <2>1 DEF LoopOK, NobodyWrites
  <2>3. UNCHANGED <<mutex, sent, pos>>
    BY <1>6 DEF SetsSinks, clearSinks, addSink
  <2>4. SinksOK'
    BY <1>2, <1>6, SinksNext
  <2>5. Len(sinks') \in 0 .. 2
    BY <2>4, SinksDiffer DEF SinksOK
  <2>6. pos' \in 1 .. Len(sinks') + 1 /\ 1 .. pos' - 1 = {}
    BY <2>2, <2>3, <2>5
  <2> QED BY <2>1, <2>2, <2>3, <2>6 DEF LoopOK
<1>7. ASSUME NEW c \in Contexts, Lock(c) \/ Unlock(c)
      PROVE  LoopOK'
  <2>1. sent' = {} /\ pos' = 1 /\ sinks' = sinks
    BY <1>7 DEF Lock, Unlock
  <2>2. Len(sinks) \in 0 .. 2
    BY SinksDiffer DEF SinksOK
  <2>3. pos' \in 1 .. Len(sinks') + 1 /\ 1 .. pos' - 1 = {}
    BY <2>1, <2>2
  <2> QED BY <2>1, <2>3 DEF LoopOK
<1>8. ASSUME NEW c \in Contexts, pos \in DOMAIN sinks,
             WriteSink(c, sinks[pos] \notin Destroyed)
      PROVE  LoopOK'
  BY <1>3, <1>8, LoopRound
<1> QED BY <1>4, <1>5, <1>6, <1>7, <1>8 DEF Writes

LEMMA HandlerNext == Inv /\ HandlerOnThread /\ [Next]_vars => HandlerOnThread'
<1> SUFFICES ASSUME Inv, HandlerOnThread, [Next]_vars PROVE HandlerOnThread'
  OBVIOUS
<1>1. ASSUME UNCHANGED <<handler, frame>>
      PROVE  HandlerOnThread'
  BY <1>1 DEF HandlerOnThread
<1>2. CASE Main
  BY <1>1, <1>2 DEF Main, ClearSinks, AddFileSink, StartServer, SetHandler, Wait,
                    NormalExit, DestroyLocal, Exit, Greet
<1>3. CASE \E t \in Workers : Worker(t) \/ Dispatch(t) \/ HookStop(t)
  BY <1>1, <1>3 DEF Worker, HookStart, Serve, Return, Dispatch, HookStop, HookRemove, Goto
<1>4. ASSUME NEW t \in Started \cup {"main"}, Signal(t)
      PROVE  HandlerOnThread'
  <2>1. t # NoOne
    BY WorkersAssumption DEF Started, NoOne
  <2> QED BY <1>4, <2>1 DEF Signal, HandlerOnThread
<1>5. CASE OnSignal
  BY <1>5 DEF OnSignal, HandlerExit, HandlerLog, HandlerReturn, Crash, HandlerOnThread
<1>6. CASE \E c \in Contexts : WriteLine(c)
  BY <1>1, <1>6 DEF WriteLine, Crash, procVars
<1>7. CASE OldServerEnds
  BY <1>1, <1>7 DEF OldServerEnds
<1>8. CASE UNCHANGED vars
  BY <1>1, <1>8 DEF vars, procVars
<1> QED BY <1>2, <1>3, <1>4, <1>5, <1>6, <1>7, <1>8 DEF Next

LEMMA RestNext == RestOK /\ [Next]_vars => RestOK'
<1> SUFFICES ASSUME RestOK, [Next]_vars PROVE RestOK'
  OBVIOUS
<1> USE DEF RestOK
<1>1. CASE Main
  BY <1>1 DEF Main, ClearSinks, AddFileSink, StartServer, SetHandler, Wait,
              NormalExit, DestroyLocal, Exit, Greet
<1>2. ASSUME NEW t \in Workers, Worker(t) \/ Dispatch(t) \/ HookStop(t)
      PROVE  RestOK'
  <2>1. UNCHANGED <<status, port, signals>>
    BY <1>2 DEF Worker, HookStart, Serve, Return, Dispatch, HookStop, HookRemove, Goto
  <2>2. requests' = requests \/ (requests < MaxRequests /\ requests' = requests + 1)
    BY <1>2 DEF Worker, HookStart, Serve, Return, Dispatch, HookStop, HookRemove
  <2>3. requests' \in 0 .. MaxRequests
    BY <2>2, WorkersAssumption
  <2> QED BY <2>1, <2>3
<1>3. ASSUME NEW t \in Started \cup {"main"}, Signal(t)
      PROVE  RestOK'
  <2>1. signals' \in 0 .. MaxSignals
    BY <1>3, WorkersAssumption DEF Signal
  <2> QED BY <1>3, <2>1 DEF Signal
<1>4. CASE OnSignal
  BY <1>4 DEF OnSignal, HandlerExit, HandlerLog, HandlerReturn, Crash
<1>5. CASE \E c \in Contexts : WriteLine(c)
  BY <1>5 DEF WriteLine, Crash, procVars
<1>6. CASE OldServerEnds
  BY <1>6 DEF OldServerEnds
<1>7. CASE UNCHANGED vars
  BY <1>7 DEF vars, procVars
<1> QED BY <1>1, <1>2, <1>3, <1>4, <1>5, <1>6, <1>7 DEF Next

LEMMA LogInvNext == LogInv /\ [Next]_vars => LogInv'
<1> SUFFICES ASSUME LogInv, [Next]_vars PROVE LogInv'
  OBVIOUS
<1>1. Inv' /\ NamesOK' /\ HandlerOnThread' /\ RestOK'
  BY InvNext, NamesNext, HandlerNext, RestNext DEF LogInv
<1>2. \/ Quiet /\ main' \in {main, main + 1}
      \/ /\ \E c \in Contexts, l \in NamedLines : Hands(c, l)
         /\ main' = main \/ (main' = main + 1 /\ main < 12)
      \/ SetsSinks
      \/ \E c \in Contexts : Writes(c)
  BY LogSteps DEF LogInv
<1>3. LoopOK'
  BY <1>1, <1>2, LoopNext DEF LogInv
<1>4. LinesOK'
  BY <1>2, LinesNext DEF LogInv, Inv, StateOK
<1>5. SetsSinks \/ (UNCHANGED sinks /\ main' \in {main, main + 1})
  BY <1>2 DEF Quiet, Hands, Writes, Lock, Unlock, WriteSink
<1>6. SinksOK'
  BY <1>1, <1>5, SinksNext DEF LogInv
<1> QED BY <1>1, <1>3, <1>4, <1>6 DEF LogInv

LEMMA LogInvariance == Spec => []LogInv
<1>1. Init => LogInv
  BY LogInvInit
<1>2. LogInv /\ [Next]_vars => LogInv'
  BY LogInvNext
<1> QED BY <1>1, <1>2, PTL DEF Spec
-----------------------------------------------------------------------------
(***************************************************************************)
(* Theorems.                                                               *)
(***************************************************************************)
\* Every line that a sink has received.
LEMMA Received ==
  ASSUME LinesOK
  PROVE  \A s \in Sinks : \A i \in DOMAIN out[s] :
           out[s][i] \in Lines /\ Named(out[s][i])
<1>1. ASSUME NEW s \in Sinks, NEW i \in DOMAIN out[s]
      PROVE  out[s][i] \in NamedLines
  <2>1. out[s] \in Seq(NamedLines)
    BY DEF LinesOK
  <2> QED BY <1>1, <2>1, LenProperties, ElementOfSeq
<1> QED BY <1>1 DEF NamedLines

\* The variables of the logger and of the server process keep their types, for
\* any number of threads and any bound: no loop runs past the vector of sinks,
\* no thread registers twice, nothing but the lines of Logging.h is printed.
THEOREM ProcessTypeCorrect == Spec => []TypeOK
<1>1. LogInv => TypeOK
  <2> SUFFICES ASSUME LogInv PROVE TypeOK
    OBVIOUS
  <2>1. StateOK /\ NamesOK /\ LinesOK /\ SinksOK /\ LoopOK /\ RestOK
    BY DEF LogInv, Inv
  <2>2. sinks \in Vectors /\ Len(sinks) \in 0 .. 2
    BY <2>1, SinksDiffer DEF SinksOK
  <2>3. pos \in 1 .. 3
    <3> DEFINE n == Len(sinks)
    <3>1. pos \in 1 .. n + 1 /\ n \in 0 .. 2
      BY <2>1, <2>2 DEF LoopOK
    <3> HIDE DEF n
    <3> QED BY <3>1
  <2>4. line \in [Contexts -> Lines \cup {NoLine}]
    BY <2>1 DEF LinesOK, NamedLines
  <2>5. \A s \in Sinks : \A i \in DOMAIN out[s] : out[s][i] \in Lines
    BY <2>1, Received
  <2>6. thread_counter \in 0 .. Cardinality(Workers)
    BY <2>1, CounterBound
  <2>7. main \in 1 .. Len(Script) + 1
    <3>1. Len(Script) = 12
      BY Positions
    <3> QED BY <2>1, <3>1 DEF StateOK
  <2> QED BY <2>1, <2>2, <2>3, <2>4, <2>5, <2>6, <2>7
          DEF TypeOK, StateOK, Labels, LoopOK, RestOK, Vectors
<1> QED BY <1>1, LogInvariance, PTL

\* Whatever a thread of the pool has logged it has logged under a name, and no
\* two threads that run share one (src/common/ThreadHook.h), for any number of
\* threads: the counter is read and raised under the mutex.
THEOREM ThreadsNamed == Spec => []LinesNamed
<1>1. LogInv => LinesNamed
  <2> SUFFICES ASSUME LogInv PROVE LinesNamed
    OBVIOUS
  <2>1. NamesOK /\ LinesOK
    BY DEF LogInv
  <2>2. \A s \in Sinks : \A i \in DOMAIN out[s] : Named(out[s][i])
    BY <2>1, Received
  <2>3. \A t, u \in Started :
          t # u /\ thread_name[t] # NoName => thread_name[t] # thread_name[u]
    BY <2>1 DEF NamesOK, Started
  <2> QED BY <2>2, <2>3 DEF LinesNamed, Named
<1> QED BY <1>1, LogInvariance, PTL

\* What each sink has received of the lines that are through.
Got == [s \in Sinks |->
          IF s \in sent THEN SubSeq(out[s], 1, Len(out[s]) - 1) ELSE out[s]]

\* A sequence without the element that was appended to it, and with the last
\* one put back.
LEMMA FrontOfAppend ==
  ASSUME NEW S, NEW q \in Seq(S), NEW e \in S
  PROVE  SubSeq(Append(q, e), 1, Len(Append(q, e)) - 1) = q
<1>1. /\ Append(q, e) \in Seq(S) /\ Len(Append(q, e)) = Len(q) + 1
      /\ \A i \in 1 .. Len(q) : Append(q, e)[i] = q[i]
  BY AppendProperties
<1> DEFINE a == Append(q, e)
           f == SubSeq(a, 1, Len(q))
<1>2. Len(q) \in Nat /\ \A i \in 1 .. Len(q) : q[i] \in S
  OBVIOUS
<1>3. f \in Seq(S) /\ Len(f) = Len(q) /\ \A i \in 1 .. Len(q) : f[i] = q[i]
  BY <1>1, <1>2, SubSeqProperties
<1> HIDE DEF f
<1>4. f = q
  BY <1>3, SeqEqual
<1> QED BY <1>1, <1>2, <1>4 DEF f

LEMMA AppendOfFront ==
  ASSUME NEW S, NEW q \in Seq(S), q # <<>>
  PROVE  Append(SubSeq(q, 1, Len(q) - 1), q[Len(q)]) = q
<1>1. PICK p \in Seq(S), e \in S : q = Append(p, e)
  BY SequenceEmptyOrAppend
<1>2. q[Len(q)] = e
  BY <1>1, AppendProperties
<1>3. SubSeq(q, 1, Len(q) - 1) = p
  BY <1>1, FrontOfAppend
<1> QED BY <1>1, <1>2, <1>3

\* What the service sees of the process.
ServiceView == <<line, sinks, Destroyed, Got>>

LEMMA GotAlone ==
  ASSUME UNCHANGED <<out, sent>>
  PROVE  Got' = Got
BY DEF Got

\* The sinks receive a line as a whole when the context that has passed it on
\* gives the mutex back.
LEMMA UnlockDelivers ==
  ASSUME LogInv, NEW c \in Contexts, Unlock(c), UNCHANGED main
  PROVE  Service!Next
<1>1. /\ mutex = c /\ c # NoOne /\ pos \notin DOMAIN sinks
      /\ line' = [line EXCEPT ![c] = NoLine]
      /\ sent' = {} /\ UNCHANGED <<sinks, out>>
  BY WorkersAssumption DEF Unlock, NoOne
<1>2. LoopOK /\ LinesOK /\ sinks \in Vectors
  BY DEF LogInv, SinksOK
<1>3. line[c] # NoLine
  BY DEF Unlock
<1>4. DOMAIN sinks = 1 .. pos - 1
  <2> DEFINE n == Len(sinks)
  <2>1. n \in 0 .. 2 /\ DOMAIN sinks = 1 .. n
    BY <1>2, SinksDiffer
  <2>2. pos \in 1 .. n + 1
    BY <1>2 DEF LoopOK
  <2> HIDE DEF n
  <2>3. pos = n + 1
    BY <1>1, <2>1, <2>2
  <2>4. pos - 1 = n
    BY <2>1, <2>3
  <2> QED BY <2>1, <2>4
<1>5. Destroyed' = Destroyed
  BY DEF Destroyed, Done
<1>6. PICK lost \in SUBSET Sinks :
        lost = {s \in Destroyed : s \in Sinks /\ s \notin sent}
  OBVIOUS
<1>7. ASSUME NEW s \in Sinks
      PROVE  Service!Receives(s, line[c]) /\ s \notin lost <=> s \in sent
  <2>1. Service!Receives(s, line[c]) <=>
          line[c].sev >= Level[s] /\ \E i \in 1 .. pos - 1 : sinks[i] = s
    BY <1>4 DEF Service!Receives
  <2>2. s \in sent => Service!Receives(s, line[c])
    BY <1>1, <1>2, <2>1 DEF LoopOK
  <2>3. Service!Receives(s, line[c]) => s \in sent \cup Destroyed
    BY <1>1, <1>2, <2>1 DEF LoopOK
  <2> QED BY <1>6, <2>2, <2>3
<1>8. ASSUME NEW s \in sent
      PROVE  Append(Got[s], line[c]) = out[s]
  <2>1. s \in Sinks /\ out[s] # <<>> /\ out[s][Len(out[s])] = line[c]
    BY <1>1, <1>2 DEF LoopOK
  <2>2. out[s] \in Seq(NamedLines)
    BY <1>2, <2>1 DEF LinesOK
  <2>3. Got[s] = SubSeq(out[s], 1, Len(out[s]) - 1)
    BY <2>1 DEF Got
  <2> QED BY <2>1, <2>2, <2>3, AppendOfFront
<1>9. ASSUME NEW s \in Sinks
      PROVE  out[s] = IF Service!Receives(s, line[c]) /\ s \notin lost
                      THEN Append(Got[s], line[c]) ELSE Got[s]
  BY <1>7, <1>8 DEF Got
<1>10. Got' = [s \in Sinks |-> out[s]]
  BY <1>1 DEF Got
<1>11. Got' = [s \in Sinks |-> IF Service!Receives(s, line[c]) /\ s \notin lost
                               THEN Append(Got[s], line[c]) ELSE Got[s]]
  BY <1>9, <1>10
<1>12. Service!Deliver(c, lost)
  BY <1>1, <1>3, <1>5, <1>6, <1>11 DEF Service!Deliver, Got
<1> QED BY <1>12 DEF Service!Next

\* While the loop runs the service sees nothing: the line is still the
\* context's, and what a sink has of it does not count yet.
LEMMA RoundUnseen ==
  ASSUME LogInv, NEW c \in Contexts, pos \in DOMAIN sinks,
         WriteSink(c, sinks[pos] \notin Destroyed), UNCHANGED main
  PROVE  UNCHANGED ServiceView
<1> DEFINE s == sinks[pos]
<1>1. mutex = c /\ c # NoOne /\ UNCHANGED <<line, sinks>>
  BY WorkersAssumption DEF WriteSink, NoOne
<1>2. LoopOK /\ LinesOK /\ sinks \in Vectors
  BY DEF LogInv, SinksOK
<1>3. /\ s \in Sinks
      /\ \A i \in 1 .. pos - 1 : sinks[i] # s
  BY <1>2, SinksDiffer, WorkersAssumption DEF LoopOK
<1>4. s \notin sent
  BY <1>2, <1>3 DEF LoopOK
<1>5. Destroyed' = Destroyed
  BY DEF Destroyed, Done
<1> HIDE DEF s
<1>6. line[c] \in NamedLines
  BY <1>2 DEF WriteSink, LinesOK
<1>7. CASE s \notin Destroyed /\ line[c].sev >= Level[s]
  <2>1. out' = [out EXCEPT ![s] = Append(out[s], line[c])] /\ sent' = sent \cup {s}
    BY <1>7 DEF WriteSink, s
  <2>2. out'[s] = Append(out[s], line[c]) /\ \A r \in Sinks : r # s => out'[r] = out[r]
    BY <1>2, <1>3, <2>1 DEF LinesOK
  <2>3. out[s] \in Seq(NamedLines)
    BY <1>2, <1>3 DEF LinesOK
  <2>4. SubSeq(out'[s], 1, Len(out'[s]) - 1) = out[s]
    BY <1>6, <2>2, <2>3, FrontOfAppend
  <2>5. ASSUME NEW r \in Sinks
        PROVE  (IF r \in sent' THEN SubSeq(out'[r], 1, Len(out'[r]) - 1) ELSE out'[r])
               = (IF r \in sent THEN SubSeq(out[r], 1, Len(out[r]) - 1) ELSE out[r])
    <3>1. CASE r = s
      <4>1. r \in sent' /\ r \notin sent
        BY <1>4, <2>1, <3>1
      <4> QED BY <2>4, <3>1, <4>1
    <3>2. CASE r # s
      <4>1. out'[r] = out[r] /\ (r \in sent' <=> r \in sent)
        BY <2>1, <2>2, <3>2
      <4> QED BY <4>1
    <3> QED BY <3>1, <3>2
  <2>6. Got' = Got
    BY <2>5 DEF Got
  <2> QED BY <1>1, <1>5, <2>6 DEF ServiceView
<1>8. CASE ~ (s \notin Destroyed /\ line[c].sev >= Level[s])
  <2>1. UNCHANGED <<out, sent>>
    BY <1>8 DEF WriteSink, s
  <2> QED BY <1>1, <1>5, <2>1, GotAlone DEF ServiceView
<1> QED BY <1>7, <1>8

\* Taking the mutex is not seen either.
LEMMA LockUnseen ==
  ASSUME LogInv, NEW c \in Contexts, Lock(c), UNCHANGED main
  PROVE  UNCHANGED ServiceView
<1>1. sent = {} /\ sent' = {} /\ UNCHANGED <<line, sinks, out>>
  BY DEF Lock, LogInv, LoopOK, NobodyWrites
<1>2. Destroyed' = Destroyed
  BY DEF Destroyed, Done
<1> QED BY <1>1, <1>2, GotAlone DEF ServiceView

\* The vector of sinks starts with the one for the console.
LEMMA LogInitRefines == Init => Service!Init
<1> SUFFICES ASSUME Init PROVE Service!Init
  OBVIOUS
<1>1. /\ line = [c \in Contexts |-> NoLine] /\ sinks = <<"cout">>
      /\ out = [s \in Sinks |-> <<>>] /\ sent = {} /\ main = 1
  BY DEF Init, LogInit
<1>2. sinks \in Seq(Sinks)
  BY <1>1, WorkersAssumption
<1>3. Destroyed = {}
  BY <1>1 DEF Destroyed, Done
<1>4. [s \in Sinks |-> IF s \in sent THEN SubSeq(out[s], 1, Len(out[s]) - 1) ELSE out[s]]
      = [s \in Sinks |-> <<>>]
  BY <1>1
<1> QED BY <1>1, <1>2, <1>3, <1>4 DEF Service!Init

LEMMA LogNextRefines == LogInv /\ LogInv' /\ [Next]_vars => [Service!Next]_(Service!vars)
<1> SUFFICES ASSUME LogInv, LogInv', [Next]_vars
             PROVE  Service!Next \/ UNCHANGED Service!vars
  OBVIOUS
<1> USE WorkersAssumption
<1>1. UNCHANGED ServiceView => UNCHANGED Service!vars
  BY DEF ServiceView, Service!vars, Got
<1>2. main \in 1 .. 13 /\ main' \in 1 .. 13
  BY DEF LogInv, Inv, StateOK
<1>3. CASE Quiet /\ main' \in {main, main + 1}
  <2>1. Got' = Got /\ UNCHANGED <<line, sinks>>
    BY <1>3, GotAlone DEF Quiet
  <2>2. Destroyed' = Destroyed \/ Destroyed' = Destroyed \cup {"file"}
    BY <1>2, <1>3, DestroyedGrows
  <2>3. CASE Destroyed' = Destroyed
    BY <1>1, <2>1, <2>3 DEF ServiceView
  <2>4. CASE Destroyed' = Destroyed \cup {"file"}
    <3>1. Service!Destroy("file")
      BY <2>1, <2>4 DEF Service!Destroy, Got
    <3> QED BY <3>1 DEF Service!Next
  <2> QED BY <2>2, <2>3, <2>4
<1>4. ASSUME NEW c \in Contexts, NEW l \in NamedLines, Hands(c, l),
             main' = main \/ (main' = main + 1 /\ main < 12)
      PROVE  Service!Next
  <2>1. Destroyed' = Destroyed
    BY <1>2, <1>4, DestroyedGrows
  <2>2. Got' = Got
    BY <1>4, GotAlone DEF Hands
  <2>3. Service!Log(c, l)
    BY <1>4, <2>1, <2>2 DEF Hands, Service!Log, Got
  <2>4. l \in Lines
    BY DEF NamedLines
  <2> QED BY <2>3, <2>4 DEF Service!Next
<1>5. CASE SetsSinks
  <2>1. UNCHANGED <<line, out, sent>> /\ main \in {1, 2} /\ main' = main + 1
    BY <1>5 DEF SetsSinks, clearSinks, addSink
  <2>2. Got' = Got /\ Destroyed' = Destroyed
    BY <1>2, <2>1, GotAlone, DestroyedGrows
  <2>3. CASE clearSinks
    <3>1. Service!ClearSinks
      BY <2>1, <2>2, <2>3 DEF clearSinks, Service!ClearSinks, Got
    <3> QED BY <3>1 DEF Service!Next
  <2>4. CASE addSink("file")
    <3>1. Service!AddSink("file")
      BY <2>1, <2>2, <2>4 DEF addSink, Service!AddSink, Got
    <3> QED BY <3>1 DEF Service!Next
  <2> QED BY <1>5, <2>3, <2>4 DEF SetsSinks
<1>6. ASSUME NEW c \in Contexts, Writes(c)
      PROVE  Service!Next \/ UNCHANGED Service!vars
  BY <1>1, <1>6, LockUnseen, UnlockDelivers, RoundUnseen DEF Writes
<1> QED BY <1>3, <1>4, <1>5, <1>6, LogSteps DEF LogInv

\* The logger keeps the promise of LogService for any number of threads and of
\* sinks besides the two that main attaches, through the start of threads, the
\* signal and the end of the process (write_out of src/common/Logging.cpp).
THEOREM LoggerRefines == Spec => ImplementsLogService
<1>1. Init => Service!Init
  BY LogInitRefines
<1>2. LogInv /\ LogInv' /\ [Next]_vars => [Service!Next]_(Service!vars)
  BY LogNextRefines
<1> QED BY <1>1, <1>2, LogInvariance, PTL DEF Spec, Service!Spec, ImplementsLogService
=============================================================================
