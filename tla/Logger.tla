-------------------------------- MODULE Logger -------------------------------
(***************************************************************************)
(* The logger of the process (src/common/Logging.h, Logging.cpp) and the   *)
(* hooks with which the threads of Ice register (src/common/ThreadHook.h). *)
(* A context is a flow of control that may log: a thread, or the signal    *)
(* handler while it runs on a thread it has interrupted.  write_out takes  *)
(* the mutex, passes the line to one sink after the other and gives the    *)
(* mutex back; addSink and clearSinks change the vector without it.        *)
(***************************************************************************)
EXTENDS Naturals, Sequences

CONSTANTS
  Contexts,   \* the flows of control that log
  Sinks,      \* the LogSink objects
  Level       \* the severity of each sink

ASSUME LevelAssumption == Level \in [Sinks -> 1 .. 3]

VARIABLES
  mutex,           \* the context that holds the mutex, or NoOne
  sinks,           \* the vector of sinks
  pos,             \* the index that the loop over the sinks has reached
  line,            \* the line a context has handed to write_out, or NoLine
  out,             \* what each sink has received
  sent,            \* history: the sinks that have the line being written
  thread_name,     \* the name of a context's thread, NoName if not set
  thread_counter

logVars == <<mutex, sinks, pos, line, out, sent, thread_name, thread_counter>>

NoOne    == "no one"
NoLine   == [sev |-> 0]
NoName   == <<"???thread">>
Severity == [INFO |-> 1, WARN |-> 2, ERROR |-> 3]

\* A line carries what was logged and what write_out adds to it: the thread.
Line(sev, what, thread) == [sev |-> Severity[sev], what |-> what, thread |-> thread]

LogInit ==
  /\ mutex = NoOne
  /\ sinks = <<"cout">>
  /\ pos = 1
  /\ line = [c \in Contexts |-> NoLine]
  /\ out = [s \in Sinks |-> <<>>]
  /\ sent = {}
  /\ thread_name = [c \in Contexts |-> IF c = "main" THEN <<"MainThread">> ELSE NoName]
  /\ thread_counter = 0

addSink(s) ==
  /\ sinks' = Append(sinks, s)
  /\ UNCHANGED <<mutex, pos, line, out, sent, thread_name, thread_counter>>

clearSinks ==
  /\ sinks' = <<>>
  /\ UNCHANGED <<mutex, pos, line, out, sent, thread_name, thread_counter>>

\* INFO, WARN or ERROR: c calls write_out.
print(c, sev, what, thread) ==
  /\ line[c] = NoLine
  /\ line' = [line EXCEPT ![c] = Line(sev, what, thread)]
  /\ UNCHANGED <<mutex, sinks, pos, out, sent, thread_name, thread_counter>>

\* Variant of write_out without the lock_guard.
LockUnguarded(c) ==
  /\ line[c] # NoLine
  /\ mutex # c
  /\ mutex' = c
  /\ pos' = 1
  /\ sent' = {}
  /\ UNCHANGED <<sinks, line, out, thread_name, thread_counter>>

Lock(c) ==
  /\ line[c] # NoLine
  /\ mutex = NoOne
  /\ mutex' = c
  /\ pos' = 1
  /\ sent' = {}
  /\ UNCHANGED <<sinks, line, out, thread_name, thread_counter>>

\* The body of the loop for the sink at pos, which write says is still there.
WriteSink(c, write) ==
  /\ line[c] # NoLine
  /\ mutex = c
  /\ pos \in DOMAIN sinks
  /\ pos' = pos + 1
  /\ IF write /\ line[c].sev >= Level[sinks[pos]]
     THEN /\ out' = [out EXCEPT ![sinks[pos]] = Append(@, line[c])]
          /\ sent' = sent \cup {sinks[pos]}
     ELSE UNCHANGED <<out, sent>>
  /\ UNCHANGED <<mutex, sinks, line, thread_name, thread_counter>>

Unlock(c) ==
  /\ line[c] # NoLine
  /\ mutex = c
  /\ pos \notin DOMAIN sinks
  /\ mutex' = NoOne
  /\ pos' = 1
  /\ line' = [line EXCEPT ![c] = NoLine]
  /\ sent' = {}
  /\ UNCHANGED <<sinks, out, thread_name, thread_counter>>

\* The lock_guard of registerThread and of removeThread.  The thread may be
\* interrupted before it goes on.
LockName(c) ==
  /\ mutex = NoOne
  /\ mutex' = c
  /\ UNCHANGED <<sinks, pos, line, out, sent, thread_name, thread_counter>>

\* The rest of registerThread, and the mutex is given back.
registerThread(c) ==
  /\ mutex = c
  /\ mutex' = NoOne
  /\ thread_name' = [thread_name EXCEPT ![c] = <<"Thread", thread_counter>>]
  /\ thread_counter' = thread_counter + 1
  /\ UNCHANGED <<sinks, pos, line, out, sent>>

\* Variant that gives the ending thread a fresh name instead of deleting it.
renameThread(c) ==
  /\ mutex = c
  /\ mutex' = NoOne
  /\ thread_name' = [thread_name EXCEPT ![c] = <<"Thread", thread_counter>>]
  /\ thread_counter' = thread_counter + 1
  /\ UNCHANGED <<sinks, pos, line, out, sent>>

\* The rest of removeThread.
removeThread(c) ==
  /\ mutex = c
  /\ mutex' = NoOne
  /\ thread_name' = [thread_name EXCEPT ![c] = NoName]
  /\ UNCHANGED <<sinks, pos, line, out, sent, thread_counter>>
=============================================================================
