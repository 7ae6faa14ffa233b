--------------------------- MODULE MCServerProcess ---------------------------
(***************************************************************************)
(* Values for the constants of ServerProcess: two threads of the pool, and *)
(* the two sinks that main attaches, both at INFO as in server.cpp.        *)
(***************************************************************************)
EXTENDS ServerProcess

MCWorkers  == {"t1", "t2"}
MCContexts == MCWorkers \cup {"main", "signal"}
MCSinks    == {"cout", "file"}
MCLevel    == [s \in MCSinks |-> Severity.INFO]
=============================================================================
