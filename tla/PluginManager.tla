---------------------------- MODULE PluginManager ----------------------------
(***************************************************************************)
(* The plugins of the client (src/common/PluginManager.cpp) and the main   *)
(* that owns them (src/client/client.cpp).  main loads every file of the   *)
(* directory of plugins, watches it, lists what is loaded and leaves; the  *)
(* thread of the watcher loads the files that change in the meantime.      *)
(* Whoever builds a plugin creates the file and completes it later, or     *)
(* moves a complete one into place.  A file is the version it holds.       *)
(***************************************************************************)
EXTENDS FileWatcher

CONSTANTS
  Names,         \* the names of plugin files
  Cores,         \* the numbers of cores a machine may have
  MaxVersion,    \* bound: versions ever written
  MaxSignals     \* bound: SIGINTs

ASSUME NamesAssumption ==
  /\ Watchers = {"watcher", "demo", "plugins"}
  /\ Unwatchable \subseteq Watchers
  /\ Cores \subseteq Nat \ {0}
  /\ MaxVersion \in Nat \ {0}
  /\ MaxSignals \in Nat

VARIABLES
  files,      \* the version of each file, 0 if there is none
  partial,    \* the files that are being written
  version,    \* the last version written
  main,       \* the statement of Script that main has reached
  status,     \* "running", or how the process ended
  toScan,     \* the entries of the directory that are still to be loaded
  plugins,    \* the map from names to plugins, by the version they came from
  handles,    \* the map from names to the handles of dlopen
  mapped,     \* the libraries that are mapped and hold a live plugin
  listed,     \* the plugins that listPlugins has yet to ask for their name
  signals,    \* signals so far
  stuck,      \* the threads on which the handler waits for the logger for good
  missed      \* history: files whose last change no event will tell

fileVars   == <<files, partial, version>>
clientVars == <<main, status, toScan, listed>>
mapVars    == <<plugins, handles, mapped>>
sigVars    == <<signals, stuck>>
vars       == <<watchVars, fileVars, clientVars, mapVars, sigVars, missed>>

\* main, the constructor of PluginManager and the destructors of the locals.
Script ==
  << <<"new", "watcher">>, <<"new", "demo">>, <<"set", "handler">>,
     <<"open", "plugins">>, <<"scan", "plugins">>, <<"new", "plugins">>,
     <<"list", "plugins">>, <<"name", "plugins">>, <<"stop", "plugins">>,
     <<"join", "plugins">>, <<"unload", "plugins">>, <<"stop", "demo">>,
     <<"join", "demo">>, <<"stop", "watcher">>, <<"join", "watcher">> >>

Index(op) == CHOOSE i \in DOMAIN Script : Script[i] = op
Done(op)  == main > Index(op)

\* A thread runs unless the process has ended or the handler is stuck on it.
Runs(t) == status = "running" /\ t \notin stuck

At(op) == Runs("main") /\ main \in DOMAIN Script /\ Script[main] = op

Init ==
  /\ WatchInit(Cores)
  /\ files \in [Names -> 0 .. 1]
  /\ partial = {}
  /\ version = 1
  /\ main = 1
  /\ status = "running"
  /\ toScan = {}
  /\ plugins = [n \in Names |-> 0]
  /\ handles = [n \in Names |-> 0]
  /\ mapped = {}
  /\ listed = {}
  /\ signals = 0
  /\ stuck = {}
  /\ missed = {}
-----------------------------------------------------------------------------
(***************************************************************************)
(* The file system under the directory of plugins.                         *)
(***************************************************************************)
Tell(n, kind) ==
  LET e == [kind |-> kind, name |-> n]
  IN  /\ Enqueue("plugins", e)
      /\ missed' = IF Loses("plugins", e) THEN missed \cup {n} ELSE missed \ {n}

NewVersion == version < MaxVersion /\ version' = version + 1

BeginWrite(n) ==
  /\ status = "running"
  /\ files[n] = 0 /\ n \notin partial
  /\ version < MaxVersion
  /\ partial' = partial \cup {n}
  /\ Tell(n, "CREATE")
  /\ UNCHANGED <<files, version, clientVars, mapVars, sigVars>>

EndWrite(n) ==
  /\ status = "running"
  /\ n \in partial
  /\ NewVersion
  /\ partial' = partial \ {n}
  /\ files' = [files EXCEPT ![n] = version']
  /\ Tell(n, "MODIFY")
  /\ UNCHANGED <<clientVars, mapVars, sigVars>>

Remove(n) ==
  /\ status = "running"
  /\ files[n] # 0 \/ n \in partial
  /\ files' = [files EXCEPT ![n] = 0]
  /\ partial' = partial \ {n}
  /\ Enqueue("plugins", [kind |-> "DELETE", name |-> n])
  /\ UNCHANGED <<version, clientVars, mapVars, sigVars, missed>>

\* A file that is moved into place raises IN_MOVED_TO, which is not watched.
MoveInto(n) ==
  /\ status = "running"
  /\ n \notin partial
  /\ NewVersion
  /\ files' = [files EXCEPT ![n] = version']
  /\ missed' = missed \cup {n}
  /\ UNCHANGED <<watchVars, partial, clientVars, mapVars, sigVars>>
-----------------------------------------------------------------------------
(***************************************************************************)
(* The maps of plugins.                                                    *)
(***************************************************************************)
\* Variant of removePlugin that keeps the library open.
removePluginKeepingHandle(n) ==
  /\ plugins' = [plugins EXCEPT ![n] = 0]
  /\ handles' = [handles EXCEPT ![n] = 0]
  /\ UNCHANGED mapped

removePlugin(n) ==
  /\ plugins' = [plugins EXCEPT ![n] = 0]
  /\ handles' = [handles EXCEPT ![n] = 0]
  /\ mapped' = mapped \ {<<n, handles[n]>>}

\* dlopen fails for a file that is missing or not complete.
Loadable(n) == files[n] # 0 /\ n \notin partial

\* The second half of loadPlugin, after removePlugin.
OpenPlugin(n) ==
  /\ plugins' = [plugins EXCEPT ![n] = files[n]]
  /\ handles' = [handles EXCEPT ![n] = files[n]]
  /\ mapped' = mapped \cup {<<n, files[n]>>}

\* Variant of fileChanged that takes new files only.
LoadsCreated(e) == e.kind = "CREATE"

\* fileChanged loads the file of these events.
Loads(e) == e.kind \in {"CREATE", "MODIFY"}

\* What thread t does next has a plugin log, as the one in plugins/hello_world
\* does when it is made and destroyed, or logs the names of the plugins.
Logs(t) ==
  \/ /\ t = "main"
     /\ \/ At(<<"scan", "plugins">>) /\ \E n \in toScan : Loadable(n)
        \/ At(<<"list", "plugins">>)
        \/ At(<<"name", "plugins">>) /\ listed # {}
        \/ At(<<"unload", "plugins">>) /\ \E n \in Names : plugins[n] # 0
  \/ /\ t = "plugins"
     /\ batch[t] # <<>>
     /\ LET e == Head(batch[t])
        IN  \/ task[t] = "events" /\ Loads(e) /\ plugins[e.name] # 0
            \/ task[t] = "callback" /\ Loadable(e.name)

\* It has to wait while a handler holds the mutex of the logger up.
LoggerFree(t) == Logs(t) => stuck = {}

FileChanged ==
  /\ Runs("plugins") /\ LoggerFree("plugins")
  /\ batch["plugins"] # <<>>
  /\ LET e == Head(batch["plugins"])
     IN  \/ Loads(e) /\ Callback("plugins", "callback") /\ removePlugin(e.name)
         \/ ~ Loads(e) /\ Callback("plugins", "events") /\ UNCHANGED mapVars
  /\ UNCHANGED <<fileVars, clientVars, sigVars, missed>>

LoadChanged ==
  /\ Runs("plugins") /\ LoggerFree("plugins")
  /\ task["plugins"] = "callback"
  /\ LET n == Head(batch["plugins"]).name
     IN  \/ Loadable(n) /\ OpenPlugin(n) /\ Returns("plugins")
         \/ ~ Loadable(n) /\ Throws("plugins") /\ UNCHANGED mapVars
  /\ UNCHANGED <<fileVars, clientVars, sigVars, missed>>

Watch(w) ==
  /\ Runs(w)
  /\ StartTask(w) \/ AddWatch(w) \/ Loop(w) \/ Select(w) \/ SkipEvent(w)
  /\ UNCHANGED <<fileVars, clientVars, mapVars, sigVars, missed>>

\* SIGINT ends the process until main has set the handler.  The handler only
\* logs, on whatever thread the signal meets: if that thread is inside
\* write_out it waits for the mutex that the thread under it holds, and if one
\* is stuck already it gets stuck as well.  Otherwise a select that the signal
\* interrupts fails; elsewhere the signal changes nothing and is no step.
Signal(t) ==
  /\ Runs(t)
  /\ t = "main" \/ t \in Active
  /\ signals < MaxSignals
  /\ signals' = signals + 1
  /\ \/ /\ ~ Done(<<"set", "handler">>)
        /\ status' = "killed"
        /\ UNCHANGED <<watchVars, stuck>>
     \/ /\ Done(<<"set", "handler">>)
        /\ Logs(t) \/ stuck # {}
        /\ stuck' = stuck \cup {t}
        /\ UNCHANGED <<watchVars, status>>
     \/ /\ Done(<<"set", "handler">>)
        /\ stuck = {}
        /\ t # "main" /\ Interrupt(t)
        /\ UNCHANGED <<status, stuck>>
  /\ UNCHANGED <<fileVars, main, toScan, listed, mapVars, missed>>
-----------------------------------------------------------------------------
(***************************************************************************)
(* main.                                                                   *)
(***************************************************************************)
NextStatement == main' = main + 1 /\ UNCHANGED status

Ends(how) == status' = how /\ UNCHANGED main

\* The constructor of PluginManager throws; main catches the exception.  The
\* maps go, what they referred to stays.
ThrowPluginException ==
  /\ main' = Index(<<"stop", "demo">>)
  /\ toScan' = {}
  /\ plugins' = [n \in Names |-> 0]
  /\ handles' = [n \in Names |-> 0]
  /\ UNCHANGED <<status, mapped, missed>>

NewWatcher(w) ==
  /\ At(<<"new", w>>)
  /\ NextStatement
  /\ Construct(w)
  /\ UNCHANGED <<fileVars, toScan, listed, mapVars, sigVars, missed>>

SetHandler ==
  /\ At(<<"set", "handler">>)
  /\ NextStatement
  /\ UNCHANGED <<watchVars, fileVars, toScan, listed, mapVars, sigVars, missed>>

\* The iterator over the directory, which may not exist if it has no file.
OpenDirectory ==
  /\ At(<<"open", "plugins">>)
  /\ \/ /\ toScan' = {n \in Names : files[n] # 0 \/ n \in partial}
        /\ NextStatement
        /\ UNCHANGED <<mapVars, missed>>
     \/ /\ \A n \in Names : files[n] = 0 /\ n \notin partial
        /\ ThrowPluginException
  /\ UNCHANGED <<watchVars, fileVars, listed, sigVars>>

\* An entry that is gone is no regular file any more, unless the iterator
\* remembers what it was or it goes just then: then dlopen fails.
ScanFile(n) ==
  /\ At(<<"scan", "plugins">>)
  /\ n \in toScan
  /\ \/ /\ Loadable(n)
        /\ stuck = {}
        /\ OpenPlugin(n)
        /\ toScan' = toScan \ {n}
        /\ missed' = missed \ {n}
        /\ UNCHANGED <<main, status>>
     \/ /\ ~ Loadable(n)
        /\ ThrowPluginException
     \/ /\ files[n] = 0 /\ n \notin partial
        /\ toScan' = toScan \ {n}
        /\ UNCHANGED <<main, status, mapVars, missed>>
  /\ UNCHANGED <<watchVars, fileVars, listed, sigVars>>

ScanEnds ==
  /\ At(<<"scan", "plugins">>)
  /\ toScan = {}
  /\ NextStatement
  /\ UNCHANGED <<watchVars, fileVars, toScan, listed, mapVars, sigVars, missed>>

\* plugins.values() while the thread of the watcher may be changing the map.
ChangesMap == task["plugins"] = "callback"

\* Variant in which looking a name up leaves an empty entry behind.
ListEntries ==
  /\ At(<<"list", "plugins">>)
  /\ stuck = {}
  /\ listed' = {<<n, plugins[n]>> : n \in Names}
  /\ NextStatement
  /\ UNCHANGED <<watchVars, fileVars, toScan, mapVars, sigVars, missed>>

ListPlugins ==
  /\ At(<<"list", "plugins">>)
  /\ stuck = {}
  /\ \/ /\ listed' = {<<n, plugins[n]>> : n \in {m \in Names : plugins[m] # 0}}
        /\ NextStatement
     \/ /\ ChangesMap
        /\ Ends("crashed")
        /\ UNCHANGED listed
  /\ UNCHANGED <<watchVars, fileVars, toScan, mapVars, sigVars, missed>>

\* plugin->name(), on a plugin that may have been destroyed and unmapped.
NamePlugin ==
  /\ At(<<"name", "plugins">>)
  /\ \/ /\ stuck = {}
        /\ \E p \in listed : listed' = listed \ {p}
        /\ UNCHANGED <<main, status>>
     \/ listed \ mapped # {} /\ Ends("crashed") /\ UNCHANGED listed
     \/ listed = {} /\ NextStatement /\ UNCHANGED listed
  /\ UNCHANGED <<watchVars, fileVars, toScan, mapVars, sigVars, missed>>

StopWatcher(w) ==
  /\ At(<<"stop", w>>)
  /\ NextStatement
  /\ Stop(w)
  /\ UNCHANGED <<fileVars, toScan, listed, mapVars, sigVars, missed>>

\* waitForFinished throws again what ended the watch, out of a destructor.
JoinWatcher(w) ==
  /\ At(<<"join", w>>)
  /\ \/ Join(w) /\ NextStatement
     \/ JoinThrows(w) /\ Ends("terminated")
  /\ UNCHANGED <<fileVars, toScan, listed, mapVars, sigVars, missed>>

UnloadAll ==
  /\ At(<<"unload", "plugins">>)
  /\ LoggerFree("main")
  /\ NextStatement
  /\ plugins' = [n \in Names |-> 0]
  /\ handles' = [n \in Names |-> 0]
  /\ mapped' = mapped \ {<<n, handles[n]>> : n \in Names}
  /\ UNCHANGED <<watchVars, fileVars, toScan, listed, sigVars, missed>>

Exit ==
  /\ Runs("main")
  /\ main > Len(Script)
  /\ status' = "exited"
  /\ UNCHANGED <<watchVars, fileVars, main, toScan, listed, mapVars, sigVars, missed>>

Main ==
  \/ \E w \in Watchers : NewWatcher(w) \/ StopWatcher(w) \/ JoinWatcher(w)
  \/ \E n \in Names : ScanFile(n)
  \/ SetHandler \/ OpenDirectory \/ ScanEnds \/ ListPlugins \/ NamePlugin
  \/ UnloadAll \/ Exit

Thread(w) == Watch(w) \/ (w = "plugins" /\ (FileChanged \/ LoadChanged))

Next ==
  \/ Main
  \/ \E w \in Watchers : Thread(w)
  \/ \E t \in Watchers \cup {"main"} : Signal(t)
  \/ \E n \in Names : BeginWrite(n) \/ EndWrite(n) \/ Remove(n) \/ MoveInto(n)

\* The threads are scheduled; nobody has to write a file or send a signal.
Fairness == WF_vars(Main) /\ \A w \in Watchers : WF_vars(Thread(w))

Spec == Init /\ [][Next]_vars /\ Fairness
-----------------------------------------------------------------------------
(***************************************************************************)
(* Properties.                                                             *)
(***************************************************************************)
Events == [kind : {"CREATE", "MODIFY", "DELETE"}, name : Names] \cup {Overflow}

\* The values of the variables of the watchers, the files and the client.
TypeOK ==
  /\ cores \in Cores
  /\ task \in [Watchers -> {"none", "queued", "start", "loop", "select", "events",
                            "callback", "stopped", "failed", "thrown"}]
  /\ running \in [Watchers -> BOOLEAN] /\ pipe \in [Watchers -> BOOLEAN]
  /\ queue \in [Watchers -> Seq(Events)] /\ batch \in [Watchers -> Seq(Events)]
  /\ \A w \in Watchers : Len(queue[w]) <= QueueLimit + 1
  /\ {files, plugins, handles} \subseteq [Names -> 0 .. MaxVersion]
  /\ {partial, toScan, missed} \subseteq SUBSET Names
  /\ {mapped, listed} \subseteq SUBSET (Names \X (1 .. MaxVersion))
  /\ version \in 0 .. MaxVersion
  /\ main \in 1 .. Len(Script) + 1
  /\ status \in {"running", "exited", "terminated", "crashed", "killed"}
  /\ submitted \in Seq(Watchers) /\ watched \subseteq Watchers
  /\ signals \in 0 .. MaxSignals
  /\ stuck \subseteq Watchers \cup {"main"}

\* The destructor of a watcher leaves no task behind that could still call
\* back: main destroys the plugins, and the objects that the callbacks refer
\* to, only when the task is over or was never begun.
UnloadsAlone ==
  \A w \in Watchers :
    Done(<<"join", w>>) \/ (w = "plugins" /\ Done(<<"unload", w>>))
    => task[w] \in {"none", "stopped"}

\* Every library that is open is the one its name stands for in both maps, so
\* a client that leaves through its destructors has closed every library.
\* The one way to lose track of them is a constructor that throws.
Scanned  == Done(<<"scan", "plugins">>) /\ task["plugins"] # "none"
NoneLeft == {<<n, plugins[n]>> : n \in {m \in Names : plugins[m] # 0}}
NoLibraryLost ==
  /\ plugins = handles
  /\ Scanned \/ ~ Done(<<"scan", "plugins">>) => mapped = NoneLeft

\* While the watch goes on, every complete file whose last change was told is
\* loaded in the version on disk as soon as the events are handled.
UpToDate ==
  /\ status = "running" /\ ~ Done(<<"stop", "plugins">>)
  /\ task["plugins"] = "select" /\ queue["plugins"] = <<>>
  => \A n \in Names \ missed : Loadable(n) => plugins[n] = files[n]

\* listPlugins and the plugins it asks for their names are safe as long as the
\* watcher calls back for no file that has changed: what crashes the client is a
\* reload in the meantime, and nothing that the scan has left behind.
CrashNeedsReload == [](task["plugins"] # "callback") => [](status # "crashed")

\* The client ends: no destructor waits for a watch that does not notice that
\* it should stop, that no thread has taken, that has failed or that never got
\* a watch on its directory, whatever signals arrive, but for one that meets a
\* thread inside write_out.
ClientEnds == <>(status # "running" \/ stuck # {})

\* "Plugins live under ./plugins and are automatically reloaded on change":
\* no change of a plugin's file may end the watch.
GoesOnWatching == task["plugins"] # "thrown"
=============================================================================
