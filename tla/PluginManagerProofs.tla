------------------------- MODULE PluginManagerProofs -------------------------
(***************************************************************************)
(* The client's plugins: types, nothing is unloaded under a running        *)
(* callback, no library is lost, what is loaded is what is on disk, and    *)
(* only a reload can crash listPlugins, for any number of plugin files,    *)
(* versions, events the kernel keeps, threads and signals.                 *)
(***************************************************************************)
EXTENDS PluginManager, SequenceTheorems, TLAPS

Labels == {"none", "queued", "start", "loop", "select", "events", "callback",
           "stopped", "failed", "thrown"}

\* What the proof needs of the types.
StateOK ==
  /\ main \in 1 .. 16
  /\ task \in [Watchers -> Labels]
  /\ queue \in [Watchers -> Seq(Events)]
  /\ batch \in [Watchers -> Seq(Events)]
  /\ toScan \subseteq Names
  /\ plugins = [n \in Names |-> plugins[n]]

\* A task exists from the constructor of its watcher on, and is over, or was
\* never begun, when its destructor has returned.
Begun ==
  /\ main <= 1 => task["watcher"] = "none"
  /\ main <= 2 => task["demo"] = "none"
  /\ main <= 6 => task["plugins"] = "none"
Over ==
  /\ main >= 11 => task["plugins"] \in {"none", "stopped"}
  /\ main >= 14 => task["demo"] \in {"none", "stopped"}
  /\ main >= 16 => task["watcher"] \in {"none", "stopped"}

\* What is still to be scanned, and what a callback is about to load, is not
\* loaded: removePlugin went before.
Unloaded ==
  /\ main <= 4 => \A n \in Names : plugins[n] = 0
  /\ main <= 5 => \A n \in toScan : plugins[n] = 0
  /\ task["plugins"] = "callback" =>
       /\ batch["plugins"] # <<>>
       /\ Head(batch["plugins"]).name \in Names
       /\ plugins[Head(batch["plugins"]).name] = 0

\* The maps agree with each other and with the libraries that are open.
Tracked ==
  /\ plugins = handles
  /\ main <= 6 \/ task["plugins"] # "none" => mapped = NoneLeft

Inv == StateOK /\ Begun /\ Over /\ Unloaded /\ Tracked

\* The places of the statements of main that the proof refers to.
LEMMA Positions ==
  ASSUME NEW i \in 1 .. 15
  PROVE  /\ Script[i] = <<"new", "watcher">> <=> i = 1
         /\ Script[i] = <<"new", "demo">> <=> i = 2
         /\ Script[i] = <<"set", "handler">> <=> i = 3
         /\ Script[i] = <<"open", "plugins">> <=> i = 4
         /\ Script[i] = <<"scan", "plugins">> <=> i = 5
         /\ Script[i] = <<"new", "plugins">> <=> i = 6
         /\ Script[i] = <<"list", "plugins">> <=> i = 7
         /\ Script[i] = <<"name", "plugins">> <=> i = 8
         /\ Script[i] = <<"stop", "plugins">> <=> i = 9
         /\ Script[i] = <<"join", "plugins">> <=> i = 10
         /\ Script[i] = <<"unload", "plugins">> <=> i = 11
         /\ Script[i] = <<"stop", "demo">> <=> i = 12
         /\ Script[i] = <<"join", "demo">> <=> i = 13
         /\ Script[i] = <<"stop", "watcher">> <=> i = 14
         /\ Script[i] = <<"join", "watcher">> <=> i = 15
<1> QED BY SMT DEF Script

LEMMA Length == DOMAIN Script = 1 .. 15 /\ Len(Script) = 15
BY SMT DEF Script

LEMMA IndexAt ==
  ASSUME NEW op, NEW k \in 1 .. 15, \A i \in 1 .. 15 : Script[i] = op <=> i = k
  PROVE  Index(op) = k
<1>1. DOMAIN Script = 1 .. 15
  BY Length
<1>2. \E i \in DOMAIN Script : Script[i] = op
  BY <1>1
<1>3. Index(op) \in DOMAIN Script /\ Script[Index(op)] = op
  BY <1>2 DEF Index
<1> QED BY <1>1, <1>3

LEMMA Indices ==
  /\ Index(<<"scan", "plugins">>) = 5
  /\ Index(<<"join", "plugins">>) = 10
  /\ Index(<<"unload", "plugins">>) = 11
  /\ Index(<<"stop", "demo">>) = 12
  /\ Index(<<"join", "demo">>) = 13
  /\ Index(<<"join", "watcher">>) = 15
<1>1. \A i \in 1 .. 15 :
        /\ Script[i] = <<"scan", "plugins">> <=> i = 5
        /\ Script[i] = <<"join", "plugins">> <=> i = 10
        /\ Script[i] = <<"unload", "plugins">> <=> i = 11
        /\ Script[i] = <<"stop", "demo">> <=> i = 12
        /\ Script[i] = <<"join", "demo">> <=> i = 13
        /\ Script[i] = <<"join", "watcher">> <=> i = 15
  BY Positions
<1>2. Index(<<"scan", "plugins">>) = 5
  <2> DEFINE op == <<"scan", "plugins">>
  <2>1. \A i \in 1 .. 15 : Script[i] = op <=> i = 5
    BY <1>1
  <2> HIDE DEF op
  <2> QED BY <2>1, IndexAt DEF op
<1>3. Index(<<"join", "plugins">>) = 10
  <2> DEFINE op == <<"join", "plugins">>
  <2>1. \A i \in 1 .. 15 : Script[i] = op <=> i = 10
    BY <1>1
  <2> HIDE DEF op
  <2> QED BY <2>1, IndexAt DEF op
<1>4. Index(<<"unload", "plugins">>) = 11
  <2> DEFINE op == <<"unload", "plugins">>
  <2>1. \A i \in 1 .. 15 : Script[i] = op <=> i = 11
    BY <1>1
  <2> HIDE DEF op
  <2> QED BY <2>1, IndexAt DEF op
<1>5. Index(<<"stop", "demo">>) = 12
  <2> DEFINE op == <<"stop", "demo">>
  <2>1. \A i \in 1 .. 15 : Script[i] = op <=> i = 12
    BY <1>1
  <2> HIDE DEF op
  <2> QED BY <2>1, IndexAt DEF op
<1>6. Index(<<"join", "demo">>) = 13
  <2> DEFINE op == <<"join", "demo">>
  <2>1. \A i \in 1 .. 15 : Script[i] = op <=> i = 13
    BY <1>1
  <2> HIDE DEF op
  <2> QED BY <2>1, IndexAt DEF op
<1>7. Index(<<"join", "watcher">>) = 15
  <2> DEFINE op == <<"join", "watcher">>
  <2>1. \A i \in 1 .. 15 : Script[i] = op <=> i = 15
    BY <1>1
  <2> HIDE DEF op
  <2> QED BY <2>1, IndexAt DEF op
<1> QED BY <1>2, <1>3, <1>4, <1>5, <1>6, <1>7

\* The statement that main has reached.
LEMMA Present ==
  ASSUME StateOK
  PROVE  /\ \A w : At(<<"new", w>>) => \/ w = "watcher" /\ main = 1
                                       \/ w = "demo" /\ main = 2
                                       \/ w = "plugins" /\ main = 6
         /\ At(<<"set", "handler">>) => main = 3
         /\ At(<<"open", "plugins">>) => main = 4
         /\ At(<<"scan", "plugins">>) => main = 5
         /\ At(<<"list", "plugins">>) => main = 7
         /\ At(<<"name", "plugins">>) => main = 8
         /\ \A w : At(<<"stop", w>>) => main \in {9, 12, 14}
         /\ \A w : At(<<"join", w>>) => \/ w = "plugins" /\ main = 10
                                        \/ w = "demo" /\ main = 13
                                        \/ w = "watcher" /\ main = 15
         /\ At(<<"unload", "plugins">>) => main = 11
<1>1. ASSUME NEW op, At(op)
      PROVE  main \in 1 .. 15 /\ Script[main] = op
  BY <1>1, Length DEF At
<1>2. ASSUME NEW w, At(<<"new", w>>)
      PROVE  \/ w = "watcher" /\ main = 1
             \/ w = "demo" /\ main = 2
             \/ w = "plugins" /\ main = 6
  <2>1. main \in 1 .. 15 /\ Script[main] = <<"new", w>>
    BY <1>1, <1>2
  <2> QED BY <2>1, SMT DEF Script
<1>3. ASSUME NEW w, At(<<"stop", w>>)
      PROVE  main \in {9, 12, 14}
  <2>1. main \in 1 .. 15 /\ Script[main] = <<"stop", w>>
    BY <1>1, <1>3
  <2> QED BY <2>1, SMT DEF Script
<1>4. ASSUME NEW w, At(<<"join", w>>)
      PROVE  \/ w = "plugins" /\ main = 10
             \/ w = "demo" /\ main = 13
             \/ w = "watcher" /\ main = 15
  <2>1. main \in 1 .. 15 /\ Script[main] = <<"join", w>>
    BY <1>1, <1>4
  <2> QED BY <2>1, SMT DEF Script
<1>5. At(<<"set", "handler">>) => main = 3
  BY <1>1, Positions
<1>6. At(<<"open", "plugins">>) => main = 4
  BY <1>1, Positions
<1>7. At(<<"scan", "plugins">>) => main = 5
  BY <1>1, Positions
<1>8. At(<<"list", "plugins">>) => main = 7
  BY <1>1, Positions
<1>9. At(<<"name", "plugins">>) => main = 8
  BY <1>1, Positions
<1>10. At(<<"unload", "plugins">>) => main = 11
  BY <1>1, Positions
<1> QED BY <1>2, <1>3, <1>4, <1>5, <1>6, <1>7, <1>8, <1>9, <1>10

LEMMA InvInit == Init => Inv
<1> SUFFICES ASSUME Init PROVE Inv
  OBVIOUS
<1> USE NamesAssumption
<1>1. StateOK
  <2>1. task \in [Watchers -> Labels]
    BY DEF Init, WatchInit, Labels
  <2>2. queue \in [Watchers -> Seq(Events)] /\ batch \in [Watchers -> Seq(Events)]
    BY DEF Init, WatchInit
  <2>3. plugins = [n \in Names |-> plugins[n]]
    BY DEF Init
  <2>4. main = 1 /\ toScan = {}
    BY DEF Init
  <2> QED BY <2>1, <2>2, <2>3, <2>4 DEF StateOK
<1>2. main = 1 /\ \A w \in Watchers : task[w] = "none"
  BY DEF Init, WatchInit
<1>3. /\ plugins = [n \in Names |-> 0] /\ handles = plugins /\ mapped = {}
      /\ toScan = {}
  BY DEF Init
<1>4. Begun /\ Over /\ Unloaded
  BY <1>2, <1>3 DEF Begun, Over, Unloaded
<1>5. NoneLeft = {}
  BY <1>3 DEF NoneLeft
<1>6. Tracked
  BY <1>3, <1>5 DEF Tracked
<1> QED BY <1>1, <1>4, <1>6 DEF Inv

\* A step that leaves alone what the invariant is about.
LEMMA NoChange ==
  ASSUME Inv, UNCHANGED <<main, task, batch, queue, toScan, plugins, handles, mapped>>
  PROVE  Inv'
BY DEF Inv, StateOK, Begun, Over, Unloaded, Tracked, NoneLeft

\* What the kernel queues is an event.
LEMMA Queues ==
  ASSUME StateOK, NEW e \in Events, Enqueue("plugins", e)
  PROVE  queue' \in [Watchers -> Seq(Events)] /\ UNCHANGED <<task, batch>>
<1> USE NamesAssumption
<1> DEFINE q == queue["plugins"]
<1>1. q \in Seq(Events) /\ Overflow \in Events
  BY DEF StateOK, Events
<1>2. Append(q, e) \in Seq(Events) /\ Append(q, Overflow) \in Seq(Events)
  BY <1>1
<1>3. PICK x : /\ x = q \/ x = Append(q, e) \/ x = Append(q, Overflow)
               /\ queue' = [queue EXCEPT !["plugins"] = x]
  <2> DEFINE last == IF q = <<>> THEN Overflow ELSE q[Len(q)]
             x == CASE ~ Watches("plugins") -> q
                    [] Len(q) < QueueLimit /\ (q = <<>> \/ last # e) -> Append(q, e)
                    [] Len(q) = QueueLimit /\ last # Overflow /\ last # e -> Append(q, Overflow)
                    [] OTHER -> q
  <2>1. queue' = [queue EXCEPT !["plugins"] = x]
    BY Zenon DEF Enqueue
  <2>2. x = q \/ x = Append(q, e) \/ x = Append(q, Overflow)
    <3> HIDE DEF q, last
    <3> QED BY SMT
  <2> HIDE DEF x
  <2> QED BY <2>1, <2>2
<1>4. x \in Seq(Events)
  BY <1>1, <1>2, <1>3
<1>5. queue' \in [Watchers -> Seq(Events)]
  BY <1>3, <1>4 DEF StateOK
<1> QED BY <1>5 DEF Enqueue

\* The task of a watcher that has begun and is not over goes on, outside of
\* the callback of the plugins.
LEMMA TaskMoves ==
  ASSUME Inv, NEW w \in Watchers, NEW label \in Labels,
         task[w] \notin {"none", "stopped"}, label \notin {"none", "callback"},
         task' = [task EXCEPT ![w] = label],
         queue' \in [Watchers -> Seq(Events)],
         batch' \in [Watchers -> Seq(Events)],
         w # "plugins" => batch'["plugins"] = batch["plugins"],
         UNCHANGED <<main, toScan, plugins, handles, mapped>>
  PROVE  Inv'
<1> USE NamesAssumption
<1>1. /\ task' \in [Watchers -> Labels] /\ task'[w] = label
      /\ \A v \in Watchers : v # w => task'[v] = task[v]
  BY DEF Inv, StateOK
<1>2. StateOK'
  BY <1>1 DEF Inv, StateOK
<1>3. Begun'
  BY <1>1 DEF Inv, Begun
<1>4. Over'
  BY <1>1 DEF Inv, Over
<1>5. Unloaded'
  BY <1>1 DEF Inv, Unloaded
<1>6. Tracked'
  BY <1>1 DEF Inv, Tracked, NoneLeft
<1> QED BY <1>2, <1>3, <1>4, <1>5, <1>6 DEF Inv

\* The events of a batch, and what is left of it.
LEMMA Batches ==
  ASSUME StateOK, NEW w \in Watchers
  PROVE  /\ [batch EXCEPT ![w] = queue[w]] \in [Watchers -> Seq(Events)]
         /\ [queue EXCEPT ![w] = <<>>] \in [Watchers -> Seq(Events)]
         /\ [batch EXCEPT ![w] = <<>>] \in [Watchers -> Seq(Events)]
         /\ batch[w] # <<>> =>
              /\ Head(batch[w]) \in Events
              /\ [batch EXCEPT ![w] = Tail(@)] \in [Watchers -> Seq(Events)]
<1>1. batch[w] \in Seq(Events) /\ queue[w] \in Seq(Events) /\ <<>> \in Seq(Events)
  BY DEF StateOK
<1>2. batch[w] # <<>> => Head(batch[w]) \in Events /\ Tail(batch[w]) \in Seq(Events)
  BY <1>1
<1> QED BY <1>1, <1>2 DEF StateOK

\* What a signal does but for the process and the handler: it makes the select
\* of a watcher fail.
Interrupted(w) ==
  /\ Interrupt(w)
  /\ UNCHANGED <<fileVars, clientVars, mapVars, missed>>

LEMMA SignalSteps ==
  ASSUME NEW t \in Watchers \cup {"main"}, Signal(t)
  PROVE  \/ t \in Watchers /\ Interrupted(t)
         \/ /\ UNCHANGED <<watchVars, fileVars, main, toScan, listed, mapVars, missed>>
            /\ status' \in {status, "killed"}
BY DEF Signal, Interrupted, clientVars

LEMMA WatchStep ==
  ASSUME Inv, NEW w \in Watchers, Watch(w) \/ Interrupted(w)
  PROVE  Inv'
<1> USE NamesAssumption
<1>1. UNCHANGED <<main, toScan, plugins, handles, mapped>>
  BY DEF Watch, Interrupted, clientVars, mapVars
<1>2. /\ queue \in [Watchers -> Seq(Events)] /\ batch \in [Watchers -> Seq(Events)]
      /\ StateOK
  BY DEF Inv, StateOK
<1>3. CASE StartTask(w)
  BY <1>1, <1>2, <1>3, TaskMoves DEF StartTask, Goes, Labels
<1>4. CASE AddWatch(w)
  BY <1>1, <1>2, <1>4, TaskMoves DEF AddWatch, Goes, Labels
<1>5. CASE Loop(w)
  <2>1. task[w] = "loop" /\ \E label \in {"select", "stopped"} : task' = [task EXCEPT ![w] = label]
    BY <1>5 DEF Loop, Goes
  <2>2. UNCHANGED <<queue, batch>>
    BY <1>5 DEF Loop
  <2> QED BY <1>1, <1>2, <2>1, <2>2, TaskMoves DEF Labels
<1>6. CASE Select(w)
  <2>1. CASE Goes(w, "stopped") /\ UNCHANGED <<queue, batch>>
    BY <1>1, <1>2, <1>6, <2>1, TaskMoves DEF Select, Goes, Labels
  <2>2. CASE /\ Goes(w, "events")
             /\ batch' = [batch EXCEPT ![w] = queue[w]]
             /\ queue' = [queue EXCEPT ![w] = <<>>]
    <3>1. /\ batch' \in [Watchers -> Seq(Events)] /\ queue' \in [Watchers -> Seq(Events)]
          /\ w # "plugins" => batch'["plugins"] = batch["plugins"]
      BY <1>2, <2>2, Batches
    <3> QED BY <1>1, <1>6, <2>2, <3>1, TaskMoves DEF Select, Goes, Labels
  <2> QED BY <1>6, <2>1, <2>2 DEF Select
<1>7. CASE Interrupt(w)
  BY <1>1, <1>2, <1>7, TaskMoves DEF Interrupt, Goes, Labels
<1>8. CASE SkipEvent(w)
  <2>1. CASE Goes(w, "loop") /\ UNCHANGED batch
    BY <1>1, <1>2, <1>8, <2>1, TaskMoves DEF SkipEvent, Goes, Labels
  <2>2. CASE /\ batch[w] # <<>>
             /\ batch' = [batch EXCEPT ![w] = Tail(@)]
             /\ UNCHANGED <<cores, task, running, pipe>>
    <3>1. /\ batch' \in [Watchers -> Seq(Events)]
          /\ w # "plugins" => batch'["plugins"] = batch["plugins"]
      BY <1>2, <2>2, Batches
    <3>2. task[w] = "events" /\ queue' = queue
      BY <1>8 DEF SkipEvent
    <3>3. task' = [task EXCEPT ![w] = "events"]
      BY <1>2, <2>2, <3>2 DEF StateOK
    <3> QED BY <1>1, <1>2, <3>1, <3>2, <3>3, TaskMoves DEF Labels
  <2> QED BY <1>8, <2>1, <2>2 DEF SkipEvent
<1> QED BY <1>3, <1>4, <1>5, <1>6, <1>7, <1>8 DEF Watch, Interrupted

LEMMA FileStep ==
  ASSUME Inv, NEW n \in Names, BeginWrite(n) \/ EndWrite(n) \/ Remove(n) \/ MoveInto(n)
  PROVE  Inv'
<1>1. UNCHANGED <<main, toScan, plugins, handles, mapped>>
  BY DEF BeginWrite, EndWrite, Remove, MoveInto, clientVars, mapVars
<1>2. CASE \E kind \in {"CREATE", "MODIFY", "DELETE"} :
             Enqueue("plugins", [kind |-> kind, name |-> n])
  <2>1. PICK kind \in {"CREATE", "MODIFY", "DELETE"} :
               Enqueue("plugins", [kind |-> kind, name |-> n])
    BY <1>2
  <2>2. [kind |-> kind, name |-> n] \in Events
    BY DEF Events
  <2>3. queue' \in [Watchers -> Seq(Events)] /\ UNCHANGED <<task, batch>>
    BY <2>1, <2>2, Queues DEF Inv
  <2> QED BY <1>1, <2>3
          DEF Inv, StateOK, Begun, Over, Unloaded, Tracked, NoneLeft
<1>3. CASE MoveInto(n)
  BY <1>1, <1>3, NoChange DEF MoveInto, watchVars
<1> QED BY <1>2, <1>3 DEF BeginWrite, EndWrite, Remove, Tell

\* What the maps hold when a plugin was put in, or taken out.
LEMMA Opened ==
  ASSUME StateOK, plugins = handles, mapped = NoneLeft,
         NEW n \in Names, plugins[n] = 0, files[n] # 0, OpenPlugin(n)
  PROVE  /\ plugins' = handles' /\ mapped' = NoneLeft'
         /\ plugins' = [m \in Names |-> plugins'[m]]
         /\ \A m \in Names : m # n => plugins'[m] = plugins[m]
<1>1. plugins' = [plugins EXCEPT ![n] = files[n]]
  BY DEF OpenPlugin
<1>2. plugins = [m \in Names |-> plugins[m]]
  BY DEF StateOK
<1>3. /\ plugins' = [m \in Names |-> plugins'[m]]
      /\ plugins'[n] = files[n]
      /\ \A m \in Names : m # n => plugins'[m] = plugins[m]
  BY <1>1, <1>2
<1>4. mapped' = NoneLeft \cup {<<n, files[n]>>}
  BY DEF OpenPlugin
<1>5. NoneLeft' = NoneLeft \cup {<<n, files[n]>>}
  BY <1>3 DEF NoneLeft
<1>6. plugins' = handles'
  BY DEF OpenPlugin
<1> QED BY <1>3, <1>4, <1>5, <1>6

LEMMA Removed ==
  ASSUME StateOK, plugins = handles, mapped = NoneLeft,
         NEW n \in Names, removePlugin(n)
  PROVE  /\ plugins' = handles' /\ mapped' = NoneLeft'
         /\ plugins' = [m \in Names |-> plugins'[m]]
         /\ plugins'[n] = 0
<1>1. plugins' = [plugins EXCEPT ![n] = 0]
  BY DEF removePlugin
<1>2. plugins = [m \in Names |-> plugins[m]]
  BY DEF StateOK
<1>3. /\ plugins' = [m \in Names |-> plugins'[m]]
      /\ plugins'[n] = 0
      /\ \A m \in Names : m # n => plugins'[m] = plugins[m]
  BY <1>1, <1>2
<1>4. mapped' = NoneLeft \ {<<n, plugins[n]>>}
  BY DEF removePlugin
<1>5. NoneLeft' = NoneLeft \ {<<n, plugins[n]>>}
  BY <1>3 DEF NoneLeft
<1>6. plugins' = handles'
  BY DEF removePlugin
<1> QED BY <1>3, <1>4, <1>5, <1>6

\* While the watcher of the plugins works main is between its two ends.
LEMMA BusyMain ==
  ASSUME Inv, task["plugins"] \in {"events", "callback"}
  PROVE  main \in 7 .. 10
<1>1. main \in 1 .. 16
  BY DEF Inv, StateOK
<1>2. ~ (main <= 6)
  BY DEF Inv, Begun
<1>3. ~ (main >= 11)
  BY DEF Inv, Over
<1> QED BY <1>1, <1>2, <1>3

LEMMA CallbackStep ==
  ASSUME Inv, FileChanged
  PROVE  Inv'
<1> USE NamesAssumption
<1> DEFINE e == Head(batch["plugins"])
<1>1. UNCHANGED <<main, toScan>> /\ StateOK
  BY DEF FileChanged, clientVars, Inv
<1>2. batch["plugins"] # <<>> /\ e \in Events
  BY <1>1, Batches DEF FileChanged
<1>3. CASE Loads(e) /\ Callback("plugins", "callback") /\ removePlugin(e.name)
  <2>1. e.name \in Names
    <3> HIDE DEF e
    <3>1. e # Overflow
      <4>1. Overflow.kind = "OVERFLOW"
        BY DEF Overflow
      <4>2. e.kind \in {"CREATE", "MODIFY"}
        BY <1>3 DEF Loads
      <4> QED BY <4>1, <4>2
    <3>2. e \in [kind : {"CREATE", "MODIFY", "DELETE"}, name : Names]
      BY <1>2, <3>1 DEF Events
    <3> QED BY <3>2
  <2>2. /\ task["plugins"] = "events"
        /\ task' = [task EXCEPT !["plugins"] = "callback"]
        /\ batch' = [batch EXCEPT !["plugins"] = @]
        /\ UNCHANGED queue
    BY <1>3 DEF Callback, Goes
  <2>3. batch' = batch
    BY <1>1, <2>2 DEF StateOK
  <2>4. mapped = NoneLeft /\ plugins = handles
    BY <2>2 DEF Inv, Tracked
  <2>5. /\ plugins' = handles' /\ mapped' = NoneLeft'
        /\ plugins' = [m \in Names |-> plugins'[m]]
        /\ plugins'[e.name] = 0
    BY <1>1, <1>3, <2>1, <2>4, Removed
  <2>6. main \in 7 .. 10
    BY <2>2, BusyMain
  <2>7. /\ task' \in [Watchers -> Labels] /\ task'["plugins"] = "callback"
        /\ \A v \in Watchers : v # "plugins" => task'[v] = task[v]
    BY <1>1, <2>2 DEF StateOK, Labels
  <2>8. StateOK' /\ Tracked'
    BY <1>1, <2>2, <2>3, <2>5, <2>7 DEF StateOK, Tracked
  <2>9. Begun' /\ Over'
    BY <1>1, <2>6, <2>7 DEF Inv, Begun, Over
  <2>10. Unloaded'
    BY <1>1, <1>2, <2>1, <2>3, <2>5, <2>6 DEF Unloaded
  <2> QED BY <2>8, <2>9, <2>10 DEF Inv
<1>4. CASE ~ Loads(e) /\ Callback("plugins", "events") /\ UNCHANGED mapVars
  <2>1. /\ task["plugins"] = "events"
        /\ task' = [task EXCEPT !["plugins"] = "events"]
        /\ batch' = [batch EXCEPT !["plugins"] = Tail(@)]
        /\ UNCHANGED queue
    BY <1>4 DEF Callback, Goes
  <2>2. batch' \in [Watchers -> Seq(Events)] /\ queue' \in [Watchers -> Seq(Events)]
    BY <1>1, <1>2, <2>1, Batches DEF StateOK
  <2> QED BY <1>1, <1>4, <2>1, <2>2, TaskMoves DEF Labels, mapVars
<1> QED BY <1>3, <1>4 DEF FileChanged

LEMMA LoadStep ==
  ASSUME Inv, LoadChanged
  PROVE  Inv'
<1> USE NamesAssumption
<1> DEFINE n == Head(batch["plugins"]).name
<1>1. UNCHANGED <<main, toScan>> /\ StateOK /\ task["plugins"] = "callback"
  BY DEF LoadChanged, clientVars, Inv
<1>2. batch["plugins"] # <<>> /\ n \in Names /\ plugins[n] = 0
  BY <1>1 DEF Inv, Unloaded
<1>3. CASE Loadable(n) /\ OpenPlugin(n) /\ Returns("plugins")
  <2>1. /\ task' = [task EXCEPT !["plugins"] = "events"]
        /\ batch' = [batch EXCEPT !["plugins"] = Tail(@)]
        /\ UNCHANGED queue
    BY <1>3 DEF Returns, Goes
  <2>2. mapped = NoneLeft /\ plugins = handles
    BY <1>1 DEF Inv, Tracked
  <2> HIDE DEF n
  <2>3. /\ plugins' = handles' /\ mapped' = NoneLeft'
        /\ plugins' = [m \in Names |-> plugins'[m]]
    BY <1>1, <1>2, <1>3, <2>2, Opened DEF Loadable
  <2>4. main \in 7 .. 10
    BY <1>1, BusyMain
  <2>5. /\ task' \in [Watchers -> Labels] /\ task'["plugins"] = "events"
        /\ \A v \in Watchers : v # "plugins" => task'[v] = task[v]
    BY <1>1, <2>1 DEF StateOK, Labels
  <2>6. batch' \in [Watchers -> Seq(Events)]
    BY <1>1, <1>2, <2>1, Batches
  <2>7. StateOK' /\ Tracked'
    BY <1>1, <2>1, <2>3, <2>5, <2>6 DEF StateOK, Tracked
  <2>8. Begun' /\ Over' /\ Unloaded'
    BY <1>1, <2>4, <2>5 DEF Inv, Begun, Over, Unloaded
  <2> QED BY <2>7, <2>8 DEF Inv
<1>4. CASE Throws("plugins") /\ UNCHANGED mapVars
  <2>1. /\ task' = [task EXCEPT !["plugins"] = "thrown"]
        /\ batch' = [batch EXCEPT !["plugins"] = <<>>]
        /\ UNCHANGED queue
    BY <1>4 DEF Throws, Goes
  <2>2. batch' \in [Watchers -> Seq(Events)] /\ queue' \in [Watchers -> Seq(Events)]
    BY <1>1, <2>1, Batches DEF StateOK
  <2> QED BY <1>1, <1>4, <2>1, <2>2, TaskMoves DEF Labels, mapVars
<1> QED BY <1>3, <1>4 DEF LoadChanged

\* main constructs a watcher.
LEMMA NewStep ==
  ASSUME Inv, NEW w \in Watchers, NewWatcher(w)
  PROVE  Inv'
<1> USE NamesAssumption
<1>1. /\ main' = main + 1 /\ StateOK
      /\ task[w] = "none" /\ task' = [task EXCEPT ![w] = "queued"]
      /\ UNCHANGED <<queue, batch, toScan, plugins, handles, mapped>>
  BY DEF NewWatcher, NextStatement, Construct, mapVars, Inv
<1>2. \/ w = "watcher" /\ main = 1
      \/ w = "demo" /\ main = 2
      \/ w = "plugins" /\ main = 6
  BY <1>1, Present DEF NewWatcher
<1>3. /\ task' \in [Watchers -> Labels] /\ task'[w] = "queued"
      /\ \A v \in Watchers : v # w => task'[v] = task[v]
  BY <1>1 DEF StateOK, Labels
<1>4. StateOK'
  <2>1. main' \in 1 .. 16
    BY <1>1, <1>2
  <2> QED BY <1>1, <1>3, <2>1 DEF StateOK
<1>5. Begun' /\ Over'
  BY <1>1, <1>2, <1>3 DEF Inv, Begun, Over
<1>6. Unloaded' /\ Tracked'
  BY <1>1, <1>2, <1>3 DEF Inv, Unloaded, Tracked, NoneLeft, Begun
<1> QED BY <1>4, <1>5, <1>6 DEF Inv

\* main goes on and touches neither tasks nor maps.
LEMMA SilentStep ==
  ASSUME Inv, UNCHANGED <<task, queue, batch, toScan, plugins, handles, mapped>>,
         main \in {3, 7, 8, 9, 12, 14} \/ (main = 5 /\ toScan = {}),
         main' = main + 1
  PROVE  Inv'
<1>1. StateOK'
  BY DEF Inv, StateOK
<1>2. Begun' /\ Over'
  BY DEF Inv, Begun, Over
<1>3. Unloaded' /\ Tracked'
  BY DEF Inv, Unloaded, Tracked, NoneLeft, Begun
<1> QED BY <1>1, <1>2, <1>3 DEF Inv

\* main has waited for the task of a watcher.
LEMMA JoinStep ==
  ASSUME Inv, NEW w \in Watchers, JoinWatcher(w)
  PROVE  Inv'
<1> USE NamesAssumption
<1>1. UNCHANGED <<toScan, plugins, handles, mapped>> /\ StateOK
  BY DEF JoinWatcher, mapVars, Inv
<1>2. CASE JoinThrows(w) /\ Ends("terminated")
  <2>1. CASE UNCHANGED watchVars
    BY <1>1, <1>2, <2>1, NoChange DEF Ends, watchVars
  <2>2. CASE Steal(w, "failed")
    <3>1. /\ task[w] = "queued" /\ task' = [task EXCEPT ![w] = "failed"]
          /\ UNCHANGED <<queue, batch, main>>
      BY <1>2, <2>2 DEF Steal, Goes, Ends
    <3>2. queue \in [Watchers -> Seq(Events)] /\ batch \in [Watchers -> Seq(Events)]
      BY <1>1 DEF StateOK
    <3> QED BY <1>1, <3>1, <3>2, TaskMoves DEF Labels
  <2> QED BY <1>2, <2>1, <2>2 DEF JoinThrows
<1>3. CASE Join(w) /\ NextStatement
  <2>1. /\ main' = main + 1
        /\ UNCHANGED <<queue, batch>>
        /\ task[w] \in {"stopped", "queued"}
        /\ task' = [task EXCEPT ![w] = "stopped"]
    <3>1. task = [task EXCEPT ![w] = task[w]]
      BY <1>1 DEF StateOK
    <3> QED BY <1>3, <3>1 DEF Join, Steal, NextStatement, Goes, watchVars
  <2>2. \/ w = "plugins" /\ main = 10
        \/ w = "demo" /\ main = 13
        \/ w = "watcher" /\ main = 15
    BY <1>1, Present DEF JoinWatcher
  <2>3. /\ task' \in [Watchers -> Labels] /\ task'[w] = "stopped"
        /\ \A v \in Watchers : v # w => task'[v] = task[v]
    BY <1>1, <2>1 DEF StateOK, Labels
  <2>4. StateOK'
    <3>1. main' \in 1 .. 16
      BY <2>1, <2>2
    <3> QED BY <1>1, <2>1, <2>3, <3>1 DEF StateOK
  <2>5. Begun' /\ Over'
    BY <1>1, <2>1, <2>2, <2>3 DEF Inv, Begun, Over
  <2>6. Unloaded' /\ Tracked'
    BY <1>1, <2>1, <2>2, <2>3 DEF Inv, Unloaded, Tracked, NoneLeft
  <2> QED BY <2>4, <2>5, <2>6 DEF Inv
<1> QED BY <1>2, <1>3 DEF JoinWatcher

\* The constructor of PluginManager throws.
LEMMA ThrowStep ==
  ASSUME Inv, main \in {4, 5}, ThrowPluginException, UNCHANGED <<task, queue, batch>>
  PROVE  Inv'
<1>1. /\ main' = 12 /\ toScan' = {}
      /\ plugins' = [n \in Names |-> 0] /\ handles' = plugins'
  BY Indices DEF ThrowPluginException
<1>2. task["plugins"] = "none"
  BY DEF Inv, Begun
<1>3. plugins' = [n \in Names |-> plugins'[n]]
  BY <1>1
<1>4. StateOK'
  BY <1>1, <1>3 DEF Inv, StateOK
<1>5. Begun' /\ Over' /\ Unloaded' /\ Tracked'
  BY <1>1, <1>2 DEF Inv, Begun, Over, Unloaded, Tracked
<1> QED BY <1>4, <1>5 DEF Inv

\* The constructor reads the directory, and loads an entry of it.
LEMMA ScanStep ==
  ASSUME Inv, OpenDirectory \/ \E n \in Names : ScanFile(n)
  PROVE  Inv'
<1>1. UNCHANGED <<task, queue, batch>> /\ StateOK
  BY DEF OpenDirectory, ScanFile, watchVars, Inv
<1>2. main \in {4, 5} /\ (OpenDirectory => main = 4) /\ ((\E n \in Names : ScanFile(n)) => main = 5)
  BY <1>1, Present DEF OpenDirectory, ScanFile
<1>3. task["plugins"] = "none" /\ mapped = NoneLeft /\ plugins = handles
  BY <1>2 DEF Inv, Begun, Tracked
<1>4. CASE ThrowPluginException
  BY <1>1, <1>2, <1>4, ThrowStep
<1>5. CASE /\ main = 4 /\ main' = main + 1
           /\ toScan' = {n \in Names : files[n] # 0 \/ n \in partial}
           /\ UNCHANGED <<mapVars, missed>>
  <2>1. UNCHANGED <<plugins, handles, mapped>>
    BY <1>5 DEF mapVars
  <2>2. StateOK'
    BY <1>1, <1>5, <2>1 DEF StateOK
  <2>3. Begun' /\ Over' /\ Unloaded'
    BY <1>1, <1>3, <1>5, <2>1 DEF Inv, Begun, Over, Unloaded
  <2>4. Tracked'
    BY <1>3, <2>1 DEF Tracked, NoneLeft
  <2> QED BY <2>2, <2>3, <2>4 DEF Inv
<1>6. ASSUME NEW n \in Names, main = 5, n \in toScan, Loadable(n), OpenPlugin(n),
             toScan' = toScan \ {n}, UNCHANGED main
      PROVE  Inv'
  <2>1. plugins[n] = 0
    BY <1>6 DEF Inv, Unloaded
  <2>2. /\ plugins' = handles' /\ mapped' = NoneLeft'
        /\ plugins' = [m \in Names |-> plugins'[m]]
        /\ \A m \in Names : m # n => plugins'[m] = plugins[m]
    BY <1>1, <1>3, <1>6, <2>1, Opened DEF Loadable
  <2>3. StateOK'
    BY <1>1, <1>6, <2>2 DEF StateOK
  <2>4. Begun' /\ Over'
    BY <1>1, <1>6 DEF Inv, Begun, Over
  <2>5. Unloaded'
    <3>1. \A m \in toScan' : plugins'[m] = 0
      <4>1. toScan \subseteq Names
        BY <1>1 DEF StateOK
      <4>2. \A m \in toScan : plugins[m] = 0
        BY <1>6 DEF Inv, Unloaded
      <4> QED BY <4>1, <4>2, <1>6, <2>2
    <3>2. main' = 5 /\ task'["plugins"] = "none"
      BY <1>1, <1>3, <1>6
    <3> QED BY <3>1, <3>2 DEF Unloaded
  <2>6. Tracked'
    BY <2>2 DEF Tracked
  <2> QED BY <2>3, <2>4, <2>5, <2>6 DEF Inv
<1>7. ASSUME NEW n \in Names, main = 5, toScan' = toScan \ {n},
             UNCHANGED <<main, status, mapVars, missed>>
      PROVE  Inv'
  <2>1. UNCHANGED <<plugins, handles, mapped>>
    BY <1>7 DEF mapVars
  <2>2. StateOK'
    BY <1>1, <1>7, <2>1 DEF StateOK
  <2>3. Begun' /\ Over' /\ Unloaded'
    BY <1>1, <1>3, <1>7, <2>1 DEF Inv, Begun, Over, Unloaded
  <2>4. Tracked'
    BY <1>3, <2>1 DEF Tracked, NoneLeft
  <2> QED BY <2>2, <2>3, <2>4 DEF Inv
<1>8. CASE OpenDirectory
  BY <1>2, <1>4, <1>5, <1>8 DEF OpenDirectory, NextStatement
<1>9. ASSUME NEW n \in Names, ScanFile(n)
      PROVE  Inv'
  BY <1>2, <1>4, <1>6, <1>7, <1>9 DEF ScanFile
<1> QED BY <1>8, <1>9

\* The destructor of PluginManager unloads what both maps hold.
LEMMA UnloadStep ==
  ASSUME Inv, UnloadAll
  PROVE  Inv'
<1>1. UNCHANGED <<task, queue, batch, toScan>> /\ StateOK /\ main' = main + 1
  BY DEF UnloadAll, watchVars, NextStatement, Inv
<1>2. main = 11
  BY <1>1, Present DEF UnloadAll
<1>3. plugins' = [n \in Names |-> 0] /\ handles' = plugins'
  BY DEF UnloadAll
<1>4. plugins' = [n \in Names |-> plugins'[n]]
  BY <1>3
<1>5. StateOK'
  BY <1>1, <1>2, <1>4 DEF StateOK
<1>6. Begun' /\ Over' /\ Unloaded'
  BY <1>1, <1>2 DEF Inv, Begun, Over, Unloaded
<1>7. Tracked'
  <2>1. NoneLeft' = {}
    BY <1>3 DEF NoneLeft
  <2>2. task["plugins"] # "none" => mapped' = {}
    <3> SUFFICES ASSUME task["plugins"] # "none" PROVE mapped' = {}
      OBVIOUS
    <3>1. mapped = NoneLeft /\ plugins = handles
      BY DEF Inv, Tracked
    <3>2. mapped' = mapped \ {<<n, plugins[n]>> : n \in Names}
      BY <3>1 DEF UnloadAll
    <3>3. NoneLeft \subseteq {<<n, plugins[n]>> : n \in Names}
      BY DEF NoneLeft
    <3> QED BY <3>1, <3>2, <3>3
  <2> QED BY <1>1, <1>2, <1>3, <2>1, <2>2 DEF Tracked
<1> QED BY <1>5, <1>6, <1>7 DEF Inv

LEMMA MainStep ==
  ASSUME Inv, Main
  PROVE  Inv'
<1>1. StateOK
  BY DEF Inv
<1>2. ASSUME NEW w \in Watchers, NewWatcher(w)
      PROVE  Inv'
  BY <1>2, NewStep
<1>3. ASSUME NEW w \in Watchers, StopWatcher(w)
      PROVE  Inv'
  <2>1. main \in {9, 12, 14} /\ main' = main + 1
    BY <1>1, <1>3, Present DEF StopWatcher, NextStatement
  <2>2. UNCHANGED <<task, queue, batch, toScan, plugins, handles, mapped>>
    BY <1>3 DEF StopWatcher, Stop, mapVars
  <2> QED BY <2>1, <2>2, SilentStep
<1>4. ASSUME NEW w \in Watchers, JoinWatcher(w)
      PROVE  Inv'
  BY <1>4, JoinStep
<1>5. CASE OpenDirectory \/ \E n \in Names : ScanFile(n)
  BY <1>5, ScanStep
<1>6. CASE SetHandler \/ ScanEnds
  <2>1. main = 3 \/ (main = 5 /\ toScan = {})
    BY <1>1, <1>6, Present DEF SetHandler, ScanEnds
  <2>2. main' = main + 1 /\ UNCHANGED <<task, queue, batch, toScan, plugins, handles, mapped>>
    BY <1>6 DEF SetHandler, ScanEnds, NextStatement, mapVars, watchVars
  <2> QED BY <2>1, <2>2, SilentStep
<1>7. CASE ListPlugins \/ NamePlugin
  <2>1. main = 7 \/ main = 8
    BY <1>1, <1>7, Present DEF ListPlugins, NamePlugin
  <2>2. /\ main' = main + 1 \/ main' = main
        /\ UNCHANGED <<task, queue, batch, toScan, plugins, handles, mapped>>
    BY <1>7 DEF ListPlugins, NamePlugin, NextStatement, Ends, mapVars, watchVars
  <2>3. CASE main' = main + 1
    BY <2>1, <2>2, <2>3, SilentStep
  <2>4. CASE main' = main
    BY <2>2, <2>4, NoChange
  <2> QED BY <2>2, <2>3, <2>4
<1>8. CASE UnloadAll
  BY <1>8, UnloadStep
<1>9. CASE Exit
  BY <1>9, NoChange DEF Exit, mapVars, watchVars
<1> QED BY <1>2, <1>3, <1>4, <1>5, <1>6, <1>7, <1>8, <1>9 DEF Main

LEMMA InvNext == Inv /\ [Next]_vars => Inv'
<1> SUFFICES ASSUME Inv, [Next]_vars PROVE Inv'
  OBVIOUS
<1>1. CASE Main
  BY <1>1, MainStep
<1>2. ASSUME NEW w \in Watchers, Thread(w) \/ Interrupted(w)
      PROVE  Inv'
  BY <1>2, WatchStep, CallbackStep, LoadStep DEF Thread
<1>5. ASSUME NEW t \in Watchers \cup {"main"}, Signal(t)
      PROVE  Inv'
  BY <1>2, <1>5, SignalSteps, NoChange DEF watchVars, mapVars
<1>3. ASSUME NEW n \in Names, BeginWrite(n) \/ EndWrite(n) \/ Remove(n) \/ MoveInto(n)
      PROVE  Inv'
  BY <1>3, FileStep
<1>4. CASE UNCHANGED vars
  BY <1>4, NoChange DEF vars, watchVars, clientVars, mapVars
<1> QED BY <1>1, <1>2, <1>3, <1>4, <1>5 DEF Next

LEMMA Invariance == Spec => []Inv
<1>1. Init => Inv
  BY InvInit
<1>2. Inv /\ [Next]_vars => Inv'
  BY InvNext
<1> QED BY <1>1, <1>2, PTL DEF Spec

\* main unloads plugins, and leaves the scope of what the callbacks use, only
\* when the task of the watcher is over, for any number of files, of events
\* that the kernel keeps, of threads and of signals.
THEOREM UnloadedAlone == Spec => []UnloadsAlone
<1>1. Inv => UnloadsAlone
  <2> SUFFICES ASSUME Inv, NEW w \in Watchers,
                      Done(<<"join", w>>) \/ (w = "plugins" /\ Done(<<"unload", w>>))
               PROVE  task[w] \in {"none", "stopped"}
    BY DEF UnloadsAlone
  <2>1. main \in 1 .. 16 /\ w \in {"watcher", "demo", "plugins"}
    BY NamesAssumption DEF Inv, StateOK
  <2>2. CASE w = "watcher"
    BY <2>1, <2>2, Indices DEF Done, Inv, Over
  <2>3. CASE w = "demo"
    BY <2>1, <2>3, Indices DEF Done, Inv, Over
  <2>4. CASE w = "plugins"
    BY <2>1, <2>4, Indices DEF Done, Inv, Over
  <2> QED BY <2>1, <2>2, <2>3, <2>4
<1> QED BY <1>1, Invariance, PTL

\* Both maps of PluginManager agree and name every library that is open,
\* unless the constructor has thrown.
THEOREM LibrariesTracked == Spec => []NoLibraryLost
<1>1. Inv => NoLibraryLost
  <2> SUFFICES ASSUME Inv PROVE NoLibraryLost
    OBVIOUS
  <2>1. main \in 1 .. 16
    BY DEF Inv, StateOK
  <2>2. Done(<<"scan", "plugins">>) <=> main > 5
    BY Indices DEF Done
  <2> QED BY <2>1, <2>2 DEF NoLibraryLost, Scanned, Inv, Tracked
<1> QED BY <1>1, Invariance, PTL
-----------------------------------------------------------------------------
(***************************************************************************)
(* The types of what Inv does not mention.                                 *)
(***************************************************************************)
Versions == 0 .. MaxVersion
Plugins  == Names \X (1 .. MaxVersion)

DataOK ==
  /\ cores \in Cores
  /\ running \in [Watchers -> BOOLEAN] /\ pipe \in [Watchers -> BOOLEAN]
  /\ \A w \in Watchers : Len(queue[w]) <= QueueLimit + 1
  /\ files \in [Names -> Versions]
  /\ plugins \in [Names -> Versions] /\ handles \in [Names -> Versions]
  /\ partial \subseteq Names /\ missed \subseteq Names
  /\ mapped \subseteq Plugins /\ listed \subseteq Plugins
  /\ version \in 1 .. MaxVersion
  /\ status \in {"running", "exited", "terminated", "crashed", "killed"}
  /\ submitted \in Seq(Watchers) /\ watched \subseteq Watchers
  /\ signals \in 0 .. MaxSignals
  /\ stuck \subseteq Watchers \cup {"main"}

\* How the queue of the plugins' watcher grows.
LEMMA QueueGrows ==
  ASSUME StateOK, NEW e \in Events, Enqueue("plugins", e)
  PROVE  \E x : /\ queue' = [queue EXCEPT !["plugins"] = x]
                /\ \/ x = queue["plugins"] /\ Loses("plugins", e)
                   \/ x = queue["plugins"] /\ x # <<>> /\ x[Len(x)] = e
                   \/ /\ x = Append(queue["plugins"], e)
                      /\ Len(queue["plugins"]) < QueueLimit
                   \/ /\ x = Append(queue["plugins"], Overflow)
                      /\ Len(queue["plugins"]) = QueueLimit
                      /\ Loses("plugins", e)
<1> DEFINE q == queue["plugins"]
           last == IF q = <<>> THEN Overflow ELSE q[Len(q)]
           x == CASE ~ Watches("plugins") -> q
                  [] Len(q) < QueueLimit /\ (q = <<>> \/ last # e) -> Append(q, e)
                  [] Len(q) = QueueLimit /\ last # Overflow /\ last # e -> Append(q, Overflow)
                  [] OTHER -> q
<1>1. queue' = [queue EXCEPT !["plugins"] = x]
  BY Zenon DEF Enqueue
<1>2. q \in Seq(Events)
  BY NamesAssumption DEF StateOK
<1>3. Len(q) \in Nat /\ QueueLimit \in Nat
  BY <1>2, LenProperties, QueueLimitAssumption
<1>4. Loses("plugins", e) <=> ~ Watches("plugins") \/ Len(q) >= QueueLimit
  BY DEF Loses
<1>5. \/ x = q /\ Loses("plugins", e)
      \/ x = q /\ q # <<>> /\ q[Len(q)] = e
      \/ x = Append(q, e) /\ Len(q) < QueueLimit
      \/ x = Append(q, Overflow) /\ Len(q) = QueueLimit /\ Loses("plugins", e)
  <2>1. q # <<>> => last = q[Len(q)]
    OBVIOUS
  <2> HIDE DEF q, last
  <2>2. \/ x = q /\ ~ Watches("plugins")
        \/ x = q /\ ~ (Len(q) < QueueLimit)
        \/ x = q /\ q # <<>> /\ last = e
        \/ x = Append(q, e) /\ Len(q) < QueueLimit
        \/ x = Append(q, Overflow) /\ Len(q) = QueueLimit
    BY SMT
  <2> HIDE DEF x
  <2> QED BY <1>3, <1>4, <2>1, <2>2
<1> HIDE DEF x
<1> QED BY <1>1, <1>5

\* The queue stays within the limit, an overflow on top of it.
LEMMA QueueBounded ==
  ASSUME StateOK, NEW e \in Events, Enqueue("plugins", e),
         \A w \in Watchers : Len(queue[w]) <= QueueLimit + 1
  PROVE  \A w \in Watchers : Len(queue'[w]) <= QueueLimit + 1
<1> DEFINE q == queue["plugins"]
<1>1. PICK x : /\ queue' = [queue EXCEPT !["plugins"] = x]
               /\ \/ x = q
                  \/ x = Append(q, e) /\ Len(q) < QueueLimit
                  \/ x = Append(q, Overflow) /\ Len(q) = QueueLimit
  <2>1. PICK x : /\ queue' = [queue EXCEPT !["plugins"] = x]
                 /\ \/ x = q /\ Loses("plugins", e)
                    \/ x = q /\ x # <<>> /\ x[Len(x)] = e
                    \/ x = Append(q, e) /\ Len(q) < QueueLimit
                    \/ x = Append(q, Overflow) /\ Len(q) = QueueLimit /\ Loses("plugins", e)
    BY QueueGrows
  <2> QED BY <2>1
<1>2. q \in Seq(Events) /\ Overflow \in Events
  BY NamesAssumption DEF StateOK, Events
<1>3. /\ Len(Append(q, e)) = Len(q) + 1 /\ Len(Append(q, Overflow)) = Len(q) + 1
      /\ Len(q) \in Nat
  BY <1>2, AppendProperties, LenProperties
<1>4. QueueLimit \in Nat
  BY QueueLimitAssumption
<1>5. Len(q) <= QueueLimit + 1
  BY NamesAssumption
<1>6. Len(x) <= QueueLimit + 1
  <2> HIDE DEF q
  <2>1. CASE x = q
    BY <1>5, <2>1
  <2>2. CASE x # q /\ Len(q) <= QueueLimit
    <3>1. Len(x) = Len(q) + 1
      BY <1>1, <1>3, <2>2
    <3> HIDE DEF q
    <3> QED BY <1>3, <1>4, <2>2, <3>1
  <2>3. x # q => Len(q) <= QueueLimit
    BY <1>1, <1>3, <1>4
  <2> QED BY <2>1, <2>2, <2>3
<1>7. queue'["plugins"] = x /\ \A w \in Watchers : w # "plugins" => queue'[w] = queue[w]
  BY <1>1, NamesAssumption DEF StateOK
<1> QED BY <1>6, <1>7

\* The events the file system tells are events.
LEMMA ToldAreEvents ==
  ASSUME NEW n \in Names, NEW kind \in {"CREATE", "MODIFY", "DELETE"}
  PROVE  [kind |-> kind, name |-> n] \in Events
BY DEF Events

LEMMA DataFile ==
  ASSUME StateOK, DataOK, NEW n \in Names,
         BeginWrite(n) \/ EndWrite(n) \/ Remove(n) \/ MoveInto(n)
  PROVE  DataOK'
<1> USE NamesAssumption
<1>1. UNCHANGED <<cores, submitted, watched, running, pipe, plugins, handles, mapped,
                  listed, status, sigVars>>
  BY DEF BeginWrite, EndWrite, Remove, MoveInto, Tell, Enqueue, watchVars, mapVars, clientVars
<1>2. \A w \in Watchers : Len(queue'[w]) <= QueueLimit + 1
  <2>1. CASE UNCHANGED queue
    BY <2>1 DEF DataOK
  <2>2. CASE \E kind \in {"CREATE", "MODIFY", "DELETE"} :
               Enqueue("plugins", [kind |-> kind, name |-> n])
    BY <2>2, ToldAreEvents, QueueBounded DEF DataOK
  <2> QED BY <2>1, <2>2 DEF BeginWrite, EndWrite, Remove, MoveInto, Tell, watchVars
<1>3. partial' \subseteq Names /\ missed' \subseteq Names
  BY DEF BeginWrite, EndWrite, Remove, MoveInto, Tell, DataOK
<1>4. version' \in 1 .. MaxVersion
  BY DEF BeginWrite, EndWrite, Remove, MoveInto, NewVersion, DataOK
<1>5. files' \in [Names -> Versions]
  <2>1. files \in [Names -> Versions] /\ 0 \in Versions /\ version' \in Versions
    BY <1>4 DEF DataOK, Versions
  <2>2. \/ files' = files \/ files' = [files EXCEPT ![n] = 0]
        \/ files' = [files EXCEPT ![n] = version']
    BY DEF BeginWrite, EndWrite, Remove, MoveInto
  <2> HIDE DEF Versions
  <2> QED BY <2>1, <2>2
<1> QED BY <1>1, <1>2, <1>3, <1>4, <1>5 DEF DataOK, sigVars

\* Only a complete file is opened, and it has a version.
LEMMA DataOpened ==
  ASSUME DataOK, NEW n \in Names, Loadable(n), OpenPlugin(n)
  PROVE  /\ plugins' \in [Names -> Versions] /\ handles' \in [Names -> Versions]
         /\ mapped' \subseteq Plugins
<1>1. files[n] \in Versions /\ files[n] \in 1 .. MaxVersion
  BY NamesAssumption DEF DataOK, Loadable, Versions
<1> HIDE DEF Versions
<1> QED BY <1>1 DEF DataOK, OpenPlugin, Plugins

LEMMA DataRemoved ==
  ASSUME DataOK, NEW n, removePlugin(n)
  PROVE  /\ plugins' \in [Names -> Versions] /\ handles' \in [Names -> Versions]
         /\ mapped' \subseteq Plugins
<1>1. 0 \in Versions
  BY NamesAssumption DEF Versions
<1> HIDE DEF Versions
<1> QED BY <1>1 DEF DataOK, removePlugin

LEMMA DataWatcher ==
  ASSUME Inv, DataOK, NEW w \in Watchers, Thread(w)
  PROVE  DataOK'
<1> USE NamesAssumption
<1>1. /\ UNCHANGED <<running, pipe, cores, submitted, files, partial, version, listed,
                     status, missed, signals, stuck>>
      /\ watched' = watched \/ watched' = watched \cup {w}
      /\ queue' = queue \/ queue' = [queue EXCEPT ![w] = <<>>]
  BY DEF Thread, Watch, FileChanged, LoadChanged, StartTask, AddWatch, Loop, Select,
         SkipEvent, Callback, Returns, Throws, Goes, fileVars, clientVars, sigVars
<1>2. \A v \in Watchers : Len(queue'[v]) <= QueueLimit + 1
  <2>1. Len(<<>>) <= QueueLimit + 1
    BY QueueLimitAssumption
  <2> QED BY <1>1, <2>1 DEF DataOK, Inv, StateOK
<1>3. watched' \subseteq Watchers
  BY <1>1 DEF DataOK
<1>4. /\ plugins' \in [Names -> Versions] /\ handles' \in [Names -> Versions]
      /\ mapped' \subseteq Plugins
  <2>1. CASE UNCHANGED mapVars
    BY <2>1 DEF mapVars, DataOK
  <2>2. CASE FileChanged
    BY <2>1, <2>2, DataRemoved DEF FileChanged
  <2>3. CASE LoadChanged
    <3> DEFINE n == Head(batch["plugins"]).name
    <3>1. n \in Names
      BY <2>3 DEF LoadChanged, Inv, Unloaded
    <3>2. (Loadable(n) /\ OpenPlugin(n)) \/ UNCHANGED mapVars
      BY <2>3 DEF LoadChanged
    <3> HIDE DEF n
    <3> QED BY <2>1, <3>1, <3>2, DataOpened
  <2> QED BY <2>1, <2>2, <2>3 DEF Thread, Watch
<1> QED BY <1>1, <1>2, <1>3, <1>4 DEF DataOK

LEMMA DataSignal ==
  ASSUME DataOK, NEW t \in Watchers \cup {"main"}, Signal(t)
  PROVE  DataOK'
<1>1. /\ UNCHANGED <<cores, submitted, watched, running, pipe, queue, files, partial,
                     version, listed, plugins, handles, mapped, missed>>
      /\ status' \in {status, "killed"}
  BY SignalSteps
     DEF Interrupted, Interrupt, Goes, watchVars, fileVars, mapVars, clientVars
<1>2. signals' \in 0 .. MaxSignals
  BY NamesAssumption DEF Signal, DataOK
<1>3. stuck' \subseteq Watchers \cup {"main"}
  BY DEF Signal, DataOK
<1> QED BY <1>1, <1>2, <1>3 DEF DataOK

LEMMA DataMain ==
  ASSUME Inv, DataOK, Main
  PROVE  DataOK'
<1> USE NamesAssumption
<1>1. 0 \in Versions
  BY DEF Versions
<1> HIDE DEF Versions
<1>2. UNCHANGED <<cores, watched, queue, files, partial, version, signals, stuck>>
  BY DEF Main, NewWatcher, StopWatcher, JoinWatcher, ScanFile, SetHandler, OpenDirectory,
         ScanEnds, ListPlugins, NamePlugin, UnloadAll, Exit, Construct, Stop, Join,
         JoinThrows, Steal, Goes, watchVars, fileVars, sigVars
<1>8. submitted' \in Seq(Watchers)
  <2>1. submitted' = submitted \/ \E w \in Watchers : submitted' = Append(submitted, w)
    BY DEF Main, NewWatcher, StopWatcher, JoinWatcher, ScanFile, SetHandler, OpenDirectory,
           ScanEnds, ListPlugins, NamePlugin, UnloadAll, Exit, Construct, Stop, Join,
           JoinThrows, Steal, watchVars
  <2>2. submitted \in Seq(Watchers)
    BY DEF DataOK
  <2> QED BY <2>1, <2>2, AppendProperties
<1>3. running' \in [Watchers -> BOOLEAN] /\ pipe' \in [Watchers -> BOOLEAN]
  <2>1. UNCHANGED <<running, pipe>>
        \/ \E w \in Watchers : \/ running' = [running EXCEPT ![w] = TRUE] /\ UNCHANGED pipe
                               \/ /\ running' = [running EXCEPT ![w] = FALSE]
                                  /\ pipe' = [pipe EXCEPT ![w] = TRUE]
    BY DEF Main, NewWatcher, StopWatcher, JoinWatcher, ScanFile, SetHandler, OpenDirectory,
           ScanEnds, ListPlugins, NamePlugin, UnloadAll, Exit, Construct, Stop, Join,
           JoinThrows, Steal, Goes, watchVars
  <2> QED BY <2>1 DEF DataOK
<1>4. status' \in {"running", "exited", "terminated", "crashed", "killed"}
  BY DEF Main, NewWatcher, StopWatcher, JoinWatcher, ScanFile, SetHandler, OpenDirectory,
         ScanEnds, ListPlugins, NamePlugin, UnloadAll, Exit, NextStatement, Ends,
         ThrowPluginException, DataOK
<1>5. missed' \subseteq Names
  BY DEF Main, NewWatcher, StopWatcher, JoinWatcher, ScanFile, SetHandler, OpenDirectory,
         ScanEnds, ListPlugins, NamePlugin, UnloadAll, Exit, ThrowPluginException, DataOK
<1>6. listed' \subseteq Plugins
  <2>1. CASE listed' \subseteq listed
    BY <2>1 DEF DataOK
  <2>2. CASE listed' = {<<n, plugins[n]>> : n \in {m \in Names : plugins[m] # 0}}
    <3>1. \A m \in Names : plugins[m] # 0 => plugins[m] \in 1 .. MaxVersion
      BY DEF DataOK, Versions
    <3> QED BY <2>2, <3>1 DEF Plugins
  <2> QED BY <2>1, <2>2
       DEF Main, NewWatcher, StopWatcher, JoinWatcher, ScanFile, SetHandler, OpenDirectory,
           ScanEnds, ListPlugins, NamePlugin, UnloadAll, Exit
<1>7. /\ plugins' \in [Names -> Versions] /\ handles' \in [Names -> Versions]
      /\ mapped' \subseteq Plugins
  <2>1. CASE UNCHANGED mapVars
    BY <2>1 DEF mapVars, DataOK
  <2>2. CASE ThrowPluginException \/ UnloadAll
    BY <1>1, <2>2 DEF ThrowPluginException, UnloadAll, DataOK
  <2>3. ASSUME NEW n \in Names, Loadable(n), OpenPlugin(n)
        PROVE  /\ plugins' \in [Names -> Versions] /\ handles' \in [Names -> Versions]
               /\ mapped' \subseteq Plugins
    BY <2>3, DataOpened
  <2> QED BY <2>1, <2>2, <2>3
       DEF Main, NewWatcher, StopWatcher, JoinWatcher, ScanFile, SetHandler, OpenDirectory,
           ScanEnds, ListPlugins, NamePlugin, Exit, mapVars
<1> QED BY <1>2, <1>3, <1>4, <1>5, <1>6, <1>7, <1>8 DEF DataOK

LEMMA DataNext == Inv /\ DataOK /\ [Next]_vars => DataOK'
<1> SUFFICES ASSUME Inv, DataOK, [Next]_vars PROVE DataOK'
  OBVIOUS
<1>1. CASE UNCHANGED vars
  BY <1>1 DEF vars, watchVars, fileVars, clientVars, mapVars, sigVars, DataOK
<1> QED BY <1>1, DataMain, DataWatcher, DataSignal, DataFile DEF Next, Inv

LEMMA DataInit == Init => DataOK
<1> SUFFICES ASSUME Init PROVE DataOK
  OBVIOUS
<1>1. \A w \in Watchers : Len(queue[w]) <= QueueLimit + 1
  BY QueueLimitAssumption DEF Init, WatchInit
<1>2. files \in [Names -> Versions] /\ version \in 1 .. MaxVersion
  BY NamesAssumption DEF Init, Versions
<1>3. plugins \in [Names -> Versions] /\ handles \in [Names -> Versions]
  BY NamesAssumption DEF Init, Versions
<1> QED BY <1>1, <1>2, <1>3, NamesAssumption DEF Init, WatchInit, DataOK

\* The variables of the watchers, the file system and the client keep their
\* types: main ends with its last statement, no queue holds more than the
\* kernel's limit, and only complete files get into the maps.
THEOREM ClientTypeCorrect == Spec => []TypeOK
<1>1. Init => DataOK
  BY DataInit
<1>2. Inv /\ DataOK /\ [Next]_vars => DataOK'
  BY DataNext
<1>3. Inv /\ DataOK => TypeOK
  <2> SUFFICES ASSUME Inv, DataOK PROVE TypeOK
    OBVIOUS
  <2>1. main \in 1 .. Len(Script) + 1
    BY Length DEF Inv, StateOK
  <2> QED BY <2>1 DEF TypeOK, Inv, StateOK, DataOK, Labels, Versions, Plugins
<1> QED BY <1>1, <1>2, <1>3, Invariance, PTL DEF Spec
-----------------------------------------------------------------------------
(***************************************************************************)
(* What is loaded is what is on disk.                                      *)
(***************************************************************************)
\* An event that makes the watcher load file n is still to be handled.
Holds(q, n) == \E i \in 1 .. Len(q) : q[i].name = n /\ Loads(q[i])
Told(n) == Holds(queue["plugins"], n) \/ Holds(batch["plugins"], n)

Current(n) == Loadable(n) => plugins[n] = files[n] \/ n \in toScan \/ Told(n)

\* From the moment the directory is read until the watcher is told to stop,
\* and unless its task has ended before.
Listening == main \in 5 .. 9 /\ task["plugins"] \notin {"stopped", "failed", "thrown"}

\* A file whose last change was told is loaded as it is on disk, or the scan or
\* an event will see to it.
Fresh ==
  /\ main >= 6 => toScan = {}
  /\ task["plugins"] \notin {"events", "callback"} => batch["plugins"] = <<>>
  /\ Listening => \A n \in Names \ missed : Current(n)

\* Sequences of events: what an appended event adds, what handling one removes.
LEMMA HoldsAppended ==
  ASSUME NEW q \in Seq(Events), NEW e \in Events
  PROVE  /\ \A n : Holds(q, n) => Holds(Append(q, e), n)
         /\ Loads(e) => Holds(Append(q, e), e.name)
<1> DEFINE a == Append(q, e)
<1>1. /\ Len(a) = Len(q) + 1 /\ Len(q) \in Nat
      /\ \A i \in 1 .. Len(q) : a[i] = q[i]
      /\ a[Len(q) + 1] = e
  BY AppendProperties, LenProperties
<1> HIDE DEF a
<1>2. \A i \in 1 .. Len(q) : i \in 1 .. Len(a)
  BY <1>1
<1>3. Len(q) + 1 \in 1 .. Len(a)
  BY <1>1
<1>4. \A n : Holds(q, n) => Holds(a, n)
  BY <1>1, <1>2 DEF Holds
<1>5. Loads(e) => Holds(a, e.name)
  BY <1>1, <1>3 DEF Holds
<1> QED BY <1>4, <1>5 DEF a

LEMMA HoldsTail ==
  ASSUME NEW q \in Seq(Events), q # <<>>, NEW n, Holds(q, n),
         Head(q).name # n \/ ~ Loads(Head(q))
  PROVE  Holds(Tail(q), n)
<1>1. PICK i \in 1 .. Len(q) : q[i].name = n /\ Loads(q[i])
  BY DEF Holds
<1>2. /\ Tail(q) \in Seq(Events) /\ Len(Tail(q)) = Len(q) - 1 /\ Len(q) \in Nat
      /\ Head(q) = q[1]
      /\ \A j \in 1 .. Len(Tail(q)) : Tail(q)[j] = q[j + 1]
  BY HeadTailProperties, LenProperties
<1>3. i # 1
  BY <1>1, <1>2
<1>4. i - 1 \in 1 .. Len(Tail(q)) /\ (i - 1) + 1 = i
  BY <1>1, <1>2, <1>3
<1>5. Tail(q)[i - 1] = q[i]
  BY <1>2, <1>4
<1> QED BY <1>1, <1>4, <1>5 DEF Holds

\* An event that is not lost is in the queue, with those before it.
LEMMA QueueTells ==
  ASSUME StateOK, NEW e \in Events, Enqueue("plugins", e)
  PROVE  /\ \A n : Holds(queue["plugins"], n) => Holds(queue'["plugins"], n)
         /\ Loads(e) /\ ~ Loses("plugins", e) => Holds(queue'["plugins"], e.name)
<1> DEFINE q == queue["plugins"]
<1>1. q \in Seq(Events) /\ Overflow \in Events
  BY NamesAssumption DEF StateOK, Events
<1>2. PICK x : /\ queue' = [queue EXCEPT !["plugins"] = x]
               /\ \/ x = q /\ Loses("plugins", e)
                  \/ x = q /\ x # <<>> /\ x[Len(x)] = e
                  \/ x = Append(q, e) /\ Len(q) < QueueLimit
                  \/ x = Append(q, Overflow) /\ Len(q) = QueueLimit /\ Loses("plugins", e)
  BY QueueGrows
<1>3. queue'["plugins"] = x
  BY <1>2, NamesAssumption DEF StateOK
<1> HIDE DEF q
<1>4. CASE x = q /\ Loses("plugins", e)
  BY <1>3, <1>4 DEF q
<1>5. CASE x = q /\ x # <<>> /\ x[Len(x)] = e
  <2>1. Len(q) \in 1 .. Len(q)
    BY <1>1, <1>5, EmptySeq, LenProperties
  <2>2. Loads(e) => Holds(x, e.name)
    BY <1>5, <2>1 DEF Holds
  <2> QED BY <1>3, <1>5, <2>2 DEF q
<1>6. CASE x = Append(q, e)
  BY <1>1, <1>3, <1>6, HoldsAppended DEF q
<1>7. CASE x = Append(q, Overflow) /\ Loses("plugins", e)
  BY <1>1, <1>3, <1>7, HoldsAppended DEF q
<1> QED BY <1>2, <1>4, <1>5, <1>6, <1>7

\* The file system changes file n.
LEMMA FreshFile ==
  ASSUME Inv, DataOK, Fresh, NEW n \in Names,
         BeginWrite(n) \/ EndWrite(n) \/ Remove(n) \/ MoveInto(n)
  PROVE  Fresh'
<1> USE NamesAssumption
<1>1. UNCHANGED <<main, toScan, plugins, task, batch>>
  BY DEF BeginWrite, EndWrite, Remove, MoveInto, Tell, Enqueue, watchVars, mapVars, clientVars
<1>2. \A m : Told(m) => Told(m)'
  <2>1. CASE UNCHANGED queue
    BY <1>1, <2>1 DEF Told
  <2>2. CASE \E kind \in {"CREATE", "MODIFY", "DELETE"} :
               Enqueue("plugins", [kind |-> kind, name |-> n])
    BY <1>1, <2>2, ToldAreEvents, QueueTells DEF Told, Inv
  <2> QED BY <2>1, <2>2 DEF BeginWrite, EndWrite, Remove, MoveInto, Tell, watchVars
<1>3. ASSUME NEW m \in Names, m # n
      PROVE  (Loadable(m)' <=> Loadable(m)) /\ files'[m] = files[m]
             /\ (m \in missed' <=> m \in missed)
  BY <1>3 DEF BeginWrite, EndWrite, Remove, MoveInto, Tell, Loadable, DataOK
<1>4. n \notin missed' => Current(n)'
  <2>1. CASE BeginWrite(n)
    BY <2>1 DEF BeginWrite, Current, Loadable
  <2>2. CASE EndWrite(n)
    <3> DEFINE e == [kind |-> "MODIFY", name |-> n]
    <3>1. e \in Events /\ Loads(e) /\ e.name = n
      BY ToldAreEvents DEF Loads
    <3>2. Enqueue("plugins", e) /\ missed' = IF Loses("plugins", e) THEN missed \cup {n} ELSE missed \ {n}
      BY <2>2 DEF EndWrite, Tell
    <3> HIDE DEF e
    <3>3. ~ Loses("plugins", e) => Holds(queue'["plugins"], n)
      BY <3>1, <3>2, QueueTells DEF Inv
    <3> QED BY <3>2, <3>3 DEF Current, Told
  <2>3. CASE Remove(n)
    BY <2>3 DEF Remove, Current, Loadable, DataOK
  <2>4. CASE MoveInto(n)
    BY <2>4 DEF MoveInto
  <2> QED BY <2>1, <2>2, <2>3, <2>4
<1>5. Listening' => \A m \in Names \ missed' : Current(m)'
  <2> SUFFICES ASSUME Listening', NEW m \in Names \ missed', m # n PROVE Current(m)'
    BY <1>4
  <2>1. Listening /\ m \notin missed /\ Current(m)
    BY <1>1, <1>3 DEF Listening, Fresh
  <2> QED BY <1>1, <1>2, <1>3, <2>1 DEF Current
<1> QED BY <1>1, <1>5 DEF Fresh

\* Nothing changes but where tasks stand, and no event is lost that is to be
\* handled by one that goes on.
LEMMA FreshMoves ==
  ASSUME Fresh, UNCHANGED <<main, toScan, plugins, files, partial, missed>>,
         Listening' => Listening /\ \A n \in Names : Told(n) => Told(n)',
         task'["plugins"] \notin {"events", "callback"} => batch'["plugins"] = <<>>
  PROVE  Fresh'
BY DEF Fresh, Current, Loadable

LEMMA FreshWatch ==
  ASSUME Inv, Fresh, NEW w \in Watchers, Watch(w) \/ Interrupted(w)
  PROVE  Fresh'
<1> USE NamesAssumption
<1>1. /\ UNCHANGED <<main, toScan, plugins, files, partial, missed>> /\ StateOK
      /\ "plugins" \in Watchers
  BY DEF Watch, Interrupted, clientVars, mapVars, fileVars, Inv
<1>2. CASE w # "plugins"
  <2>1. /\ task'["plugins"] = task["plugins"] /\ queue'["plugins"] = queue["plugins"]
        /\ batch'["plugins"] = batch["plugins"]
    BY <1>1, <1>2 DEF Watch, Interrupted, StartTask, AddWatch, Loop, Select, SkipEvent,
                      Interrupt, Goes, StateOK
  <2> QED BY <1>1, <2>1, FreshMoves DEF Fresh, Listening, Told
<1>3. CASE w = "plugins" /\ UNCHANGED <<queue, batch>> /\ Goes(w, "loop")
           /\ (task["plugins"] = "start" \/ batch["plugins"] = <<>>)
           /\ task["plugins"] \in {"start", "events"}
  <2>1. task'["plugins"] = "loop"
    BY <1>1, <1>3 DEF Goes, StateOK
  <2> QED BY <1>1, <1>3, <2>1, FreshMoves DEF Fresh, Listening, Told
<1>4. CASE /\ w = "plugins" /\ UNCHANGED <<queue, batch>>
           /\ \E label \in {"start", "select", "stopped", "failed"} : Goes(w, label)
           /\ task["plugins"] \in {"queued", "start", "loop", "select"}
  <2>1. task'["plugins"] \in {"start", "select", "stopped", "failed"}
    BY <1>1, <1>4 DEF Goes, StateOK
  <2> QED BY <1>1, <1>4, <2>1, FreshMoves DEF Fresh, Listening, Told
<1>5. CASE /\ w = "plugins" /\ task[w] = "select" /\ Goes(w, "events")
           /\ batch' = [batch EXCEPT ![w] = queue[w]]
  <2>1. /\ task'["plugins"] = "events" /\ batch'["plugins"] = queue["plugins"]
        /\ batch["plugins"] = <<>>
    BY <1>1, <1>5 DEF Goes, StateOK, Fresh
  <2>2. \A n \in Names : Told(n) => Told(n)'
    BY <2>1 DEF Told, Holds
  <2> QED BY <1>1, <1>5, <2>1, <2>2, FreshMoves DEF Listening
<1>6. CASE /\ w = "plugins" /\ task[w] = "events" /\ UNCHANGED <<task, queue>>
           /\ batch[w] # <<>> /\ Head(batch[w]) = Overflow
           /\ batch' = [batch EXCEPT ![w] = Tail(@)]
  <2>1. batch["plugins"] \in Seq(Events) /\ batch'["plugins"] = Tail(batch["plugins"])
    BY <1>1, <1>6 DEF StateOK
  <2>2. ~ Loads(Overflow)
    BY DEF Loads, Overflow
  <2>3. \A n \in Names : Told(n) => Told(n)'
    BY <1>6, <2>1, <2>2, HoldsTail DEF Told
  <2> QED BY <1>1, <1>6, <2>3, FreshMoves DEF Listening
<1>7. CASE w = "plugins" /\ StartTask(w)
  BY <1>4, <1>7 DEF StartTask
<1>8. CASE w = "plugins" /\ (AddWatch(w) \/ Loop(w))
  BY <1>3, <1>4, <1>8 DEF AddWatch, Loop
<1>9. CASE w = "plugins" /\ (Select(w) \/ Interrupt(w))
  BY <1>4, <1>5, <1>9 DEF Select, Interrupt
<1>10. CASE w = "plugins" /\ SkipEvent(w)
  BY <1>3, <1>6, <1>10 DEF SkipEvent
<1> QED BY <1>2, <1>7, <1>8, <1>9, <1>10 DEF Watch, Interrupted

\* An event is handled: its file is taken out, and loaded anew.
LEMMA FreshCallback ==
  ASSUME Inv, DataOK, Fresh, FileChanged \/ LoadChanged
  PROVE  Fresh'
<1> USE NamesAssumption
<1> DEFINE b == batch["plugins"]
           e == Head(b)
<1>1. /\ UNCHANGED <<main, toScan, files, partial, missed, queue>> /\ StateOK
      /\ "plugins" \in Watchers
  BY DEF FileChanged, LoadChanged, Callback, Returns, Throws, clientVars, fileVars, Inv
<1>2. b \in Seq(Events) /\ task["plugins"] \in {"events", "callback"} /\ b # <<>>
  BY <1>1 DEF FileChanged, LoadChanged, Callback, StateOK, Inv, Unloaded
<1>3. Listening' => Listening
  BY <1>1, <1>2 DEF Listening
<1>4. CASE Loads(e) /\ Callback("plugins", "callback") /\ removePlugin(e.name)
  <2>1. task'["plugins"] = "callback" /\ batch'["plugins"] = b
    BY <1>1, <1>4 DEF Callback, Goes, StateOK
  <2>2. \A n \in Names : n # e.name => plugins'[n] = plugins[n]
    BY <1>4 DEF removePlugin, DataOK
  <2>3. Holds(b, e.name)
    <3>1. 1 \in 1 .. Len(b) /\ b[1] = e
      BY <1>2, HeadTailProperties, EmptySeq, LenProperties
    <3> HIDE DEF e, b
    <3> QED BY <1>4, <3>1 DEF Holds
  <2> HIDE DEF e
  <2>4. \A n \in Names : Told(n) => Told(n)'
    BY <1>1, <2>1 DEF Told
  <2>5. \A n \in Names : n = e.name => Told(n)'
    BY <2>1, <2>3 DEF Told
  <2> QED BY <1>1, <1>3, <2>1, <2>2, <2>4, <2>5 DEF Fresh, Current, Loadable
<1>5. CASE ~ Loads(e) /\ Callback("plugins", "events") /\ UNCHANGED mapVars
  <2>1. task'["plugins"] = "events" /\ batch'["plugins"] = Tail(b)
    BY <1>1, <1>5 DEF Callback, Goes, StateOK
  <2> HIDE DEF e, b
  <2>2. \A n \in Names : Holds(b, n) => Holds(Tail(b), n)
    BY <1>2, <1>5, HoldsTail DEF e
  <2>3. \A n \in Names : Told(n) => Told(n)'
    BY <1>1, <2>1, <2>2 DEF Told, b
  <2> QED BY <1>1, <1>3, <1>5, <2>1, <2>3, FreshMoves DEF mapVars
<1>6. CASE Loadable(e.name) /\ OpenPlugin(e.name) /\ Returns("plugins")
  <2>1. task'["plugins"] = "events" /\ batch'["plugins"] = Tail(b)
    BY <1>1, <1>6 DEF Returns, Goes, StateOK
  <2>2. /\ \A n \in Names : n # e.name => plugins'[n] = plugins[n]
        /\ e.name \in Names => plugins'[e.name] = files[e.name]
    BY <1>6 DEF OpenPlugin, DataOK
  <2> HIDE DEF e, b
  <2>3. \A n \in Names : n # e.name /\ Holds(b, n) => Holds(Tail(b), n)
    BY <1>2, HoldsTail DEF e
  <2>4. \A n \in Names : n # e.name /\ Told(n) => Told(n)'
    BY <1>1, <2>1, <2>3 DEF Told, b
  <2> QED BY <1>1, <1>3, <2>1, <2>2, <2>4 DEF Fresh, Current, Loadable
<1>7. CASE Throws("plugins")
  <2>1. task'["plugins"] = "thrown" /\ batch'["plugins"] = <<>>
    BY <1>1, <1>7 DEF Throws, Goes, StateOK
  <2> QED BY <1>1, <2>1 DEF Fresh, Listening
<1> QED BY <1>4, <1>5, <1>6, <1>7 DEF FileChanged, LoadChanged

LEMMA FreshMain ==
  ASSUME Inv, DataOK, Fresh, Main
  PROVE  Fresh'
<1> USE NamesAssumption
<1>1. UNCHANGED <<queue, batch, files, partial>> /\ StateOK /\ "plugins" \in Watchers
  BY DEF Main, NewWatcher, StopWatcher, JoinWatcher, ScanFile, SetHandler, OpenDirectory,
         ScanEnds, ListPlugins, NamePlugin, UnloadAll, Exit, Construct, Stop, Join,
         JoinThrows, Steal, Goes, watchVars, fileVars, Inv
<1>2. \A n : Told(n)' <=> Told(n)
  BY <1>1 DEF Told
\* Before main reads the directory, and after the watcher was told to stop.
<1>3. ASSUME main' \in 1 .. 16, main' \notin 5 .. 9, main' >= 6 => toScan' = {},
             task'["plugins"] \notin {"events", "callback"} => batch["plugins"] = <<>>
      PROVE  Fresh'
  BY <1>1, <1>3 DEF Fresh, Listening
\* In between main changes no plugin but those it scans.
<1>4. ASSUME UNCHANGED <<toScan, plugins, missed>>, Listening' => Listening,
             main' \in {main, main + 1}, main' >= 6 => main >= 6 \/ toScan = {},
             task'["plugins"] \notin {"events", "callback"} => batch["plugins"] = <<>>
      PROVE  Fresh'
  BY <1>1, <1>2, <1>4 DEF Fresh, Current, Loadable
<1>5. ASSUME NEW w \in Watchers, NewWatcher(w)
      PROVE  Fresh'
  <2>1. main \in {1, 2, 6} /\ main' = main + 1 /\ UNCHANGED <<toScan, plugins, missed>>
    BY <1>1, <1>5, Present DEF NewWatcher, NextStatement, mapVars
  <2>2. /\ task'["plugins"] \in {task["plugins"], "queued"}
        /\ task["plugins"] \in {"queued", "none"} \/ task' ["plugins"] = task["plugins"]
    BY <1>1, <1>5 DEF NewWatcher, Construct, StateOK
  <2>3. task["plugins"] = "none" => task["plugins"] \notin {"stopped", "failed", "thrown"}
    OBVIOUS
  <2> QED BY <1>4, <2>1, <2>2 DEF Fresh, Listening
<1>6. ASSUME NEW w \in Watchers, StopWatcher(w) \/ JoinWatcher(w)
      PROVE  Fresh'
  <2>1. main \in {9, 10, 12, 13, 14, 15} /\ UNCHANGED <<toScan, plugins, missed>>
    BY <1>1, <1>6, Present DEF StopWatcher, JoinWatcher, mapVars
  <2>2. main' = main + 1 \/ (main' = main /\ main # 9)
    BY <1>1, <1>6, Present DEF StopWatcher, JoinWatcher, NextStatement, Ends
  <2>3. task'["plugins"] = task["plugins"] \/ task["plugins"] = "queued"
    BY <1>1, <1>6
       DEF StopWatcher, JoinWatcher, Stop, Join, JoinThrows, Steal, Goes, watchVars, StateOK
  <2>4. main' \in 1 .. 16 /\ main' \notin 5 .. 9 /\ toScan' = {}
    BY <2>1, <2>2 DEF Fresh
  <2> QED BY <1>3, <2>3, <2>4 DEF Fresh
<1>7. CASE SetHandler \/ UnloadAll
  <2>1. main \in {3, 11} /\ main' = main + 1 /\ UNCHANGED <<task, toScan>>
    BY <1>1, <1>7, Present DEF SetHandler, UnloadAll, NextStatement, watchVars
  <2> QED BY <1>3, <2>1 DEF Fresh
<1>8. CASE ScanEnds \/ ListPlugins \/ NamePlugin \/ Exit
  <2>1. \/ main = 5 /\ toScan = {} /\ main' = 6
        \/ main \in {7, 8} /\ main' \in {main, main + 1}
        \/ main' = main /\ main > 15
    <3>1. CASE ScanEnds
      BY <1>1, <3>1, Present DEF ScanEnds, NextStatement
    <3>2. CASE ListPlugins \/ NamePlugin
      BY <1>1, <3>2, Present DEF ListPlugins, NamePlugin, NextStatement, Ends
    <3>3. CASE Exit
      BY <3>3, Length DEF Exit
    <3> QED BY <1>8, <3>1, <3>2, <3>3
  <2>2. UNCHANGED <<task, toScan, plugins, missed>> /\ main \in 1 .. 16
    BY <1>1, <1>8 DEF ScanEnds, ListPlugins, NamePlugin, Exit, watchVars, mapVars, StateOK
  <2> QED BY <1>4, <2>1, <2>2 DEF Fresh, Listening
<1>9. CASE ThrowPluginException /\ UNCHANGED watchVars
  <2>1. main' = 12 /\ toScan' = {} /\ UNCHANGED task
    BY <1>9, Indices DEF ThrowPluginException, watchVars
  <2> QED BY <1>3, <2>1 DEF Fresh
<1>10. CASE OpenDirectory
  <2>1. main = 4 /\ UNCHANGED watchVars /\ UNCHANGED task
    BY <1>1, <1>10, Present DEF OpenDirectory, watchVars
  <2>2. CASE NextStatement /\ toScan' = {n \in Names : files[n] # 0 \/ n \in partial}
    <3>1. main' = 5
      BY <2>1, <2>2 DEF NextStatement
    <3>2. \A n \in Names : Current(n)'
      BY <1>1, <2>2 DEF Current, Loadable
    <3> QED BY <1>1, <2>1, <3>1, <3>2 DEF Fresh
  <2> QED BY <1>9, <1>10, <2>1, <2>2 DEF OpenDirectory
<1>11. ASSUME NEW n \in Names, ScanFile(n)
       PROVE  Fresh'
  <2>1. main = 5 /\ UNCHANGED watchVars /\ UNCHANGED task
    BY <1>1, <1>11, Present DEF ScanFile, watchVars
  <2>2. CASE /\ toScan' = toScan \ {n} /\ UNCHANGED main
             /\ \/ Loadable(n) /\ OpenPlugin(n) /\ missed' = missed \ {n}
                \/ files[n] = 0 /\ UNCHANGED <<mapVars, missed>>
    <3>1. Current(n)'
      BY <1>1, <2>2 DEF Current, Loadable, OpenPlugin, DataOK
    <3>2. ASSUME NEW m \in Names, m # n, m \notin missed', Listening'
          PROVE  Current(m)'
      <4>1. Current(m)
        BY <2>1, <2>2, <3>2 DEF Fresh, Listening
      <4>2. plugins'[m] = plugins[m]
        BY <2>2, <3>2 DEF OpenPlugin, mapVars, DataOK
      <4> QED BY <1>1, <1>2, <2>2, <3>2, <4>1, <4>2 DEF Current, Loadable
    <3> QED BY <1>1, <2>1, <2>2, <3>1, <3>2 DEF Fresh
  <2> QED BY <1>9, <1>11, <2>1, <2>2 DEF ScanFile
<1> QED BY <1>5, <1>6, <1>7, <1>8, <1>10, <1>11 DEF Main

LEMMA FreshInit == Init => Fresh
BY NamesAssumption DEF Init, WatchInit, Fresh, Listening

LEMMA FreshNext == Inv /\ DataOK /\ Fresh /\ [Next]_vars => Fresh'
<1> SUFFICES ASSUME Inv, DataOK, Fresh, [Next]_vars PROVE Fresh'
  OBVIOUS
<1>1. CASE UNCHANGED vars
  BY <1>1 DEF vars, watchVars, fileVars, clientVars, mapVars, Fresh, Listening, Current,
              Loadable, Told
<1>2. ASSUME NEW w \in Watchers, Thread(w) \/ Interrupted(w)
      PROVE  Fresh'
  BY <1>2, FreshWatch, FreshCallback DEF Thread
<1>3. ASSUME UNCHANGED <<watchVars, fileVars, main, toScan, mapVars, missed>>
      PROVE  Fresh'
  BY <1>3 DEF watchVars, fileVars, mapVars, Fresh, Listening, Current, Loadable, Told
<1>4. ASSUME NEW t \in Watchers \cup {"main"}, Signal(t)
      PROVE  Fresh'
  BY <1>2, <1>3, <1>4, SignalSteps
<1> QED BY <1>1, <1>2, <1>4, FreshMain, FreshFile DEF Next

LEMMA StopIndex == Index(<<"stop", "plugins">>) = 9
<1> DEFINE op == <<"stop", "plugins">>
<1>1. \A i \in 1 .. 15 : Script[i] = op <=> i = 9
  BY Positions
<1> HIDE DEF op
<1> QED BY <1>1, IndexAt DEF op

\* When the watcher waits for events and there are none, every complete file
\* whose last change was told is loaded as it is on disk, for any number of
\* files and any order of changes, scan, events and overflows of the queue.
THEOREM ReloadedOnChange == Spec => []UpToDate
<1>1. Init => DataOK /\ Fresh
  BY DataInit, FreshInit
<1>2. Inv /\ DataOK /\ Fresh /\ [Next]_vars => DataOK' /\ Fresh'
  BY DataNext, FreshNext
<1>3. Inv /\ Fresh => UpToDate
  <2> SUFFICES ASSUME Inv, Fresh, ~ Done(<<"stop", "plugins">>),
                      task["plugins"] = "select", queue["plugins"] = <<>>,
                      NEW n \in Names \ missed, Loadable(n)
               PROVE  plugins[n] = files[n]
    BY DEF UpToDate
  <2>1. main \in 7 .. 9
    <3>1. main \in 1 .. 16 /\ ~ (main <= 6)
      BY DEF Inv, StateOK, Begun
    <3>2. ~ (main > 9)
      BY StopIndex DEF Done
    <3> QED BY <3>1, <3>2
  <2>2. batch["plugins"] = <<>> /\ toScan = {} /\ Current(n)
    BY <2>1 DEF Fresh, Listening
  <2>3. ~ Told(n)
    BY <2>2 DEF Told, Holds
  <2> QED BY <2>2, <2>3 DEF Current
<1> QED BY <1>1, <1>2, <1>3, Invariance, PTL DEF Spec
-----------------------------------------------------------------------------
(***************************************************************************)
(* What it takes to crash while the plugins are listed.                    *)
(***************************************************************************)
\* As long as nothing is reloaded, what main has listed stays mapped.
Listing ==
  /\ status # "crashed"
  /\ main \in 7 .. 11 => task["plugins"] # "none"
  /\ main = 8 => listed \subseteq mapped

NoReload == task["plugins"] # "callback"

\* The steps of the watchers' threads and of the file system.
LEMMA ListingKept ==
  ASSUME Listing, UNCHANGED <<status, main, listed, mapped>>,
         task'["plugins"] = "none" => task["plugins"] = "none"
  PROVE  Listing'
BY DEF Listing

LEMMA ListingWatch ==
  ASSUME Inv, Listing, NoReload, NoReload',
         NEW w \in Watchers, Thread(w) \/ Interrupted(w)
  PROVE  Listing'
<1> USE NamesAssumption
<1>1. UNCHANGED <<status, main, listed>> /\ StateOK
  BY DEF Thread, Watch, Interrupted, FileChanged, LoadChanged, clientVars, Inv
<1>2. \/ UNCHANGED task
      \/ \E v \in Watchers, label \in Labels \ {"none"} :
           task' = [task EXCEPT ![v] = label]
  BY DEF Thread, Watch, Interrupted, StartTask, AddWatch, Loop, Select, SkipEvent, Interrupt,
         FileChanged, LoadChanged, Callback, Returns, Throws, Goes, Labels
<1>3. task'["plugins"] = "none" => task["plugins"] = "none"
  BY <1>1, <1>2 DEF StateOK
<1>4. CASE Watch(w) \/ Interrupted(w)
  BY <1>1, <1>3, <1>4, ListingKept DEF Watch, Interrupted, mapVars
<1>5. CASE FileChanged
  <2>1. ~ Callback("plugins", "callback")
    BY <1>1 DEF Callback, Goes, StateOK, NoReload
  <2> QED BY <1>1, <1>3, <1>5, <2>1, ListingKept DEF FileChanged, mapVars
<1>6. ~ LoadChanged
  BY DEF LoadChanged, NoReload
<1> QED BY <1>4, <1>5, <1>6 DEF Thread

LEMMA ListingMain ==
  ASSUME Inv, Listing, NoReload, Main
  PROVE  Listing'
<1> USE NamesAssumption
<1>1. StateOK /\ main \in 1 .. 16 /\ "plugins" \in Watchers
  BY DEF Inv, StateOK
\* main neither lists plugins nor is about to.
<1>2. ASSUME status' \in {status, "exited", "terminated"},
             main' # 8,
             main' \in 7 .. 11 => task'["plugins"] # "none"
      PROVE  Listing'
  BY <1>2 DEF Listing
<1>3. ASSUME NEW w \in Watchers, NewWatcher(w)
      PROVE  Listing'
  <2>1. /\ main' = main + 1 /\ UNCHANGED status
        /\ (main = 6 /\ w = "plugins") \/ main \in {1, 2}
        /\ task' = [task EXCEPT ![w] = "queued"]
    BY <1>1, <1>3, Present DEF NewWatcher, NextStatement, Construct
  <2>2. w = "plugins" => task'["plugins"] = "queued"
    BY <1>1, <2>1 DEF StateOK
  <2> QED BY <1>2, <2>1, <2>2
<1>4. ASSUME NEW w \in Watchers, StopWatcher(w) \/ JoinWatcher(w)
      PROVE  Listing'
  <2>1. main \in {9, 10, 12, 13, 14, 15} /\ main' \in {main, main + 1}
    BY <1>1, <1>4, Present DEF StopWatcher, JoinWatcher, NextStatement, Ends
  <2>2. status' \in {status, "terminated"}
    BY <1>4 DEF StopWatcher, JoinWatcher, NextStatement, Ends
  <2>3. task'["plugins"] \in {task["plugins"], "stopped", "failed"}
    BY <1>1, <1>4
       DEF StopWatcher, JoinWatcher, Stop, Join, JoinThrows, Steal, Goes, watchVars, StateOK
  <2> QED BY <1>2, <2>1, <2>2, <2>3 DEF Listing
<1>5. CASE SetHandler \/ ScanEnds \/ UnloadAll \/ Exit
  <2>1. main' \in {main, main + 1} /\ main \in {3, 5, 11, 16}
    <3>1. CASE SetHandler \/ ScanEnds \/ UnloadAll
      BY <1>1, <3>1, Present DEF SetHandler, ScanEnds, UnloadAll, NextStatement
    <3>2. CASE Exit
      BY <1>1, <3>2, Length DEF Exit
    <3> QED BY <1>5, <3>1, <3>2
  <2>2. UNCHANGED task /\ status' \in {status, "exited"}
    BY <1>5 DEF SetHandler, ScanEnds, UnloadAll, Exit, NextStatement, watchVars
  <2> QED BY <1>2, <2>1, <2>2 DEF Listing
<1>6. CASE OpenDirectory \/ \E n \in Names : ScanFile(n)
  <2>1. main \in {4, 5} /\ main' \in {4, 5, 12} /\ UNCHANGED status
    BY <1>1, <1>6, Present, Indices
       DEF OpenDirectory, ScanFile, NextStatement, ThrowPluginException
  <2> QED BY <1>2, <2>1
<1>7. CASE ListPlugins
  <2>1. /\ main = 7 /\ UNCHANGED <<task, mapped>>
        /\ listed' = {<<n, plugins[n]>> : n \in {m \in Names : plugins[m] # 0}}
        /\ main' = main + 1 /\ UNCHANGED status
    BY <1>1, <1>7, Present
       DEF ListPlugins, ChangesMap, NoReload, NextStatement, watchVars, mapVars
  <2>2. mapped = NoneLeft
    BY <2>1 DEF Inv, Tracked, Listing
  <2> QED BY <2>1, <2>2 DEF Listing, NoneLeft
<1>8. CASE NamePlugin
  <2>1. main = 8 /\ UNCHANGED <<task, mapped>>
    BY <1>1, <1>8, Present DEF NamePlugin, watchVars, mapVars
  <2>2. listed \ mapped = {}
    BY <2>1 DEF Listing
  <2>3. listed' \subseteq listed /\ main' \in {8, 9} /\ UNCHANGED status
    BY <1>8, <2>1, <2>2 DEF NamePlugin, NextStatement
  <2> QED BY <2>1, <2>3 DEF Listing
<1> QED BY <1>3, <1>4, <1>5, <1>6, <1>7, <1>8 DEF Main

LEMMA ListingNext ==
  Inv /\ Listing /\ NoReload /\ NoReload' /\ [Next]_vars => Listing'
<1> SUFFICES ASSUME Inv, Listing, NoReload, NoReload', [Next]_vars PROVE Listing'
  OBVIOUS
<1>1. ASSUME NEW n \in Names,
             BeginWrite(n) \/ EndWrite(n) \/ Remove(n) \/ MoveInto(n)
      PROVE  Listing'
  <2>1. UNCHANGED <<status, main, listed, mapped, task>>
    BY <1>1 DEF BeginWrite, EndWrite, Remove, MoveInto, Tell, Enqueue, clientVars,
                mapVars, watchVars
  <2> QED BY <2>1, ListingKept
<1>2. CASE UNCHANGED vars
  BY <1>2, ListingKept DEF vars, watchVars, clientVars, mapVars
<1>3. ASSUME NEW t \in Watchers \cup {"main"}, Signal(t)
      PROVE  Listing'
  <2>1. CASE t \in Watchers /\ Interrupted(t)
    BY <2>1, ListingWatch
  <2>2. CASE /\ UNCHANGED <<watchVars, main, listed, mapVars>>
             /\ status' \in {status, "killed"}
    BY <2>2 DEF Listing, watchVars, mapVars
  <2> QED BY <1>3, <2>1, <2>2, SignalSteps
<1> QED BY <1>1, <1>2, <1>3, ListingMain, ListingWatch DEF Next

\* listPlugins crashes the client only if the watcher's thread reloads a plugin
\* in the meantime, for any number of files: what the scan has loaded is mapped
\* for as long as main lists it.
THEOREM ReloadNeeded == Spec => CrashNeedsReload
<1>1. Init => Listing
  BY DEF Init, Listing
<1>2. Inv /\ Listing /\ NoReload /\ NoReload' /\ [Next]_vars => Listing'
  BY ListingNext
<1>3. Listing => status # "crashed"
  BY DEF Listing
<1> QED BY <1>1, <1>2, <1>3, Invariance, PTL DEF Spec, CrashNeedsReload, NoReload
=============================================================================
