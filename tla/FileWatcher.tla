----------------------------- MODULE FileWatcher -----------------------------
(***************************************************************************)
(* Watching a directory (src/common/FileWatcher.cpp, NotifyPipe.cpp).  A   *)
(* watcher runs its loop as a task of Qt's thread pool: it waits in select *)
(* for the events of inotify or for the byte with which the destructor     *)
(* tells it to stop, and calls back for one event after the other.         *)
(***************************************************************************)
EXTENDS Naturals, Sequences, FiniteSets

CONSTANTS
  Watchers,     \* the FileWatcher objects
  Unwatchable,  \* the watchers whose inotify_add_watch may fail
  QueueLimit    \* the events the kernel keeps for one inotify instance

ASSUME QueueLimitAssumption == QueueLimit \in Nat \ {0}

VARIABLES
  cores,     \* the threads of the pool
  task,      \* where the task of each watcher stands
  submitted, \* the watchers in the order in which the pool was given their tasks
  watched,   \* the watchers that have a watch on their directory
  running,   \* the flag that the loop reads
  pipe,      \* TRUE if the byte of notify is in the pipe
  queue,     \* the events that inotify holds
  batch      \* the events that read has returned and that are not handled

watchVars == <<cores, task, submitted, watched, running, pipe, queue, batch>>

\* An overflow has no name (event->len is 0).
Overflow == [kind |-> "OVERFLOW", name |-> ""]

Active  == {w \in Watchers : task[w] \in {"start", "loop", "select", "events", "callback"}}
Watches(w) == w \in watched /\ task[w] \in {"loop", "select", "events", "callback"}

WatchInit(Cores) ==
  /\ cores \in Cores
  /\ task = [w \in Watchers |-> "none"]
  /\ submitted = <<>>
  /\ watched = {}
  /\ running = [w \in Watchers |-> FALSE]
  /\ pipe = [w \in Watchers |-> FALSE]
  /\ queue = [w \in Watchers |-> <<>>]
  /\ batch = [w \in Watchers |-> <<>>]

\* The constructor: the task waits for a thread of the pool, which takes the
\* tasks in the order in which it was given them.
Construct(w) ==
  /\ task[w] = "none"
  /\ task' = [task EXCEPT ![w] = "queued"]
  /\ submitted' = Append(submitted, w)
  /\ running' = [running EXCEPT ![w] = TRUE]
  /\ UNCHANGED <<cores, watched, pipe, queue, batch>>

Goes(w, label) ==
  /\ task' = [task EXCEPT ![w] = label]
  /\ UNCHANGED <<cores, running, pipe>>

StartTask(w) ==
  /\ task[w] = "queued"
  /\ \A i, j \in DOMAIN submitted :
       i < j /\ submitted[j] = w => task[submitted[i]] # "queued"
  /\ Cardinality(Active) < cores
  /\ Goes(w, "start")
  /\ UNCHANGED <<submitted, watched, queue, batch>>

\* inotify_init may fail, and so may inotify_add_watch: the first ends the task,
\* of the second nobody takes notice and the loop waits for no events.
AddWatch(w) ==
  /\ task[w] = "start"
  /\ \/ Goes(w, "loop") /\ watched' = watched \cup {w}
     \/ Goes(w, "loop") /\ w \in Unwatchable /\ UNCHANGED watched
     \/ Goes(w, "failed") /\ UNCHANGED watched
  /\ UNCHANGED <<submitted, queue, batch>>

\* The head of the loop looks at the flag.
Loop(w) ==
  /\ task[w] = "loop"
  /\ Goes(w, IF running[w] THEN "select" ELSE "stopped")
  /\ UNCHANGED <<submitted, watched, queue, batch>>

\* select returns when there is something to read; the pipe goes first.
Select(w) ==
  /\ task[w] = "select"
  /\ \/ /\ pipe[w]
        /\ Goes(w, "stopped")
        /\ UNCHANGED <<queue, batch>>
     \/ /\ ~ pipe[w]
        /\ queue[w] # <<>>
        /\ Goes(w, "events")
        /\ batch' = [batch EXCEPT ![w] = queue[w]]
        /\ queue' = [queue EXCEPT ![w] = <<>>]
  /\ UNCHANGED <<submitted, watched>>

\* A signal on the thread of a watcher: select fails with EINTR.
Interrupt(w) ==
  /\ task[w] = "select"
  /\ ~ pipe[w] /\ queue[w] = <<>>
  /\ Goes(w, "failed")
  /\ UNCHANGED <<submitted, watched, queue, batch>>

\* The batch is handled, or its first event is one that is not passed on.
SkipEvent(w) ==
  /\ task[w] = "events"
  /\ \/ batch[w] = <<>> /\ Goes(w, "loop") /\ UNCHANGED batch
     \/ /\ batch[w] # <<>>
        /\ Head(batch[w]) = Overflow
        /\ batch' = [batch EXCEPT ![w] = Tail(@)]
        /\ UNCHANGED <<cores, task, running, pipe>>
  /\ UNCHANGED <<submitted, watched, queue>>

\* The callback for the first event; it may leave the callback pending.
Callback(w, label) ==
  /\ task[w] = "events"
  /\ batch[w] # <<>>
  /\ Head(batch[w]) # Overflow
  /\ Goes(w, label)
  /\ batch' = [batch EXCEPT ![w] = IF label = "events" THEN Tail(@) ELSE @]
  /\ UNCHANGED <<submitted, watched, queue>>

\* The callback returns, or it throws and takes the watch with it.
Returns(w) ==
  /\ Goes(w, "events")
  /\ batch' = [batch EXCEPT ![w] = Tail(@)]
  /\ UNCHANGED <<submitted, watched, queue>>

Throws(w) ==
  /\ Goes(w, "thrown")
  /\ batch' = [batch EXCEPT ![w] = <<>>]
  /\ UNCHANGED <<submitted, watched, queue>>

\* Variant of the destructor that relies on the flag alone.
ClearFlagOnly(w) ==
  /\ running' = [running EXCEPT ![w] = FALSE]
  /\ UNCHANGED <<cores, task, submitted, watched, pipe, queue, batch>>

\* The first two statements of the destructor.
Stop(w) ==
  /\ running' = [running EXCEPT ![w] = FALSE]
  /\ pipe' = [pipe EXCEPT ![w] = TRUE]
  /\ UNCHANGED <<cores, task, submitted, watched, queue, batch>>

\* Variant of the destructor that does not wait.
JoinAtOnce(w) == task[w] \notin {"failed", "thrown"} /\ UNCHANGED watchVars

\* waitForFinished: a task that no thread has taken yet runs on the caller,
\* where it finds the flag cleared.
Steal(w, label) ==
  /\ task[w] = "queued"
  /\ Goes(w, label)
  /\ UNCHANGED <<submitted, watched, queue, batch>>

Join(w) ==
  \/ task[w] = "stopped" /\ UNCHANGED watchVars
  \/ Steal(w, "stopped")

\* The task has ended with an exception, or does so on the caller: its
\* inotify_init fails.  waitForFinished throws it again.
JoinThrows(w) ==
  \/ task[w] \in {"failed", "thrown"} /\ UNCHANGED watchVars
  \/ Steal(w, "failed")

\* inotify queues an event e of a watched directory, unless it equals the
\* last one; when the queue is full an overflow takes the place of the rest.
Loses(w, e) == ~ Watches(w) \/ Len(queue[w]) >= QueueLimit

Enqueue(w, e) ==
  /\ queue' = [queue EXCEPT ![w] =
       LET last == IF @ = <<>> THEN Overflow ELSE @[Len(@)]
       IN  CASE ~ Watches(w) -> @
             [] Len(@) < QueueLimit /\ (@ = <<>> \/ last # e) -> Append(@, e)
             [] Len(@) = QueueLimit /\ last # Overflow /\ last # e -> Append(@, Overflow)
             [] OTHER -> @]
  /\ UNCHANGED <<cores, task, submitted, watched, running, pipe, batch>>
=============================================================================
