----------------------- MODULE ResourceChangeNotifier -----------------------
(***************************************************************************)
(* The hub that carries resource changes from the managers to the trigger  *)
(* subsystem (resource_change_notifier.cpp): notify() on producer threads, *)
(* one worker that calls the subscribers back, and shutdown().  A thread   *)
(* that finds a condition variable's predicate false goes to sleep in a    *)
(* step of its own, which still holds the mutex: what is not done under    *)
(* that mutex may fall in between.  A change is its place in the order of  *)
(* the queue; its collection, entity and path are one topic, and every     *)
(* producer has one.                                                       *)
(***************************************************************************)
EXTENDS Integers, Sequences

CONSTANTS Producers,       \* threads that call notify()
          Subscribers,     \* subscriptions that may be made
          Filter,          \* subscriber -> the topics its filter matches
          Topic,           \* producer -> what its changes are of
          max_queue_size_,
          MaxChanges       \* bound: notify() calls in a behaviour

VARIABLES
  producer,             \* producer -> where in notify() it is
  calls,                \* how many notify() calls so far
  active_notify_count_,
  shutdown_flag_,
  queue_,
  worker,               \* where in worker_loop() the worker is
  batch,                \* the changes it took, the one being delivered first
  snapshot,             \* the subscriptions it took
  todo,                 \* those of them still to be called for Head(batch)
  subscriptions_,
  main,                 \* where in shutdown() the main thread is
  accepted,             \* history: the topic of every change queued
  overflowed,           \* history: the changes dropped from a full queue
  since,                \* history: subscriber -> changes queued when it subscribed, -1 = never did
  delivered             \* history: subscriber -> the changes it was called with

vars == <<producer, calls, active_notify_count_, shutdown_flag_, queue_, worker, batch,
          snapshot, todo, subscriptions_, main, accepted, overflowed, since, delivered>>

Changes == 1..MaxChanges

TypeOK ==
  /\ producer \in [Producers -> {"out", "check", "push", "signal", "leave", "drain"}]
  /\ calls \in 0..MaxChanges /\ active_notify_count_ \in 0..MaxChanges /\ shutdown_flag_ \in BOOLEAN
  /\ queue_ \in Seq(Changes) /\ batch \in Seq(Changes)
  /\ worker \in {"loop", "falling", "asleep", "snapshot", "call", "done"}
  /\ snapshot \subseteq Subscribers /\ todo \subseteq snapshot /\ subscriptions_ \subseteq Subscribers
  /\ main \in {"running", "drain", "falling", "asleep", "wake", "join", "returned"}
  /\ accepted \in Seq({Topic[p] : p \in Producers}) /\ overflowed \subseteq Changes
  /\ since \in [Subscribers -> -1..MaxChanges]
  /\ delivered \in [Subscribers -> Seq(Changes)]

Init ==
  /\ producer = [p \in Producers |-> "out"]
  /\ calls = 0 /\ active_notify_count_ = 0 /\ shutdown_flag_ = FALSE
  /\ queue_ = <<>> /\ batch = <<>> /\ worker = "loop"
  /\ snapshot = {} /\ todo = {} /\ subscriptions_ = {}
  /\ main = "running"
  /\ accepted = <<>> /\ overflowed = {}
  /\ since = [s \in Subscribers |-> -1]
  /\ delivered = [s \in Subscribers |-> <<>>]

\* queue_mutex_ is held over a step's end only by the worker about to sleep,
\* drain_mutex_ only by the main thread about to sleep.
QueueMutexFree == worker # "falling"
DrainMutexFree == main # "falling"

matches_filter(s, change) == accepted[change] \in Filter[s]

subscribe(s) ==
  /\ since[s] = -1
  /\ subscriptions_' = subscriptions_ \union {s}
  /\ since' = [since EXCEPT ![s] = Len(accepted)]
  /\ UNCHANGED <<producer, calls, active_notify_count_, shutdown_flag_, queue_, worker, batch,
                 snapshot, todo, main, accepted, overflowed, delivered>>

unsubscribe(s) ==
  /\ s \in subscriptions_
  /\ subscriptions_' = subscriptions_ \ {s}
  /\ UNCHANGED <<producer, calls, active_notify_count_, shutdown_flag_, queue_, worker, batch,
                 snapshot, todo, main, accepted, overflowed, since, delivered>>

-----------------------------------------------------------------------------
\* notify().

Unchanged_Producer ==
  UNCHANGED <<batch, snapshot, todo, subscriptions_, since, delivered>>

Enter(p) ==
  /\ producer[p] = "out" /\ main # "returned" /\ calls < MaxChanges
  /\ calls' = calls + 1
  /\ active_notify_count_' = active_notify_count_ + 1
  /\ producer' = [producer EXCEPT ![p] = "check"]
  /\ UNCHANGED <<shutdown_flag_, queue_, worker, main, accepted, overflowed>>
  /\ Unchanged_Producer

CheckFlag(p) ==
  /\ producer[p] = "check"
  /\ producer' = [producer EXCEPT ![p] = IF shutdown_flag_ THEN "leave" ELSE "push"]
  /\ UNCHANGED <<calls, active_notify_count_, shutdown_flag_, queue_, worker, main, accepted, overflowed>>
  /\ Unchanged_Producer

Push(p) ==
  /\ producer[p] = "push" /\ QueueMutexFree
  /\ accepted' = Append(accepted, Topic[p])
  /\ LET pushed == Append(queue_, Len(accepted) + 1)
     IN IF Len(pushed) > max_queue_size_
        THEN queue_' = Tail(pushed) /\ overflowed' = overflowed \union {Head(pushed)}
        ELSE queue_' = pushed /\ UNCHANGED overflowed
  /\ producer' = [producer EXCEPT ![p] = "signal"]
  /\ UNCHANGED <<calls, active_notify_count_, shutdown_flag_, worker, main>>
  /\ Unchanged_Producer

Signal(p) ==
  /\ producer[p] = "signal"
  /\ worker' = IF worker = "asleep" THEN "loop" ELSE worker
  /\ producer' = [producer EXCEPT ![p] = "leave"]
  /\ UNCHANGED <<calls, active_notify_count_, shutdown_flag_, queue_, main, accepted, overflowed>>
  /\ Unchanged_Producer

\* The guard's destructor: the last one out tells shutdown().
Leave(p) ==
  /\ producer[p] = "leave"
  /\ active_notify_count_' = active_notify_count_ - 1
  /\ producer' = [producer EXCEPT ![p] = IF active_notify_count_ = 1 THEN "drain" ELSE "out"]
  /\ UNCHANGED <<calls, shutdown_flag_, queue_, worker, main, accepted, overflowed>>
  /\ Unchanged_Producer

TellDrained(p) ==
  /\ producer[p] = "drain" /\ DrainMutexFree
  /\ main' = IF main = "asleep" THEN "drain" ELSE main
  /\ producer' = [producer EXCEPT ![p] = "out"]
  /\ UNCHANGED <<calls, active_notify_count_, shutdown_flag_, queue_, worker, accepted, overflowed>>
  /\ Unchanged_Producer

-----------------------------------------------------------------------------
\* worker_loop().

Unchanged_Worker ==
  UNCHANGED <<producer, calls, active_notify_count_, shutdown_flag_, subscriptions_, main,
              accepted, overflowed, since>>

\* A slip: the batch is copied and the queue keeps what was taken.
WorkerTakes_Copies ==
  /\ worker = "loop"
  /\ IF queue_ # <<>> THEN worker' = "snapshot" /\ batch' = queue_ /\ UNCHANGED queue_
     ELSE worker' = (IF shutdown_flag_ THEN "done" ELSE "falling") /\ UNCHANGED <<batch, queue_>>
  /\ UNCHANGED <<snapshot, todo, delivered>>
  /\ Unchanged_Worker

WorkerTakes ==
  /\ worker = "loop"
  /\ IF queue_ # <<>> THEN worker' = "snapshot" /\ batch' = queue_ /\ queue_' = <<>>
     ELSE worker' = (IF shutdown_flag_ THEN "done" ELSE "falling") /\ UNCHANGED <<batch, queue_>>
  /\ UNCHANGED <<snapshot, todo, delivered>>
  /\ Unchanged_Worker

WorkerSleeps ==
  /\ worker = "falling"
  /\ worker' = "asleep"
  /\ UNCHANGED <<queue_, batch, snapshot, todo, delivered>>
  /\ Unchanged_Worker

Matching(change, subscribers) == {s \in subscribers : matches_filter(s, change)}

WorkerSnapshots ==
  /\ worker = "snapshot"
  /\ worker' = "call"
  /\ snapshot' = subscriptions_
  /\ todo' = Matching(Head(batch), subscriptions_)
  /\ UNCHANGED <<queue_, batch, delivered>>
  /\ Unchanged_Worker

\* A callback returns, or throws: both are the same to the worker.
WorkerCalls ==
  /\ worker = "call"
  /\ \E s \in todo :
       /\ delivered' = [delivered EXCEPT ![s] = Append(@, Head(batch))]
       /\ todo' = todo \ {s}
  /\ UNCHANGED <<queue_, batch, snapshot, worker>>
  /\ Unchanged_Worker

WorkerMovesOn ==
  /\ worker = "call" /\ todo = {}
  /\ batch' = Tail(batch)
  /\ IF Len(batch) = 1
     THEN worker' = "loop" /\ snapshot' = {} /\ todo' = {}
     ELSE todo' = Matching(batch[2], snapshot) /\ UNCHANGED <<worker, snapshot>>
  /\ UNCHANGED <<queue_, delivered>>
  /\ Unchanged_Worker

-----------------------------------------------------------------------------
\* shutdown().

Unchanged_Main ==
  UNCHANGED <<producer, calls, active_notify_count_, queue_, batch, snapshot, todo,
              subscriptions_, accepted, overflowed, since, delivered>>

BeginShutdown ==
  /\ main = "running"
  /\ shutdown_flag_' = TRUE /\ main' = "drain"
  /\ UNCHANGED worker
  /\ Unchanged_Main

AwaitDrained ==
  /\ main = "drain"
  /\ main' = IF active_notify_count_ = 0 THEN "wake" ELSE "falling"
  /\ UNCHANGED <<shutdown_flag_, worker>>
  /\ Unchanged_Main

MainSleeps ==
  /\ main = "falling"
  /\ main' = "asleep"
  /\ UNCHANGED <<shutdown_flag_, worker>>
  /\ Unchanged_Main

\* A slip: the worker is signalled without taking queue_mutex_ first.
WakeWorker_Unsynchronised ==
  /\ main = "wake"
  /\ main' = "join"
  /\ worker' = IF worker = "asleep" THEN "loop" ELSE worker
  /\ UNCHANGED shutdown_flag_
  /\ Unchanged_Main

\* queue_mutex_ is taken and released, then the worker is signalled: once it
\* was free the worker sees the flag or is asleep, so one step is enough.
WakeWorker ==
  /\ main = "wake" /\ QueueMutexFree
  /\ main' = "join"
  /\ worker' = IF worker = "asleep" THEN "loop" ELSE worker
  /\ UNCHANGED shutdown_flag_
  /\ Unchanged_Main

Join ==
  /\ main = "join" /\ worker = "done"
  /\ main' = "returned"
  /\ UNCHANGED <<shutdown_flag_, worker>>
  /\ Unchanged_Main

-----------------------------------------------------------------------------
Notify(p) == Enter(p) \/ CheckFlag(p) \/ Push(p) \/ Signal(p) \/ Leave(p) \/ TellDrained(p)
Worker == WorkerTakes \/ WorkerSleeps \/ WorkerSnapshots \/ WorkerCalls \/ WorkerMovesOn
Shutdown == AwaitDrained \/ MainSleeps \/ WakeWorker \/ Join

Next ==
  \/ \E p \in Producers : Notify(p)
  \/ \E s \in Subscribers : subscribe(s) \/ unsubscribe(s)
  \/ Worker \/ BeginShutdown \/ Shutdown

Spec == Init /\ [][Next]_vars

-----------------------------------------------------------------------------
\* The changes the worker and the queue still hold for s, oldest first.
Owed(s) ==
  CASE worker = "snapshot" -> batch \o queue_
    [] worker = "call" /\ s \in snapshot ->
         (IF s \in todo THEN batch ELSE Tail(batch)) \o queue_
    [] OTHER -> queue_

\* From the moment subscribe() returns (resource_change_notifier.cpp:30) until
\* it unsubscribes, a subscriber is called with every change its filter matches,
\* once and in the order the changes were queued, except those that a full
\* queue dropped (77-95): batches and snapshots taken meanwhile lose nothing.
OnlyOverflowIsMissed ==
  \A s \in subscriptions_ :
    LET Later(change) == change > since[s] /\ matches_filter(s, change)
    IN SelectSeq(delivered[s] \o Owed(s), Later)
         = SelectSeq([i \in 1..Len(accepted) |-> i], LAMBDA c : Later(c) /\ c \notin overflowed)

\* No thread sleeps through its wake-up (notify() 96 and 53-58, shutdown() 107-123):
\* the worker asleep over a change has a producer about to signal it, shutdown()
\* asleep in its drain has a notify() to end it, and once shutdown() waits for the
\* worker, the worker is not asleep and goes to sleep no more.
NoLostWakeUp ==
  /\ worker = "asleep" /\ queue_ # <<>> => \E p \in Producers : producer[p] = "signal"
  /\ main = "asleep" => active_notify_count_ > 0 \/ \E p \in Producers : producer[p] = "drain"
  /\ main \in {"join", "returned"} => worker \notin {"falling", "asleep"}

\* "Prevent destruction while we're inside this function"
\* (resource_change_notifier.cpp:45): once shutdown() returned, and the notifier
\* may be destroyed, no thread is inside notify() that passed the counter.
NobodyInside == main = "returned" => \A p \in Producers : producer[p] \notin {"push", "signal", "drain"}
=============================================================================
