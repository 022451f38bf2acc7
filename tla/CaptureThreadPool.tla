-------------------------- MODULE CaptureThreadPool --------------------------
(***************************************************************************)
(* The bounded worker pool that runs fault captures off the service        *)
(* thread (capture_thread_pool.cpp).  One action per critical section of   *)
(* queue_mutex_: the mutex makes each of them atomic, and the job itself   *)
(* runs between two of them.  The condition variable is modelled by the    *)
(* set of workers asleep on it: notify_one wakes some sleeper, if there    *)
(* is one; notify_all wakes them all; a sleeper may also wake spuriously.  *)
(***************************************************************************)
EXTENDS Integers, Sequences, FiniteSets

CONSTANTS Codes,          \* fault codes that can be offered for capture
          Workers,        \* the worker threads the constructor starts
          QueueDepthArg,  \* the queue_depth argument of the constructor
          MaxOffers       \* bound: how many captures are ever offered

ASSUME PoolConstants ==
  /\ IsFiniteSet(Workers) /\ Workers # {}
  /\ QueueDepthArg \in Nat
  /\ MaxOffers \in Nat

Policies == {"kRejectNewest", "kDropOldest"}

\* The constructor's clamp: a depth of 0 would make kDropOldest pop an empty deque.
queue_depth_ == IF QueueDepthArg = 0 THEN 1 ELSE QueueDepthArg

VARIABLES
  full_policy_,       \* what a full queue does, fixed at construction
  queue_,             \* pending fault codes, oldest first
  stop_,              \* set once by shutdown()
  dropped_captures_,  \* the storm-drop counter the class publishes
  worker,             \* worker -> "check" | "asleep" | "run" | "exited"
  job,                \* worker -> the code it runs (meaningful while "run")
  shut,               \* shutdown(): "no" | "notify" | "join" | "released"
  offers, accepted, started, evicted, discarded, refused  \* history counters

counters == <<offers, accepted, started, evicted, discarded, refused>>
vars == <<full_policy_, queue_, stop_, dropped_captures_, worker, job, shut, counters>>

\* The workers that a state function f puts in a state; those in it now.
InState(f, state) == {w \in Workers : f[w] = state}
In(state) == InState(worker, state)

TypeOK ==
  /\ full_policy_ \in Policies
  /\ queue_ \in Seq(Codes) /\ Len(queue_) <= queue_depth_
  /\ stop_ \in BOOLEAN
  /\ dropped_captures_ \in Nat
  /\ worker \in [Workers -> {"check", "asleep", "run", "exited"}]
  /\ job \in [Workers -> Codes]
  /\ shut \in {"no", "notify", "join", "released"}
  /\ offers \in 0..MaxOffers
  /\ accepted \in Nat /\ started \in Nat /\ evicted \in Nat
  /\ discarded \in Nat /\ refused \in Nat

Init ==
  /\ full_policy_ \in Policies
  /\ queue_ = <<>>
  /\ stop_ = FALSE
  /\ dropped_captures_ = 0
  /\ worker = [w \in Workers |-> "check"]
  /\ job \in [Workers -> Codes]
  /\ shut = "no"
  /\ offers = 0 /\ accepted = 0 /\ started = 0
  /\ evicted = 0 /\ discarded = 0 /\ refused = 0

-----------------------------------------------------------------------------
\* cv_.notify_one(): some sleeping worker, if any, goes back to the predicate.
NotifyOne ==
  IF In("asleep") = {}
  THEN UNCHANGED worker
  ELSE \E w \in In("asleep") : worker' = [worker EXCEPT ![w] = "check"]

\* enqueue() after shutdown() set stop_: kRejectedShuttingDown.
EnqueueRefused(code) ==
  /\ stop_
  /\ refused' = refused + 1
  /\ UNCHANGED <<queue_, dropped_captures_, worker, accepted, evicted>>

\* Slips of enqueue() with room, which the checks must catch: the new capture
\* wakes nobody; the test for room is off by one; stop_ is not looked at.
EnqueueAccepted_NoNotify(code) ==
  /\ ~stop_ /\ Len(queue_) < queue_depth_
  /\ queue_' = Append(queue_, code)
  /\ accepted' = accepted + 1
  /\ UNCHANGED <<worker, dropped_captures_, evicted, refused>>

EnqueueAccepted_OneTooMany(code) ==
  /\ ~stop_ /\ Len(queue_) <= queue_depth_
  /\ queue_' = Append(queue_, code)
  /\ accepted' = accepted + 1
  /\ NotifyOne
  /\ UNCHANGED <<dropped_captures_, evicted, refused>>

EnqueueAccepted_AfterStop(code) ==
  /\ Len(queue_) < queue_depth_
  /\ queue_' = Append(queue_, code)
  /\ accepted' = accepted + 1
  /\ NotifyOne
  /\ UNCHANGED <<dropped_captures_, evicted, refused>>

\* enqueue() with room: kAccepted.
EnqueueAccepted(code) ==
  /\ ~stop_
  /\ Len(queue_) < queue_depth_
  /\ queue_' = Append(queue_, code)
  /\ accepted' = accepted + 1
  /\ NotifyOne
  /\ UNCHANGED <<dropped_captures_, evicted, refused>>

\* enqueue() on a full queue under kRejectNewest: kDroppedNewest.
EnqueueDroppedNewest(code) ==
  /\ ~stop_
  /\ Len(queue_) >= queue_depth_
  /\ full_policy_ = "kRejectNewest"
  /\ dropped_captures_' = dropped_captures_ + 1
  /\ UNCHANGED <<queue_, worker, accepted, evicted, refused>>

\* A slip: the eviction is not counted as a dropped capture.
EnqueueEvictedOldest_Uncounted(code) ==
  /\ ~stop_ /\ Len(queue_) >= queue_depth_
  /\ full_policy_ = "kDropOldest"
  /\ queue_' = Append(Tail(queue_), code)
  /\ accepted' = accepted + 1
  /\ evicted' = evicted + 1
  /\ NotifyOne
  /\ UNCHANGED <<dropped_captures_, refused>>

\* enqueue() on a full queue under kDropOldest: kEvictedOldest.
EnqueueEvictedOldest(code) ==
  /\ ~stop_
  /\ Len(queue_) >= queue_depth_
  /\ full_policy_ = "kDropOldest"
  /\ queue_' = Append(Tail(queue_), code)
  /\ dropped_captures_' = dropped_captures_ + 1
  /\ accepted' = accepted + 1
  /\ evicted' = evicted + 1
  /\ NotifyOne
  /\ UNCHANGED refused

enqueue(code) ==
  /\ offers < MaxOffers
  /\ offers' = offers + 1
  /\ \/ EnqueueRefused(code)
     \/ EnqueueAccepted(code)
     \/ EnqueueDroppedNewest(code)
     \/ EnqueueEvictedOldest(code)
  /\ UNCHANGED <<full_policy_, stop_, job, shut, started, discarded>>

\* worker_loop(): the predicate of cv_.wait is false, so the worker sleeps.
WorkerSleeps(w) ==
  /\ worker[w] = "check"
  /\ ~stop_ /\ queue_ = <<>>
  /\ worker' = [worker EXCEPT ![w] = "asleep"]
  /\ UNCHANGED <<full_policy_, queue_, stop_, dropped_captures_, job, shut, counters>>

SpuriousWakeup(w) ==
  /\ worker[w] = "asleep"
  /\ worker' = [worker EXCEPT ![w] = "check"]
  /\ UNCHANGED <<full_policy_, queue_, stop_, dropped_captures_, job, shut, counters>>

\* worker_loop(): stop_ is tested before a job is taken.
WorkerExits(w) ==
  /\ worker[w] = "check"
  /\ stop_
  /\ worker' = [worker EXCEPT ![w] = "exited"]
  /\ UNCHANGED <<full_policy_, queue_, stop_, dropped_captures_, job, shut, counters>>

\* A slip: the newest pending job is taken instead of the oldest.
WorkerTakesJob_Newest(w) ==
  /\ worker[w] = "check"
  /\ ~stop_ /\ queue_ # <<>>
  /\ job' = [job EXCEPT ![w] = queue_[Len(queue_)]]
  /\ queue_' = SubSeq(queue_, 1, Len(queue_) - 1)
  /\ worker' = [worker EXCEPT ![w] = "run"]
  /\ started' = started + 1
  /\ UNCHANGED <<full_policy_, stop_, dropped_captures_, shut,
                 offers, accepted, evicted, discarded, refused>>

WorkerTakesJob(w) ==
  /\ worker[w] = "check"
  /\ ~stop_ /\ queue_ # <<>>
  /\ job' = [job EXCEPT ![w] = Head(queue_)]
  /\ queue_' = Tail(queue_)
  /\ worker' = [worker EXCEPT ![w] = "run"]
  /\ started' = started + 1
  /\ UNCHANGED <<full_policy_, stop_, dropped_captures_, shut,
                 offers, accepted, evicted, discarded, refused>>

\* capture_fn_(job) returns or throws; both lead back to the top of the loop.
WorkerFinishesJob(w) ==
  /\ worker[w] = "run"
  /\ worker' = [worker EXCEPT ![w] = "check"]
  /\ UNCHANGED <<full_policy_, queue_, stop_, dropped_captures_, job, shut, counters>>

\* shutdown(): stop_ and the discard of the pending jobs share one critical section.
ShutdownStops ==
  /\ shut = "no"
  /\ stop_' = TRUE
  /\ discarded' = discarded + Len(queue_)
  /\ queue_' = <<>>
  /\ shut' = "notify"
  /\ UNCHANGED <<full_policy_, dropped_captures_, worker, job,
                 offers, accepted, started, evicted, refused>>

\* A slip: shutdown() notifies one worker, the others sleep through it.
ShutdownNotifies_One ==
  /\ shut = "notify"
  /\ NotifyOne
  /\ shut' = "join"
  /\ UNCHANGED <<full_policy_, queue_, stop_, dropped_captures_, job, counters>>

\* shutdown(): notify_all() runs after the lock is released.
ShutdownNotifies ==
  /\ shut = "notify"
  /\ worker' = [w \in Workers |-> IF worker[w] = "asleep" THEN "check" ELSE worker[w]]
  /\ shut' = "join"
  /\ UNCHANGED <<full_policy_, queue_, stop_, dropped_captures_, job, counters>>

\* shutdown(): every join() has returned, capture_fn_ is released.
ShutdownJoins ==
  /\ shut = "join"
  /\ In("exited") = Workers
  /\ shut' = "released"
  /\ UNCHANGED <<full_policy_, queue_, stop_, dropped_captures_, worker, job, counters>>

\* After shutdown() returned nothing is left to do.
Released == shut = "released" /\ UNCHANGED vars

WorkerStep(w) ==
  \/ WorkerSleeps(w) \/ WorkerExits(w) \/ WorkerTakesJob(w) \/ WorkerFinishesJob(w)

Next ==
  \/ \E code \in Codes : enqueue(code)
  \/ \E w \in Workers : WorkerStep(w) \/ SpuriousWakeup(w)
  \/ ShutdownStops \/ ShutdownNotifies \/ ShutdownJoins
  \/ Released

\* The OS schedules every runnable worker and the thread inside shutdown(), and
\* a capture returns (its topic reads have timeouts).  Nobody has to call
\* enqueue() or shutdown(), and nobody owes a sleeper a spurious wakeup.
Fairness ==
  /\ \A w \in Workers : WF_vars(WorkerStep(w))
  /\ WF_vars(ShutdownNotifies)
  /\ WF_vars(ShutdownJoins)

SafetySpec == Init /\ [][Next]_vars
Spec == SafetySpec /\ Fairness

-----------------------------------------------------------------------------
\* No lost wakeup (enqueue's notify_one against worker_loop's wait): when a
\* worker sleeps, every pending capture has a worker of its own already on its
\* way to the queue, so no capture waits behind an idle thread.
NoSleepOverWork == In("asleep") # {} => Cardinality(In("check")) >= Len(queue_)

\* Every confirmation handed to enqueue() is explained: it started, it is
\* pending, shutdown() discarded or refused it, or the published
\* dropped_captures() counter counted it, exactly once.
EveryOfferAccountedFor ==
  offers = started + Len(queue_) + discarded + dropped_captures_ + refused

\* When shutdown() returns, no worker can touch capture_fn_ or the objects it
\* captured again, and no capture was accepted that now never runs.
ShutdownBarrier ==
  shut = "released" => In("exited") = Workers /\ queue_ = <<>>

\* The k-th accepted capture does not wait for ever: it is started, or given up
\* to a newer one under kDropOldest, or discarded by shutdown().
AcceptedIsDealtWith ==
  \A k \in 1..MaxOffers : (accepted >= k) ~> (started + evicted + discarded >= k)

\* shutdown(), once called, returns: no worker sleeps through it.
ShutdownReturns == stop_ ~> (shut = "released")

\* The pool keeps the promise its owner relies on: threads, lock and condition
\* variable implement the plain bounded queue of BoundedCaptures.
Abstract == INSTANCE BoundedCaptures WITH
  PoolSize <- Cardinality(Workers),
  Depth    <- queue_depth_,
  pending  <- queue_,
  running  <- Cardinality(In("run")),
  phase    <- CASE shut = "no" -> "open"
                [] shut = "released" -> "closed"
                [] OTHER -> "closing"

\* Every behaviour of the pool is one of the abstract bounded queue.
ImplementsBoundedCaptures == Abstract!BSpec

=============================================================================
