----------------------- MODULE CaptureThreadPoolProofs -----------------------
(***************************************************************************)
(* Proofs about the capture pool, for every number of workers, queue depth *)
(* and number of offers.                                                   *)
(***************************************************************************)
EXTENDS CaptureThreadPool, FiniteSetTheorems, SequenceTheorems, TLAPS

USE PoolConstants

\* The clamp of the constructor makes the queue hold at least one capture.
LEMMA DepthIsPositive == queue_depth_ \in Nat \ {0}
BY DEF queue_depth_

\* What the queue operations of enqueue() and worker_loop() return.
LEMMA QueueOps ==
  ASSUME NEW q \in Seq(Codes), NEW c \in Codes
  PROVE  /\ Append(q, c) \in Seq(Codes) /\ Len(Append(q, c)) = Len(q) + 1
         /\ q # <<>> => /\ Tail(q) \in Seq(Codes) /\ Len(Tail(q)) = Len(q) - 1
                        /\ Head(q) \in Codes
                        /\ Append(Tail(q), c) \in Seq(Codes)
                        /\ Len(Append(Tail(q), c)) = Len(q)
         /\ Len(q) \in Nat
         /\ Len(q) = 0 <=> q = <<>>
OBVIOUS

\* The type invariant holds initially.
LEMMA TypeInit == Init => TypeOK
<1> SUFFICES ASSUME Init PROVE TypeOK OBVIOUS
<1>1. queue_ \in Seq(Codes) /\ Len(queue_) <= queue_depth_
  BY DepthIsPositive DEF Init
<1>2. offers \in 0..MaxOffers
  BY DEF Init
<1>b. stop_ \in BOOLEAN
  BY Zenon DEF Init
<1>3. worker \in [Workers -> {"check", "asleep", "run", "exited"}]
  BY DEF Init
<1> QED BY <1>1, <1>2, <1>b, <1>3 DEF Init, TypeOK

\* Waking one sleeper keeps the worker states well typed.
LEMMA NotifyType ==
  ASSUME TypeOK, NotifyOne
  PROVE  worker' \in [Workers -> {"check", "asleep", "run", "exited"}]
BY DEF TypeOK, NotifyOne, In, InState

\* Every step keeps the type invariant.
LEMMA TypeStep == TypeOK /\ [Next]_vars => TypeOK'
<1> SUFFICES ASSUME TypeOK, [Next]_vars PROVE TypeOK' OBVIOUS
<1>0. UNCHANGED queue_depth_
  BY DEF queue_depth_
<1>d. queue_depth_ \in Nat \ {0}
  BY DepthIsPositive
<1>1. ASSUME NEW code \in Codes, enqueue(code) PROVE TypeOK'
  <2> USE <1>1
  <2>1. /\ Append(queue_, code) \in Seq(Codes) /\ Len(Append(queue_, code)) = Len(queue_) + 1
        /\ queue_ # <<>> => /\ Append(Tail(queue_), code) \in Seq(Codes)
                            /\ Len(Append(Tail(queue_), code)) = Len(queue_)
        /\ Len(queue_) \in Nat
        /\ Len(queue_) = 0 <=> queue_ = <<>>
    BY QueueOps DEF TypeOK
  <2>2. CASE EnqueueRefused(code)
    BY <2>2, <1>0 DEF TypeOK, enqueue, EnqueueRefused
  <2>3. CASE EnqueueAccepted(code)
    BY <2>1, <2>3, <1>0, <1>d, NotifyType DEF TypeOK, enqueue, EnqueueAccepted
  <2>4. CASE EnqueueDroppedNewest(code)
    BY <2>4, <1>0 DEF TypeOK, enqueue, EnqueueDroppedNewest
  <2>5. CASE EnqueueEvictedOldest(code)
    BY <2>1, <2>5, <1>0, <1>d, NotifyType DEF TypeOK, enqueue, EnqueueEvictedOldest
  <2> QED BY <2>2, <2>3, <2>4, <2>5 DEF enqueue
<1>2. ASSUME NEW w \in Workers, WorkerStep(w) \/ SpuriousWakeup(w) PROVE TypeOK'
  <2>1. CASE WorkerSleeps(w)
    BY <2>1, <1>0 DEF TypeOK, WorkerSleeps, counters
  <2>2. CASE WorkerExits(w)
    BY <2>2, <1>0 DEF TypeOK, WorkerExits, counters
  <2>3. CASE WorkerTakesJob(w)
    <3>1. /\ Tail(queue_) \in Seq(Codes) /\ Len(Tail(queue_)) = Len(queue_) - 1
          /\ Head(queue_) \in Codes /\ Len(queue_) \in Nat
      BY <2>3, QueueOps DEF TypeOK, WorkerTakesJob
    <3> QED BY <3>1, <2>3, <1>0, <1>d DEF TypeOK, WorkerTakesJob
  <2>4. CASE WorkerFinishesJob(w)
    BY <2>4, <1>0 DEF TypeOK, WorkerFinishesJob, counters
  <2>5. CASE SpuriousWakeup(w)
    BY <2>5, <1>0 DEF TypeOK, SpuriousWakeup, counters
  <2> QED BY <1>2, <2>1, <2>2, <2>3, <2>4, <2>5 DEF WorkerStep
<1>3. CASE ShutdownStops
  BY <1>3, <1>0, <1>d DEF TypeOK, ShutdownStops
<1>4. CASE ShutdownNotifies
  BY <1>4, <1>0 DEF TypeOK, ShutdownNotifies, counters
<1>5. CASE ShutdownJoins
  BY <1>5, <1>0 DEF TypeOK, ShutdownJoins, counters
<1>6. CASE UNCHANGED vars
  BY <1>6, <1>0 DEF TypeOK, vars, counters
<1> QED BY <1>1, <1>2, <1>3, <1>4, <1>5, <1>6 DEF Next, Released

\* The pool's state stays well typed; in particular the queue never grows past
\* the configured depth.
THEOREM PoolTypeCorrect == SafetySpec => []TypeOK
BY TypeInit, TypeStep, PTL DEF SafetySpec

-----------------------------------------------------------------------------
\* stop_ is set exactly when shutdown() has begun, and the queue is then empty:
\* the discard shares the critical section, and enqueue() refuses from then on.
StopDiscards ==
  /\ stop_ <=> shut # "no"
  /\ stop_ => queue_ = <<>>

\* The inductive invariant: the three safety properties of the pool rest on
\* each other only through StopDiscards.
IInv ==
  /\ TypeOK
  /\ StopDiscards
  /\ NoSleepOverWork
  /\ EveryOfferAccountedFor
  /\ ShutdownBarrier

\* The set of workers in a state is finite.
LEMMA InFinite ==
  \A f, state : IsFiniteSet(InState(f, state)) /\ Cardinality(InState(f, state)) \in Nat
<1> TAKE f, state
<1>1. InState(f, state) \subseteq Workers
  BY DEF InState
<1> QED BY <1>1, FS_Subset, FS_CardinalityType

States == {"check", "asleep", "run", "exited"}

\* A worker that changes state changes the sizes of the two states by one.
LEMMA MoveWorker ==
  ASSUME NEW f \in [Workers -> States], NEW w \in Workers,
         NEW from \in States, NEW to \in States, f[w] = from, from # to
  PROVE  LET g == [f EXCEPT ![w] = to] IN
         /\ Cardinality(InState(g, to)) = Cardinality(InState(f, to)) + 1
         /\ Cardinality(InState(g, from)) = Cardinality(InState(f, from)) - 1
<1> DEFINE g == [f EXCEPT ![w] = to]
<1>1. InState(g, to) = InState(f, to) \cup {w} /\ w \notin InState(f, to)
  BY DEF InState
<1>2. InState(g, from) = InState(f, from) \ {w} /\ w \in InState(f, from)
  BY DEF InState
<1>4. Cardinality(InState(g, to)) = Cardinality(InState(f, to)) + 1
  BY <1>1, InFinite, FS_AddElement
<1>5. Cardinality(InState(g, from)) = Cardinality(InState(f, from)) - 1
  BY <1>2, InFinite, FS_RemoveElement
<1> QED BY <1>4, <1>5

\* notify_one() adds a worker to the ones about to look at the queue, unless
\* nobody sleeps; it never touches a running or an exited worker.
LEMMA NotifyEffect ==
  ASSUME TypeOK, NotifyOne
  PROVE  /\ In("asleep") = {} => worker' = worker
         /\ In("asleep") # {} => Cardinality(In("check")') = Cardinality(In("check")) + 1
         /\ In("run")' = In("run")
         /\ In("exited")' = In("exited")
<1>1. CASE In("asleep") = {}
  BY <1>1 DEF NotifyOne, In, InState
<1>2. CASE In("asleep") # {}
  <2>1. PICK w \in In("asleep") : worker' = [worker EXCEPT ![w] = "check"]
    BY <1>2 DEF NotifyOne
  <2>2. w \in Workers /\ worker[w] = "asleep"
    BY <2>1 DEF In, InState
  <2>3. Cardinality(In("check")') = Cardinality(In("check")) + 1
    BY <2>1, <2>2, MoveWorker DEF In, States, TypeOK
  <2>4. In("run")' = In("run") /\ In("exited")' = In("exited")
    BY <2>1, <2>2 DEF In, InState, TypeOK
  <2> QED BY <1>2, <2>3, <2>4
<1> QED BY <1>1, <1>2

\* Every step keeps "no pending capture waits behind a sleeping worker".
LEMMA NoSleepStep ==
  ASSUME TypeOK, StopDiscards, NoSleepOverWork, [Next]_vars
  PROVE  NoSleepOverWork'
<1>q. /\ Len(queue_) \in Nat /\ Len(<<>>) = 0
      /\ queue_ # <<>> => Len(Tail(queue_)) = Len(queue_) - 1
      /\ \A code \in Codes : /\ Len(Append(queue_, code)) = Len(queue_) + 1
                             /\ Len(queue_) > 0 => Len(Append(Tail(queue_), code)) = Len(queue_)
  BY QueueOps DEF TypeOK
<1>c. \A state : Cardinality(In(state)) \in Nat
  BY InFinite DEF In
<1>same. ASSUME UNCHANGED <<worker, queue_>> PROVE NoSleepOverWork'
  BY <1>same DEF NoSleepOverWork, In
<1>1. ASSUME NEW code \in Codes, enqueue(code) PROVE NoSleepOverWork'
  <2>1. CASE EnqueueRefused(code)
    BY <2>1, <1>same DEF EnqueueRefused
  <2>2. CASE EnqueueDroppedNewest(code)
    BY <2>2, <1>same DEF EnqueueDroppedNewest
  <2>3. ASSUME NotifyOne, Len(queue_') <= Len(queue_) + 1, Len(queue_') \in Nat
        PROVE  NoSleepOverWork'
    <3>1. CASE In("asleep") = {}
      <4>1. In("asleep")' = {}
        BY <2>3, <3>1, NotifyEffect DEF In
      <4> QED BY <4>1 DEF NoSleepOverWork
    <3>2. CASE In("asleep") # {}
      <4>1. Cardinality(In("check")') = Cardinality(In("check")) + 1
        BY <2>3, <3>2, NotifyEffect
      <4>2. Cardinality(In("check")) >= Len(queue_)
        BY <3>2 DEF NoSleepOverWork
      <4>3. Cardinality(In("check")') >= Len(queue_')
        BY <4>1, <4>2, <2>3, <1>c, <1>q
      <4> QED BY <4>3 DEF NoSleepOverWork
    <3> QED BY <3>1, <3>2
  <2>4. CASE EnqueueAccepted(code)
    BY <2>3, <2>4, <1>q DEF EnqueueAccepted
  <2>5. CASE EnqueueEvictedOldest(code)
    <3>1. Len(queue_) > 0
      BY <2>5, DepthIsPositive, <1>q DEF EnqueueEvictedOldest
    <3> QED BY <3>1, <2>3, <2>5, <1>q DEF EnqueueEvictedOldest
  <2> QED BY <1>1, <2>1, <2>2, <2>4, <2>5 DEF enqueue
<1>2. ASSUME NEW w \in Workers, WorkerStep(w) \/ SpuriousWakeup(w) PROVE NoSleepOverWork'
  <2>1. CASE WorkerSleeps(w)
    <3>1. Len(queue_') = 0 /\ Cardinality(In("check")') \in Nat
      <4>1. In("check")' \subseteq Workers
        BY DEF In, InState
      <4> QED BY <4>1, <2>1, <1>q, FS_Subset, FS_CardinalityType DEF WorkerSleeps
    <3> QED BY <3>1 DEF NoSleepOverWork
  <2>2. CASE WorkerExits(w)
    <3>1. Len(queue_') = 0 /\ Cardinality(In("check")') \in Nat
      <4>1. In("check")' \subseteq Workers
        BY DEF In, InState
      <4> QED BY <4>1, <2>2, <1>q, FS_Subset, FS_CardinalityType DEF WorkerExits, StopDiscards
    <3> QED BY <3>1 DEF NoSleepOverWork
  <2>3. CASE WorkerTakesJob(w)
    <3>1. Cardinality(In("check")') = Cardinality(In("check")) - 1
      BY <2>3, MoveWorker DEF In, States, TypeOK, WorkerTakesJob
    <3>a. In("asleep")' = In("asleep")
      BY <2>3 DEF In, InState, TypeOK, WorkerTakesJob
    <3>2. Len(queue_') = Len(queue_) - 1
      BY <2>3, <1>q DEF WorkerTakesJob
    <3>3. In("asleep") # {} => Cardinality(In("check")') >= Len(queue_')
      BY <3>1, <3>2, <1>c, <1>q DEF NoSleepOverWork
    <3> QED BY <3>a, <3>3 DEF NoSleepOverWork
  <2>4. CASE WorkerFinishesJob(w)
    <3>1. Cardinality(In("check")') = Cardinality(In("check")) + 1
      BY <2>4, MoveWorker DEF In, States, TypeOK, WorkerFinishesJob
    <3>a. In("asleep")' = In("asleep")
      BY <2>4 DEF In, InState, TypeOK, WorkerFinishesJob
    <3>2. In("asleep") # {} => Cardinality(In("check")') >= Len(queue_')
      BY <3>1, <2>4, <1>c, <1>q DEF NoSleepOverWork, WorkerFinishesJob
    <3> QED BY <3>a, <3>2 DEF NoSleepOverWork
  <2>5. CASE SpuriousWakeup(w)
    <3>1. Cardinality(In("check")') = Cardinality(In("check")) + 1
      BY <2>5, MoveWorker DEF In, States, TypeOK, SpuriousWakeup
    <3>2. In("asleep") # {}
      BY <2>5 DEF SpuriousWakeup, In, InState
    <3>3. Cardinality(In("check")') >= Len(queue_')
      BY <3>1, <3>2, <2>5, <1>c, <1>q DEF NoSleepOverWork, SpuriousWakeup
    <3> QED BY <3>3 DEF NoSleepOverWork
  <2> QED BY <1>2, <2>1, <2>2, <2>3, <2>4, <2>5 DEF WorkerStep
<1>3. CASE ShutdownStops
  <2>1. Len(queue_') = 0 /\ In("check")' = In("check")
    BY <1>3, <1>q DEF ShutdownStops, In
  <2>2. Cardinality(In("check")') >= Len(queue_')
    BY <2>1, <1>c
  <2> QED BY <2>2 DEF NoSleepOverWork
<1>4. CASE ShutdownNotifies
  <2>1. In("asleep")' = {}
    BY <1>4 DEF ShutdownNotifies, In, InState
  <2> QED BY <2>1 DEF NoSleepOverWork
<1>5. CASE ShutdownJoins
  BY <1>5, <1>same DEF ShutdownJoins
<1>6. CASE UNCHANGED vars
  BY <1>6, <1>same DEF vars
<1> QED BY <1>1, <1>2, <1>3, <1>4, <1>5, <1>6 DEF Next, Released

\* Every step keeps the account of the offers and the link between stop_, the
\* phase of shutdown() and the empty queue.
LEMMA AccountStep ==
  ASSUME TypeOK, StopDiscards, EveryOfferAccountedFor, [Next]_vars
  PROVE  StopDiscards' /\ EveryOfferAccountedFor'
<1>q. /\ Len(queue_) \in Nat /\ Len(<<>>) = 0
      /\ queue_ # <<>> => Len(Tail(queue_)) = Len(queue_) - 1
      /\ \A code \in Codes : /\ Len(Append(queue_, code)) = Len(queue_) + 1
                             /\ Len(queue_) > 0 => Len(Append(Tail(queue_), code)) = Len(queue_)
  BY QueueOps DEF TypeOK
<1>n. /\ offers \in Nat /\ started \in Nat /\ discarded \in Nat
      /\ dropped_captures_ \in Nat /\ refused \in Nat
  BY DEF TypeOK
<1> USE DEF StopDiscards, EveryOfferAccountedFor
<1>1. ASSUME NEW code \in Codes, enqueue(code)
      PROVE  StopDiscards' /\ EveryOfferAccountedFor'
  <2>1. CASE EnqueueRefused(code)
    BY <1>1, <2>1, <1>n, <1>q DEF EnqueueRefused, enqueue
  <2>2. CASE EnqueueAccepted(code)
    BY <1>1, <2>2, <1>n, <1>q DEF EnqueueAccepted, enqueue
  <2>3. CASE EnqueueDroppedNewest(code)
    BY <1>1, <2>3, <1>n, <1>q DEF EnqueueDroppedNewest, enqueue
  <2>4. CASE EnqueueEvictedOldest(code)
    <3>1. Len(queue_) > 0
      BY <2>4, DepthIsPositive, <1>q DEF EnqueueEvictedOldest
    <3>a. Len(queue_') = Len(queue_)
      BY <2>4, <3>1, <1>q DEF EnqueueEvictedOldest
    <3>b. /\ offers' = offers + 1 /\ dropped_captures_' = dropped_captures_ + 1
          /\ UNCHANGED <<started, discarded, refused>>
      BY <1>1, <2>4 DEF EnqueueEvictedOldest, enqueue
    <3>2. EveryOfferAccountedFor'
      BY <3>a, <3>b, <1>n, <1>q
    <3>3. StopDiscards'
      BY <1>1, <2>4 DEF EnqueueEvictedOldest, enqueue
    <3> QED BY <3>2, <3>3
  <2> QED BY <1>1, <2>1, <2>2, <2>3, <2>4 DEF enqueue
<1>2. ASSUME NEW w \in Workers, WorkerStep(w) \/ SpuriousWakeup(w)
      PROVE  StopDiscards' /\ EveryOfferAccountedFor'
  <2>1. CASE WorkerTakesJob(w)
    BY <2>1, <1>n, <1>q DEF WorkerTakesJob
  <2>2. CASE UNCHANGED <<queue_, stop_, dropped_captures_, shut, counters>>
    BY <2>2 DEF counters
  <2> QED BY <1>2, <2>1, <2>2
          DEF WorkerStep, WorkerSleeps, WorkerExits, WorkerFinishesJob, SpuriousWakeup
<1>3. CASE ShutdownStops
  <2>1. EveryOfferAccountedFor'
    BY <1>3, <1>n, <1>q DEF ShutdownStops
  <2>2. StopDiscards'
    BY <1>3 DEF ShutdownStops
  <2> QED BY <2>1, <2>2
<1>4. CASE ShutdownNotifies
  BY <1>4 DEF ShutdownNotifies, counters
<1>5. CASE ShutdownJoins
  BY <1>5 DEF ShutdownJoins, counters
<1>6. CASE UNCHANGED vars
  BY <1>6 DEF vars, counters
<1> QED BY <1>1, <1>2, <1>3, <1>4, <1>5, <1>6 DEF Next, Released

\* Once shutdown() has returned, nothing moves: an exited worker has no step and
\* enqueue() refuses.
LEMMA BarrierStep ==
  ASSUME TypeOK, StopDiscards, ShutdownBarrier, [Next]_vars
  PROVE  ShutdownBarrier'
<1>1. CASE ShutdownJoins
  BY <1>1 DEF ShutdownJoins, ShutdownBarrier, StopDiscards, In
<1>2. CASE ~ShutdownJoins
  <2> SUFFICES ASSUME shut' = "released" PROVE In("exited")' = Workers /\ queue_' = <<>>
    BY DEF ShutdownBarrier
  <2>1. shut = "released"
    BY <1>2 DEF Next, enqueue, WorkerStep, WorkerSleeps, WorkerExits, WorkerTakesJob,
           WorkerFinishesJob, SpuriousWakeup, ShutdownStops, ShutdownNotifies, Released, vars
  <2>2. stop_ /\ queue_ = <<>> /\ \A w \in Workers : worker[w] = "exited"
    BY <2>1 DEF ShutdownBarrier, StopDiscards, In, InState
  <2>3. UNCHANGED <<queue_, worker>>
    BY <2>1, <2>2, <1>2
       DEF Next, enqueue, EnqueueRefused, EnqueueAccepted, EnqueueDroppedNewest,
           EnqueueEvictedOldest, WorkerStep, WorkerSleeps, WorkerExits, WorkerTakesJob,
           WorkerFinishesJob, SpuriousWakeup, ShutdownStops, ShutdownNotifies, Released, vars
  <2> QED BY <2>2, <2>3 DEF In, InState
<1> QED BY <1>1, <1>2

\* The strengthened invariant is inductive.
LEMMA PoolInductive == SafetySpec => []IInv
<1>1. Init => IInv
  <2> SUFFICES ASSUME Init PROVE IInv OBVIOUS
  <2>1. In("asleep") = {}
    BY DEF Init, In, InState
  <2>2. StopDiscards /\ ShutdownBarrier
    BY DEF Init, StopDiscards, ShutdownBarrier
  <2>3. EveryOfferAccountedFor
    BY DEF Init, EveryOfferAccountedFor
  <2> QED BY <2>1, <2>2, <2>3, TypeInit DEF IInv, NoSleepOverWork
<1>2. IInv /\ [Next]_vars => IInv'
  BY TypeStep, NoSleepStep, AccountStep, BarrierStep DEF IInv
<1> QED BY <1>1, <1>2, PTL DEF SafetySpec

\* No capture waits behind a sleeping worker, whatever the pool's size: enqueue's
\* single notify_one() per accepted job is enough.
THEOREM PoolNoLostWakeup == SafetySpec => []NoSleepOverWork
<1>1. IInv => NoSleepOverWork
  BY DEF IInv
<1> QED BY <1>1, PoolInductive, PTL

\* Every capture offered to the pool is accounted for exactly once.
THEOREM PoolAccounts == SafetySpec => []EveryOfferAccountedFor
<1>1. IInv => EveryOfferAccountedFor
  BY DEF IInv
<1> QED BY <1>1, PoolInductive, PTL

\* shutdown() is a barrier: when it returns all workers are gone and nothing is
\* pending, whatever enqueue() calls raced with it.
THEOREM PoolShutdownBarrier == SafetySpec => []ShutdownBarrier
<1>1. IInv => ShutdownBarrier
  BY DEF IInv
<1> QED BY <1>1, PoolInductive, PTL

-----------------------------------------------------------------------------
\* Every step of the pool is a step of the abstract bounded queue or leaves it
\* as it is.
LEMMA RefineStep ==
  ASSUME IInv, [Next]_vars
  PROVE  [Abstract!BNext]_(Abstract!bvars)
<1> DEFINE running == Cardinality(In("run"))
<1>t. TypeOK /\ StopDiscards /\ ShutdownBarrier
  BY DEF IInv
<1>u. UNCHANGED queue_depth_
  BY DEF queue_depth_
<1>d. queue_depth_ \in Nat \ {0}
  BY DepthIsPositive
<1>stutter. ASSUME UNCHANGED <<queue_, shut>>, In("run")' = In("run")
            PROVE  [Abstract!BNext]_(Abstract!bvars)
  BY <1>stutter DEF Abstract!bvars
<1>1. ASSUME NEW code \in Codes, enqueue(code) PROVE [Abstract!BNext]_(Abstract!bvars)
  <2>s. shut' = shut
    BY <1>1 DEF enqueue
  <2>1. CASE EnqueueRefused(code) \/ EnqueueDroppedNewest(code)
    BY <2>1, <2>s, <1>stutter DEF EnqueueRefused, EnqueueDroppedNewest, In
  <2>2. CASE EnqueueAccepted(code)
    <3>1. In("run")' = In("run") /\ shut = "no"
      BY <2>2, <1>t, NotifyEffect DEF EnqueueAccepted, StopDiscards
    <3>2. Abstract!Accept(code)
      BY <2>2, <3>1, <2>s DEF EnqueueAccepted, Abstract!Accept
    <3> QED BY <3>2 DEF Abstract!BNext
  <2>3. CASE EnqueueEvictedOldest(code)
    <3>1. In("run")' = In("run") /\ shut = "no"
      BY <2>3, <1>t, NotifyEffect DEF EnqueueEvictedOldest, StopDiscards
    <3>2. Len(queue_) = queue_depth_
      BY <2>3, <1>t, <1>d, QueueOps DEF EnqueueEvictedOldest, TypeOK
    <3>3. Abstract!Replace(code)
      BY <2>3, <3>1, <3>2, <2>s DEF EnqueueEvictedOldest, Abstract!Replace
    <3> QED BY <3>3 DEF Abstract!BNext
  <2> QED BY <1>1, <2>1, <2>2, <2>3 DEF enqueue
<1>2. ASSUME NEW w \in Workers, WorkerStep(w) \/ SpuriousWakeup(w)
      PROVE  [Abstract!BNext]_(Abstract!bvars)
  <2>1. CASE WorkerSleeps(w) \/ WorkerExits(w) \/ SpuriousWakeup(w)
    <3>1. In("run")' = In("run")
      BY <2>1, <1>t DEF WorkerSleeps, WorkerExits, SpuriousWakeup, In, InState, TypeOK
    <3> QED BY <2>1, <3>1, <1>stutter DEF WorkerSleeps, WorkerExits, SpuriousWakeup
  <2>2. CASE WorkerTakesJob(w)
    <3>1. running' = running + 1
      BY <2>2, <1>t, MoveWorker DEF WorkerTakesJob, In, States, TypeOK
    <3>2. running < Cardinality(Workers)
      <4>1. In("run") \subseteq Workers /\ In("run") # Workers
        BY <2>2 DEF WorkerTakesJob, In, InState
      <4> QED BY <4>1, FS_Subset, FS_CardinalityType
    <3>3. shut = "no" /\ shut' = "no"
      BY <2>2, <1>t DEF WorkerTakesJob, StopDiscards
    <3>4. Abstract!Start
      BY <2>2, <3>1, <3>2, <3>3 DEF WorkerTakesJob, Abstract!Start
    <3> QED BY <3>4 DEF Abstract!BNext
  <2>3. CASE WorkerFinishesJob(w)
    <3>1. running' = running - 1
      BY <2>3, <1>t, MoveWorker DEF WorkerFinishesJob, In, States, TypeOK
    <3>2. running > 0
      <4>1. w \in In("run") /\ IsFiniteSet(In("run"))
        BY <2>3, InFinite DEF WorkerFinishesJob, In, InState
      <4> QED BY <4>1, FS_EmptySet, FS_CardinalityType
    <3>3. Abstract!Finish
      BY <2>3, <3>1, <3>2 DEF WorkerFinishesJob, Abstract!Finish
    <3> QED BY <3>3 DEF Abstract!BNext
  <2> QED BY <1>2, <2>1, <2>2, <2>3 DEF WorkerStep
<1>3. CASE ShutdownStops
  <2>1. In("run")' = In("run")
    BY <1>3 DEF ShutdownStops, In
  <2>2. Abstract!Close
    BY <1>3, <2>1 DEF ShutdownStops, Abstract!Close
  <2> QED BY <2>2 DEF Abstract!BNext
<1>4. CASE ShutdownNotifies
  <2>1. In("run")' = In("run")
    BY <1>4, <1>t DEF ShutdownNotifies, In, InState, TypeOK
  <2> QED BY <1>4, <2>1 DEF ShutdownNotifies, Abstract!bvars
<1>5. CASE ShutdownJoins
  <2>1. In("run")' = In("run") /\ In("run") = {}
    BY <1>5 DEF ShutdownJoins, In, InState
  <2>2. Abstract!Closed
    BY <1>5, <2>1, FS_EmptySet DEF ShutdownJoins, Abstract!Closed
  <2> QED BY <2>2 DEF Abstract!BNext
<1>6. CASE UNCHANGED vars
  BY <1>6, <1>stutter DEF vars, In
<1> QED BY <1>1, <1>2, <1>3, <1>4, <1>5, <1>6 DEF Next, Released

\* The pool implements the plain bounded queue its class comment promises, for
\* every number of workers, every depth and both full-queue policies.
THEOREM PoolRefinement == SafetySpec => ImplementsBoundedCaptures
<1>1. Init => Abstract!BInit
  <2> SUFFICES ASSUME Init PROVE Abstract!BInit OBVIOUS
  <2>1. In("run") = {}
    BY DEF Init, In, InState
  <2> QED BY <2>1, FS_EmptySet DEF Init, Abstract!BInit
<1>2. IInv /\ [Next]_vars => [Abstract!BNext]_(Abstract!bvars)
  BY RefineStep
<1>3. SafetySpec => []IInv
  BY PoolInductive
<1> QED BY <1>1, <1>2, <1>3, PTL DEF SafetySpec, ImplementsBoundedCaptures, Abstract!BSpec

=============================================================================
