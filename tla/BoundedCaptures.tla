--------------------------- MODULE BoundedCaptures ---------------------------
(***************************************************************************)
(* What CaptureThreadPool promises its owner (the class comment in         *)
(* capture_thread_pool.hpp): at most PoolSize captures run at once, at     *)
(* most Depth wait, waiting captures start in the order they were          *)
(* accepted, and closing the pool lets running captures finish while it    *)
(* discards waiting ones.  No thread, lock or condition variable appears.  *)
(***************************************************************************)
EXTENDS Integers, Sequences

CONSTANTS Codes, PoolSize, Depth

VARIABLES pending,  \* accepted and not yet started, oldest first
          running,  \* how many captures run
          phase     \* "open" | "closing" | "closed"

bvars == <<pending, running, phase>>

BInit == pending = <<>> /\ running = 0 /\ phase = "open"

Accept(code) ==
  /\ phase = "open" /\ Len(pending) < Depth
  /\ pending' = Append(pending, code)
  /\ UNCHANGED <<running, phase>>

\* A full queue may give up its oldest capture for the new one.
Replace(code) ==
  /\ phase = "open" /\ Len(pending) = Depth
  /\ pending' = Append(Tail(pending), code)
  /\ UNCHANGED <<running, phase>>

Start ==
  /\ phase = "open" /\ pending # <<>> /\ running < PoolSize
  /\ pending' = Tail(pending)
  /\ running' = running + 1
  /\ UNCHANGED phase

Finish ==
  /\ running > 0
  /\ running' = running - 1
  /\ UNCHANGED <<pending, phase>>

Close ==
  /\ phase = "open"
  /\ phase' = "closing"
  /\ pending' = <<>>
  /\ UNCHANGED running

Closed ==
  /\ phase = "closing" /\ running = 0
  /\ phase' = "closed"
  /\ UNCHANGED <<pending, running>>

BNext ==
  \/ \E code \in Codes : Accept(code) \/ Replace(code)
  \/ Start \/ Finish \/ Close \/ Closed

BSpec == BInit /\ [][BNext]_bvars

=============================================================================
