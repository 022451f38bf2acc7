----------------------------- MODULE MCTriggers -----------------------------
(***************************************************************************)
(* Triggers and the notifier that feeds them, in one run.  The trigger     *)
(* manager sees of the notifier its worker and a queue; the notifier's own *)
(* threads are checked by themselves.  subject says what a behaviour is    *)
(* of: the life of triggers over a restart without a stream, a stream of   *)
(* one trigger without a restart, or the notifier.                         *)
(***************************************************************************)
EXTENDS TriggerManager

Asked(multishot, persistent, lifetime, topic) ==
  [multishot |-> multishot, persistent |-> persistent, lifetime |-> lifetime, topic |-> topic]

MCIds == 1..2
MCRequests == {Asked(TRUE, TRUE, TRUE, "resolved"), Asked(FALSE, TRUE, FALSE, "unresolved"),
               Asked(TRUE, FALSE, FALSE, "none")}

CONSTANTS p1, p2, s1

\* Two producers, of which the subscriber listens to one.
MCTopic == [p \in {p1, p2} |-> IF p = p1 THEN "data" ELSE "faults"]
MCFilter == [s \in {s1} |-> {"data"}]

CONSTANTS Producers, Subscribers, Filter, Topic, max_queue_size_, MaxNotifies

VARIABLES
  producer, calls, active_notify_count_, shutdown_flag_, queue_, notifier_worker, batch,
  snapshot, todo, subscriptions_, main, accepted, overflowed, since, delivered,
  subject   \* "lifecycle" | "streaming" | "notifier"

notifierVars ==
  <<producer, calls, active_notify_count_, shutdown_flag_, queue_, notifier_worker, batch,
    snapshot, todo, subscriptions_, main, accepted, overflowed, since, delivered>>

Notifier == INSTANCE ResourceChangeNotifier WITH worker <- notifier_worker, MaxChanges <- MaxNotifies

\* A subscriber misses only what a full queue dropped.
OnlyOverflowIsMissed == Notifier!OnlyOverflowIsMissed

\* No thread of the notifier sleeps through its wake-up.
NoLostWakeUp == Notifier!NoLostWakeUp

TriggersInit == Init /\ Notifier!Init /\ subject \in {"lifecycle", "streaming", "notifier"}

\* One change, or one trigger, is enough where the other is not bounded.
Bounds ==
  /\ subject = "lifecycle" => stream' = NoStream /\ changes' <= 1
  /\ subject = "streaming" => restarts' = restarts /\ next_id_' <= 2 /\ requests' + changes' <= 3

TriggersNext ==
  \/ subject # "notifier" /\ Next /\ Bounds /\ UNCHANGED <<notifierVars, subject>>
  \/ subject = "notifier" /\ Notifier!Next /\ UNCHANGED <<vars, subject>>

TriggersSpec == TriggersInit /\ [][TriggersNext]_<<vars, notifierVars, subject>> /\ Fairness
=============================================================================
