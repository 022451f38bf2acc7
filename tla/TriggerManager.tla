--------------------------- MODULE TriggerManager ---------------------------
(***************************************************************************)
(* Resource triggers (trigger_manager.cpp), their rows in the trigger      *)
(* store, and an event stream (trigger_handlers.cpp): an HTTP client that  *)
(* creates, prolongs and deletes triggers, the notifier's worker that      *)
(* evaluates changes, the orphan sweep and the retry of unresolved topics  *)
(* on timers, and the stream.  Every critical section is one step.  All    *)
(* triggers watch one entity and one resource of it, and whether a         *)
(* condition fires is a choice: values, previous values included, are left *)
(* out.  A trigger and the object a thread looked up are one: ids are not  *)
(* reused while the process lives.  The store refuses only a save().       *)
(***************************************************************************)
EXTENDS Integers, Sequences, FiniteSets, FiniteSetsExt

CONSTANTS Ids,           \* 1..n: bound on the ids generated
          Requests,      \* what may be asked of create()
          max_triggers,  \* config_.max_triggers
          MaxPending,    \* kMaxPendingEvents
          MaxChanges,    \* bound: resource changes in a behaviour
          MaxRequests,   \* bound: HTTP requests that change triggers in a behaviour
          MaxRestarts    \* bound: ends of the process in a behaviour

ASSUME TriggerAssumption ==
  /\ Ids = 1..Cardinality(Ids)
  /\ Requests \subseteq [multishot : BOOLEAN, persistent : BOOLEAN, lifetime : BOOLEAN,
                         topic : {"resolved", "unresolved", "none"}]

VARIABLES
  state,       \* id -> its TriggerState, NoTrigger before create() or a restore
  triggers_,   \* the ids in triggers_ and in dispatch_index_
  topic_handles_,
  unresolved_data_triggers_,  \* id -> "no", or how far its give-up budget is
  store_,      \* id -> its row, NoRow
  next_id_,
  call,        \* thread -> the remove() or cleanup_expired_trigger() it is in
  client,      \* the HTTP request in progress
  worker,      \* the notifier's worker in on_resource_change()
  orphaned,    \* what the sweep still has to remove
  stream,      \* the event stream
  discovered,  \* is the entity in the discovery cache
  phase,       \* "up" | "stopping": shutdown() was called
  changes,     \* how many resource changes so far
  queued,      \* changes notified and not yet taken by the worker
  requests,    \* how many of the client's requests so far
  restarts,    \* how many times the process ended
  gave_up,     \* history: triggers whose topic is no longer looked for
  met,         \* history: triggers whose entity was in discovery in this process
  deleted      \* history: persistent triggers whose DELETE succeeded

vars == <<state, triggers_, topic_handles_, unresolved_data_triggers_, store_, next_id_,
          call, client, worker, orphaned, stream, discovered, phase, changes, queued,
          requests, restarts, gave_up, met, deleted>>

Threads == {"client", "worker", "sweep", "stream"}
NoTrigger == [status |-> "none"]
NoRow == [status |-> "none"]
NoCall == [op |-> "none"]
Idle == [op |-> "none"]
Evaluating == [at : {"each", "match", "record", "retire"}, change : 1..MaxChanges, id : Ids \union {0},
               todo : SUBSET Ids, terminated : SUBSET Ids]
NoChange == [at |-> "idle"]
NoStream == [at |-> "off"]
Expiries == {"none", "running", "over"}

TypeOK ==
  /\ state \in [Ids -> {NoTrigger} \union
       [status : {"ACTIVE", "TERMINATED"}, active : BOOLEAN, request : Requests,
        expires_at : Expiries, entity_seen : BOOLEAN, pending_events : Seq(1..MaxChanges)]]
  /\ triggers_ \subseteq Ids /\ topic_handles_ \subseteq Ids /\ orphaned \subseteq Ids
  /\ unresolved_data_triggers_ \in [Ids -> {"no", "unseen", "running", "over"}]
  /\ store_ \in [Ids -> {NoRow} \union
       [status : {"ACTIVE", "TERMINATED"}, request : Requests, expires_at : Expiries]]
  /\ next_id_ \in 1..(Cardinality(Ids) + 1)
  /\ call \in [Threads -> {NoCall} \union
       [op : {"deactivate", "unstore", "terminate", "record", "forget"}, id : Ids]]
  /\ client \in {Idle} \union [op : {"insert", "subscribe", "install", "rollback", "unsave", "queue", "prolong"},
                               id : Ids]
  /\ worker \in {NoChange} \union Evaluating
  /\ stream \in {NoStream} \union [at : {"top", "wait", "again", "drain"}, found : BOOLEAN, woken : BOOLEAN, id : Ids]
  /\ discovered \in BOOLEAN /\ phase \in {"up", "stopping"}
  /\ changes \in 0..MaxChanges /\ queued \in Seq(1..MaxChanges) /\ requests \in 0..MaxRequests
  /\ restarts \in 0..MaxRestarts
  /\ gave_up \subseteq Ids /\ met \subseteq Ids /\ deleted \subseteq Ids

Init ==
  /\ state = [i \in Ids |-> NoTrigger]
  /\ triggers_ = {} /\ topic_handles_ = {} /\ orphaned = {}
  /\ unresolved_data_triggers_ = [i \in Ids |-> "no"]
  /\ store_ = [i \in Ids |-> NoRow]
  /\ next_id_ = 1
  /\ call = [t \in Threads |-> NoCall]
  /\ client = Idle /\ worker = NoChange /\ stream = NoStream
  /\ discovered = FALSE /\ phase = "up"
  /\ changes = 0 /\ queued = <<>> /\ requests = 0 /\ restarts = 0
  /\ gave_up = {} /\ met = {} /\ deleted = {}

IsPersistent(i) == state[i].request.persistent
IsOneShot(i) == ~state[i].request.multishot
is_expired(i) == state[i].expires_at = "over"
Live(i) == state[i].status = "ACTIVE" /\ state[i].active

Object(request, seen) ==
  [status |-> "ACTIVE", active |-> TRUE, request |-> request,
   expires_at |-> IF request.lifetime THEN "running" ELSE "none",
   entity_seen |-> seen, pending_events |-> <<>>]
Row(request) ==
  [status |-> "ACTIVE", request |-> request,
   expires_at |-> IF request.lifetime THEN "running" ELSE "none"]

\* A slip: a row that is not there is written anew.
Terminated_Inserts(i) ==
  [store_ EXCEPT ![i] = [status |-> "TERMINATED", request |-> state[i].request,
                         expires_at |-> state[i].expires_at]]

\* SqliteTriggerStore::update() of the status: there must be a row.
Terminated(i) == IF store_[i] = NoRow THEN store_ ELSE [store_ EXCEPT ![i].status = "TERMINATED"]

\* The thread is not in a remove() or cleanup_expired_trigger() it called.
Returned(t) == call[t] = NoCall
Calls(t, op, i) == call' = [call EXCEPT ![t] = [op |-> op, id |-> i]]
Returns(t) == call' = [call EXCEPT ![t] = NoCall]

-----------------------------------------------------------------------------
\* remove(): out of the maps, then inactive, then out of the store.

BeginRemove(t, i) ==
  IF i \in triggers_
  THEN /\ triggers_' = triggers_ \ {i}
       /\ topic_handles_' = topic_handles_ \ {i}
       /\ Calls(t, "deactivate", i)
  ELSE UNCHANGED <<triggers_, topic_handles_, call>>

RemoveDeactivates(t) ==
  /\ call[t].op = "deactivate"
  /\ state' = [state EXCEPT ![call[t].id].active = FALSE]
  /\ Calls(t, "unstore", call[t].id)
  /\ UNCHANGED <<triggers_, topic_handles_, unresolved_data_triggers_, store_, next_id_,
                 client, worker, orphaned, stream, discovered, phase, changes, queued,
                 requests, restarts, gave_up, met, deleted>>

RemoveUnstores(t) ==
  /\ call[t].op = "unstore"
  /\ store_' = IF IsPersistent(call[t].id) THEN [store_ EXCEPT ![call[t].id] = NoRow] ELSE store_
  /\ deleted' = IF t = "client" /\ IsPersistent(call[t].id) THEN deleted \union {call[t].id} ELSE deleted
  /\ Returns(t)
  /\ UNCHANGED <<state, triggers_, topic_handles_, unresolved_data_triggers_, next_id_,
                 client, worker, orphaned, stream, discovered, phase, changes, queued,
                 requests, restarts, gave_up, met>>

-----------------------------------------------------------------------------
\* cleanup_expired_trigger(): the thread that turns active off goes on.

BeginCleanup(t, i) ==
  IF state[i].active
  THEN state' = [state EXCEPT ![i].active = FALSE] /\ Calls(t, "terminate", i)
  ELSE UNCHANGED <<state, call>>

CleanupTerminates(t) ==
  /\ call[t].op = "terminate"
  /\ state' = [state EXCEPT ![call[t].id].status = "TERMINATED"]
  /\ Calls(t, "record", call[t].id)
  /\ UNCHANGED <<triggers_, topic_handles_, unresolved_data_triggers_, store_, next_id_,
                 client, worker, orphaned, stream, discovered, phase, changes, queued,
                 requests, restarts, gave_up, met, deleted>>

CleanupRecords(t) ==
  /\ call[t].op = "record"
  /\ store_' = IF IsPersistent(call[t].id) THEN Terminated(call[t].id) ELSE store_
  /\ Calls(t, "forget", call[t].id)
  /\ UNCHANGED <<state, triggers_, topic_handles_, unresolved_data_triggers_, next_id_,
                 client, worker, orphaned, stream, discovered, phase, changes, queued,
                 requests, restarts, gave_up, met, deleted>>

CleanupForgets(t) ==
  /\ call[t].op = "forget"
  /\ triggers_' = triggers_ \ {call[t].id}
  /\ topic_handles_' = topic_handles_ \ {call[t].id}
  /\ Returns(t)
  /\ UNCHANGED <<state, unresolved_data_triggers_, store_, next_id_,
                 client, worker, orphaned, stream, discovered, phase, changes, queued,
                 requests, restarts, gave_up, met, deleted>>

Called(t) ==
  \/ RemoveDeactivates(t) \/ RemoveUnstores(t)
  \/ CleanupTerminates(t) \/ CleanupRecords(t) \/ CleanupForgets(t)

-----------------------------------------------------------------------------
\* create(), update() and DELETE.

ClientFree == client = Idle /\ Returned("client") /\ phase = "up"
Request == ClientFree /\ discovered /\ requests < MaxRequests /\ requests' = requests + 1
Unchanged_Client ==
  UNCHANGED <<worker, orphaned, stream, discovered, phase, changes, queued, restarts, gave_up>>

\* The handler found the entity; save() may fail, and then nothing is left.
CreateSaves(request) ==
  /\ Request /\ next_id_ \in Ids
  /\ next_id_' = next_id_ + 1
  /\ \/ /\ client' = [op |-> "insert", id |-> next_id_]
        /\ state' = [state EXCEPT ![next_id_] = Object(request, TRUE)]
        /\ store_' = IF request.persistent THEN [store_ EXCEPT ![next_id_] = Row(request)] ELSE store_
        /\ met' = met \union {next_id_}
        /\ deleted' = deleted \ {next_id_}
     \/ request.persistent /\ UNCHANGED <<client, state, store_, met, deleted>>
  /\ UNCHANGED <<triggers_, topic_handles_, unresolved_data_triggers_, call>>
  /\ Unchanged_Client

AfterInsert(i) ==
  CASE state[i].request.topic = "resolved"   -> [op |-> "subscribe", id |-> i]
    [] state[i].request.topic = "unresolved" -> [op |-> "queue", id |-> i]
    [] OTHER                                 -> Idle

CreateInserts ==
  /\ client.op = "insert"
  /\ IF Cardinality(triggers_) >= max_triggers
     THEN /\ client' = Idle
          /\ store_' = IF IsPersistent(client.id) THEN [store_ EXCEPT ![client.id] = NoRow] ELSE store_
          /\ UNCHANGED triggers_
     ELSE /\ client' = AfterInsert(client.id)
          /\ triggers_' = triggers_ \union {client.id}
          /\ UNCHANGED store_
  /\ UNCHANGED <<state, topic_handles_, unresolved_data_triggers_, next_id_, call, met, deleted, requests>>
  /\ Unchanged_Client

CreateSubscribes ==
  /\ client.op = "subscribe"
  /\ \E op \in {"install", "rollback"} : client' = [client EXCEPT !.op = op]
  /\ UNCHANGED <<state, triggers_, topic_handles_, unresolved_data_triggers_, store_, next_id_,
                 call, met, deleted, requests>>
  /\ Unchanged_Client

CreateInstalls ==
  /\ client.op = "install"
  /\ client' = Idle
  /\ topic_handles_' = topic_handles_ \union {client.id}
  /\ UNCHANGED <<state, triggers_, unresolved_data_triggers_, store_, next_id_, call, met, deleted, requests>>
  /\ Unchanged_Client

CreateRollsBack ==
  /\ client.op = "rollback"
  /\ client' = [client EXCEPT !.op = "unsave"]
  /\ triggers_' = triggers_ \ {client.id}
  /\ UNCHANGED <<state, topic_handles_, unresolved_data_triggers_, store_, next_id_, call, met, deleted, requests>>
  /\ Unchanged_Client

CreateUnsaves ==
  /\ client.op = "unsave"
  /\ client' = Idle
  /\ store_' = IF IsPersistent(client.id) THEN [store_ EXCEPT ![client.id] = NoRow] ELSE store_
  /\ UNCHANGED <<state, triggers_, topic_handles_, unresolved_data_triggers_, next_id_, call, met, deleted, requests>>
  /\ Unchanged_Client

CreateQueues ==
  /\ client.op = "queue"
  /\ client' = Idle
  /\ unresolved_data_triggers_' = [unresolved_data_triggers_ EXCEPT ![client.id] = "running"]
  /\ UNCHANGED <<state, triggers_, topic_handles_, store_, next_id_, call, met, deleted, requests>>
  /\ Unchanged_Client

UpdateFinds(i) ==
  /\ Request /\ i \in triggers_
  /\ client' = [op |-> "prolong", id |-> i]
  /\ UNCHANGED <<state, triggers_, topic_handles_, unresolved_data_triggers_, store_, next_id_,
                 call, met, deleted>>
  /\ Unchanged_Client

UpdateProlongs ==
  /\ client.op = "prolong"
  /\ client' = Idle
  /\ state' = [state EXCEPT ![client.id].expires_at = "running"]
  /\ store_' = IF IsPersistent(client.id) /\ store_[client.id] # NoRow
               THEN [store_ EXCEPT ![client.id].expires_at = "running"] ELSE store_
  /\ UNCHANGED <<triggers_, topic_handles_, unresolved_data_triggers_, next_id_, call, met, deleted, requests>>
  /\ Unchanged_Client

Delete(i) ==
  /\ Request /\ i \in triggers_
  /\ BeginRemove("client", i)
  /\ UNCHANGED <<state, unresolved_data_triggers_, store_, next_id_, client, met, deleted>>
  /\ Unchanged_Client

-----------------------------------------------------------------------------
\* on_resource_change(), on the notifier's worker.

Unchanged_Worker ==
  UNCHANGED <<unresolved_data_triggers_, next_id_, client, orphaned, stream, discovered,
              phase, changes, requests, restarts, gave_up, met, deleted>>

\* A sample of a subscribed topic, or a change that needs no topic.
Change ==
  /\ changes < MaxChanges /\ phase = "up"
  /\ topic_handles_ # {} \/ \E i \in triggers_ : state[i].request.topic = "none"
  /\ changes' = changes + 1
  /\ queued' = Append(queued, changes + 1)
  /\ UNCHANGED <<state, triggers_, topic_handles_, unresolved_data_triggers_, store_, next_id_,
                 call, client, worker, orphaned, stream, discovered, phase, requests, restarts,
                 gave_up, met, deleted>>

WorkerTakes ==
  /\ worker = NoChange /\ Returned("worker") /\ queued # <<>>
  /\ queued' = Tail(queued)
  /\ worker' = IF phase = "stopping" THEN NoChange
               ELSE [at |-> "each", change |-> Head(queued), id |-> 0, todo |-> triggers_, terminated |-> {}]
  /\ UNCHANGED <<state, triggers_, topic_handles_, store_, call>>
  /\ Unchanged_Worker

\* A candidate that is still there, has not expired and watches this resource
\* is let go of while the entity hierarchy is asked.
WorkerChecks ==
  /\ worker.at = "each" /\ Returned("worker")
  /\ \E i \in worker.todo :
       /\ worker' = [worker EXCEPT !.todo = @ \ {i}, !.id = i,
                                   !.at = IF Live(i) /\ ~is_expired(i) THEN "match" ELSE "each"]
       /\ IF Live(i) /\ is_expired(i) THEN BeginCleanup("worker", i) ELSE UNCHANGED <<state, call>>
  /\ UNCHANGED <<triggers_, topic_handles_, store_, queued>>
  /\ Unchanged_Worker

WithEvent(pending, change) ==
  LET pushed == Append(pending, change)
  IN IF Len(pushed) > MaxPending THEN Tail(pushed) ELSE pushed

WorkerFires ==
  /\ worker.at = "match" /\ Live(worker.id)
  /\ LET i == worker.id
         over == IsOneShot(i)
     IN /\ state' = [state EXCEPT ![i].pending_events = WithEvent(@, worker.change),
                                  ![i].status = IF over THEN "TERMINATED" ELSE @,
                                  ![i].active = @ /\ ~over]
        /\ worker' = [worker EXCEPT !.at = IF over /\ IsPersistent(i) THEN "record" ELSE "each",
                                    !.terminated = IF over THEN @ \union {i} ELSE @]
  /\ UNCHANGED <<triggers_, topic_handles_, store_, call, queued>>
  /\ Unchanged_Worker

\* Gone meanwhile, another entity, or a condition that does not hold.
WorkerPasses ==
  /\ worker.at = "match"
  /\ worker' = [worker EXCEPT !.at = "each"]
  /\ UNCHANGED <<state, triggers_, topic_handles_, store_, call, queued>>
  /\ Unchanged_Worker

WorkerRecords ==
  /\ worker.at = "record"
  /\ worker' = [worker EXCEPT !.at = "each"]
  /\ store_' = Terminated(worker.id)
  /\ UNCHANGED <<state, triggers_, topic_handles_, call, queued>>
  /\ Unchanged_Worker

\* remove() of the one-shot triggers that fired, after the last candidate.
WorkerRetires ==
  /\ worker.at = "each" /\ worker.todo = {} /\ Returned("worker")
  /\ IF worker.terminated = {}
     THEN worker' = NoChange /\ UNCHANGED <<triggers_, topic_handles_, call>>
     ELSE \E i \in worker.terminated :
            /\ BeginRemove("worker", i)
            /\ worker' = [worker EXCEPT !.terminated = @ \ {i}]
  /\ UNCHANGED <<state, store_, queued>>
  /\ Unchanged_Worker

Worker ==
  \/ WorkerTakes \/ WorkerChecks \/ WorkerFires \/ WorkerPasses \/ WorkerRecords \/ WorkerRetires

-----------------------------------------------------------------------------
\* The timers: the orphan sweep and the retry of unresolved topics.

SweepCollects ==
  /\ orphaned = {} /\ Returned("sweep")
  /\ IF discovered
     THEN /\ state' = [i \in Ids |-> IF i \in triggers_ /\ state[i].active
                                     THEN [state[i] EXCEPT !.entity_seen = TRUE] ELSE state[i]]
          /\ UNCHANGED orphaned
     ELSE /\ orphaned' = {i \in triggers_ : state[i].active /\ state[i].entity_seen}
          /\ UNCHANGED state
  /\ UNCHANGED <<triggers_, topic_handles_, unresolved_data_triggers_, store_, next_id_,
                 call, client, worker, stream, discovered, phase, changes, queued,
                 requests, restarts, gave_up, met, deleted>>

SweepRemoves ==
  /\ Returned("sweep")
  /\ \E i \in orphaned : orphaned' = orphaned \ {i} /\ BeginRemove("sweep", i)
  /\ UNCHANGED <<state, unresolved_data_triggers_, store_, next_id_,
                 client, worker, stream, discovered, phase, changes, queued,
                 requests, restarts, gave_up, met, deleted>>

Waiting == {i \in Ids : unresolved_data_triggers_[i] # "no"}

\* The budget starts when the sweep first finds the entity.
Budget(i) ==
  IF unresolved_data_triggers_[i] = "unseen" /\ state[i].entity_seen
  THEN "running" ELSE unresolved_data_triggers_[i]


\* A topic resolves only for an entity in discovery; one that does not, or that
\* cannot be subscribed to, is tried again.
retry_unresolved_triggers ==
  /\ phase = "up" /\ Waiting # {}
  /\ LET tried == {i \in Waiting \intersect triggers_ : Budget(i) # "over"}
         over == {i \in Waiting \intersect triggers_ : Budget(i) = "over"}
     IN \E subscribed \in SUBSET (IF discovered THEN tried ELSE {}) :
          /\ unresolved_data_triggers_' =
               [i \in Ids |-> IF i \in tried \ subscribed THEN Budget(i) ELSE "no"]
          /\ topic_handles_' = topic_handles_ \union subscribed
          /\ gave_up' = gave_up \union over
  /\ UNCHANGED <<state, triggers_, store_, next_id_, call, client, worker, orphaned, stream,
                 discovered, phase, changes, queued, requests, restarts, met, deleted>>

-----------------------------------------------------------------------------
\* GET .../events: next_event() over and over, each of is_active(),
\* wait_for_event() and consume_pending_event() a look at triggers_ and then a
\* look at the trigger.

Unchanged_Stream ==
  UNCHANGED <<triggers_, topic_handles_, unresolved_data_triggers_, store_, next_id_,
              client, worker, orphaned, discovered, phase, changes, queued, requests, restarts,
              gave_up, met, deleted>>

StreamAt(at, woken) == [stream EXCEPT !.at = at, !.found = FALSE, !.woken = woken]

Connect(i) ==
  /\ stream = NoStream /\ Returned("stream") /\ phase = "up" /\ discovered /\ i \in triggers_
  /\ stream' = [at |-> "top", found |-> FALSE, woken |-> FALSE, id |-> i]
  /\ UNCHANGED <<state, call>>
  /\ Unchanged_Stream

StreamLooksUp ==
  /\ stream # NoStream /\ ~stream.found
  /\ stream' = IF stream.id \in triggers_ THEN [stream EXCEPT !.found = TRUE]
               ELSE CASE stream.at = "wait"  -> StreamAt("again", TRUE)
                      [] stream.at = "drain" -> StreamAt("top", FALSE)
                      [] OTHER               -> NoStream
  /\ UNCHANGED <<state, call>>
  /\ Unchanged_Stream

\* The rest of is_active(); a keepalive that cannot be written ends the stream.
StreamChecks ==
  /\ stream # NoStream /\ stream.at \in {"top", "again"} /\ stream.found
  /\ IF Live(stream.id) /\ ~is_expired(stream.id)
     THEN /\ \/ stream.at = "top" /\ stream' = StreamAt("wait", FALSE)
             \/ stream.at = "again" /\ stream.woken /\ stream' = StreamAt("drain", TRUE)
             \/ stream.at = "again" /\ ~stream.woken /\ stream' \in {StreamAt("top", FALSE), NoStream}
          /\ UNCHANGED <<state, call>>
     ELSE /\ stream' = NoStream
          /\ IF Live(stream.id) THEN BeginCleanup("stream", stream.id) ELSE UNCHANGED <<state, call>>
  /\ Unchanged_Stream

\* A slip: events do not end the wait.
StreamWaits_ForTheEnd ==
  /\ stream # NoStream /\ stream.at = "wait" /\ stream.found
  /\ stream' = StreamAt("again", ~state[stream.id].active \/ phase = "stopping")
  /\ UNCHANGED <<state, call>>
  /\ Unchanged_Stream

\* The wait ends when its predicate holds or after 15 s, and says which.
StreamWaits ==
  /\ stream # NoStream /\ stream.at = "wait" /\ stream.found
  /\ stream' = StreamAt("again", \/ state[stream.id].pending_events # <<>>
                                 \/ ~state[stream.id].active \/ phase = "stopping")
  /\ UNCHANGED <<state, call>>
  /\ Unchanged_Stream

\* An event is taken off the queue, then written; a failed write ends the stream.
StreamDrains ==
  /\ stream # NoStream /\ stream.at = "drain" /\ stream.found
  /\ LET i == stream.id
         pending == state[i].pending_events
     IN IF pending = <<>> THEN stream' = StreamAt("top", FALSE) /\ UNCHANGED state
        ELSE /\ state' = [state EXCEPT ![i].pending_events = Tail(@)]
             /\ \/ stream' = StreamAt("drain", TRUE)
                \/ stream' = NoStream
  /\ UNCHANGED call
  /\ Unchanged_Stream

Stream == StreamLooksUp \/ StreamChecks \/ StreamWaits \/ StreamDrains

-----------------------------------------------------------------------------
\* Time, discovery, and the end of the process.

Expire(i) ==
  /\ state[i] # NoTrigger /\ state[i].expires_at = "running"
  /\ state' = [state EXCEPT ![i].expires_at = "over"]
  /\ store_' = IF IsPersistent(i) /\ store_[i] # NoRow THEN [store_ EXCEPT ![i].expires_at = "over"] ELSE store_
  /\ UNCHANGED <<triggers_, topic_handles_, unresolved_data_triggers_, next_id_,
                 call, client, worker, orphaned, stream, discovered, phase, changes, queued,
                 requests, restarts, gave_up, met, deleted>>

BudgetRunsOut(i) ==
  /\ unresolved_data_triggers_[i] = "running"
  /\ unresolved_data_triggers_' = [unresolved_data_triggers_ EXCEPT ![i] = "over"]
  /\ UNCHANGED <<state, triggers_, topic_handles_, store_, next_id_,
                 call, client, worker, orphaned, stream, discovered, phase, changes, queued,
                 requests, restarts, gave_up, met, deleted>>

Discovery ==
  /\ discovered' = ~discovered
  /\ met' = IF discovered' THEN met \union triggers_ ELSE met
  /\ UNCHANGED <<state, triggers_, topic_handles_, unresolved_data_triggers_, store_, next_id_,
                 call, client, worker, orphaned, stream, phase, changes, queued,
                 requests, restarts, gave_up, deleted>>

\* The REST server is down by then: no request and no stream is left.
shutdown ==
  /\ ClientFree /\ stream = NoStream /\ Returned("stream")
  /\ phase' = "stopping"
  /\ state' = [i \in Ids |-> IF i \in triggers_ THEN [state[i] EXCEPT !.active = FALSE] ELSE state[i]]
  /\ topic_handles_' = {}
  /\ UNCHANGED <<triggers_, unresolved_data_triggers_, store_, next_id_,
                 call, client, worker, orphaned, stream, discovered, changes, queued,
                 requests, restarts, gave_up, met, deleted>>

\* load_persistent_triggers() in a new process, "restore" configured: the rows
\* it brings back, and those that expired while nobody looked.
Restored == {i \in Ids : store_[i].status = "ACTIVE" /\ store_[i].expires_at # "over"}
Lapsed == {i \in Ids : store_[i].status = "ACTIVE" /\ store_[i].expires_at = "over"}

\* A slip: restored triggers count as seen, like created ones.
RestoredObject_Seen(i) == [Object(store_[i].request, TRUE) EXCEPT !.expires_at = store_[i].expires_at]

RestoredObject(i) == [Object(store_[i].request, FALSE) EXCEPT !.expires_at = store_[i].expires_at]

\* A slip: ids start from 1 in every process.
NextIdAfter_First(restored) == 1

NextIdAfter(restored) == IF restored = {} THEN 1 ELSE Max(restored) + 1

\* The process ends, at any moment, and comes back; a store that cannot be read
\* restores nothing.
Restart ==
  /\ restarts < MaxRestarts
  /\ restarts' = restarts + 1
  /\ \E read \in BOOLEAN : LET restored == IF read THEN Restored ELSE {} IN
       /\ state' = [i \in Ids |-> IF i \in restored THEN RestoredObject(i) ELSE NoTrigger]
       /\ triggers_' = restored
       /\ unresolved_data_triggers_' =
            [i \in Ids |-> IF i \in restored /\ store_[i].request.topic # "none" THEN "unseen" ELSE "no"]
       /\ store_' = IF read
                    THEN [i \in Ids |-> IF i \in Lapsed THEN [store_[i] EXCEPT !.status = "TERMINATED"] ELSE store_[i]]
                    ELSE store_
       /\ next_id_' = NextIdAfter(restored)
  /\ topic_handles_' = {} /\ orphaned' = {}
  /\ call' = [t \in Threads |-> NoCall]
  /\ client' = Idle /\ worker' = NoChange /\ stream' = NoStream
  /\ discovered' = FALSE /\ phase' = "up" /\ queued' = <<>>
  /\ gave_up' = {} /\ met' = {}
  /\ UNCHANGED <<changes, requests, deleted>>

-----------------------------------------------------------------------------
Next ==
  \/ \E t \in Threads : Called(t)
  \/ \E request \in Requests : CreateSaves(request)
  \/ CreateInserts \/ CreateSubscribes \/ CreateInstalls \/ CreateRollsBack \/ CreateUnsaves \/ CreateQueues
  \/ UpdateProlongs
  \/ \E i \in Ids : UpdateFinds(i) \/ Delete(i) \/ Connect(i) \/ Expire(i) \/ BudgetRunsOut(i)
  \/ Change \/ Worker
  \/ SweepCollects \/ SweepRemoves \/ retry_unresolved_triggers
  \/ Stream
  \/ Discovery \/ shutdown \/ Restart

\* The HTTP server keeps asking a connected stream for its next event.
Fairness == WF_vars(Stream)

Spec == Init /\ [][Next]_vars /\ Fairness

-----------------------------------------------------------------------------
Active(i) == i \in triggers_ /\ Live(i)

\* What runs is what a restart would bring back: an active persistent trigger
\* has an ACTIVE row with its request and its expiry, whichever of create(),
\* update(), remove(), a cleanup, a firing or a restore came in between
\* (trigger_manager.cpp:391 "Persist before inserting into memory").
RestartKeepsActive ==
  \A i \in Ids : Active(i) /\ IsPersistent(i) =>
    store_[i] = [status |-> "ACTIVE", request |-> state[i].request, expires_at |-> state[i].expires_at]

\* A trigger whose DELETE succeeded stays gone, across restarts, although the
\* worker, a stream or an update may still write its row (remove(), 523):
\* it is in no map and no row of it is left.
DeletedStaysGone == \A i \in deleted : i \notin triggers_ /\ store_[i] = NoRow


\* The orphan sweep takes only triggers whose entity this process has met: a
\* restored trigger outlives a slow discovery (sweep_orphaned_triggers(), 256).
OnlyMetAreSwept ==
  [][\A i \in Ids : call["sweep"] = NoCall /\ call'["sweep"] = [op |-> "deactivate", id |-> i] => i \in met]_vars

\* Events of an active trigger reach a stream that stays connected: the queue
\* of a trigger that is streamed empties, unless the stream ends or the trigger
\* does (trigger_handlers.cpp:545).
PendingIsSent ==
  stream # NoStream /\ Active(stream.id) /\ state[stream.id].pending_events # <<>>
    ~> stream = NoStream \/ ~Active(stream.id) \/ state[stream.id].pending_events = <<>>

\* "Connect to receive events when the trigger condition is met" (docs/api/rest.rst):
\* the stream of a one-shot trigger that fired is not ended by the gateway with
\* the event still on the queue.
OneShotIsTold ==
  [][stream # NoStream /\ stream' = NoStream /\ restarts' = restarts =>
       LET i == stream.id
       IN ~(IsOneShot(i) /\ state'[i].pending_events # <<>> /\ i \notin deleted)]_vars

\* "Subscribing for it now would install a handle under a trigger id nothing
\* owns, and nothing would ever release it" (trigger_manager.cpp:161): a handle
\* belongs to a registered trigger.
HandlesAreOwned == topic_handles_ \subseteq triggers_

\* "they stay absent until this gateway is restarted" (trigger_manager.cpp:741):
\* a trigger that was not restored keeps its row, so no create() replaces it.
UnreadStaysStored ==
  [][client = Idle /\ client' # Idle /\ client'.op = "insert" => store_[client'.id].status # "ACTIVE"]_vars
=============================================================================
