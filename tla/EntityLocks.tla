----------------------------- MODULE EntityLocks -----------------------------
(***************************************************************************)
(* Locks on entities (lock_manager.cpp), the handlers that manage them     *)
(* (lock_handlers.cpp), the writes they block and the timer that sweeps    *)
(* the expired ones together with the cyclic subscriptions of the entity   *)
(* (gateway_node.cpp).  Every call of the manager is atomic (mutex_); a    *)
(* handler makes several, and HTTP requests run on their own threads.      *)
(* A lock carries the seconds it has left, so time needs no bound.         *)
(***************************************************************************)
EXTENDS Integers, FiniteSets

CONSTANTS Clients,
          Entities,
          NoEntity,
          Parent,       \* entity -> the component of an app, the area of a component
          Breakable,    \* entity -> whether its lock may be broken
          Required,     \* entity -> the collections that need a lock
          MaxExpiration,\* entity -> the longest lock, in seconds
          Collections,  \* resource collections
          Subs,         \* the collection of the cyclic subscriptions
          Subscribable, \* the entities that get subscriptions
          Scopings,     \* the scopes locks are asked for, {} = all
          MaxLocks      \* bound: locks granted in a behaviour

ASSUME LockConstants ==
  /\ NoEntity \notin Entities
  /\ Parent \in [Entities -> Entities \union {NoEntity}]
  /\ Breakable \in [Entities -> BOOLEAN]
  /\ Required \in [Entities -> SUBSET Collections]
  /\ MaxExpiration \in [Entities -> Nat \ {0}]
  /\ Subs \in Collections /\ Subscribable \subseteq Entities /\ Scopings \subseteq SUBSET Collections
  /\ MaxLocks \in Nat

VARIABLES
  locks_,          \* entity -> its lock, NoLock
  lock_id_index_,  \* lock id -> the entity it locks, NoEntity
  next_id_,
  request,         \* client -> the request of it that is between two calls
  sweep,           \* the expired locks the timer still has to clean up after
  subscribed       \* entities with a cyclic subscription

vars == <<locks_, lock_id_index_, next_id_, request, sweep, subscribed>>

Ids == 1..MaxLocks
NoClient == "none"
NoLock == [id |-> 0, client |-> NoClient, scopes |-> {}, left |-> 0]
NoRequest == [op |-> "none", entity |-> NoEntity, id |-> 0, collection |-> Subs]
Locks == [id : Ids, client : Clients, scopes : Scopings, left : Nat]

\* A lock never has longer to live than the entity's maximum, however often it is
\* extended; ids are handed out in order.
TypeOK ==
  /\ locks_ \in [Entities -> Locks \union {NoLock}]
  /\ \A e \in Entities : locks_[e].left <= MaxExpiration[e]
  /\ lock_id_index_ \in [Ids -> Entities \union {NoEntity}]
  /\ next_id_ \in 1..MaxLocks + 1
  /\ request \in [Clients -> [op : {"none", "release", "extend", "write"}, entity : Entities \union {NoEntity},
                              id : Ids \union {0}, collection : Collections]]
  /\ sweep \subseteq [entity : Entities, scopes : Scopings]
  /\ subscribed \subseteq Entities

Init ==
  /\ locks_ = [e \in Entities |-> NoLock]
  /\ lock_id_index_ = [i \in Ids |-> NoEntity]
  /\ next_id_ = 1
  /\ request = [c \in Clients |-> NoRequest]
  /\ sweep = {} /\ subscribed = {}

Held(e) == locks_[e] # NoLock
Live(e) == Held(e) /\ locks_[e].left > 0
Covers(scopes, collection) == scopes = {} \/ collection \in scopes
IndexWithout(id) == IF id \in Ids THEN [lock_id_index_ EXCEPT ![id] = NoEntity] ELSE lock_id_index_

-----------------------------------------------------------------------------
(* LockManager *)

\* A slip: the lock that makes way stays in the index.
acquire_KeepsIndex(e, c, scopes, seconds, break_lock) ==
  /\ next_id_ <= MaxLocks
  /\ seconds \in 1..MaxExpiration[e]
  /\ Live(e) => break_lock /\ Breakable[e]
  /\ locks_' = [locks_ EXCEPT ![e] = [id |-> next_id_, client |-> c, scopes |-> scopes, left |-> seconds]]
  /\ lock_id_index_' = [lock_id_index_ EXCEPT ![next_id_] = e]
  /\ next_id_' = next_id_ + 1

\* An expired lock makes way for the new one, a live one only when it is broken.
acquire(e, c, scopes, seconds, break_lock) ==
  /\ next_id_ <= MaxLocks
  /\ seconds \in 1..MaxExpiration[e]
  /\ Live(e) => break_lock /\ Breakable[e]
  /\ locks_' = [locks_ EXCEPT ![e] = [id |-> next_id_, client |-> c, scopes |-> scopes, left |-> seconds]]
  /\ lock_id_index_' = [IndexWithout(locks_[e].id) EXCEPT ![next_id_] = e]
  /\ next_id_' = next_id_ + 1

Erase(e) ==
  /\ locks_' = [locks_ EXCEPT ![e] = NoLock]
  /\ lock_id_index_' = IndexWithout(locks_[e].id)

\* A slip: anyone may release the lock.
release_Anyone(e, c) ==
  IF Held(e) THEN Erase(e) ELSE UNCHANGED <<locks_, lock_id_index_>>

\* Only the holder releases, expired or not.
release(e, c) ==
  IF Held(e) /\ locks_[e].client = c THEN Erase(e) ELSE UNCHANGED <<locks_, lock_id_index_>>

\* The holder restarts the time of a live lock; an expired one is erased.
extend(e, c, seconds) ==
  /\ seconds \in 1..MaxExpiration[e]
  /\ IF Held(e) /\ ~Live(e) THEN Erase(e)
     ELSE /\ locks_' = IF Live(e) /\ locks_[e].client = c
                       THEN [locks_ EXCEPT ![e].left = seconds] ELSE locks_
          /\ UNCHANGED lock_id_index_

\* get_lock_by_id(), and the handler's check that the lock is one of the entity.
FoundById(e, id) == lock_id_index_[id] = e /\ Held(e)

\* An entity, its component and its area.
Chain(e) ==
  ({e, Parent[e]} \union {Parent[up] : up \in {Parent[e]} \ {NoEntity}}) \ {NoEntity}

\* check_access(): the lock a collection requires is there, and no live lock of
\* another client up the chain covers the collection.
check_access(e, c, collection) ==
  /\ collection \in Required[e] => Live(e) /\ locks_[e].client = c
  /\ \A up \in Chain(e) :
       Live(up) /\ locks_[up].client # c => ~Covers(locks_[up].scopes, collection)

-----------------------------------------------------------------------------
(* The handlers *)

PostLock(c) ==
  /\ \E e \in Entities, scopes \in Scopings, break_lock \in BOOLEAN :
       \E seconds \in 1..MaxExpiration[e] : acquire(e, c, scopes, seconds, break_lock)
  /\ UNCHANGED <<request, sweep, subscribed>>

\* PUT and DELETE of a lock look it up by its id first, and then name only the entity.
LookUp(c, op) ==
  /\ request[c] = NoRequest
  /\ \E e \in Entities, id \in Ids :
       /\ FoundById(e, id)
       /\ request' = [request EXCEPT ![c] = [op |-> op, entity |-> e, id |-> id, collection |-> Subs]]
  /\ UNCHANGED <<locks_, lock_id_index_, next_id_, sweep, subscribed>>

Ends(c) == request' = [request EXCEPT ![c] = NoRequest]

DelLock(c) ==
  /\ request[c].op = "release"
  /\ release(request[c].entity, c) /\ Ends(c)
  /\ UNCHANGED <<next_id_, sweep, subscribed>>

PutLock(c) ==
  /\ request[c].op = "extend"
  /\ \E seconds \in 1..MaxExpiration[request[c].entity] : extend(request[c].entity, c, seconds)
  /\ Ends(c)
  /\ UNCHANGED <<next_id_, sweep, subscribed>>

\* A write asks for access and is carried out afterwards.
BeginWrite(c) ==
  /\ request[c] = NoRequest
  /\ \E e \in Entities, collection \in Collections \ {Subs} :
       /\ check_access(e, c, collection)
       /\ request' = [request EXCEPT ![c] =
                        [op |-> "write", entity |-> e, id |-> 0, collection |-> collection]]
  /\ UNCHANGED <<locks_, lock_id_index_, next_id_, sweep, subscribed>>

Write(c) ==
  /\ request[c].op = "write" /\ Ends(c)
  /\ UNCHANGED <<locks_, lock_id_index_, next_id_, sweep, subscribed>>

\* Anyone may subscribe to an entity, and unsubscribe.
CreateSubscription(e) ==
  /\ e \notin subscribed /\ subscribed' = subscribed \union {e}
  /\ UNCHANGED <<locks_, lock_id_index_, next_id_, request, sweep>>

DeleteSubscription(e) ==
  /\ e \in subscribed /\ subscribed' = subscribed \ {e}
  /\ UNCHANGED <<locks_, lock_id_index_, next_id_, request, sweep>>

-----------------------------------------------------------------------------
(* Time and the sweep *)

Tick ==
  /\ locks_' = [e \in Entities |-> IF Live(e) THEN [locks_[e] EXCEPT !.left = @ - 1] ELSE locks_[e]]
  /\ UNCHANGED <<lock_id_index_, next_id_, request, sweep, subscribed>>

Expired == {e \in Entities : Held(e) /\ ~Live(e)}

\* cleanup_expired(), on the timer of the node.
CleanupExpired ==
  /\ sweep = {} /\ Expired # {}
  /\ locks_' = [e \in Entities |-> IF e \in Expired THEN NoLock ELSE locks_[e]]
  /\ lock_id_index_' = [i \in Ids |-> IF lock_id_index_[i] \in Expired THEN NoEntity ELSE lock_id_index_[i]]
  /\ sweep' = {[entity |-> e, scopes |-> locks_[e].scopes] : e \in Expired}
  /\ UNCHANGED <<next_id_, request, subscribed>>

\* For each of them, the subscriptions of the entity go.
RemoveSubscriptions(info) ==
  /\ info \in sweep /\ sweep' = sweep \ {info}
  /\ subscribed' = IF Covers(info.scopes, Subs) THEN subscribed \ {info.entity} ELSE subscribed
  /\ UNCHANGED <<locks_, lock_id_index_, next_id_, request>>

Next ==
  \/ \E c \in Clients :
       \/ PostLock(c) \/ LookUp(c, "release") \/ LookUp(c, "extend") \/ DelLock(c) \/ PutLock(c)
       \/ BeginWrite(c) \/ Write(c)
  \/ \E e \in Subscribable : CreateSubscription(e) \/ DeleteSubscription(e)
  \/ Tick \/ CleanupExpired
  \/ \E info \in sweep : RemoveSubscriptions(info)

Spec == Init /\ [][Next]_vars

-----------------------------------------------------------------------------
\* The two maps of the manager agree: lock_id_index_ names exactly the locks of
\* locks_, each under the entity it is held on, whatever took a lock away (release,
\* break, expiry in acquire or extend, the sweep).
IndexAgrees ==
  \A e \in Entities, i \in Ids : (lock_id_index_[i] = e) <=> (locks_[e].id = i)

\* A live lock ends before its time only by a release of its own client or, where
\* the entity allows it, by being broken for a new lock.
EndsEarlyOnlyByRight ==
  [][\A e \in Entities :
       Live(e) /\ locks_'[e].id # locks_[e].id
       => \/ locks_'[e] # NoLock /\ Breakable[e]
          \/ \E c \in Clients : locks_[e].client = c /\ request[c].op = "release" /\ request'[c] = NoRequest]_vars

\* docs/tutorials/locking.rst: "When a lock expires, the gateway also cleans up
\* associated temporary resources": an expired lock leaves with its subscriptions due
\* for removal.
ExpiryCleansUp ==
  [][\A e \in Entities :
       /\ Held(e) /\ ~Live(e) /\ locks_'[e].id # locks_[e].id
       /\ Covers(locks_[e].scopes, Subs) /\ e \in subscribed
       => \E info \in sweep' : info.entity = e]_vars

\* docs/requirements: "The endpoint shall release the addressed lock", and no other.
ReleasesAddressedLock ==
  [][\A c \in Clients : DelLock(c) =>
       \A e \in Entities : locks_'[e] = NoLock => locks_[e].id \in {0, request[c].id}]_vars

\* docs/api/locking.rst: "Other clients are blocked from modifying locked collections
\* until the lock is released or expires".
WritesAreBlocked ==
  [][\A c \in Clients : Write(c) =>
       LET r == request[c]
       IN  \A up \in Chain(r.entity) :
             Live(up) /\ locks_[up].client # c => ~Covers(locks_[up].scopes, r.collection)]_vars

\* docs/tutorials/locking.rst: a lock grants "a client exclusive access to an entity's
\* resource collections": its holder gets through.
HolderHasAccess ==
  \A e \in Entities, collection \in Collections :
    Live(e) /\ Covers(locks_[e].scopes, collection) => check_access(e, locks_[e].client, collection)
=============================================================================
