-------------------------- MODULE EntityLocksProofs --------------------------
(***************************************************************************)
(* The two maps of the lock manager agree for any number of clients,       *)
(* entities and locks.  The inductive invariant adds that ids not handed   *)
(* out yet are not in the index: without it a new lock could take the id   *)
(* of another.                                                             *)
(***************************************************************************)
EXTENDS EntityLocks, TLAPS

\* Ids from next_id_ on are unused (generate_lock_id).
FreshIds == \A i \in Ids : i >= next_id_ => lock_id_index_[i] = NoEntity

\* A request under way is about some entity (read_entity_id).
RequestsNameEntities == \A c \in Clients : request[c].op # "none" => request[c].entity \in Entities

IInv == TypeOK /\ IndexAgrees /\ FreshIds /\ RequestsNameEntities

\* At the start neither map holds a lock.
LEMMA InitIInv == Init => IInv
<1> SUFFICES ASSUME Init PROVE IInv
  OBVIOUS
<1> USE LockConstants
<1>1. TypeOK
  BY SMT DEF Init, TypeOK, NoLock, NoRequest, Ids, Locks
<1>2. IndexAgrees
  BY DEF Init, IndexAgrees, NoLock, Ids
<1>3. FreshIds
  BY DEF Init, FreshIds
<1>4. RequestsNameEntities
  BY DEF Init, RequestsNameEntities, NoRequest
<1> QED
  BY <1>1, <1>2, <1>3, <1>4 DEF IInv

\* A lock that is gone has no time left, which is within every maximum.
LEMMA MaxPositive == \A f \in Entities : MaxExpiration[f] \in Nat /\ 0 <= MaxExpiration[f]
  BY LockConstants

\* Taking the lock of one entity out of both maps (release, extend on an expired
\* lock) keeps them in step.
LEMMA EraseKeeps ==
  ASSUME IInv, NEW e \in Entities, Erase(e), UNCHANGED next_id_
  PROVE  /\ locks_' \in [Entities -> Locks \union {NoLock}]
         /\ \A f \in Entities : locks_'[f].left <= MaxExpiration[f]
         /\ lock_id_index_' \in [Ids -> Entities \union {NoEntity}]
         /\ IndexAgrees' /\ FreshIds'
<1> USE LockConstants DEF IInv, TypeOK, Erase, IndexWithout
<1>1. locks_' = [locks_ EXCEPT ![e] = NoLock]
  OBVIOUS
<1>2. NoLock.left = 0 /\ NoLock.id = 0 /\ 0 \notin Ids
  BY DEF NoLock, Ids
<1>3. locks_' \in [Entities -> Locks \union {NoLock}] /\ \A f \in Entities : locks_'[f].left <= MaxExpiration[f]
  <2>1. locks_' \in [Entities -> Locks \union {NoLock}]
    BY <1>1
  <2>2. \A f \in Entities : locks_'[f] = IF f = e THEN NoLock ELSE locks_[f]
    BY <1>1
  <2> QED
    BY <1>2, <2>1, <2>2, MaxPositive
<1>4. lock_id_index_' \in [Ids -> Entities \union {NoEntity}]
  OBVIOUS
<1>5. FreshIds'
  BY DEF FreshIds
<1>6. IndexAgrees'
  BY <1>1, <1>2 DEF IndexAgrees
<1> QED
  BY <1>3, <1>4, <1>5, <1>6

\* A new lock, in the place of an expired or broken one, keeps the maps in step.
LEMMA AcquireKeeps ==
  ASSUME IInv, NEW e \in Entities, NEW c \in Clients, NEW scopes \in Scopings,
         NEW break_lock \in BOOLEAN, NEW seconds \in 1..MaxExpiration[e],
         acquire(e, c, scopes, seconds, break_lock),
         UNCHANGED <<request, sweep, subscribed>>
  PROVE  IInv'
<1> USE LockConstants
<1> DEFINE new == [id |-> next_id_, client |-> c, scopes |-> scopes, left |-> seconds]
<1>1. /\ next_id_ \in Ids /\ next_id_' = next_id_ + 1 /\ next_id_' \in 1..MaxLocks + 1
      /\ locks_' = [locks_ EXCEPT ![e] = new]
      /\ lock_id_index_' = [IndexWithout(locks_[e].id) EXCEPT ![next_id_] = e]
  BY DEF IInv, TypeOK, acquire, Ids
<1>2. new \in Locks /\ new.left <= MaxExpiration[e] /\ new.id = next_id_
  BY <1>1 DEF Locks
<1>3. \A f \in Entities : locks_'[f] = IF f = e THEN new ELSE locks_[f]
  BY <1>1 DEF IInv, TypeOK
<1>4. locks_' \in [Entities -> Locks \union {NoLock}]
  BY <1>1, <1>2 DEF IInv, TypeOK
<1>5. \A f \in Entities : locks_'[f].left <= MaxExpiration[f]
  BY <1>2, <1>3 DEF IInv, TypeOK
<1>6. lock_id_index_' \in [Ids -> Entities \union {NoEntity}]
  BY <1>1 DEF IInv, TypeOK, IndexWithout
<1>7. TypeOK'
  BY <1>1, <1>4, <1>5, <1>6 DEF IInv, TypeOK
<1>8. FreshIds'
  BY <1>1 DEF IInv, TypeOK, FreshIds, IndexWithout, Ids
<1>9. IndexAgrees'
  <2>1. lock_id_index_[next_id_] = NoEntity
    BY <1>1 DEF IInv, FreshIds, TypeOK, Ids
  <2>2. \A i \in Ids : lock_id_index_'[i] = IF i = next_id_ THEN e
                                           ELSE IF i = locks_[e].id THEN NoEntity
                                           ELSE lock_id_index_[i]
    BY <1>1 DEF IInv, TypeOK, IndexWithout
  <2>3. \A f \in Entities : locks_[f].id # next_id_
    BY <1>1, <2>1 DEF IInv, IndexAgrees
  <2> QED
    BY <1>1, <1>2, <1>3, <2>2, <2>3 DEF IInv, IndexAgrees
<1> QED
  BY <1>7, <1>8, <1>9 DEF IInv, RequestsNameEntities

\* Each handler, tick and sweep preserves the inductive invariant.
LEMMA NextIInv == IInv /\ [Next]_vars => IInv'
<1> SUFFICES ASSUME IInv, [Next]_vars PROVE IInv'
  OBVIOUS
<1> USE LockConstants
<1>1. ASSUME NEW c \in Clients, PostLock(c) PROVE IInv'
  <2>1. PICK e \in Entities, scopes \in Scopings, break_lock \in BOOLEAN :
          \E seconds \in 1..MaxExpiration[e] : acquire(e, c, scopes, seconds, break_lock)
    BY <1>1 DEF PostLock
  <2>2. PICK seconds \in 1..MaxExpiration[e] : acquire(e, c, scopes, seconds, break_lock)
    BY <2>1
  <2>3. UNCHANGED <<request, sweep, subscribed>>
    BY <1>1 DEF PostLock
  <2> QED
    BY <2>2, <2>3, AcquireKeeps
<1>2. ASSUME NEW c \in Clients, NEW op \in {"release", "extend"}, LookUp(c, op) PROVE IInv'
  <2>1. TypeOK'
    BY <1>2 DEF LookUp, IInv, TypeOK
  <2>2. RequestsNameEntities'
    BY <1>2 DEF LookUp, IInv, TypeOK, RequestsNameEntities
  <2> QED
    BY <1>2, <2>1, <2>2 DEF LookUp, IInv, IndexAgrees, FreshIds
<1>3. ASSUME NEW c \in Clients, Ends(c), request[c].op # "none",
             Erase(request[c].entity) \/ UNCHANGED <<locks_, lock_id_index_>>,
             UNCHANGED <<next_id_, sweep, subscribed>>
      PROVE  IInv'
  <2>1. /\ request' \in [Clients -> [op : {"none", "release", "extend", "write"}, entity : Entities \union {NoEntity},
                              id : Ids \union {0}, collection : Collections]]
        /\ RequestsNameEntities'
    BY <1>3 DEF Ends, IInv, TypeOK, NoRequest, RequestsNameEntities
  <2>2. request[c].entity \in Entities
    BY <1>3 DEF IInv, RequestsNameEntities
  <2>3. CASE Erase(request[c].entity)
    BY <1>3, <2>1, <2>2, <2>3, EraseKeeps DEF IInv, TypeOK
  <2>4. CASE UNCHANGED <<locks_, lock_id_index_>>
    BY <1>3, <2>1, <2>4 DEF IInv, TypeOK, IndexAgrees, FreshIds
  <2> QED
    BY <1>3, <2>3, <2>4
<1>4. ASSUME NEW c \in Clients, DelLock(c) PROVE IInv'
  BY <1>3, <1>4 DEF DelLock, release
<1>5. ASSUME NEW c \in Clients, PutLock(c) PROVE IInv'
  <2> DEFINE e == request[c].entity
  <2>1. PICK seconds \in 1..MaxExpiration[e] : extend(e, c, seconds)
    BY <1>5 DEF PutLock
  <2>2. CASE Held(e) /\ ~Live(e)
    BY <1>3, <1>5, <2>1, <2>2 DEF PutLock, extend
  <2>3. CASE ~(Held(e) /\ ~Live(e)) /\ ~(Live(e) /\ locks_[e].client = c)
    BY <1>3, <1>5, <2>1, <2>3 DEF PutLock, extend
  <2>4. CASE Live(e) /\ locks_[e].client = c
    <3>1. e \in Entities
      BY <1>5 DEF PutLock, IInv, RequestsNameEntities
    <3>2. locks_' = [locks_ EXCEPT ![e].left = seconds] /\ UNCHANGED <<lock_id_index_, next_id_, sweep, subscribed>>
      BY <1>5, <2>1, <2>4 DEF PutLock, extend, Held
    <3>3. locks_[e] \in Locks
      BY <2>4, <3>1 DEF Live, Held, IInv, TypeOK
    <3>4. /\ \A f \in Entities : locks_'[f] = IF f = e THEN [locks_[e] EXCEPT !.left = seconds] ELSE locks_[f]
          /\ [locks_[e] EXCEPT !.left = seconds] \in Locks
          /\ [locks_[e] EXCEPT !.left = seconds].id = locks_[e].id
          /\ [locks_[e] EXCEPT !.left = seconds].left = seconds
      BY <3>1, <3>2, <3>3 DEF IInv, TypeOK, Locks
    <3>5. /\ locks_' \in [Entities -> Locks \union {NoLock}]
          /\ \A f \in Entities : locks_'[f].left <= MaxExpiration[f]
      BY <3>1, <3>2, <3>4, MaxPositive DEF IInv, TypeOK
    <3>6. /\ request' \in [Clients -> [op : {"none", "release", "extend", "write"}, entity : Entities \union {NoEntity},
                              id : Ids \union {0}, collection : Collections]]
          /\ RequestsNameEntities'
      BY <1>5 DEF PutLock, Ends, IInv, TypeOK, NoRequest, RequestsNameEntities
    <3>7. TypeOK'
      BY <3>2, <3>5, <3>6 DEF IInv, TypeOK
    <3>8. IndexAgrees' /\ FreshIds'
      BY <3>2, <3>4 DEF IInv, IndexAgrees, FreshIds
    <3> QED
      BY <3>6, <3>7, <3>8 DEF IInv
  <2> QED
    BY <2>2, <2>3, <2>4
<1>6. ASSUME NEW c \in Clients, BeginWrite(c) PROVE IInv'
  <2>1. TypeOK'
    BY <1>6, LockConstants DEF BeginWrite, IInv, TypeOK
  <2>2. RequestsNameEntities'
    BY <1>6 DEF BeginWrite, IInv, TypeOK, RequestsNameEntities
  <2> QED
    BY <1>6, <2>1, <2>2 DEF BeginWrite, IInv, IndexAgrees, FreshIds
<1>7. ASSUME NEW c \in Clients, Write(c) PROVE IInv'
  BY <1>3, <1>7 DEF Write
<1>8. ASSUME UNCHANGED <<locks_, lock_id_index_, next_id_, request>>,
             sweep' \subseteq sweep, subscribed' \subseteq Entities
      PROVE  IInv'
  BY <1>8 DEF IInv, TypeOK, IndexAgrees, FreshIds, RequestsNameEntities
<1>9. ASSUME NEW e \in Subscribable, CreateSubscription(e) \/ DeleteSubscription(e) PROVE IInv'
  BY <1>8, <1>9, LockConstants DEF CreateSubscription, DeleteSubscription, IInv, TypeOK
<1>10. ASSUME NEW info \in sweep, RemoveSubscriptions(info) PROVE IInv'
  BY <1>8, <1>10 DEF RemoveSubscriptions, IInv, TypeOK
<1>11. CASE Tick
  <2>1. \A f \in Entities : /\ locks_'[f] \in Locks \union {NoLock}
                            /\ locks_'[f].id = locks_[f].id
                            /\ locks_'[f].left <= MaxExpiration[f]
    <3> SUFFICES ASSUME NEW f \in Entities
                 PROVE  /\ locks_'[f] \in Locks \union {NoLock}
                        /\ locks_'[f].id = locks_[f].id
                        /\ locks_'[f].left <= MaxExpiration[f]
      OBVIOUS
    <3>1. CASE Live(f)
      <4>1. locks_[f] \in Locks /\ locks_[f].left > 0 /\ locks_[f].left <= MaxExpiration[f]
        BY <3>1 DEF Live, Held, IInv, TypeOK
      <4>2. locks_'[f] = [locks_[f] EXCEPT !.left = locks_[f].left - 1]
        BY <1>11, <3>1 DEF Tick
      <4> QED
        BY <4>1, <4>2, MaxPositive DEF Locks
    <3>2. CASE ~Live(f)
      BY <1>11, <3>2 DEF Tick, IInv, TypeOK
    <3> QED
      BY <3>1, <3>2
  <2>2. locks_' \in [Entities -> Locks \union {NoLock}]
    BY <1>11, <2>1 DEF Tick
  <2> QED
    BY <1>11, <2>1, <2>2 DEF Tick, IInv, TypeOK, IndexAgrees, FreshIds, RequestsNameEntities
<1>12. CASE CleanupExpired
  <2>1. \A f \in Entities : locks_'[f] = IF f \in Expired THEN NoLock ELSE locks_[f]
    BY <1>12 DEF CleanupExpired
  <2>2. \A i \in Ids : lock_id_index_'[i] = IF lock_id_index_[i] \in Expired THEN NoEntity ELSE lock_id_index_[i]
    BY <1>12 DEF CleanupExpired
  <2>3. NoLock.left = 0 /\ NoLock.id = 0 /\ 0 \notin Ids /\ NoEntity \notin Entities /\ Expired \subseteq Entities
    BY LockConstants DEF NoLock, Ids, Expired
  <2>4. /\ locks_' \in [Entities -> Locks \union {NoLock}]
        /\ \A f \in Entities : locks_'[f].left <= MaxExpiration[f]
    BY <1>12, <2>1, <2>3, MaxPositive DEF CleanupExpired, IInv, TypeOK
  <2>5. lock_id_index_' \in [Ids -> Entities \union {NoEntity}]
    BY <1>12 DEF CleanupExpired, IInv, TypeOK
  <2>6. \A f \in Expired : locks_[f] \in Locks
    BY DEF Expired, Held, IInv, TypeOK
  <2>7. sweep' \subseteq [entity : Entities, scopes : Scopings]
    BY <1>12, <2>3, <2>6 DEF CleanupExpired, Locks
  <2>8. IndexAgrees'
    BY <2>1, <2>2, <2>3 DEF IInv, IndexAgrees
  <2>9. FreshIds'
    BY <1>12, <2>2 DEF CleanupExpired, IInv, FreshIds
  <2> QED
    BY <1>12, <2>4, <2>5, <2>7, <2>8, <2>9 DEF CleanupExpired, IInv, TypeOK, RequestsNameEntities
<1>13. CASE UNCHANGED vars
  BY <1>13 DEF vars, IInv, TypeOK, IndexAgrees, FreshIds, RequestsNameEntities
<1> QED
  BY <1>1, <1>2, <1>4, <1>5, <1>6, <1>7, <1>9, <1>10, <1>11, <1>12, <1>13 DEF Next

\* The manager's maps hold locks of the entities, none longer than its entity's
\* maximum (acquire, extend).
THEOREM TypeCorrect == Spec => []TypeOK
<1>1. IInv => TypeOK
  BY DEF IInv
<1> QED
  BY <1>1, InitIInv, NextIInv, PTL DEF Spec

\* Whatever takes a lock away, locks_ and lock_id_index_ keep naming the same locks.
THEOREM MapsAgree == Spec => []IndexAgrees
<1>1. IInv => IndexAgrees
  BY DEF IInv
<1> QED
  BY <1>1, InitIInv, NextIInv, PTL DEF Spec

\* A client's live lock ends before its time only by that client's release or by a
\* break the entity allows (acquire, release, extend, cleanup_expired).
THEOREM LiveLocksEndByRight == Spec => EndsEarlyOnlyByRight
<1> DEFINE Right(e) == \/ locks_'[e] # NoLock /\ Breakable[e]
                       \/ \E c \in Clients : locks_[e].client = c /\ request[c].op = "release" /\ request'[c] = NoRequest
<1> DEFINE Step == \A e \in Entities : Live(e) /\ locks_'[e].id # locks_[e].id => Right(e)
<1>1. IInv /\ [Next]_vars => [Step]_vars
  <2> SUFFICES ASSUME IInv, Next, NEW e \in Entities, Live(e), locks_'[e].id # locks_[e].id PROVE Right(e)
    OBVIOUS
  <2>1. ASSUME NEW c \in Clients, PostLock(c) PROVE Right(e)
    <3>1. PICK f \in Entities, scopes \in Scopings, break_lock \in BOOLEAN :
            \E seconds \in 1..MaxExpiration[f] : acquire(f, c, scopes, seconds, break_lock)
      BY <2>1 DEF PostLock
    <3>2. PICK seconds \in 1..MaxExpiration[f] : acquire(f, c, scopes, seconds, break_lock)
      BY <3>1
    <3>3. locks_' = [locks_ EXCEPT ![f] = [id |-> next_id_, client |-> c, scopes |-> scopes, left |-> seconds]]
      BY <3>2 DEF acquire
    <3>4. f = e
      BY <3>3 DEF IInv, TypeOK
    <3>5. locks_'[e] # NoLock
      BY <3>2, <3>3, <3>4, LockConstants DEF IInv, TypeOK, NoLock
    <3> QED
      BY <3>2, <3>4, <3>5 DEF acquire
  <2>2. ASSUME NEW c \in Clients, DelLock(c) PROVE Right(e)
    BY <2>2 DEF DelLock, release, Erase, Ends, Held, IInv, TypeOK, RequestsNameEntities
  <2>3. ASSUME NEW c \in Clients, PutLock(c) PROVE FALSE
    <3>1. PICK seconds \in 1..MaxExpiration[request[c].entity] : extend(request[c].entity, c, seconds)
      BY <2>3 DEF PutLock
    <3>2. request[c].entity \in Entities
      BY <2>3 DEF PutLock, IInv, RequestsNameEntities
    <3>3. request[c].entity # e => locks_'[e] = locks_[e]
      BY <3>1, <3>2 DEF extend, Erase, IInv, TypeOK
    <3>4. request[c].entity = e => locks_'[e].id = locks_[e].id
      <4> SUFFICES ASSUME request[c].entity = e PROVE locks_'[e].id = locks_[e].id
        OBVIOUS
      <4>1. locks_[e] \in Locks
        BY DEF Live, Held, IInv, TypeOK
      <4>2. locks_' = IF locks_[e].client = c THEN [locks_ EXCEPT ![e].left = seconds] ELSE locks_
        BY <3>1 DEF extend, Live
      <4> QED
        BY <4>1, <4>2 DEF IInv, TypeOK, Locks
    <3> QED
      BY <3>3, <3>4
  <2>4. CASE Tick
    BY <2>4 DEF Tick, Live, Held, IInv, TypeOK, Locks
  <2>5. CASE CleanupExpired
    BY <2>5 DEF CleanupExpired, Expired
  <2> QED
    BY <2>1, <2>2, <2>3, <2>4, <2>5
    DEF Next, LookUp, BeginWrite, Write, CreateSubscription, DeleteSubscription, RemoveSubscriptions
<1>2. Spec => [][Step]_vars
  BY <1>1, InitIInv, NextIInv, PTL DEF Spec
<1> QED
  BY <1>2 DEF EndsEarlyOnlyByRight
=============================================================================
