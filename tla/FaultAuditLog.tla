---------------------------- MODULE FaultAuditLog ----------------------------
(***************************************************************************)
(* The hash-chained audit log (fault_audit_log.cpp) under the node that    *)
(* writes it (audit_transition() and the lifecycle markers), statement by  *)
(* statement: an append and the rotation after it are two transactions of  *)
(* one call, any statement may fail, and the process may die between two.  *)
(* mutex_ is held over the call.  SHA-256 is taken as free of collisions:  *)
(* a digest is the list of what was hashed into it.                        *)
(***************************************************************************)
EXTENDS Integers, Sequences, FiniteSets

CONSTANTS Transitions,  \* what audit_transition() is called with
          Retentions,   \* the values retention_max_records may have at a start
          FailClosed,   \* audit_log.fail_closed
          MaxAppends    \* bound: appends in a behaviour

Markers == {"logging_activated", "logging_deactivated"}
AuditEvents == Transitions \union Markers

VARIABLES
  db,         \* the durable database
  head_,      \* the cached chain head
  retention_max_records_,
  up,         \* the process runs
  call,       \* the call in progress and what its open transaction wrote
  audit_dropped_writes_,
  history,    \* history: the events whose append committed
  offered,    \* history: transitions offered since the process started
  started,    \* history: transitions committed before the process started
  appends     \* how many appends were begun

vars == <<db, head_, retention_max_records_, up, call, audit_dropped_writes_,
          history, offered, started, appends>>

genesis_hash == <<>>
sha256_hex(prev_hash, seq, event) == Append(prev_hash, [seq |-> seq, event |-> event])
Digests == Seq([seq : Nat, event : AuditEvents])

ChainHead == [seq : Nat, record_hash : Digests]
AuditRecord == [seq : Nat, event : AuditEvents, prev_hash : Digests, record_hash : Digests]

\* A missing head row reads as the head of an empty chain.
Databases ==
  [log : Seq(AuditRecord), head : ChainHead,
   anchors : SUBSET [last_seq : Nat, last_hash : Digests], guard : BOOLEAN]

Steps == {"insert", "head", "commit", "rotate", "seal", "prune", "forget", "close"}
Idle == [step |-> "idle"]
Calls == {Idle} \union [step : Steps, event : AuditEvents, image : Databases]

TypeOK ==
  /\ db \in Databases
  /\ head_ \in ChainHead
  /\ retention_max_records_ \in Nat
  /\ up \in BOOLEAN
  /\ call \in Calls
  /\ audit_dropped_writes_ \in Nat /\ offered \in Nat /\ started \in Nat /\ appends \in Nat
  /\ history \in Seq(AuditEvents)

Init ==
  /\ db = [log |-> <<>>, head |-> [seq |-> 0, record_hash |-> genesis_hash],
           anchors |-> {}, guard |-> FALSE]
  /\ head_ = db.head
  /\ retention_max_records_ = 0
  /\ up = FALSE
  /\ call = Idle
  /\ audit_dropped_writes_ = 0 /\ offered = 0 /\ started = 0 /\ appends = 0
  /\ history = <<>>

-----------------------------------------------------------------------------
(* verify() *)

FirstLinks(d) ==
  LET first == d.log[1]
  IN  IF first.seq = 1 THEN first.prev_hash = genesis_hash
      ELSE \E anchor \in d.anchors : /\ anchor.last_seq = first.seq - 1
                                     /\ anchor.last_hash = first.prev_hash

Chained(d) ==
  \A i \in 2..Len(d.log) : /\ d.log[i].seq = d.log[i-1].seq + 1
                           /\ d.log[i].prev_hash = d.log[i-1].record_hash

Recomputes(d) ==
  \A i \in 1..Len(d.log) :
    d.log[i].record_hash = sha256_hex(d.log[i].prev_hash, d.log[i].seq, d.log[i].event)

HeadMatches(d) ==
  LET last == d.log[Len(d.log)]
  IN  d.head.seq = last.seq /\ d.head.record_hash = last.record_hash

verify(d) ==
  IF d.log # <<>> THEN FirstLinks(d) /\ Chained(d) /\ Recomputes(d) /\ HeadMatches(d)
  ELSE d.head.seq # 0 => \E anchor \in d.anchors : /\ anchor.last_seq = d.head.seq
                                                   /\ anchor.last_hash = d.head.record_hash

-----------------------------------------------------------------------------
(* append() *)

\* The transitions among events: markers bypass audit_transition().
Counted(events) == Len(SelectSeq(events, LAMBDA e : e \in Transitions))

BeginAppend(event) ==
  /\ up /\ call = Idle /\ appends < MaxAppends
  /\ call' = [step |-> "insert", event |-> event, image |-> db]
  /\ offered' = IF event \in Transitions THEN offered + 1 ELSE offered
  /\ appends' = appends + 1
  /\ UNCHANGED <<db, head_, retention_max_records_, up, audit_dropped_writes_, history, started>>

\* seq is the primary key: an insert of one that is there fails.
InsertRecord ==
  LET record == [seq |-> head_.seq + 1, event |-> call.event, prev_hash |-> head_.record_hash,
                 record_hash |-> sha256_hex(head_.record_hash, head_.seq + 1, call.event)]
  IN  /\ call.step = "insert"
      /\ \A i \in 1..Len(call.image.log) : call.image.log[i].seq # record.seq
      /\ call' = [call EXCEPT !.step = "head", !.image.log = Append(@, record)]
      /\ UNCHANGED <<db, head_, retention_max_records_, up, audit_dropped_writes_,
                     history, offered, started, appends>>

\* store_head_locked()
StoreHead ==
  LET last == call.image.log[Len(call.image.log)]
  IN  /\ call.step = "head"
      /\ call' = [call EXCEPT !.step = "commit",
                    !.image.head = [seq |-> last.seq, record_hash |-> last.record_hash]]
      /\ UNCHANGED <<db, head_, retention_max_records_, up, audit_dropped_writes_,
                     history, offered, started, appends>>

CommitAppend ==
  /\ call.step = "commit"
  /\ db' = call.image
  /\ head_' = call.image.head
  /\ history' = Append(history, call.event)
  /\ call' = [call EXCEPT !.step = "rotate"]
  /\ UNCHANGED <<retention_max_records_, up, audit_dropped_writes_, offered, started, appends>>

\* The call returns; the last marker is written by the destructor.
Return ==
  /\ call' = Idle
  /\ up' = (call.event # "logging_deactivated")

\* A slip: the failure is logged and not counted.
FailAppend_Uncounted ==
  /\ call.step \in {"insert", "head", "commit"}
  /\ Return
  /\ UNCHANGED <<db, head_, retention_max_records_, audit_dropped_writes_,
                 history, offered, started, appends>>

\* A statement fails: ROLLBACK.  audit_transition() counts the drop and, when it
\* fails closed, lets the exception end the process; a marker is only logged.
FailAppend ==
  /\ call.step \in {"insert", "head", "commit"}
  /\ IF call.event \in Transitions
     THEN /\ audit_dropped_writes_' = audit_dropped_writes_ + 1
          /\ call' = Idle
          /\ up' = ~FailClosed
     ELSE /\ UNCHANGED audit_dropped_writes_
          /\ Return
  /\ UNCHANGED <<db, head_, retention_max_records_, history, offered, started, appends>>

-----------------------------------------------------------------------------
(* rotate_if_needed_locked(), in a transaction of its own after the append *)

Excess == IF retention_max_records_ > 0 THEN Len(db.log) - retention_max_records_ ELSE 0

\* The newest of the records to prune, found by its seq.
BoundarySeq == db.log[1].seq + Excess - 1

RotateNotNeeded ==
  /\ call.step = "rotate" /\ Excess <= 0
  /\ Return
  /\ UNCHANGED <<db, head_, retention_max_records_, audit_dropped_writes_,
                 history, offered, started, appends>>

\* BEGIN IMMEDIATE, and the prune guard opens for the writes below.
OpenGuard ==
  /\ call.step = "rotate" /\ Excess > 0
  /\ \E i \in 1..Len(db.log) : db.log[i].seq = BoundarySeq
  /\ call' = [call EXCEPT !.step = "seal", !.image = [db EXCEPT !.guard = TRUE]]
  /\ UNCHANGED <<db, head_, retention_max_records_, up, audit_dropped_writes_,
                 history, offered, started, appends>>

\* A slip: the anchor takes the digest the boundary record links to.
SealAnchor_PrevHash ==
  LET boundary == CHOOSE i \in 1..Len(db.log) : db.log[i].seq = BoundarySeq
      anchor == [last_seq |-> BoundarySeq, last_hash |-> db.log[boundary].prev_hash]
  IN  /\ call.step = "seal" /\ call.image.guard
      /\ call' = [call EXCEPT !.step = "prune", !.image.anchors = @ \union {anchor}]
      /\ UNCHANGED <<db, head_, retention_max_records_, up, audit_dropped_writes_,
                     history, offered, started, appends>>

\* last_seq is the primary key: an anchor that is there stays.
SealAnchor ==
  LET boundary == CHOOSE i \in 1..Len(db.log) : db.log[i].seq = BoundarySeq
      anchor == [last_seq |-> BoundarySeq, last_hash |-> db.log[boundary].record_hash]
      known == \E a \in call.image.anchors : a.last_seq = BoundarySeq
  IN  /\ call.step = "seal" /\ call.image.guard
      /\ call' = [call EXCEPT !.step = "prune",
                    !.image.anchors = IF known THEN @ ELSE @ \union {anchor}]
      /\ UNCHANGED <<db, head_, retention_max_records_, up, audit_dropped_writes_,
                     history, offered, started, appends>>

PruneRecords ==
  /\ call.step = "prune" /\ call.image.guard
  /\ call' = [call EXCEPT !.step = "forget",
                !.image.log = SelectSeq(@, LAMBDA r : r.seq > BoundarySeq)]
  /\ UNCHANGED <<db, head_, retention_max_records_, up, audit_dropped_writes_,
                 history, offered, started, appends>>

PruneAnchors ==
  /\ call.step = "forget" /\ call.image.guard
  /\ call' = [call EXCEPT !.step = "close",
                !.image.anchors = {a \in @ : a.last_seq >= BoundarySeq}]
  /\ UNCHANGED <<db, head_, retention_max_records_, up, audit_dropped_writes_,
                 history, offered, started, appends>>

\* The guard closes, and COMMIT.
CommitRotate ==
  /\ call.step = "close"
  /\ db' = [call.image EXCEPT !.guard = FALSE]
  /\ Return
  /\ UNCHANGED <<head_, retention_max_records_, audit_dropped_writes_,
                 history, offered, started, appends>>

\* ROLLBACK; append() swallows the error and the next one retries.
FailRotate ==
  /\ call.step \in {"rotate", "seal", "prune", "forget", "close"} /\ Excess > 0
  /\ Return
  /\ UNCHANGED <<db, head_, retention_max_records_, audit_dropped_writes_,
                 history, offered, started, appends>>

-----------------------------------------------------------------------------
(* The process *)

\* A slip: the numbering resumes from the records that are there.
Start_CountsRecords(retention) ==
  /\ ~up /\ appends < MaxAppends
  /\ up' = TRUE
  /\ head_' = [db.head EXCEPT !.seq = Len(db.log)]
  /\ retention_max_records_' = retention
  /\ call' = [step |-> "insert", event |-> "logging_activated", image |-> db]
  /\ appends' = appends + 1
  /\ audit_dropped_writes_' = 0 /\ offered' = 0
  /\ started' = Counted(history)
  /\ UNCHANGED <<db, history>>

\* A start: load_head_locked(), and the marker of the activation is appended.
Start(retention) ==
  /\ ~up /\ appends < MaxAppends
  /\ up' = TRUE
  /\ head_' = db.head
  /\ retention_max_records_' = retention
  /\ call' = [step |-> "insert", event |-> "logging_activated", image |-> db]
  /\ appends' = appends + 1
  /\ audit_dropped_writes_' = 0 /\ offered' = 0
  /\ started' = Counted(history)
  /\ UNCHANGED <<db, history>>

\* The process dies, and an open transaction with it.
Die ==
  /\ up
  /\ up' = FALSE
  /\ call' = Idle
  /\ UNCHANGED <<db, head_, retention_max_records_, audit_dropped_writes_,
                 history, offered, started, appends>>

Next ==
  \/ \E event \in Transitions \union {"logging_deactivated"} : BeginAppend(event)
  \/ InsertRecord \/ StoreHead \/ CommitAppend \/ FailAppend
  \/ RotateNotNeeded \/ OpenGuard \/ SealAnchor \/ PruneRecords \/ PruneAnchors
  \/ CommitRotate \/ FailRotate
  \/ \E retention \in Retentions : Start(retention)
  \/ Die

Spec == Init /\ [][Next]_vars

-----------------------------------------------------------------------------
(* Properties *)

\* verify() accepts whatever the class wrote, at every moment another reader can
\* see: between the transactions of a call, after a failed statement, a crash or
\* a rotation, and after a restart with another retention.
AlwaysVerifies == verify(db)

\* What is retained is the newest part of what was appended, in order, and the
\* head counts all of it: no committed append is lost, repeated or renumbered by
\* a failure, a crash or a rotation.
RetainsTheTail ==
  LET pruned == Len(history) - Len(db.log)
  IN  /\ db.head.seq = Len(history)
      /\ pruned >= 0
      /\ \A i \in 1..Len(db.log) : /\ db.log[i].event = history[pruned + i]
                                   /\ db.log[i].seq = pruned + i

\* Between calls, every transition offered to the running process is in the log
\* or counted in audit_dropped_writes_.
HolesAreCounted ==
  up /\ call = Idle => offered = Counted(history) - started + audit_dropped_writes_
=============================================================================
