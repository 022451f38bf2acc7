----------------------------- MODULE MCEvidence -----------------------------
(***************************************************************************)
(* The fault manager's captures and its audit log in one run.  The two     *)
(* share no state: subject says which of them a behaviour is of, and the   *)
(* other stays as it began.  The workers are interchangeable.              *)
(***************************************************************************)
EXTENDS SnapshotCapture, TLC

CONSTANTS w1, w2

MCWorkers == {w1, w2}
WorkerSymmetry == Permutations(MCWorkers)

CONSTANTS Transitions, Retentions, FailClosed, MaxAppends

VARIABLES
  db, head_, retention_max_records_, audit_up, call, audit_dropped_writes_,
  history, offered, started, appends,
  subject   \* "captures" | "audit"

auditVars == <<db, head_, retention_max_records_, audit_up, call, audit_dropped_writes_,
               history, offered, started, appends>>

Audit == INSTANCE FaultAuditLog WITH up <- audit_up

\* verify() accepts what is in the database at every moment.
AlwaysVerifies == Audit!AlwaysVerifies

\* What is retained is the newest part of what was appended, in order.
RetainsTheTail == Audit!RetainsTheTail

\* A transition that is not in the log is counted as dropped.
HolesAreCounted == Audit!HolesAreCounted

EvidenceInit == Init /\ Audit!Init /\ subject \in {"captures", "audit"}

EvidenceNext ==
  \/ subject = "captures" /\ Next /\ UNCHANGED <<auditVars, subject>>
  \/ subject = "audit" /\ Audit!Next /\ UNCHANGED <<vars, subject>>

EvidenceSpec == EvidenceInit /\ [][EvidenceNext]_<<vars, auditVars, subject>>
=============================================================================
