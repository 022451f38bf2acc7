------------------------- MODULE SqliteFaultStorage -------------------------
(***************************************************************************)
(* The SQLite backend (sqlite_fault_storage.cpp), statement by statement.  *)
(* A FAILED report runs in a transaction: it works on an image of the      *)
(* database that COMMIT makes durable and that an error or a crash throws  *)
(* away.  Every other operation is one autocommitted statement as far as   *)
(* these tables go.  mutex_ is held from the first statement of a call to  *)
(* its last, so one call is in progress at a time.  faults_ and            *)
(* near_misses_ are the durable tables; the backend is to behave as the    *)
(* in-memory one, and FaultStorage states how that one behaves.            *)
(***************************************************************************)
EXTENDS FaultStorage

VARIABLES
  confirmed_at_ns,  \* code -> the column of that name, 0 = never confirmed
  call              \* the FAILED report in progress and what its transaction wrote

svars == <<vars, confirmed_at_ns, call>>

NoCall == [step |-> "none"]

Tables == [faults : [Codes -> Faults], near : [Codes -> Seq(NearMisses)], confirmed : [Codes -> Nat]]

Database == [faults |-> faults_, near |-> near_misses_, confirmed |-> confirmed_at_ns]

Calls ==
  {NoCall} \union
  [step : {"row", "near", "commit"}, code : Codes, severity : Severities, source : Sources,
   image : Tables]

STypeOK ==
  /\ TypeOK
  /\ confirmed_at_ns \in [Codes -> Nat]
  /\ call \in Calls

SInit ==
  /\ Init
  /\ confirmed_at_ns = [code \in Codes |-> 0]
  /\ call = NoCall

-----------------------------------------------------------------------------
(* report_fault_event_locked() on one row *)

\* An existing row: one path serves a live fault and a reactivated one, whose
\* counter restarts from 0 and so becomes -1.
RowAfter(row, event, severity, config, time) ==
  LET is_reactivation == row.status = "CLEARED"
      read == IF is_reactivation THEN 0 ELSE clamp_debounce_counter(row.debounce_counter, config)
      counter == clamp_debounce_counter(read + (IF event = "FAILED" THEN -1 ELSE 1), config)
  IN  [row EXCEPT !.debounce_counter = counter,
         !.status = StatusAfter(event, severity, counter, row.status, config),
         !.first_occurred = IF is_reactivation THEN time ELSE @,
         !.occurrence_count = IF is_reactivation /\ @ < MaxOccurrences THEN @ + 1 ELSE @,
         !.last_failed_time = IF event = "FAILED" THEN time ELSE @]

\* The INSERT of a fault not seen before.
InsertedRow(severity, config, time) ==
  [status |-> StatusAfter("FAILED", severity, -1, "", config), debounce_counter |-> -1,
   occurrence_count |-> 1, first_occurred |-> time, last_failed_time |-> time]

RowWritten(row, event, severity, config, time) ==
  IF row.status = "ABSENT" THEN InsertedRow(severity, config, time)
  ELSE RowAfter(row, event, severity, config, time)

\* A slip: an update never dates the confirmation, only an insert does.
ConfirmedAt_InsertOnly(at, before, after, time) ==
  IF before = "ABSENT" /\ after = "CONFIRMED" THEN time ELSE at

\* The confirmation is dated on the transition into CONFIRMED.
ConfirmedAt(at, before, after, time) ==
  IF after = "CONFIRMED" /\ before # "CONFIRMED" THEN time ELSE at

-----------------------------------------------------------------------------
(* A FAILED report: BEGIN IMMEDIATE, the row, the near miss, COMMIT *)

BeginImmediate(code, severity, source) ==
  /\ up = "up" /\ now <= LastReport
  /\ call = NoCall
  /\ call' = [step |-> "row", code |-> code, severity |-> severity, source |-> source,
               image |-> Database]
  /\ UNCHANGED <<vars, confirmed_at_ns>>

\* A slip: without the transaction the row is durable as soon as it is written.
WriteRow_Autocommit ==
  LET code == call.code
      config == ConfigOf(call.source)
      row == RowWritten(call.image.faults[code], "FAILED", call.severity, config, now)
  IN  /\ call.step = "row"
      /\ call' = [call EXCEPT !.image.faults[code] = row,
                    !.step = IF is_near_miss("FAILED", row.status) THEN "near" ELSE "commit"]
      /\ faults_' = call'.image.faults
      /\ UNCHANGED <<near_misses_, params, up, now, streak, confirmed_at_ns>>

WriteRow ==
  LET code == call.code
      config == ConfigOf(call.source)
      image == call.image
      before == image.faults[code]
      row == RowWritten(before, "FAILED", call.severity, config, now)
      at == ConfirmedAt(image.confirmed[code], before.status, row.status, now)
  IN  /\ call.step = "row"
      /\ call' = [call EXCEPT
                    !.image = [image EXCEPT !.faults[code] = row, !.confirmed[code] = at],
                    !.step = IF is_near_miss("FAILED", row.status) THEN "near" ELSE "commit"]
      /\ UNCHANGED <<vars, confirmed_at_ns>>

\* record_near_miss_locked(): the INSERT and the trim by arrival.
WriteNearMiss ==
  LET code == call.code
      miss == NearMiss(call.image.faults[code], ConfigOf(call.source))
  IN  /\ call.step = "near"
      /\ call' = [call EXCEPT !.step = "commit",
                    !.image.near[code] = Newest(Append(@, miss), params.max_near_misses)]
      /\ UNCHANGED <<vars, confirmed_at_ns>>

Commit ==
  /\ call.step = "commit"
  /\ faults_' = call.image.faults
  /\ near_misses_' = call.image.near
  /\ confirmed_at_ns' = call.image.confirmed
  /\ streak' = [streak EXCEPT ![call.code] = StreakAfter(@, "FAILED", ConfigOf(call.source))]
  /\ call' = NoCall
  /\ UNCHANGED <<params, up, now>>

\* A statement of the transaction fails: ROLLBACK, and the caller gets the error.
Rollback ==
  /\ call # NoCall
  /\ call' = NoCall
  /\ UNCHANGED <<vars, confirmed_at_ns>>

-----------------------------------------------------------------------------
(* The operations of one autocommitted statement *)

\* Between two calls, and with nothing in progress.
Idle == call = NoCall /\ UNCHANGED call

ReportPassed(code, severity, source) ==
  LET config == ConfigOf(source)
      row == RowAfter(faults_[code], "PASSED", severity, config, now)
  IN  /\ Idle /\ up = "up" /\ now <= LastReport
      /\ faults_[code].status \notin {"ABSENT", "CLEARED"}
      /\ faults_' = [faults_ EXCEPT ![code] = row]
      /\ streak' = [streak EXCEPT ![code] = StreakAfter(@, "PASSED", config)]
      /\ UNCHANGED <<near_misses_, params, up, now, confirmed_at_ns>>

SClearFault(code) == ClearFault(code) /\ Idle /\ UNCHANGED confirmed_at_ns

\* The SELECT and the UPDATE share their predicate and the lock.
SCheckTimeBasedConfirmation ==
  LET cutoff == now - AutoConfirmAfter
      flipped == {code \in Codes : /\ faults_[code].status = "PREFAILED"
                                   /\ faults_[code].last_failed_time <= cutoff
                                   /\ faults_[code].last_failed_time > 0}
  IN  /\ Idle /\ up = "up" /\ AutoConfirmAfter > 0 /\ flipped # {}
      /\ faults_' = [code \in Codes |-> IF code \in flipped
                       THEN [faults_[code] EXCEPT !.status = "CONFIRMED"] ELSE faults_[code]]
      /\ confirmed_at_ns' = [code \in Codes |-> IF code \in flipped THEN now ELSE confirmed_at_ns[code]]
      /\ UNCHANGED <<near_misses_, params, up, now, streak>>

\* The process dies; an open transaction dies with it.
Crash ==
  /\ Stop
  /\ call' = NoCall
  /\ UNCHANGED confirmed_at_ns

SConfigure(found) == Configure(found) /\ Idle /\ UNCHANGED confirmed_at_ns

SReclassify == ReclassifyHealedAsCleared /\ Idle /\ UNCHANGED confirmed_at_ns

\* A call reads the clock once, before its first statement; a tick during the
\* call is seen by nobody before it ends, and is taken after it.
STick == Tick /\ Idle /\ UNCHANGED confirmed_at_ns

SNext ==
  \/ \E code \in Codes, severity \in Severities, source \in Sources :
       BeginImmediate(code, severity, source) \/ ReportPassed(code, severity, source)
  \/ WriteRow \/ WriteNearMiss \/ Commit \/ Rollback
  \/ \E code \in Codes : SClearFault(code)
  \/ SCheckTimeBasedConfirmation
  \/ Crash
  \/ \E found \in Parameters : SConfigure(found)
  \/ SReclassify
  \/ STick

SSpec == SInit /\ [][SNext]_svars

-----------------------------------------------------------------------------
(* Properties *)

\* A CONFIRMED row says when it was confirmed, and that is within the outage the
\* row is about: the INSERT, the UPDATE and the timer all date the confirmation,
\* and a reactivation does not inherit the date of the outage before it.
ConfirmedIsDated ==
  \A code \in Codes :
    faults_[code].status = "CONFIRMED" =>
      /\ confirmed_at_ns[code] > 0
      /\ confirmed_at_ns[code] >= faults_[code].first_occurred

\* The two backends agree (fault_storage.cpp:200-204): whatever is reported,
\* cleared, restarted, rolled back or lost in a crash, the durable tables go
\* through the states the in-memory backend goes through, near misses included.
AgreesWithInMemory == SafetySpec
=============================================================================
