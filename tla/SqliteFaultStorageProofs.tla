---------------------- MODULE SqliteFaultStorageProofs ----------------------
(***************************************************************************)
(* The SQLite backend implements the in-memory one, for every set of       *)
(* codes, sources and parameter sets.                                      *)
(***************************************************************************)
EXTENDS SqliteFaultStorage, FaultStorageProofs

\* The one path of the SQLite backend for live and reactivated rows computes
\* what the separate paths of the in-memory backend compute.
LEMMA RowIsReported ==
  ASSUME NEW row \in Faults, NEW event \in Events, NEW severity \in Severities,
         NEW config \in ValidConfigs, NEW time \in Nat, ~Ignored(row, event)
  PROVE  RowWritten(row, event, severity, config, time) = Reported(row, event, severity, config, time)
<1>1. CASE row.status = "ABSENT"
  BY <1>1 DEF RowWritten, Reported, InsertedRow, NewFault
<1>2. CASE row.status = "CLEARED"
  <2>1. event = "FAILED"
    BY <1>2 DEF Ignored, Events
  <2>2. clamp_debounce_counter(0 + -1, config) = -1
    BY ValidFields DEF clamp_debounce_counter
  <2> DEFINE status == StatusAfter("FAILED", severity, -1, "CLEARED", config)
             count == IF row.occurrence_count < MaxOccurrences
                      THEN row.occurrence_count + 1 ELSE row.occurrence_count
  <2>3. RowWritten(row, event, severity, config, time) =
          [row EXCEPT !.debounce_counter = -1, !.status = status, !.first_occurred = time,
                      !.occurrence_count = count, !.last_failed_time = time]
    BY <1>2, <2>1, <2>2 DEF RowWritten, RowAfter
  <2>4. Reported(row, event, severity, config, time) =
          [status |-> status, debounce_counter |-> -1, occurrence_count |-> count,
           first_occurred |-> time, last_failed_time |-> time]
    BY <1>2, <2>1 DEF Reported, Ignored, Reactivated
  <2> HIDE DEF status, count
  <2> QED BY <2>3, <2>4 DEF Faults
<1>3. CASE row.status \notin {"ABSENT", "CLEARED"}
  <2> DEFINE counter == clamp_debounce_counter(
                          clamp_debounce_counter(row.debounce_counter, config)
                            + (IF event = "FAILED" THEN -1 ELSE 1), config)
             status == StatusAfter(event, severity, counter, row.status, config)
             failed == IF event = "FAILED" THEN time ELSE row.last_failed_time
  <2>1. RowWritten(row, event, severity, config, time) =
          [row EXCEPT !.debounce_counter = counter, !.status = status,
                      !.first_occurred = row.first_occurred,
                      !.occurrence_count = row.occurrence_count, !.last_failed_time = failed]
    BY <1>3 DEF RowWritten, RowAfter
  <2>2. Reported(row, event, severity, config, time) =
          [row EXCEPT !.debounce_counter = counter, !.status = status,
                      !.last_failed_time = failed]
    BY <1>3 DEF Reported, Ignored, Updated
  <2> HIDE DEF counter, status, failed
  <2> QED BY <2>1, <2>2 DEF Faults
<1> QED BY <1>1, <1>2, <1>3

\* Which outage a report leaves the fault in.
LEMMA ReportedDates ==
  ASSUME NEW fault \in Faults, NEW event \in Events, NEW severity \in Severities,
         NEW config \in ValidConfigs, NEW time \in Nat, ~Ignored(fault, event)
  PROVE  LET after == Reported(fault, event, severity, config, time)
         IN  IF fault.status \in {"ABSENT", "CLEARED"} THEN after.first_occurred = time
             ELSE after.first_occurred = fault.first_occurred
BY DEF Reported, NewFault, Reactivated, Updated, Faults

-----------------------------------------------------------------------------
(* The transaction of a FAILED report *)

\* The report in progress, as the in-memory backend would have it.
CallRow(c) == Reported(faults_[c.code], "FAILED", c.severity, ConfigOf(c.source), now)

\* What the image of an open transaction holds after each of its statements.
ImageOK(c) ==
  /\ up = "up" /\ now <= LastReport
  /\ c.step = "row" => c.image = Database
  /\ c.step # "row" =>
       /\ c.image.faults = [faults_ EXCEPT ![c.code] = CallRow(c)]
       /\ c.image.confirmed = [confirmed_at_ns EXCEPT ![c.code] =
            ConfirmedAt(confirmed_at_ns[c.code], faults_[c.code].status, CallRow(c).status, now)]
  /\ c.step = "near" => c.image.near = near_misses_ /\ is_near_miss("FAILED", CallRow(c).status)
  /\ c.step = "commit" => c.image.near = [near_misses_ EXCEPT ![c.code] =
       SeriesAfter(near_misses_[c.code], "FAILED", CallRow(c), ConfigOf(c.source))]

Transaction == call # NoCall => ImageOK(call)

\* The fields of a call.
LEMMA CallFields ==
  ASSUME STypeOK, call # NoCall
  PROVE  /\ call \in [step : {"row", "near", "commit"}, code : Codes, severity : Severities,
                      source : Sources, image : Tables]
         /\ call.code \in Codes /\ call.severity \in Severities /\ call.source \in Sources
         /\ call.image \in Tables
         /\ call.step \in {"row", "near", "commit"}
         /\ ConfigOf(call.source) \in ValidConfigs
         /\ faults_[call.code] \in Faults /\ now \in Nat
         /\ CallRow(call) \in Faults /\ CallRow(call).status \in Statuses
<1>1. call \in [step : {"row", "near", "commit"}, code : Codes, severity : Severities,
                source : Sources, image : Tables]
  BY DEF STypeOK, Calls
<1>2. ConfigOf(call.source) \in ValidConfigs /\ faults_[call.code] \in Faults /\ now \in Nat
  BY <1>1, ConfigsValid DEF STypeOK, TypeOK
<1>3. ~Ignored(faults_[call.code], "FAILED") /\ "FAILED" \in Events
  BY DEF Ignored, Events
<1>4. CallRow(call) \in Faults /\ CallRow(call).status \in Statuses
  BY <1>1, <1>2, <1>3, ReportedFacts DEF CallRow
<1> QED BY <1>1, <1>2, <1>4

\* Each statement keeps the image what it should be.
LEMMA TransactionStep ==
  STypeOK /\ Transaction /\ [SNext]_svars => Transaction'
<1> SUFFICES ASSUME STypeOK, Transaction, [SNext]_svars, call' # NoCall
             PROVE  ImageOK(call)'
  BY DEF Transaction
<1>1. ASSUME NEW code \in Codes, NEW severity \in Severities, NEW source \in Sources,
             BeginImmediate(code, severity, source)
      PROVE  ImageOK(call)'
  BY <1>1 DEF BeginImmediate, ImageOK, Database, vars
<1>2. CASE WriteRow
  <2>0. call # NoCall /\ call.step = "row"
    BY <1>2 DEF WriteRow, NoCall
  <2> DEFINE config == ConfigOf(call.source)
             row == CallRow(call)
  <2>1. /\ call \in [step : {"row", "near", "commit"}, code : Codes, severity : Severities,
                     source : Sources, image : Tables]
        /\ config \in ValidConfigs /\ faults_[call.code] \in Faults /\ now \in Nat
        /\ call.severity \in Severities /\ call.code \in Codes
    BY <2>0, CallFields
  <2>2. ImageOK(call) /\ call.image = Database
    BY <2>0 DEF Transaction, ImageOK
  <2>3. /\ call.image.faults[call.code] = faults_[call.code]
        /\ call.image.confirmed[call.code] = confirmed_at_ns[call.code]
    BY <2>2 DEF Database
  <2>4. ~Ignored(faults_[call.code], "FAILED") /\ "FAILED" \in Events
    BY DEF Ignored, Events
  <2>5. RowWritten(faults_[call.code], "FAILED", call.severity, config, now) = row
    BY <2>1, <2>4, RowIsReported DEF CallRow
  <2> DEFINE at == ConfirmedAt(confirmed_at_ns[call.code], faults_[call.code].status, row.status, now)
             image == [Database EXCEPT !.faults[call.code] = row, !.confirmed[call.code] = at]
             step == IF is_near_miss("FAILED", row.status) THEN "near" ELSE "commit"
  <2>6. call' = [call EXCEPT !.image = image, !.step = step] /\ UNCHANGED <<vars, confirmed_at_ns>>
    BY <1>2, <2>2, <2>3, <2>5, Zenon DEF WriteRow
  <2>i. /\ image.faults = [faults_ EXCEPT ![call.code] = row] /\ image.near = near_misses_
        /\ image.confirmed = [confirmed_at_ns EXCEPT ![call.code] = at]
    BY DEF Database
  <2> HIDE DEF row, config, image, step, at
  <2>7. /\ call'.code = call.code /\ call'.severity = call.severity /\ call'.source = call.source
        /\ call'.step = step /\ call'.image = image
    BY <2>1, <2>6
  <2>8. CallRow(call)' = row
    BY <2>6, <2>7 DEF CallRow, row, ConfigOf, vars
  <2>9. ConfigOf(call.source)' = ConfigOf(call.source)
    BY <2>6, <2>7 DEF ConfigOf, vars
  <2>10. near_misses_ = [near_misses_ EXCEPT ![call.code] = near_misses_[call.code]]
    BY <2>1 DEF STypeOK, TypeOK
  <2>11. step \in {"near", "commit"} /\ (step = "near" <=> is_near_miss("FAILED", row.status))
    BY DEF step, is_near_miss
  <2>12. call'.image.near = near_misses_
    BY <2>i, <2>7
  <2>13. step = "commit" =>
           SeriesAfter(near_misses_[call.code], "FAILED", CallRow(call), ConfigOf(call.source))'
             = near_misses_[call.code]
    BY <2>6, <2>7, <2>8, <2>11 DEF SeriesAfter, vars
  <2>14. ConfirmedAt(confirmed_at_ns[call.code], faults_[call.code].status, row.status, now)' = at
    BY <2>6, <2>7, <2>8 DEF at, vars, row
  <2> QED BY <2>2, <2>i, <2>6, <2>7, <2>8, <2>10, <2>11, <2>12, <2>13, <2>14 DEF ImageOK, vars, row
<1>3. CASE WriteNearMiss
  <2>0. call # NoCall /\ call.step = "near"
    BY <1>3 DEF WriteNearMiss, NoCall
  <2> DEFINE row == CallRow(call)
             trimmed == Newest(Append(near_misses_[call.code], NearMiss(row, ConfigOf(call.source))),
                               params.max_near_misses)
  <2>1. /\ call \in [step : {"row", "near", "commit"}, code : Codes, severity : Severities,
                     source : Sources, image : Tables]
        /\ call.code \in Codes
    BY <2>0, CallFields
  <2>2. /\ ImageOK(call) /\ call.image.near = near_misses_ /\ is_near_miss("FAILED", row.status)
        /\ call.image.faults[call.code] = row
    BY <2>0, <2>1 DEF Transaction, ImageOK, STypeOK, TypeOK
  <2>3. /\ call' = [call EXCEPT !.step = "commit", !.image.near[call.code] = trimmed]
        /\ UNCHANGED <<vars, confirmed_at_ns>>
    BY <1>3, <2>2 DEF WriteNearMiss
  <2>4. trimmed = SeriesAfter(near_misses_[call.code], "FAILED", row, ConfigOf(call.source))
    BY <2>2 DEF SeriesAfter
  <2> HIDE DEF row, trimmed
  <2>5. /\ call'.code = call.code /\ call'.severity = call.severity /\ call'.source = call.source
        /\ call'.step = "commit"
        /\ call'.image.faults = call.image.faults /\ call'.image.confirmed = call.image.confirmed
        /\ call'.image.near = [near_misses_ EXCEPT ![call.code] = trimmed]
    BY <2>1, <2>2, <2>3 DEF Tables
  <2>6. CallRow(call)' = CallRow(call) /\ ConfigOf(call.source)' = ConfigOf(call.source)
    BY <2>3, <2>5 DEF CallRow, ConfigOf, vars
  <2>7. SeriesAfter(near_misses_[call.code], "FAILED", row, ConfigOf(call.source))' =
          SeriesAfter(near_misses_[call.code], "FAILED", row, ConfigOf(call.source))
    BY <2>3, <2>5, <2>6 DEF SeriesAfter, row, vars
  <2> QED BY <2>0, <2>2, <2>3, <2>4, <2>5, <2>6, <2>7 DEF ImageOK, row, vars
<1>4. CASE UNCHANGED svars
  BY <1>4 DEF svars, vars, Transaction, ImageOK, CallRow, ConfigOf, Database, SeriesAfter
<1> QED BY <1>1, <1>2, <1>3, <1>4
        DEF SNext, Commit, Rollback, Crash, SClearFault, SCheckTimeBasedConfirmation,
            SConfigure, SReclassify, STick, ReportPassed, Idle

-----------------------------------------------------------------------------
(* The backends agree *)

\* Every step of the SQLite backend is a step of the in-memory one, or leaves
\* the durable tables alone: COMMIT is where a FAILED report takes effect.
LEMMA Simulation ==
  STypeOK /\ AbsentIsNew /\ Transaction /\ [SNext]_svars => [Next]_vars
<1> SUFFICES ASSUME STypeOK, AbsentIsNew, Transaction, [SNext]_svars PROVE [Next]_vars OBVIOUS
<1>1. ASSUME NEW code \in Codes, NEW severity \in Severities, NEW source \in Sources,
             BeginImmediate(code, severity, source)
      PROVE  [Next]_vars
  BY <1>1 DEF BeginImmediate
<1>2. CASE WriteRow \/ WriteNearMiss \/ Rollback
  BY <1>2 DEF WriteRow, WriteNearMiss, Rollback
<1>3. CASE Commit
  <2>0. call # NoCall /\ call.step = "commit"
    BY <1>3 DEF Commit, NoCall
  <2>1. call.code \in Codes /\ call.severity \in Severities /\ call.source \in Sources
    BY <2>0, CallFields
  <2>2. /\ up = "up" /\ now <= LastReport
        /\ call.image.faults = [faults_ EXCEPT ![call.code] = CallRow(call)]
        /\ call.image.near = [near_misses_ EXCEPT ![call.code] =
             SeriesAfter(near_misses_[call.code], "FAILED", CallRow(call), ConfigOf(call.source))]
    BY <2>0 DEF Transaction, ImageOK
  <2>3. ~Ignored(faults_[call.code], "FAILED") /\ "FAILED" \in Events
    BY DEF Ignored, Events
  <2>4. ReportFaultEvent(call.code, "FAILED", call.severity, call.source)
    BY <1>3, <2>2, <2>3, Zenon DEF Commit, ReportFaultEvent, CallRow
  <2> QED BY <2>1, <2>3, <2>4 DEF Next, Report
<1>4. ASSUME NEW code \in Codes, NEW severity \in Severities, NEW source \in Sources,
             ReportPassed(code, severity, source)
      PROVE  [Next]_vars
  <2> DEFINE config == ConfigOf(source)
             row == Reported(faults_[code], "PASSED", severity, config, now)
  <2>1. config \in ValidConfigs /\ faults_[code] \in Faults /\ now \in Nat /\ "PASSED" \in Events
    BY ConfigsValid DEF STypeOK, TypeOK, Events
  <2>2. faults_[code].status \notin {"ABSENT", "CLEARED"} /\ ~Ignored(faults_[code], "PASSED")
    BY <1>4 DEF ReportPassed, Ignored
  <2>3. RowAfter(faults_[code], "PASSED", severity, config, now) = row
    BY <2>1, <2>2, RowIsReported DEF RowWritten
  <2>4. SeriesAfter(near_misses_[code], "PASSED", row, config) = near_misses_[code]
    BY DEF SeriesAfter, is_near_miss
  <2>5. near_misses_ = [near_misses_ EXCEPT ![code] = near_misses_[code]]
    BY DEF STypeOK, TypeOK
  <2>6. ReportFaultEvent(code, "PASSED", severity, source)
    BY <1>4, <2>2, <2>3, <2>4, <2>5, Zenon DEF ReportPassed, ReportFaultEvent
  <2> QED BY <2>1, <2>6 DEF Next, Report
<1>5. ASSUME NEW code \in Codes, SClearFault(code) PROVE [Next]_vars
  BY <1>5 DEF SClearFault, Next
<1>6. CASE SCheckTimeBasedConfirmation
  <2> DEFINE flipped == {code \in Codes : /\ faults_[code].status = "PREFAILED"
                                         /\ faults_[code].last_failed_time <= now - AutoConfirmAfter
                                         /\ faults_[code].last_failed_time > 0}
  <2>1. ASSUME NEW code \in Codes, faults_[code].status = "PREFAILED"
        PROVE  /\ faults_[code].last_failed_time \in Nat /\ faults_[code].last_failed_time > 0
               /\ now \in Nat /\ AutoConfirmAfter \in Nat
    BY <2>1, StorageConstants DEF AbsentIsNew, STypeOK, TypeOK, Faults
  <2>2. flipped = Overdue(faults_, now)
    BY <2>1 DEF Overdue
  <2>3. CheckTimeBasedConfirmation
    BY <1>6, <2>2, Zenon DEF SCheckTimeBasedConfirmation, CheckTimeBasedConfirmation
  <2> QED BY <2>3 DEF Next
<1>7. CASE Crash
  BY <1>7 DEF Crash, Next
<1>8. ASSUME NEW found \in Parameters, SConfigure(found) PROVE [Next]_vars
  BY <1>8 DEF SConfigure, Next
<1>9. CASE SReclassify \/ STick
  BY <1>9 DEF SReclassify, STick, Next
<1>10. CASE UNCHANGED svars
  BY <1>10 DEF svars
<1> QED BY <1>1, <1>2, <1>3, <1>4, <1>5, <1>6, <1>7, <1>8, <1>9, <1>10 DEF SNext

\* Every step keeps the column of confirmation times and the call well typed.
LEMMA STypeStep ==
  STypeOK /\ Transaction /\ TypeOK' /\ [SNext]_svars => STypeOK'
<1> SUFFICES ASSUME STypeOK, Transaction, TypeOK', [SNext]_svars
             PROVE  confirmed_at_ns' \in [Codes -> Nat] /\ call' \in Calls
  BY DEF STypeOK
<1>0. /\ confirmed_at_ns \in [Codes -> Nat] /\ call \in Calls /\ now \in Nat
      /\ NoCall \in Calls /\ Database \in Tables
  BY DEF STypeOK, TypeOK, Calls, Database, Tables
<1>1. ASSUME NEW code \in Codes, NEW severity \in Severities, NEW source \in Sources,
             BeginImmediate(code, severity, source)
      PROVE  confirmed_at_ns' \in [Codes -> Nat] /\ call' \in Calls
  BY <1>0, <1>1 DEF BeginImmediate, Calls
<1>2. CASE WriteRow
  <2>0. call # NoCall /\ call.step = "row"
    BY <1>2 DEF WriteRow, NoCall
  <2> DEFINE row == RowWritten(call.image.faults[call.code], "FAILED", call.severity,
                               ConfigOf(call.source), now)
             at == ConfirmedAt(call.image.confirmed[call.code], call.image.faults[call.code].status,
                               row.status, now)
             image == [call.image EXCEPT !.faults[call.code] = row, !.confirmed[call.code] = at]
             step == IF is_near_miss("FAILED", row.status) THEN "near" ELSE "commit"
  <2>1. /\ call \in [step : {"row", "near", "commit"}, code : Codes, severity : Severities,
                     source : Sources, image : Tables]
        /\ call.code \in Codes /\ call.image \in Tables /\ ConfigOf(call.source) \in ValidConfigs
        /\ call.severity \in Severities
    BY <2>0, CallFields
  <2>2. call.image.faults[call.code] \in Faults /\ call.image.confirmed[call.code] \in Nat
    BY <2>1 DEF Tables
  <2>3. ~Ignored(call.image.faults[call.code], "FAILED") /\ "FAILED" \in Events
    BY DEF Ignored, Events
  <2>4. row = Reported(call.image.faults[call.code], "FAILED", call.severity, ConfigOf(call.source), now)
    BY <1>0, <2>1, <2>2, <2>3, RowIsReported
  <2>5. row \in Faults
    BY <1>0, <2>1, <2>2, <2>3, <2>4, ReportedFacts
  <2>6. at \in Nat
    BY <1>0, <2>2 DEF ConfirmedAt
  <2>7. /\ call' = [call EXCEPT !.image = image, !.step = step]
        /\ UNCHANGED confirmed_at_ns
    BY <1>2, Zenon DEF WriteRow
  <2>8. step \in {"near", "commit"}
    OBVIOUS
  <2> HIDE DEF row, at, step
  <2>9. image \in Tables
    BY <2>1, <2>5, <2>6 DEF Tables
  <2> HIDE DEF image
  <2> QED BY <1>0, <2>1, <2>7, <2>8, <2>9 DEF Calls
<1>3. CASE WriteNearMiss
  <2>0. call # NoCall /\ call.step = "near"
    BY <1>3 DEF WriteNearMiss, NoCall
  <2> DEFINE miss == NearMiss(call.image.faults[call.code], ConfigOf(call.source))
             trimmed == Newest(Append(call.image.near[call.code], miss), params.max_near_misses)
             image == [call.image EXCEPT !.near[call.code] = trimmed]
  <2>1. /\ call \in [step : {"row", "near", "commit"}, code : Codes, severity : Severities,
                     source : Sources, image : Tables]
        /\ call.code \in Codes /\ call.image \in Tables /\ ConfigOf(call.source) \in ValidConfigs
        /\ CallRow(call) \in Faults /\ CallRow(call).status \in Statuses
    BY <2>0, CallFields
  <2>2. call.image.faults[call.code] = CallRow(call) /\ call.image.near[call.code] \in Seq(NearMisses)
    BY <2>0, <2>1 DEF Transaction, ImageOK, STypeOK, TypeOK, Tables
  <2>3. /\ params.max_near_misses \in Nat
        /\ Append(call.image.near[call.code], miss) \in Seq(NearMisses)
    BY <2>1, <2>2, HistoryTypes DEF STypeOK, TypeOK, Streaks, Events
  <2> HIDE DEF miss
  <2>4. trimmed \in Seq(NearMisses)
    BY <2>3, NewestFacts
  <2>5. call' = [call EXCEPT !.step = "commit", !.image = image] /\ UNCHANGED confirmed_at_ns
    BY <1>3, <2>1 DEF WriteNearMiss, miss
  <2> HIDE DEF trimmed
  <2>6. image \in Tables
    BY <2>1, <2>4 DEF Tables
  <2> HIDE DEF image
  <2> QED BY <1>0, <2>1, <2>5, <2>6 DEF Calls
<1>4. CASE Commit
  <2>1. call # NoCall /\ call' = NoCall /\ confirmed_at_ns' = call.image.confirmed
    BY <1>4 DEF Commit, NoCall
  <2> QED BY <1>0, <2>1, CallFields DEF Tables
<1>5. CASE SCheckTimeBasedConfirmation
  BY <1>0, <1>5 DEF SCheckTimeBasedConfirmation, Idle
<1>6. CASE Rollback \/ Crash \/ SReclassify \/ STick \/ UNCHANGED svars
           \/ (\E code \in Codes : SClearFault(code)) \/ (\E found \in Parameters : SConfigure(found))
           \/ (\E code \in Codes, severity \in Severities, source \in Sources :
                 ReportPassed(code, severity, source))
  BY <1>0, <1>6 DEF Rollback, Crash, SReclassify, STick, SClearFault, SConfigure, ReportPassed, Idle, svars
<1> QED BY <1>1, <1>2, <1>3, <1>4, <1>5, <1>6 DEF SNext

\* The inductive invariant of the SQLite backend.
SInv == STypeOK /\ AbsentIsNew /\ Transaction

\* It holds initially.
LEMMA SInvInit == SInit => SInv /\ Init
<1> SUFFICES ASSUME SInit PROVE SInv /\ Init OBVIOUS
<1>1. Init /\ TypeOK
  BY TypeInit DEF SInit
<1>2. AbsentIsNew
  BY <1>1 DEF Init, AbsentIsNew, NoFault
<1> QED BY <1>1, <1>2 DEF SInit, SInv, STypeOK, Calls, Transaction

\* Every step keeps it, and maps to a step of the in-memory backend.
LEMMA SInvStep == SInv /\ [SNext]_svars => SInv' /\ [Next]_vars
<1> SUFFICES ASSUME SInv, [SNext]_svars PROVE SInv' /\ [Next]_vars OBVIOUS
<1>1. [Next]_vars
  BY Simulation DEF SInv
<1>2. TypeOK' /\ AbsentIsNew'
  BY <1>1, TypeStep, AbsentStep DEF SInv, STypeOK
<1> QED BY <1>1, <1>2, STypeStep, TransactionStep DEF SInv

\* Type correctness of the tables and of the open transaction.
THEOREM SqliteTypeCorrect == SSpec => []STypeOK
<1>1. SInv => STypeOK
  BY DEF SInv
<1> QED BY <1>1, SInvInit, SInvStep, PTL DEF SSpec

\* The SQLite backend implements the in-memory one: rollbacks and crashes leave
\* the durable tables as they were, and a COMMIT is one report.
THEOREM SqliteAgrees == SSpec => AgreesWithInMemory
BY SInvInit, SInvStep, PTL DEF SSpec, AgreesWithInMemory, SafetySpec

-----------------------------------------------------------------------------
(* The date of a confirmation *)

\* A PASSED report confirms nothing.
LEMMA PassedNeverConfirms ==
  ASSUME NEW fault \in Faults, NEW severity \in Severities, NEW config \in ValidConfigs,
         NEW time \in Nat, ~Ignored(fault, "PASSED"),
         Reported(fault, "PASSED", severity, config, time).status = "CONFIRMED"
  PROVE  fault.status = "CONFIRMED"
<1> DEFINE counter == clamp_debounce_counter(
                        clamp_debounce_counter(fault.debounce_counter, config) + 1, config)
           status == StatusAfter("PASSED", severity, counter, fault.status, config)
<1>1. fault.status \notin {"ABSENT", "CLEARED"}
  BY DEF Ignored
<1>2. Reported(fault, "PASSED", severity, config, time).status = status
  BY <1>1 DEF Reported, Ignored, Updated, Faults
<1>3. counter \in Int /\ counter > config.confirmation_threshold
  BY CounterMoves, ValidFields DEF Faults, Events
<1> HIDE DEF counter
<1>4. config.confirmation_threshold \in Int
  BY ValidFields
<1>5. status = "CONFIRMED" => fault.status = "CONFIRMED"
  BY <1>3, <1>4 DEF StatusAfter, ConfirmsAtOnce, compute_debounce_status
<1> QED BY <1>2, <1>5

\* The inductive invariant behind ConfirmedIsDated: an outage began in the past.
Dated ==
  \A code \in Codes :
    /\ faults_[code].first_occurred <= now
    /\ faults_[code].status = "CONFIRMED" =>
         /\ confirmed_at_ns[code] > 0
         /\ confirmed_at_ns[code] >= faults_[code].first_occurred

\* Every step keeps that.
LEMMA DatedStep == SInv /\ Dated /\ [SNext]_svars => Dated'
<1> SUFFICES ASSUME SInv, Dated, [SNext]_svars, NEW c \in Codes
             PROVE  /\ faults_'[c].first_occurred <= now'
                    /\ faults_'[c].status = "CONFIRMED" =>
                         /\ confirmed_at_ns'[c] > 0
                         /\ confirmed_at_ns'[c] >= faults_'[c].first_occurred
  BY DEF Dated
<1> DEFINE Goal == /\ faults_'[c].first_occurred <= now'
                   /\ faults_'[c].status = "CONFIRMED" =>
                        /\ confirmed_at_ns'[c] > 0
                        /\ confirmed_at_ns'[c] >= faults_'[c].first_occurred
<1>0. /\ faults_ \in [Codes -> Faults] /\ faults_[c] \in Faults /\ now \in Nat \ {0}
      /\ confirmed_at_ns \in [Codes -> Nat] /\ confirmed_at_ns[c] \in Nat
      /\ faults_[c].first_occurred \in Nat
  BY DEF SInv, STypeOK, TypeOK, Faults
<1>1. CASE Commit
  <2>0. call # NoCall /\ call.step = "commit"
    BY <1>1 DEF Commit, NoCall
  <2> DEFINE row == CallRow(call)
  <2>1. /\ call.code \in Codes /\ call.severity \in Severities /\ ConfigOf(call.source) \in ValidConfigs
    BY <2>0, CallFields DEF SInv
  <2>2. /\ faults_' = [faults_ EXCEPT ![call.code] = row]
        /\ confirmed_at_ns' = [confirmed_at_ns EXCEPT ![call.code] =
             ConfirmedAt(confirmed_at_ns[call.code], faults_[call.code].status, row.status, now)]
        /\ now' = now
    BY <1>1, <2>0 DEF Commit, SInv, Transaction, ImageOK
  <2>3. CASE c # call.code
    BY <1>0, <2>2, <2>3 DEF Dated
  <2>4. CASE c = call.code
    <3>1. ~Ignored(faults_[c], "FAILED") /\ "FAILED" \in Events
      BY DEF Ignored, Events
    <3>2. IF faults_[c].status \in {"ABSENT", "CLEARED"} THEN row.first_occurred = now
          ELSE row.first_occurred = faults_[c].first_occurred
      BY <1>0, <2>1, <2>4, <3>1, ReportedDates DEF CallRow
    <3> HIDE DEF row
    <3>3. faults_'[c] = row /\ confirmed_at_ns'[c] =
            ConfirmedAt(confirmed_at_ns[c], faults_[c].status, row.status, now)
      BY <1>0, <2>2, <2>4
    <3> QED BY <1>0, <2>2, <3>2, <3>3 DEF Dated, ConfirmedAt
  <2> QED BY <2>3, <2>4
<1>2. ASSUME NEW code \in Codes, NEW severity \in Severities, NEW source \in Sources,
             ReportPassed(code, severity, source)
      PROVE  Goal
  <2> DEFINE config == ConfigOf(source)
             row == Reported(faults_[code], "PASSED", severity, config, now)
  <2>1. config \in ValidConfigs /\ faults_[code] \in Faults /\ "PASSED" \in Events
    BY ConfigsValid DEF SInv, STypeOK, TypeOK, Events
  <2>2. faults_[code].status \notin {"ABSENT", "CLEARED"} /\ ~Ignored(faults_[code], "PASSED")
    BY <1>2 DEF ReportPassed, Ignored
  <2>3. RowAfter(faults_[code], "PASSED", severity, config, now) = row
    BY <1>0, <2>1, <2>2, RowIsReported DEF RowWritten
  <2>4. faults_' = [faults_ EXCEPT ![code] = row] /\ UNCHANGED <<now, confirmed_at_ns>>
    BY <1>2, <2>3 DEF ReportPassed
  <2>5. row.first_occurred = faults_[code].first_occurred
    BY <1>0, <2>1, <2>2, ReportedDates
  <2>6. row.status = "CONFIRMED" => faults_[code].status = "CONFIRMED"
    BY <1>0, <2>1, <2>2, PassedNeverConfirms
  <2> HIDE DEF row, config
  <2> QED BY <1>0, <2>4, <2>5, <2>6 DEF Dated
<1>3. ASSUME NEW code \in Codes, SClearFault(code) PROVE Goal
  BY <1>0, <1>3 DEF SClearFault, ClearFault, Dated, Faults
<1>4. CASE SCheckTimeBasedConfirmation
  BY <1>0, <1>4 DEF SCheckTimeBasedConfirmation, Dated, Faults
<1>5. CASE SReclassify
  BY <1>0, <1>5 DEF SReclassify, ReclassifyHealedAsCleared, Dated, Faults
<1>6. CASE STick
  BY <1>0, <1>6 DEF STick, Tick, Dated
<1>7. CASE \/ WriteRow \/ WriteNearMiss \/ Rollback \/ Crash \/ UNCHANGED svars
           \/ \E found \in Parameters : SConfigure(found)
           \/ \E code \in Codes, severity \in Severities, source \in Sources :
                 BeginImmediate(code, severity, source)
  BY <1>7 DEF WriteRow, WriteNearMiss, Rollback, Crash, Stop, SConfigure, Configure,
              BeginImmediate, svars, vars, Dated
<1> QED BY <1>1, <1>2, <1>3, <1>4, <1>5, <1>6, <1>7 DEF SNext

\* A CONFIRMED row carries the time of its confirmation, within its outage.
THEOREM SqliteDatesConfirmations == SSpec => []ConfirmedIsDated
<1>1. SInit => Dated
  BY DEF SInit, Init, Dated, NoFault
<1>2. Dated => ConfirmedIsDated
  BY DEF Dated, ConfirmedIsDated
<1> QED BY <1>1, <1>2, SInvInit, SInvStep, DatedStep, PTL DEF SSpec
=============================================================================
