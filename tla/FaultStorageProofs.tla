------------------------- MODULE FaultStorageProofs -------------------------
(***************************************************************************)
(* Proofs about the fault store, for every set of codes, sources and       *)
(* parameter sets and for every bound.                                     *)
(***************************************************************************)
EXTENDS FaultStorage, SequenceTheorems, TLAPS

\* Sanitising makes any configuration valid.
LEMMA SanitizeValid ==
  ASSUME NEW config \in DebounceConfigs
  PROVE  sanitize_debounce_config(config) \in ValidConfigs
<1> DEFINE C == IF config.confirmation_threshold >= 0 THEN -1 ELSE config.confirmation_threshold
           H == IF config.healing_threshold < 0 THEN 3 ELSE config.healing_threshold
<1>1. C \in Int /\ C < 0 /\ H \in Int /\ H >= 0
  BY DEF DebounceConfigs
<1>2. sanitize_debounce_config(config) =
        [config EXCEPT !.confirmation_threshold = C, !.healing_threshold = H]
  BY DEF sanitize_debounce_config
<1> HIDE DEF C, H
<1>3. sanitize_debounce_config(config) \in DebounceConfigs
  BY <1>1, <1>2 DEF DebounceConfigs
<1> QED BY <1>1, <1>2, <1>3 DEF ValidConfigs, DebounceConfigs

\* Every configuration the store is given is valid.
LEMMA ConfigsValid ==
  ASSUME params \in Parameters
  PROVE  /\ GlobalConfig \in ValidConfigs
         /\ \A source \in Sources : ConfigOf(source) \in ValidConfigs
<1>1. params \in ParameterSets
  BY StorageConstants
<1> QED BY <1>1, SanitizeValid DEF ParameterSets, ConfigOf, GlobalConfig

\* The fields of a valid configuration; the band has at least one step.
LEMMA ValidFields ==
  ASSUME NEW config \in ValidConfigs
  PROVE  /\ config.confirmation_threshold \in Int /\ config.confirmation_threshold < 0
         /\ config.healing_threshold \in Int /\ config.healing_threshold >= 0
         /\ BandWidth(config) \in Nat \ {0}
         /\ BandWidth(config) = config.healing_threshold - config.confirmation_threshold
BY DEF ValidConfigs, DebounceConfigs, BandWidth

\* Where one report takes the counter of a live fault.
LEMMA CounterMoves ==
  ASSUME NEW counter \in Int, NEW config \in ValidConfigs, NEW event \in Events
  PROVE  LET C == config.confirmation_threshold
             H == config.healing_threshold
             after == clamp_debounce_counter(clamp_debounce_counter(counter, config)
                        + (IF event = "FAILED" THEN -1 ELSE 1), config)
         IN  /\ after \in Int /\ C <= after /\ after <= H
             /\ event = "FAILED" => /\ after < H
                                    /\ after <= counter - 1 \/ after = C
             /\ event = "PASSED" => /\ after > C
                                    /\ after >= counter + 1 \/ after = H
BY ValidFields DEF clamp_debounce_counter, Events

\* The status a report leaves.
LEMMA StatusFacts ==
  ASSUME NEW counter \in Int, NEW config \in ValidConfigs, NEW event \in Events,
         NEW severity \in Severities, NEW current
  PROVE  LET status == StatusAfter(event, severity, counter, current, config)
         IN  /\ status \in {"CONFIRMED", "HEALED", "PREFAILED", "PREPASSED", current}
             /\ status = current => counter # -1 \/ current \in Statuses
             /\ counter <= config.confirmation_threshold => status = "CONFIRMED"
             /\ event = "PASSED" /\ config.healing_enabled /\ counter >= config.healing_threshold
                  => status = "HEALED"
             /\ current \in {"CONFIRMED", "HEALED"} => status \in {"CONFIRMED", "HEALED"}
             /\ status = "HEALED" => current = "HEALED" \/ config.healing_enabled
BY ValidFields DEF StatusAfter, ConfirmsAtOnce, compute_debounce_status, Events, Statuses

\* What a report that is not ignored makes of a fault.
LEMMA ReportedFacts ==
  ASSUME NEW fault \in Faults, NEW event \in Events, NEW severity \in Severities,
         NEW config \in ValidConfigs, NEW time \in Nat, ~Ignored(fault, event)
  PROVE  LET after == Reported(fault, event, severity, config, time)
             counter == after.debounce_counter
             C == config.confirmation_threshold
             H == config.healing_threshold
             live == fault.status \notin {"ABSENT", "CLEARED"}
         IN  /\ after \in Faults
             /\ after.status \in Statuses \ {"CLEARED"}
             /\ counter \in Int
             /\ event = "FAILED" => /\ counter < H /\ after.last_failed_time = time
                                    /\ live => counter <= fault.debounce_counter - 1 \/ counter = C
             /\ event = "PASSED" => /\ counter > C
                                    /\ counter >= fault.debounce_counter + 1 \/ counter = H
                                    /\ after.last_failed_time = fault.last_failed_time
             /\ counter <= C => after.status = "CONFIRMED"
             /\ event = "PASSED" /\ config.healing_enabled /\ counter >= H => after.status = "HEALED"
             /\ fault.status \in {"CONFIRMED", "HEALED"} => after.status \in {"CONFIRMED", "HEALED"}
             /\ after.status = "HEALED" => fault.status = "HEALED" \/ config.healing_enabled
             /\ fault.status # "ABSENT" \/ fault = NoFault =>
                  after.occurrence_count >= fault.occurrence_count
             /\ live => after.occurrence_count = fault.occurrence_count
<1> DEFINE C == config.confirmation_threshold
           H == config.healing_threshold
<1>1. C \in Int /\ C < 0 /\ H \in Int /\ H >= 0
  BY ValidFields
<1>s. fault.status \in Statuses \union {"ABSENT"} /\ fault.debounce_counter \in Int
      /\ fault.occurrence_count \in 0..MaxOccurrences /\ fault.last_failed_time \in Nat
  BY DEF Faults
<1>m. MaxOccurrences \in Nat \ {0}
  BY StorageConstants
<1>2. CASE fault.status = "ABSENT"
  <2>1. event = "FAILED"
    BY <1>2 DEF Ignored, Events
  <2> DEFINE status == StatusAfter("FAILED", severity, -1, "", config)
  <2>2. Reported(fault, event, severity, config, time) =
          [status |-> status, debounce_counter |-> -1, occurrence_count |-> 1,
           first_occurred |-> time, last_failed_time |-> time]
    BY <1>2, <2>1 DEF Reported, Ignored, NewFault
  <2>3. status \in Statuses \ {"CLEARED"}
    BY <1>1 DEF StatusAfter, compute_debounce_status, Statuses
  <2>4. /\ -1 <= C => status = "CONFIRMED"
        /\ status = "HEALED" => config.healing_enabled
    BY <1>1 DEF StatusAfter, compute_debounce_status
  <2> HIDE DEF status
  <2> QED BY <1>1, <1>2, <1>s, <1>m, <2>1, <2>2, <2>3, <2>4 DEF Faults, NoFault
<1>3. CASE fault.status = "CLEARED"
  <2>1. event = "FAILED"
    BY <1>3 DEF Ignored, Events
  <2> DEFINE status == StatusAfter("FAILED", severity, -1, "CLEARED", config)
             count == IF fault.occurrence_count < MaxOccurrences
                      THEN fault.occurrence_count + 1 ELSE fault.occurrence_count
  <2>2. Reported(fault, event, severity, config, time) =
          [status |-> status, debounce_counter |-> -1, occurrence_count |-> count,
           first_occurred |-> time, last_failed_time |-> time]
    BY <1>3, <2>1 DEF Reported, Ignored, Reactivated
  <2>3. status \in Statuses \ {"CLEARED"}
    BY <1>1 DEF StatusAfter, compute_debounce_status, Statuses
  <2>4. /\ -1 <= C => status = "CONFIRMED"
        /\ status = "HEALED" => config.healing_enabled
    BY <1>1 DEF StatusAfter, compute_debounce_status
  <2>5. count \in 0..MaxOccurrences /\ count >= fault.occurrence_count
    BY <1>s, <1>m
  <2> HIDE DEF status, count
  <2> QED BY <1>1, <1>3, <1>s, <2>1, <2>2, <2>3, <2>4, <2>5 DEF Faults
<1>4. CASE fault.status \notin {"ABSENT", "CLEARED"}
  <2> DEFINE counter == clamp_debounce_counter(
                          clamp_debounce_counter(fault.debounce_counter, config)
                            + (IF event = "FAILED" THEN -1 ELSE 1), config)
             status == StatusAfter(event, severity, counter, fault.status, config)
             failed == IF event = "FAILED" THEN time ELSE fault.last_failed_time
  <2>1. Reported(fault, event, severity, config, time) =
          [fault EXCEPT !.debounce_counter = counter, !.status = status,
                        !.last_failed_time = failed]
    BY <1>4 DEF Reported, Ignored, Updated
  <2>2. /\ counter \in Int /\ C <= counter /\ counter <= H
        /\ event = "FAILED" => counter < H /\ (counter <= fault.debounce_counter - 1 \/ counter = C)
        /\ event = "PASSED" => counter > C /\ (counter >= fault.debounce_counter + 1 \/ counter = H)
    BY <1>s, CounterMoves
  <2> HIDE DEF counter
  <2>3. /\ status \in {"CONFIRMED", "HEALED", "PREFAILED", "PREPASSED", fault.status}
        /\ counter <= C => status = "CONFIRMED"
        /\ event = "PASSED" /\ config.healing_enabled /\ counter >= H => status = "HEALED"
        /\ fault.status \in {"CONFIRMED", "HEALED"} => status \in {"CONFIRMED", "HEALED"}
        /\ status = "HEALED" => fault.status = "HEALED" \/ config.healing_enabled
    BY <2>2, StatusFacts
  <2>4. status \in Statuses \ {"CLEARED"}
    BY <1>s, <1>4, <2>3 DEF Statuses
  <2>5. failed \in Nat /\ (event = "FAILED" => failed = time)
        /\ (event = "PASSED" => failed = fault.last_failed_time)
    BY <1>s
  <2> HIDE DEF status, failed
  <2>6. [fault EXCEPT !.debounce_counter = counter, !.status = status,
                      !.last_failed_time = failed] \in Faults
    BY <2>2, <2>4, <2>5 DEF Faults
  <2> QED BY <1>1, <1>4, <1>s, <2>1, <2>2, <2>3, <2>4, <2>5, <2>6 DEF Faults
<1> QED BY <1>s, <1>2, <1>3, <1>4

\* Trimming keeps the newest entries of a series.
LEMMA NewestFacts ==
  ASSUME NEW S, NEW series \in Seq(S), NEW count \in Nat
  PROVE  /\ Newest(series, count) \in Seq(S)
         /\ count > 0 => Len(Newest(series, count)) <= count
         /\ \A i \in 1..Len(Newest(series, count)) :
              \E j \in 1..Len(series) : Newest(series, count)[i] = series[j]
<1>1. CASE count = 0 \/ Len(series) <= count
  BY <1>1 DEF Newest
<1>2. CASE count > 0 /\ Len(series) > count
  <2> DEFINE first == Len(series) - count + 1
  <2>1. first \in 1..Len(series) /\ Len(series) \in Nat
    BY <1>2
  <2>2. Newest(series, count) = SubSeq(series, first, Len(series))
    BY <1>2 DEF Newest
  <2>3. /\ SubSeq(series, first, Len(series)) \in Seq(S)
        /\ Len(SubSeq(series, first, Len(series))) = count
        /\ \A i \in 1..count : SubSeq(series, first, Len(series))[i] = series[first + i - 1]
    BY <1>2, <2>1, SubSeqProperties
  <2>4. \A i \in 1..count : first + i - 1 \in 1..Len(series)
    BY <1>2
  <2>5. Len(Newest(series, count)) = count /\ Newest(series, count) \in Seq(S)
    BY <2>2, <2>3
  <2> HIDE DEF first
  <2>6. ASSUME NEW i \in 1..Len(Newest(series, count))
        PROVE  \E j \in 1..Len(series) : Newest(series, count)[i] = series[j]
    BY <2>2, <2>3, <2>4, <2>5
  <2> QED BY <2>5, <2>6
<1> QED BY <1>1, <1>2, LenProperties

-----------------------------------------------------------------------------
(* Types *)

\* The series and the streak after a report.
LEMMA HistoryTypes ==
  ASSUME params \in Parameters, NEW series \in Seq(NearMisses), NEW run \in Streaks,
         NEW event \in Events, NEW fault \in Faults, fault.status \in Statuses,
         NEW config \in ValidConfigs
  PROVE  /\ params.max_near_misses \in Nat
         /\ Append(series, NearMiss(fault, config)) \in Seq(NearMisses)
         /\ SeriesAfter(series, event, fault, config) \in Seq(NearMisses)
         /\ StreakAfter(run, event, config) \in Streaks
<1>1. params.max_near_misses \in Nat
  BY StorageConstants DEF ParameterSets
<1>2. NearMiss(fault, config) \in NearMisses
  BY ValidFields DEF NearMiss, NearMisses, Faults
<1>3. Append(series, NearMiss(fault, config)) \in Seq(NearMisses)
  BY <1>2
<1>4. SeriesAfter(series, event, fault, config) \in Seq(NearMisses)
  BY <1>1, <1>3, NewestFacts DEF SeriesAfter
<1>5. StreakAfter(run, event, config) \in Streaks
  <2>1. CASE run.event = event /\ run.config = config
    <3>1. run \in [event : Events, config : ValidConfigs, length : Nat]
      BY <2>1 DEF Streaks, NoStreak, Events
    <3>2. BandWidth(config) \in Nat
      BY ValidFields
    <3> QED BY <2>1, <3>1, <3>2 DEF StreakAfter, Streaks
  <2>2. CASE ~(run.event = event /\ run.config = config)
    BY <2>2 DEF StreakAfter, Streaks
  <2> QED BY <2>1, <2>2
<1> QED BY <1>1, <1>3, <1>4, <1>5

\* The type invariant holds initially.
LEMMA TypeInit == Init => TypeOK
<1> SUFFICES ASSUME Init PROVE TypeOK OBVIOUS
<1>1. NoFault \in Faults
  BY StorageConstants DEF NoFault, Faults
<1> QED BY <1>1 DEF Init, TypeOK, Streaks

\* Every step keeps the type invariant.
LEMMA TypeStep == TypeOK /\ [Next]_vars => TypeOK'
<1> SUFFICES ASSUME TypeOK, [Next]_vars PROVE TypeOK' OBVIOUS
<1>1. ASSUME NEW code \in Codes, NEW event \in Events, NEW severity \in Severities,
             NEW source \in Sources, ReportFaultEvent(code, event, severity, source)
      PROVE  TypeOK'
  <2> DEFINE config == ConfigOf(source)
             fault == Reported(faults_[code], event, severity, config, now)
  <2>1. config \in ValidConfigs
    BY ConfigsValid DEF TypeOK
  <2>2. faults_[code] \in Faults /\ near_misses_[code] \in Seq(NearMisses)
        /\ streak[code] \in Streaks /\ now \in Nat
    BY DEF TypeOK
  <2>3. CASE Ignored(faults_[code], event)
    <3>1. fault = faults_[code] /\ ~is_near_miss(event, fault.status)
      BY <2>3 DEF Reported, Ignored, is_near_miss
    <3> QED BY <1>1, <2>2, <2>3, <3>1 DEF ReportFaultEvent, TypeOK, SeriesAfter
  <2>4. CASE ~Ignored(faults_[code], event)
    <3>1. fault \in Faults /\ fault.status \in Statuses
      BY <2>1, <2>2, <2>4, ReportedFacts
    <3> HIDE DEF fault, config
    <3>2. /\ SeriesAfter(near_misses_[code], event, fault, config) \in Seq(NearMisses)
          /\ StreakAfter(streak[code], event, config) \in Streaks
      BY <2>1, <2>2, <3>1, HistoryTypes DEF TypeOK
    <3>3. /\ faults_' = [faults_ EXCEPT ![code] = fault]
          /\ near_misses_' = [near_misses_ EXCEPT ![code] =
                SeriesAfter(near_misses_[code], event, fault, config)]
          /\ streak' = [streak EXCEPT ![code] = StreakAfter(streak[code], event, config)]
          /\ UNCHANGED <<params, up, now>>
      BY <1>1, <2>4 DEF ReportFaultEvent, fault, config
    <3> QED BY <3>1, <3>2, <3>3 DEF TypeOK
  <2> QED BY <2>3, <2>4
<1>2. ASSUME NEW code \in Codes, ClearFault(code) PROVE TypeOK'
  <2>1. [faults_[code] EXCEPT !.status = "CLEARED"] \in Faults
    BY DEF TypeOK, Faults, Statuses
  <2> QED BY <1>2, <2>1 DEF ClearFault, TypeOK, Streaks
<1>3. CASE CheckTimeBasedConfirmation
  <2>1. \A code \in Codes : [faults_[code] EXCEPT !.status = "CONFIRMED"] \in Faults
    BY DEF TypeOK, Faults, Statuses
  <2> QED BY <1>3, <2>1 DEF CheckTimeBasedConfirmation, TypeOK
<1>4. CASE Stop
  BY <1>4 DEF Stop, TypeOK
<1>5. ASSUME NEW found \in Parameters, Configure(found) PROVE TypeOK'
  <2>1. found.max_near_misses \in Nat
    BY StorageConstants DEF ParameterSets
  <2>2. \A code \in Codes : Newest(near_misses_[code], found.max_near_misses) \in Seq(NearMisses)
    BY <2>1, NewestFacts DEF TypeOK
  <2> QED BY <1>5, <2>2 DEF Configure, TypeOK, Streaks
<1>6. CASE ReclassifyHealedAsCleared
  <2>1. \A code \in Codes : [faults_[code] EXCEPT !.status = "CLEARED"] \in Faults
    BY DEF TypeOK, Faults, Statuses
  <2> QED BY <1>6, <2>1 DEF ReclassifyHealedAsCleared, TypeOK
<1>7. CASE Tick
  BY <1>7 DEF Tick, TypeOK
<1>8. CASE UNCHANGED vars
  BY <1>8 DEF vars, TypeOK
<1> QED BY <1>1, <1>2, <1>3, <1>4, <1>5, <1>6, <1>7, <1>8 DEF Next, Report

\* Type correctness: what the store holds is a fault with a saturated occurrence
\* count, for every parameter set a start of the node may find.
THEOREM StorageTypeCorrect == SafetySpec => []TypeOK
BY TypeInit, TypeStep, PTL DEF SafetySpec

-----------------------------------------------------------------------------
(* The latch delay *)

\* What a run of equal reports has done to a live fault: each one moved the
\* counter a step closer to the end of the band it leads to.
RunBounds(run, fault) ==
  run.event \in Events =>
    /\ fault.status \notin {"ABSENT", "CLEARED"}
    /\ run.length \in 1..BandWidth(run.config)
    /\ run.event = "FAILED" =>
         /\ fault.debounce_counter <= run.config.healing_threshold - run.length
         /\ run.length = BandWidth(run.config) => fault.status = "CONFIRMED"
    /\ run.event = "PASSED" =>
         /\ fault.debounce_counter >= run.config.confirmation_threshold + run.length
         /\ run.length = BandWidth(run.config) /\ run.config.healing_enabled
              => fault.status = "HEALED"

\* The inductive invariant behind SettlesWithinBand; a start of the node ends
\* every run, so the reclassification that follows touches none.
StreakBounds ==
  \A code \in Codes :
    /\ RunBounds(streak[code], faults_[code])
    /\ up = "starting" => streak[code] = NoStreak

\* A report extends a run, or starts one, within the bounds.
LEMMA RunBoundsReported ==
  ASSUME NEW run \in Streaks, NEW fault \in Faults, NEW event \in Events,
         NEW severity \in Severities, NEW config \in ValidConfigs, NEW time \in Nat,
         ~Ignored(fault, event), RunBounds(run, fault)
  PROVE  RunBounds(StreakAfter(run, event, config), Reported(fault, event, severity, config, time))
<1> DEFINE after == Reported(fault, event, severity, config, time)
           C == config.confirmation_threshold
           H == config.healing_threshold
           next == StreakAfter(run, event, config)
<1>1. /\ C \in Int /\ H \in Int /\ C < 0 /\ H >= 0
      /\ BandWidth(config) = H - C
  BY ValidFields
<1>2. /\ after.debounce_counter \in Int
      /\ after.status \in Statuses \ {"CLEARED"}
      /\ event = "FAILED" => /\ after.debounce_counter < H
                             /\ fault.status \notin {"ABSENT", "CLEARED"} =>
                                  \/ after.debounce_counter <= fault.debounce_counter - 1
                                  \/ after.debounce_counter = C
      /\ event = "PASSED" => /\ after.debounce_counter > C
                             /\ \/ after.debounce_counter >= fault.debounce_counter + 1
                                \/ after.debounce_counter = H
      /\ after.debounce_counter <= C => after.status = "CONFIRMED"
      /\ event = "PASSED" /\ config.healing_enabled /\ after.debounce_counter >= H
           => after.status = "HEALED"
  BY ReportedFacts
<1>3. fault.debounce_counter \in Int /\ after.status \notin {"ABSENT", "CLEARED"}
  BY <1>2 DEF Faults, Statuses
<1> HIDE DEF after, C, H
<1>4. CASE run.event = event /\ run.config = config
  <2>1. /\ run.length \in Nat
        /\ next.event = event /\ next.config = config
        /\ next.length = IF run.length < BandWidth(config) THEN run.length + 1 ELSE run.length
    BY <1>4 DEF Streaks, NoStreak, Events, StreakAfter
  <2>2. /\ fault.status \notin {"ABSENT", "CLEARED"}
        /\ run.length \in 1..BandWidth(config)
        /\ event = "FAILED" => fault.debounce_counter <= H - run.length
        /\ event = "PASSED" => fault.debounce_counter >= C + run.length
    BY <1>4 DEF RunBounds, C, H
  <2> HIDE DEF next
  <2>3. next.length \in 1..BandWidth(config)
    BY <1>1, <2>1, <2>2
  <2>4. event = "FAILED" => after.debounce_counter <= H - next.length
    BY <1>1, <1>2, <1>3, <2>1, <2>2
  <2>5. event = "PASSED" => after.debounce_counter >= C + next.length
    BY <1>1, <1>2, <1>3, <2>1, <2>2
  <2>6. /\ event = "FAILED" /\ next.length = BandWidth(config) => after.status = "CONFIRMED"
        /\ event = "PASSED" /\ next.length = BandWidth(config) /\ config.healing_enabled
             => after.status = "HEALED"
    BY <1>1, <1>2, <2>3, <2>4, <2>5
  <2> QED BY <1>3, <2>1, <2>3, <2>4, <2>5, <2>6 DEF RunBounds, after, C, H, next
<1>5. CASE ~(run.event = event /\ run.config = config)
  <2>1. next = [event |-> event, config |-> config, length |-> 1]
    BY <1>5 DEF StreakAfter
  <2> HIDE DEF next
  <2>2. /\ event = "FAILED" => after.debounce_counter <= H - 1
        /\ event = "PASSED" => after.debounce_counter >= C + 1
        /\ 1 \in 1..BandWidth(config)
    BY <1>1, <1>2
  <2>3. /\ event = "FAILED" /\ 1 = BandWidth(config) => after.status = "CONFIRMED"
        /\ event = "PASSED" /\ 1 = BandWidth(config) /\ config.healing_enabled
             => after.status = "HEALED"
    BY <1>1, <1>2, <2>2
  <2> QED BY <1>3, <2>1, <2>2, <2>3 DEF RunBounds, after, C, H, next
<1> QED BY <1>4, <1>5

\* Every step keeps the bounds of every run.
LEMMA StreakStep == TypeOK /\ StreakBounds /\ [Next]_vars => StreakBounds'
<1> SUFFICES ASSUME TypeOK, StreakBounds, [Next]_vars PROVE StreakBounds' OBVIOUS
<1>n. \A fault : RunBounds(NoStreak, fault)
  BY DEF RunBounds, NoStreak, Events
<1>1. ASSUME NEW code \in Codes, NEW event \in Events, NEW severity \in Severities,
             NEW source \in Sources, ReportFaultEvent(code, event, severity, source)
      PROVE  StreakBounds'
  <2> DEFINE config == ConfigOf(source)
             fault == Reported(faults_[code], event, severity, config, now)
  <2>1. config \in ValidConfigs
    BY ConfigsValid DEF TypeOK
  <2>2. faults_[code] \in Faults /\ streak[code] \in Streaks /\ now \in Nat
    BY DEF TypeOK
  <2>3. up = "up" /\ up' = up
    BY <1>1 DEF ReportFaultEvent
  <2>4. CASE Ignored(faults_[code], event)
    <3>1. fault = faults_[code]
      BY <2>4 DEF Reported
    <3>2. faults_' = faults_ /\ streak' = streak
      BY <1>1, <2>4, <3>1 DEF ReportFaultEvent, TypeOK
    <3> QED BY <2>3, <3>2 DEF StreakBounds
  <2>5. CASE ~Ignored(faults_[code], event)
    <3>1. RunBounds(StreakAfter(streak[code], event, config), fault)
      BY <2>1, <2>2, <2>5, RunBoundsReported DEF StreakBounds
    <3>2. /\ faults_' = [faults_ EXCEPT ![code] = fault]
          /\ streak' = [streak EXCEPT ![code] = StreakAfter(streak[code], event, config)]
      BY <1>1, <2>5 DEF ReportFaultEvent
    <3> HIDE DEF fault, config
    <3>3. \A c \in Codes : RunBounds(streak'[c], faults_'[c])
      BY <3>1, <3>2 DEF StreakBounds, TypeOK
    <3> QED BY <2>3, <3>3 DEF StreakBounds
  <2> QED BY <2>4, <2>5
<1>2. ASSUME NEW code \in Codes, ClearFault(code) PROVE StreakBounds'
  <2>1. \A c \in Codes : RunBounds(streak'[c], faults_'[c])
    BY <1>n, <1>2 DEF ClearFault, StreakBounds, TypeOK
  <2> QED BY <1>2, <2>1 DEF ClearFault, StreakBounds
<1>3. CASE CheckTimeBasedConfirmation
  <2>1. ASSUME NEW c \in Codes PROVE RunBounds(streak'[c], faults_'[c])
    <3>1. CASE c \notin Overdue(faults_, now)
      BY <1>3, <3>1 DEF CheckTimeBasedConfirmation, StreakBounds
    <3>2. CASE c \in Overdue(faults_, now)
      <4>1. /\ faults_'[c].status = "CONFIRMED" /\ faults_[c].status = "PREFAILED"
            /\ faults_'[c].debounce_counter = faults_[c].debounce_counter
            /\ streak' = streak
        BY <1>3, <3>2 DEF CheckTimeBasedConfirmation, Overdue, TypeOK, Faults
      <4> QED BY <4>1 DEF RunBounds, StreakBounds
    <3> QED BY <3>1, <3>2
  <2> QED BY <1>3, <2>1 DEF CheckTimeBasedConfirmation, StreakBounds
<1>4. CASE Stop
  BY <1>4 DEF Stop, StreakBounds
<1>5. ASSUME NEW found \in Parameters, Configure(found) PROVE StreakBounds'
  BY <1>5, <1>n DEF Configure, StreakBounds
<1>6. CASE ReclassifyHealedAsCleared
  <2>1. up = "starting" /\ up' = "up" /\ streak' = streak
    BY <1>6 DEF ReclassifyHealedAsCleared
  <2> QED BY <2>1, <1>n DEF StreakBounds
<1>7. CASE Tick
  BY <1>7 DEF Tick, StreakBounds
<1>8. CASE UNCHANGED vars
  BY <1>8 DEF vars, StreakBounds
<1> QED BY <1>1, <1>2, <1>3, <1>4, <1>5, <1>6, <1>7, <1>8 DEF Next, Report

\* A run as long as the band of its configuration settles the fault, whatever
\* the thresholds, the sources and the history before the run.
THEOREM StorageSettles == SafetySpec => []SettlesWithinBand
<1>1. Init => StreakBounds
  BY DEF Init, StreakBounds, RunBounds, NoStreak, Events
<1>2. TypeOK /\ StreakBounds => SettlesWithinBand
  <2> SUFFICES ASSUME TypeOK, StreakBounds, NEW code \in Codes, streak[code].event \in Events,
                      streak[code].length >= BandWidth(streak[code].config)
               PROVE  /\ streak[code].event = "FAILED" => faults_[code].status = "CONFIRMED"
                      /\ streak[code].event = "PASSED" /\ streak[code].config.healing_enabled
                           => faults_[code].status = "HEALED"
    BY DEF SettlesWithinBand
  <2>1. streak[code].config \in ValidConfigs
    BY DEF TypeOK, Streaks, NoStreak, Events
  <2>2. BandWidth(streak[code].config) \in Nat
    BY <2>1, ValidFields
  <2>3. streak[code].length = BandWidth(streak[code].config)
    BY <2>2 DEF StreakBounds, RunBounds
  <2> QED BY <2>3 DEF StreakBounds, RunBounds
<1> QED BY <1>1, <1>2, TypeInit, TypeStep, StreakStep, PTL DEF SafetySpec

-----------------------------------------------------------------------------
(* The latch and the occurrence count *)

\* An absent fault has its initial values, and a present one has failed.
AbsentIsNew ==
  \A code \in Codes :
    IF faults_[code].status = "ABSENT" THEN faults_[code] = NoFault
    ELSE faults_[code].last_failed_time > 0

\* Every step keeps that.
LEMMA AbsentStep == TypeOK /\ AbsentIsNew /\ [Next]_vars => AbsentIsNew'
<1> SUFFICES ASSUME TypeOK, AbsentIsNew, [Next]_vars PROVE AbsentIsNew' OBVIOUS
<1>1. ASSUME NEW code \in Codes, NEW event \in Events, NEW severity \in Severities,
             NEW source \in Sources, ReportFaultEvent(code, event, severity, source)
      PROVE  AbsentIsNew'
  <2> DEFINE config == ConfigOf(source)
             fault == Reported(faults_[code], event, severity, config, now)
  <2>1. config \in ValidConfigs /\ faults_[code] \in Faults /\ now \in Nat \ {0}
    BY ConfigsValid DEF TypeOK
  <2>2. faults_' = [faults_ EXCEPT ![code] = fault]
    BY <1>1 DEF ReportFaultEvent
  <2>3. CASE Ignored(faults_[code], event)
    BY <2>2, <2>3 DEF Reported, AbsentIsNew, TypeOK
  <2>4. CASE ~Ignored(faults_[code], event)
    <3>1. /\ fault.status \in Statuses
          /\ event = "FAILED" => fault.last_failed_time = now
          /\ event = "PASSED" => fault.last_failed_time = faults_[code].last_failed_time
      BY <2>1, <2>4, ReportedFacts
    <3>2. event = "PASSED" => faults_[code].status # "ABSENT"
      BY <2>4 DEF Ignored
    <3> HIDE DEF fault, config
    <3>3. fault.status # "ABSENT" /\ fault.last_failed_time > 0
      BY <2>1, <3>1, <3>2 DEF AbsentIsNew, Events, Statuses
    <3> QED BY <2>2, <3>3 DEF AbsentIsNew, TypeOK
  <2> QED BY <2>3, <2>4
<1>2. ASSUME NEW code \in Codes, ClearFault(code) PROVE AbsentIsNew'
  BY <1>2 DEF ClearFault, AbsentIsNew, TypeOK, Faults
<1>3. CASE CheckTimeBasedConfirmation
  BY <1>3 DEF CheckTimeBasedConfirmation, Overdue, AbsentIsNew, TypeOK, Faults
<1>4. CASE Stop
  BY <1>4 DEF Stop, AbsentIsNew
<1>5. ASSUME NEW found \in Parameters, Configure(found) PROVE AbsentIsNew'
  BY <1>5 DEF Configure, AbsentIsNew
<1>6. CASE ReclassifyHealedAsCleared
  BY <1>6 DEF ReclassifyHealedAsCleared, AbsentIsNew, TypeOK, Faults
<1>7. CASE Tick
  BY <1>7 DEF Tick, AbsentIsNew
<1>8. CASE UNCHANGED vars
  BY <1>8 DEF vars, AbsentIsNew
<1> QED BY <1>1, <1>2, <1>3, <1>4, <1>5, <1>6, <1>7, <1>8 DEF Next, Report

\* What no step may do to one fault.
Latched(before, after) ==
  /\ before.status \in {"CONFIRMED", "HEALED"} =>
       after.status \in {"CONFIRMED", "HEALED", "CLEARED"}
  /\ after.occurrence_count >= before.occurrence_count
  /\ after.occurrence_count > before.occurrence_count => before.status \in {"ABSENT", "CLEARED"}

\* No step of the store does it.
LEMMA LatchStep ==
  TypeOK /\ AbsentIsNew /\ [Next]_vars => \A c \in Codes : Latched(faults_[c], faults_'[c])
<1> SUFFICES ASSUME TypeOK, AbsentIsNew, [Next]_vars, NEW c \in Codes
             PROVE  Latched(faults_[c], faults_'[c])
  OBVIOUS
<1>0. faults_[c] \in Faults /\ faults_[c].occurrence_count \in Nat
  BY StorageConstants DEF TypeOK, Faults
<1>u. faults_'[c] = faults_[c] => Latched(faults_[c], faults_'[c])
  BY <1>0 DEF Latched
<1>1. ASSUME NEW code \in Codes, NEW event \in Events, NEW severity \in Severities,
             NEW source \in Sources, ReportFaultEvent(code, event, severity, source)
      PROVE  Latched(faults_[c], faults_'[c])
  <2> DEFINE config == ConfigOf(source)
             fault == Reported(faults_[code], event, severity, config, now)
  <2>1. config \in ValidConfigs /\ faults_[code] \in Faults /\ now \in Nat
    BY ConfigsValid DEF TypeOK
  <2>2. faults_' = [faults_ EXCEPT ![code] = fault]
    BY <1>1 DEF ReportFaultEvent
  <2>3. CASE Ignored(faults_[code], event) \/ c # code
    BY <1>u, <2>2, <2>3 DEF Reported, TypeOK
  <2>4. CASE ~Ignored(faults_[code], event) /\ c = code
    <3>1. /\ faults_[c].status \in {"CONFIRMED", "HEALED"} => fault.status \in {"CONFIRMED", "HEALED"}
          /\ faults_[c].status # "ABSENT" \/ faults_[c] = NoFault =>
               fault.occurrence_count >= faults_[c].occurrence_count
          /\ faults_[c].status \notin {"ABSENT", "CLEARED"} =>
               fault.occurrence_count = faults_[c].occurrence_count
      BY <2>1, <2>4, ReportedFacts
    <3> HIDE DEF fault, config
    <3>2. faults_'[c] = fault
      BY <2>2, <2>4 DEF TypeOK
    <3> QED BY <1>0, <3>1, <3>2 DEF AbsentIsNew, Latched
  <2> QED BY <2>3, <2>4
<1>2. ASSUME NEW code \in Codes, ClearFault(code) PROVE Latched(faults_[c], faults_'[c])
  BY <1>0, <1>2 DEF ClearFault, Latched, TypeOK, Faults
<1>3. CASE CheckTimeBasedConfirmation
  BY <1>0, <1>3 DEF CheckTimeBasedConfirmation, Latched, TypeOK, Faults
<1>6. CASE ReclassifyHealedAsCleared
  BY <1>0, <1>6 DEF ReclassifyHealedAsCleared, Latched, TypeOK, Faults
<1>7. CASE Stop \/ (\E found \in Parameters : Configure(found)) \/ Tick \/ UNCHANGED vars
  BY <1>7, <1>u DEF Stop, Configure, Tick, vars
<1> QED BY <1>1, <1>2, <1>3, <1>6, <1>7 DEF Next, Report

\* No report, timer or restart takes a settled fault back to a pending status,
\* and the occurrence count only grows with a new outage.
THEOREM StorageLatches == SafetySpec => LatchHolds
<1>1. Init => AbsentIsNew
  BY DEF Init, AbsentIsNew, NoFault
<1>2. TypeOK /\ AbsentIsNew /\ [Next]_vars =>
        [\A code \in Codes :
           /\ faults_[code].status \in {"CONFIRMED", "HEALED"} =>
                faults_'[code].status \in {"CONFIRMED", "HEALED", "CLEARED"}
           /\ faults_'[code].occurrence_count >= faults_[code].occurrence_count
           /\ faults_'[code].occurrence_count > faults_[code].occurrence_count =>
                faults_[code].status \in {"ABSENT", "CLEARED"}]_vars
  BY LatchStep DEF Latched
<1> QED BY <1>1, <1>2, TypeInit, TypeStep, AbsentStep, PTL DEF SafetySpec, LatchHolds

-----------------------------------------------------------------------------
(* Healing *)

\* Every step keeps healing to the configurations that heal.
LEMMA HealedStep == TypeOK /\ HealedOnlyIfHealing /\ [Next]_vars => HealedOnlyIfHealing'
<1> SUFFICES ASSUME TypeOK, HealedOnlyIfHealing, [Next]_vars,
                    up' = "up", ~GlobalConfig'.healing_enabled,
                    \A s \in Sources : ~ConfigOf(s)'.healing_enabled, NEW c \in Codes
             PROVE  faults_'[c].status # "HEALED"
  BY DEF HealedOnlyIfHealing
<1>0. ASSUME params' = params
      PROVE  ~GlobalConfig.healing_enabled /\ \A s \in Sources : ~ConfigOf(s).healing_enabled
  BY <1>0 DEF GlobalConfig, ConfigOf
<1>u. CASE up = "up" /\ params' = params /\ faults_'[c] = faults_[c]
  BY <1>u, <1>0 DEF HealedOnlyIfHealing
<1>1. ASSUME NEW code \in Codes, NEW event \in Events, NEW severity \in Severities,
             NEW source \in Sources, ReportFaultEvent(code, event, severity, source)
      PROVE  faults_'[c].status # "HEALED"
  <2> DEFINE config == ConfigOf(source)
             fault == Reported(faults_[code], event, severity, config, now)
  <2>1. config \in ValidConfigs /\ faults_[code] \in Faults /\ now \in Nat
    BY ConfigsValid DEF TypeOK
  <2>2. faults_' = [faults_ EXCEPT ![code] = fault] /\ params' = params /\ up = "up"
    BY <1>1 DEF ReportFaultEvent
  <2>3. CASE Ignored(faults_[code], event) \/ c # code
    BY <1>u, <2>2, <2>3 DEF Reported, TypeOK
  <2>4. CASE ~Ignored(faults_[code], event) /\ c = code
    <3>1. fault.status = "HEALED" => faults_[c].status = "HEALED" \/ config.healing_enabled
      BY <2>1, <2>4, ReportedFacts
    <3>2. ~config.healing_enabled /\ faults_[c].status # "HEALED"
      BY <1>0, <2>2 DEF HealedOnlyIfHealing
    <3> HIDE DEF fault, config
    <3> QED BY <2>2, <2>4, <3>1, <3>2 DEF TypeOK
  <2> QED BY <2>3, <2>4
<1>2. ASSUME NEW code \in Codes, ClearFault(code) PROVE faults_'[c].status # "HEALED"
  <2>1. up = "up" /\ params' = params
    BY <1>2 DEF ClearFault
  <2>2. faults_[c].status # "HEALED"
    BY <1>0, <2>1 DEF HealedOnlyIfHealing
  <2> QED BY <1>2, <2>2 DEF ClearFault, TypeOK, Faults
<1>3. CASE CheckTimeBasedConfirmation
  <2>1. up = "up" /\ params' = params
    BY <1>3 DEF CheckTimeBasedConfirmation
  <2>2. faults_[c].status # "HEALED"
    BY <1>0, <2>1 DEF HealedOnlyIfHealing
  <2> QED BY <1>3, <2>2 DEF CheckTimeBasedConfirmation, TypeOK, Faults
<1>4. CASE Stop \/ \E found \in Parameters : Configure(found)
  BY <1>4 DEF Stop, Configure
<1>6. CASE ReclassifyHealedAsCleared
  <2>1. ~GlobalConfig.healing_enabled
    BY <1>6, <1>0 DEF ReclassifyHealedAsCleared
  <2> QED BY <1>6, <2>1 DEF ReclassifyHealedAsCleared, TypeOK, Faults
<1>7. CASE Tick \/ UNCHANGED vars
  BY <1>7, <1>u DEF Tick, vars
<1> QED BY <1>1, <1>2, <1>3, <1>4, <1>6, <1>7 DEF Next, Report

\* A store under parameters that do not heal serves no HEALED fault, whatever
\* the runs before it were configured to do.
THEOREM StorageHealsOnlyIfHealing == SafetySpec => []HealedOnlyIfHealing
<1>1. Init => HealedOnlyIfHealing
  BY DEF Init, HealedOnlyIfHealing
<1> QED BY <1>1, TypeInit, TypeStep, HealedStep, PTL DEF SafetySpec

-----------------------------------------------------------------------------
(* Near misses *)

\* A series of reports that missed, no longer than a bound (0 = unlimited).
MissedWithin(series, bound) ==
  /\ \A i \in 1..Len(series) : series[i].debounce_counter > series[i].confirmation_threshold
  /\ bound > 0 => Len(series) <= bound

\* The inductive invariant behind NearMissesMissed: the bound holds from the
\* first part of a start on, and no bound while the node is down.
SeriesBounded ==
  \A code \in Codes :
    MissedWithin(near_misses_[code], IF up = "down" THEN 0 ELSE params.max_near_misses)

\* Trimming enforces a bound.
LEMMA NewestMissed ==
  ASSUME NEW series \in Seq(NearMisses), NEW bound \in Nat, NEW count \in Nat,
         MissedWithin(series, bound)
  PROVE  MissedWithin(Newest(series, count), count)
BY NewestFacts DEF MissedWithin

\* A fault that FAILED did not confirm has a counter above the threshold.
LEMMA SeriesMissed ==
  ASSUME params \in Parameters, NEW series \in Seq(NearMisses),
         MissedWithin(series, params.max_near_misses), NEW event \in Events,
         NEW fault \in Faults, fault.status \in Statuses, NEW config \in ValidConfigs,
         fault.debounce_counter <= config.confirmation_threshold => fault.status = "CONFIRMED"
  PROVE  MissedWithin(SeriesAfter(series, event, fault, config), params.max_near_misses)
<1> DEFINE miss == NearMiss(fault, config)
           longer == Append(series, miss)
<1>1. params.max_near_misses \in Nat /\ longer \in Seq(NearMisses)
  BY HistoryTypes DEF Streaks
<1>2. CASE ~is_near_miss(event, fault.status)
  BY <1>2 DEF SeriesAfter
<1>3. CASE is_near_miss(event, fault.status)
  <2>1. miss.debounce_counter > miss.confirmation_threshold
    BY <1>3, ValidFields DEF is_near_miss, NearMiss, Faults
  <2>2. \A i \in 1..Len(longer) : longer[i] = IF i = Len(series) + 1 THEN miss ELSE series[i]
    BY DEF Faults
  <2>3. Len(longer) = Len(series) + 1 /\ Len(series) \in Nat
    OBVIOUS
  <2> HIDE DEF longer, miss
  <2>4. MissedWithin(longer, 0)
    BY <2>1, <2>2, <2>3 DEF MissedWithin
  <2> QED BY <1>1, <1>3, <2>4, NewestMissed DEF SeriesAfter, longer, miss
<1> QED BY <1>2, <1>3

\* Every step keeps the series bounded.
LEMMA SeriesStep == TypeOK /\ SeriesBounded /\ [Next]_vars => SeriesBounded'
<1> SUFFICES ASSUME TypeOK, SeriesBounded, [Next]_vars PROVE SeriesBounded' OBVIOUS
<1>1. ASSUME NEW code \in Codes, NEW event \in Events, NEW severity \in Severities,
             NEW source \in Sources, ReportFaultEvent(code, event, severity, source)
      PROVE  SeriesBounded'
  <2> DEFINE config == ConfigOf(source)
             fault == Reported(faults_[code], event, severity, config, now)
             after == SeriesAfter(near_misses_[code], event, fault, config)
  <2>1. /\ config \in ValidConfigs /\ faults_[code] \in Faults /\ now \in Nat
        /\ near_misses_[code] \in Seq(NearMisses)
    BY ConfigsValid DEF TypeOK
  <2>2. up = "up" /\ UNCHANGED <<params, up>> /\ near_misses_' = [near_misses_ EXCEPT ![code] = after]
    BY <1>1 DEF ReportFaultEvent
  <2>3. MissedWithin(near_misses_[code], params.max_near_misses)
    BY <2>2 DEF SeriesBounded
  <2>4. MissedWithin(after, params.max_near_misses)
    <3>1. CASE Ignored(faults_[code], event)
      BY <2>3, <3>1 DEF Ignored, SeriesAfter, is_near_miss
    <3>2. CASE ~Ignored(faults_[code], event)
      <4>1. /\ fault \in Faults /\ fault.status \in Statuses
            /\ fault.debounce_counter <= config.confirmation_threshold => fault.status = "CONFIRMED"
        BY <2>1, <3>2, ReportedFacts
      <4> HIDE DEF fault, config
      <4> QED BY <2>1, <2>3, <4>1, SeriesMissed DEF TypeOK
    <3> QED BY <3>1, <3>2
  <2> HIDE DEF after
  <2> QED BY <2>2, <2>4 DEF SeriesBounded, TypeOK
<1>2. ASSUME NEW code \in Codes, ClearFault(code) PROVE SeriesBounded'
  BY <1>2 DEF ClearFault, SeriesBounded
<1>3. CASE CheckTimeBasedConfirmation \/ ReclassifyHealedAsCleared \/ Tick \/ UNCHANGED vars
  BY <1>3 DEF CheckTimeBasedConfirmation, ReclassifyHealedAsCleared, Tick, vars, SeriesBounded
<1>4. CASE Stop
  BY <1>4 DEF Stop, SeriesBounded, MissedWithin
<1>5. ASSUME NEW found \in Parameters, Configure(found) PROVE SeriesBounded'
  <2>1. found.max_near_misses \in Nat /\ params.max_near_misses \in Nat
    BY StorageConstants DEF ParameterSets, TypeOK
  <2>2. \A c \in Codes : MissedWithin(Newest(near_misses_[c], found.max_near_misses),
                                      found.max_near_misses)
    BY <2>1, NewestMissed DEF SeriesBounded, TypeOK
  <2> QED BY <1>5, <2>2 DEF Configure, SeriesBounded
<1> QED BY <1>1, <1>2, <1>3, <1>4, <1>5 DEF Next, Report

\* Every near miss kept did miss the threshold it was judged against, and a
\* running node keeps no more of them per fault than its bound.
THEOREM StorageNearMisses == SafetySpec => []NearMissesMissed
<1>1. Init => SeriesBounded
  BY DEF Init, SeriesBounded, MissedWithin
<1>2. TypeOK /\ SeriesBounded => NearMissesMissed
  BY DEF SeriesBounded, MissedWithin, NearMissesMissed
<1> QED BY <1>1, <1>2, TypeInit, TypeStep, SeriesStep, PTL DEF SafetySpec
=============================================================================
