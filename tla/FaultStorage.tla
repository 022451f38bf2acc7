---------------------------- MODULE FaultStorage ----------------------------
(***************************************************************************)
(* The fault store as InMemoryFaultStorage writes it (fault_storage.cpp),  *)
(* driven the way the node drives it: the start-up calls, reports, clears  *)
(* and the auto-confirmation timer.  mutex_ makes every operation atomic.  *)
(* A fault keeps its status, counter, occurrence count and the two times   *)
(* the code compares; severity, description and reporting sources are      *)
(* stored and never read by an operation, so they are left out.  Snapshots *)
(* and recordings, the store's other tables, are not part of this module.  *)
(***************************************************************************)
EXTENDS Debounce, Sequences, FiniteSets

CONSTANTS Codes,             \* fault codes
          Sources,           \* reporting entities
          Parameters,        \* the parameter sets a start of the node may find
          AutoConfirmAfter,  \* auto_confirm_after_sec, 0 = off
          MaxOccurrences,    \* std::numeric_limits<uint32_t>::max()
          LastReport         \* bound: no report, clear or stop comes after this time

\* A parameter set: the global DebounceConfig, the one each source resolves
\* to, and near_miss.max_per_fault (0 = unlimited).
ParameterSets ==
  [global : DebounceConfigs, of : [Sources -> DebounceConfigs], max_near_misses : Nat]

ASSUME StorageConstants ==
  /\ Parameters \subseteq ParameterSets /\ Parameters # {}
  /\ AutoConfirmAfter \in Nat
  /\ MaxOccurrences \in Nat \ {0}
  /\ LastReport \in Nat \ {0}

VARIABLES
  faults_,       \* code -> its fault, NoFault before the first report
  near_misses_,  \* code -> its near-miss series, oldest first
  params,        \* the parameter set of the running node
  up,            \* "down" | "starting" | "up": the node over this store
  now,           \* the wall clock
  streak         \* history: code -> its latest run of equal reports

vars == <<faults_, near_misses_, params, up, now, streak>>

NoFault ==
  [status |-> "ABSENT", debounce_counter |-> 0, occurrence_count |-> 0,
   first_occurred |-> 0, last_failed_time |-> 0]

Faults ==
  [status : Statuses \union {"ABSENT"}, debounce_counter : Int,
   occurrence_count : 0..MaxOccurrences,
   first_occurred : Nat, last_failed_time : Nat]

NearMisses ==
  [debounce_counter : Int, confirmation_threshold : Int, resulting_status : Statuses]

\* Every configuration passes sanitize_debounce_config() before it is used.
ConfigOf(source) == sanitize_debounce_config(params.of[source])
GlobalConfig == sanitize_debounce_config(params.global)

\* The reports that take a counter from one end of a configuration's band to the other.
BandWidth(config) == config.healing_threshold - config.confirmation_threshold

NoStreak == [event |-> "NONE"]
Streaks ==
  {NoStreak} \union [event : Events, config : ValidConfigs, length : Nat]

TypeOK ==
  /\ faults_ \in [Codes -> Faults]
  /\ near_misses_ \in [Codes -> Seq(NearMisses)]
  /\ params \in Parameters
  /\ up \in {"down", "starting", "up"}
  /\ now \in Nat \ {0}
  /\ streak \in [Codes -> Streaks]

Init ==
  /\ faults_ = [code \in Codes |-> NoFault]
  /\ near_misses_ = [code \in Codes |-> <<>>]
  /\ params \in Parameters
  /\ up = "down"
  /\ now = 1
  /\ streak = [code \in Codes |-> NoStreak]

-----------------------------------------------------------------------------
(* report_fault_event() on one fault *)

\* The status a report leaves: CRITICAL bypasses the counter.
StatusAfter(event, severity, counter, current_status, config) ==
  IF ConfirmsAtOnce(event, severity, config) THEN "CONFIRMED"
  ELSE compute_debounce_status(counter, current_status, config)

NewFault(severity, config, time) ==
  [status |-> StatusAfter("FAILED", severity, -1, "", config), debounce_counter |-> -1,
   occurrence_count |-> 1, first_occurred |-> time, last_failed_time |-> time]

\* A FAILED report on a CLEARED fault opens a new outage.
Reactivated(fault, severity, config, time) ==
  [status |-> StatusAfter("FAILED", severity, -1, "CLEARED", config),
   debounce_counter |-> -1,
   occurrence_count |-> IF fault.occurrence_count < MaxOccurrences
                        THEN fault.occurrence_count + 1 ELSE fault.occurrence_count,
   first_occurred |-> time, last_failed_time |-> time]

\* A slip: the counter is not brought into this configuration's band first.
Updated_NoRebase(fault, event, severity, config, time) ==
  LET counter == IF event = "FAILED" THEN fault.debounce_counter - 1
                                     ELSE fault.debounce_counter + 1
  IN  [fault EXCEPT !.debounce_counter = counter,
                    !.status = StatusAfter(event, severity, counter, fault.status, config),
                    !.last_failed_time = IF event = "FAILED" THEN time ELSE @]

\* A report on a fault that is not CLEARED: the counter is brought into this
\* configuration's band, moves by one and is clamped again.
Updated(fault, event, severity, config, time) ==
  LET counter == clamp_debounce_counter(
                   clamp_debounce_counter(fault.debounce_counter, config)
                     + (IF event = "FAILED" THEN -1 ELSE 1), config)
  IN  [fault EXCEPT !.debounce_counter = counter,
                    !.status = StatusAfter(event, severity, counter, fault.status, config),
                    !.last_failed_time = IF event = "FAILED" THEN time ELSE @]

\* PASSED reports on an unknown or a CLEARED fault are ignored.
Ignored(fault, event) == fault.status \in {"ABSENT", "CLEARED"} /\ event = "PASSED"

Reported(fault, event, severity, config, time) ==
  IF Ignored(fault, event) THEN fault
  ELSE IF fault.status = "ABSENT" THEN NewFault(severity, config, time)
  ELSE IF fault.status = "CLEARED" THEN Reactivated(fault, severity, config, time)
  ELSE Updated(fault, event, severity, config, time)

\* The trim of record_near_miss() and set_max_near_misses_per_fault().
Newest(series, count) ==
  IF count = 0 \/ Len(series) <= count THEN series
  ELSE SubSeq(series, Len(series) - count + 1, Len(series))

NearMiss(fault, config) ==
  [debounce_counter |-> fault.debounce_counter,
   confirmation_threshold |-> config.confirmation_threshold,
   resulting_status |-> fault.status]

\* The series after a report that left the fault as it now is.
SeriesAfter(series, event, fault, config) ==
  IF is_near_miss(event, fault.status)
  THEN Newest(Append(series, NearMiss(fault, config)), params.max_near_misses)
  ELSE series

\* History: the run of equal reports under one configuration, counted up to
\* the width of its band.
StreakAfter(run, event, config) ==
  IF run.event = event /\ run.config = config
  THEN [run EXCEPT !.length = IF @ < BandWidth(config) THEN @ + 1 ELSE @]
  ELSE [event |-> event, config |-> config, length |-> 1]

-----------------------------------------------------------------------------
(* The operations *)

\* handle_report_fault() reaching report_fault_event().
ReportFaultEvent(code, event, severity, source) ==
  LET config == ConfigOf(source)
      fault == Reported(faults_[code], event, severity, config, now)
  IN  /\ up = "up" /\ now <= LastReport
      /\ faults_' = [faults_ EXCEPT ![code] = fault]
      /\ near_misses_' = [near_misses_ EXCEPT ![code] = SeriesAfter(@, event, fault, config)]
      /\ streak' = IF Ignored(faults_[code], event) THEN streak
                   ELSE [streak EXCEPT ![code] = StreakAfter(@, event, config)]
      /\ UNCHANGED <<params, up, now>>

\* clear_fault(): the counter and the near-miss series stay as they are.
ClearFault(code) ==
  /\ up = "up" /\ now <= LastReport
  /\ faults_[code].status # "ABSENT"
  /\ faults_' = [faults_ EXCEPT ![code].status = "CLEARED"]
  /\ streak' = [streak EXCEPT ![code] = NoStreak]
  /\ UNCHANGED <<near_misses_, params, up, now>>


\* The PREFAILED faults whose last FAILED report is old enough at a time.
Overdue(faults, time) ==
  {code \in Codes : /\ faults[code].status = "PREFAILED"
                    /\ time - faults[code].last_failed_time >= AutoConfirmAfter}

\* check_time_based_confirmation(), called by the auto-confirm timer.
CheckTimeBasedConfirmation ==
  LET confirmed == Overdue(faults_, now)
  IN  /\ up = "up" /\ AutoConfirmAfter > 0 /\ confirmed # {}
      /\ faults_' = [code \in Codes |-> IF code \in confirmed
                       THEN [faults_[code] EXCEPT !.status = "CONFIRMED"] ELSE faults_[code]]
      /\ UNCHANGED <<near_misses_, params, up, now, streak>>

\* The node stops or dies; the store is what is left.
Stop ==
  /\ up # "down" /\ now <= LastReport
  /\ up' = "down"
  /\ UNCHANGED <<faults_, near_misses_, params, now, streak>>

\* A slip: the new bound waits for the next near miss.
Configure_NoTrim(found) ==
  /\ up = "down" /\ up' = "starting"
  /\ params' = found
  /\ streak' = [code \in Codes |-> NoStreak]
  /\ UNCHANGED <<faults_, near_misses_, now>>

\* A start of the node, first part: new parameters, and
\* set_max_near_misses_per_fault() trims what an earlier run left.
Configure(found) ==
  /\ up = "down"
  /\ params' = found
  /\ near_misses_' = [code \in Codes |-> Newest(near_misses_[code], found.max_near_misses)]
  /\ streak' = [code \in Codes |-> NoStreak]
  /\ up' = "starting"
  /\ UNCHANGED <<faults_, now>>

\* Second part: reclassify_healed_as_cleared() when healing is off.
ReclassifyHealedAsCleared ==
  /\ up = "starting"
  /\ faults_' = IF GlobalConfig.healing_enabled THEN faults_
                ELSE [code \in Codes |-> IF faults_[code].status = "HEALED"
                        THEN [faults_[code] EXCEPT !.status = "CLEARED"] ELSE faults_[code]]
  /\ up' = "up"
  /\ UNCHANGED <<near_misses_, params, now, streak>>

\* Reports stop at LastReport; the clock runs on long enough for the timer.
Tick ==
  /\ now < LastReport + AutoConfirmAfter
  /\ now' = now + 1
  /\ UNCHANGED <<faults_, near_misses_, params, up, streak>>

Report(code) ==
  \E event \in Events, severity \in Severities, source \in Sources :
    ReportFaultEvent(code, event, severity, source)

Next ==
  \/ \E code \in Codes : Report(code) \/ ClearFault(code)
  \/ CheckTimeBasedConfirmation
  \/ Stop
  \/ \E found \in Parameters : Configure(found)
  \/ ReclassifyHealedAsCleared
  \/ Tick

\* The clock runs, the timer fires, and a started node finishes starting.
Fairness ==
  /\ WF_vars(Tick) /\ WF_vars(CheckTimeBasedConfirmation)
  /\ WF_vars(\E found \in Parameters : Configure(found))
  /\ WF_vars(ReclassifyHealedAsCleared)

SafetySpec == Init /\ [][Next]_vars
Spec == SafetySpec /\ Fairness

-----------------------------------------------------------------------------
(* Properties *)

\* The latch delay is bounded whatever came before (fault_storage.hpp:38-41): a
\* run of FAILED reports as long as the band of its configuration confirms the
\* fault, and a run of PASSED reports as long heals it when healing is on, even
\* if other sources with other bands left the counter elsewhere.
SettlesWithinBand ==
  \A code \in Codes :
    LET run == streak[code] IN
      run.event \in Events /\ run.length >= BandWidth(run.config) =>
        /\ run.event = "FAILED" => faults_[code].status = "CONFIRMED"
        /\ run.event = "PASSED" /\ run.config.healing_enabled => faults_[code].status = "HEALED"

\* A near miss did not confirm: its counter stayed above the threshold it was
\* judged against, and the store keeps no more of them than the bound in force.
NearMissesMissed ==
  \A code \in Codes :
    /\ \A i \in 1..Len(near_misses_[code]) :
         near_misses_[code][i].debounce_counter > near_misses_[code][i].confirmation_threshold
    /\ up = "up" /\ params.max_near_misses > 0 =>
         Len(near_misses_[code]) <= params.max_near_misses

\* While no configuration heals, no served fault is HEALED, also after a restart
\* that turned healing off over rows an earlier run had healed.
HealedOnlyIfHealing ==
  up = "up" /\ ~GlobalConfig.healing_enabled /\ (\A s \in Sources : ~ConfigOf(s).healing_enabled)
    => \A code \in Codes : faults_[code].status # "HEALED"

\* The latch: a settled fault never drops back to a pending status, and only a
\* CLEARED fault starts a new occurrence; the count never goes down.
LatchHolds ==
  [][\A code \in Codes :
       /\ faults_[code].status \in {"CONFIRMED", "HEALED"} =>
            faults_'[code].status \in {"CONFIRMED", "HEALED", "CLEARED"}
       /\ faults_'[code].occurrence_count >= faults_[code].occurrence_count
       /\ faults_'[code].occurrence_count > faults_[code].occurrence_count =>
            faults_[code].status \in {"ABSENT", "CLEARED"}]_vars

=============================================================================
