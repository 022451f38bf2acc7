------------------------------ MODULE Debounce ------------------------------
(***************************************************************************)
(* The debounce state machine both storage backends share                  *)
(* (fault_storage.cpp): a bounded counter that FAILED reports push down    *)
(* and PASSED reports push up, and a status derived from it with a         *)
(* hysteresis latch.  Constant-level operators only.                       *)
(***************************************************************************)
EXTENDS Integers

Statuses == {"PREFAILED", "PREPASSED", "CONFIRMED", "HEALED", "CLEARED"}
Events == {"FAILED", "PASSED"}
Severities == {"ERROR", "CRITICAL"}   \* those below CRITICAL are alike here

\* DebounceConfig as the parameters give it, before it is sanitised.
DebounceConfigs ==
  [confirmation_threshold : Int, healing_enabled : BOOLEAN,
   healing_threshold : Int, critical_immediate_confirm : BOOLEAN]

\* What sanitize_debounce_config() leaves behind.
ValidConfigs ==
  {config \in DebounceConfigs : /\ config.confirmation_threshold < 0
                                /\ config.healing_threshold >= 0}

sanitize_debounce_config(config) ==
  [config EXCEPT !.confirmation_threshold = IF @ >= 0 THEN -1 ELSE @,
                 !.healing_threshold = IF @ < 0 THEN 3 ELSE @]

clamp_debounce_counter(counter, config) ==
  IF counter < config.confirmation_threshold THEN config.confirmation_threshold
  ELSE IF counter > config.healing_threshold THEN config.healing_threshold
  ELSE counter

\* A slip: without the latch, one opposite report sends a settled fault back to pending.
compute_debounce_status_NoLatch(counter, current_status, config) ==
  CASE counter <= config.confirmation_threshold -> "CONFIRMED"
    [] counter > config.confirmation_threshold
       /\ config.healing_enabled /\ counter >= config.healing_threshold -> "HEALED"
    [] OTHER -> IF counter < 0 THEN "PREFAILED"
                ELSE IF counter > 0 THEN "PREPASSED" ELSE current_status

\* The status a counter gives; CONFIRMED and HEALED hold until the counter
\* reaches the opposite threshold, and 0 keeps whatever the status was.
compute_debounce_status(counter, current_status, config) ==
  IF counter <= config.confirmation_threshold THEN "CONFIRMED"
  ELSE IF config.healing_enabled /\ counter >= config.healing_threshold THEN "HEALED"
  ELSE IF current_status \in {"CONFIRMED", "HEALED"} \/ counter = 0 THEN current_status
  ELSE IF counter < 0 THEN "PREFAILED" ELSE "PREPASSED"

is_near_miss(event, resulting_status) ==
  event = "FAILED" /\ resulting_status # "CONFIRMED"

\* CRITICAL bypasses the counter when the configuration says so.
ConfirmsAtOnce(event, severity, config) ==
  event = "FAILED" /\ config.critical_immediate_confirm /\ severity = "CRITICAL"
=============================================================================
