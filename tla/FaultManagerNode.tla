-------------------------- MODULE FaultManagerNode --------------------------
(***************************************************************************)
(* The node over its parts (fault_manager_node.cpp): a report or a clear   *)
(* goes to the fault store, the correlation engine, the event stream and   *)
(* the audit log, in one callback of a single-threaded executor.  The      *)
(* store's part of a step is FaultStorage's, the engine's is               *)
(* CorrelationEngine's; the rest of the store (near misses) is left out.   *)
(* The store and the audit log outlive the process, the engine does not.   *)
(***************************************************************************)
EXTENDS Integers, Sequences, FiniteSets

CONSTANTS Codes, Rules,      \* as in CorrelationEngine
          Configs,           \* what resolve_config() may give, sanitised
          AutoConfirmAfter,  \* auto_confirm_after_sec, 0 = off
          MaxReports, MaxClears, LastReport, MaxTime   \* bounds

VARIABLES
  faults_,
  pending_root_causes_, root_to_symptoms_, muted_faults_, pending_clusters_,
  active_clusters_, fault_to_cluster_, cluster_counter_,
  now, attributed, reports, clears,
  event,     \* the event published by the last step, NoEvent if none
  shown,     \* history: the faults whose latest event is not that they ended
  withheld,  \* history: the faults whose confirmation was muted
  audited    \* history: code -> the latest transition in the audit log

evars == <<pending_root_causes_, root_to_symptoms_, muted_faults_, pending_clusters_,
           active_clusters_, fault_to_cluster_, cluster_counter_>>
vars == <<faults_, evars, now, attributed, reports, clears, event, shown, withheld, audited>>

Open == {c \in Codes : faults_[c].status \notin {"ABSENT", "CLEARED"}}
Confirmed == {c \in Codes : faults_[c].status = "CONFIRMED"}

Store == INSTANCE FaultStorage WITH
  Sources <- {}, Parameters <- {}, MaxOccurrences <- 1, LastReport <- LastReport,
  near_misses_ <- <<>>, params <- <<>>, up <- "up", streak <- <<>>

Engine == INSTANCE CorrelationEngine WITH Severities <- 0..3, open <- Open

NoEvent == [type |-> "NONE"]
FaultEvents ==
  {NoEvent} \union [type : {"CONFIRMED", "UPDATED", "CLEARED"}, code : Codes]

TypeOK ==
  /\ faults_ \in [Codes -> Store!Faults]
  /\ Engine!TypeOK
  /\ event \in FaultEvents
  /\ shown \subseteq Codes /\ withheld \subseteq Codes
  /\ audited \in [Codes -> {"none", "occurred", "confirmed", "healed", "cleared"}]

Init ==
  /\ faults_ = [c \in Codes |-> Store!NoFault]
  /\ Engine!Init
  /\ clears = 0
  /\ event = NoEvent /\ shown = {} /\ withheld = {}
  /\ audited = [c \in Codes |-> "none"]

-----------------------------------------------------------------------------
(* handle_report_fault() *)

SeverityRank(severity) == IF severity = "CRITICAL" THEN 3 ELSE 2

\* Only a FAILED report reaches the engine.
Correlate(code, type, severity) ==
  IF type = "FAILED" THEN Engine!ProcessFault(code, SeverityRank(severity))
  ELSE now <= LastReport /\ UNCHANGED <<evars, now, attributed, reports>>

\* What the report did to the fault; report_fault_event() returns is_new for
\* the first report of an outage.
IsNew(before, type) == type = "FAILED" /\ before.status \in {"ABSENT", "CLEARED"}
JustConfirmed(before, after, type) ==
  after.status = "CONFIRMED" /\ (IsNew(before, type) \/ before.status # "CONFIRMED")
JustHealed(before, after) == before.status # "HEALED" /\ after.status = "HEALED"

\* A slip: the end of a fault that heals is not published.
EventOfReport_SilentHeal(code, before, after, type) ==
  LET should_mute == type = "FAILED" /\ Engine!ShouldMute(code)
  IN  IF after.status # "CONFIRMED" \/ should_mute THEN NoEvent
      ELSE [type |-> IF JustConfirmed(before, after, type) THEN "CONFIRMED" ELSE "UPDATED",
            code |-> code]

EventOfReport(code, before, after, type) ==
  LET should_mute == type = "FAILED" /\ Engine!ShouldMute(code)
  IN  IF JustHealed(before, after) THEN [type |-> "CLEARED", code |-> code]
      ELSE IF after.status # "CONFIRMED" \/ should_mute THEN NoEvent
      ELSE [type |-> IF JustConfirmed(before, after, type) THEN "CONFIRMED" ELSE "UPDATED",
            code |-> code]

\* The latest of the audit records the report appends.
AuditOfReport(code, before, after, type) ==
  IF JustHealed(before, after) THEN "healed"
  ELSE IF JustConfirmed(before, after, type) THEN "confirmed"
  ELSE IF IsNew(before, type) THEN "occurred" ELSE audited[code]

\* What a consumer of the stream shows after an event, with the codes it names as
\* cleared along.
ShownAfter(e, also_cleared) ==
  CASE e.type \in {"CONFIRMED", "UPDATED"} -> shown \union {e.code}
    [] e.type = "CLEARED" -> shown \ ({e.code} \union also_cleared)
    [] e.type = "NONE" -> shown

HandleReportFault(code, type, severity, config) ==
  LET before == faults_[code]
      after == Store!Reported(before, type, severity, config, now)
  IN  /\ faults_' = [faults_ EXCEPT ![code] = after]
      /\ Correlate(code, type, severity)
      /\ event' = EventOfReport(code, before, after, type)
      /\ shown' = ShownAfter(event', {})
      /\ withheld' = IF JustConfirmed(before, after, type)
                     THEN IF event' = NoEvent THEN withheld \union {code} ELSE withheld \ {code}
                     ELSE withheld
      /\ audited' = [audited EXCEPT ![code] = AuditOfReport(code, before, after, type)]
      /\ UNCHANGED clears

-----------------------------------------------------------------------------
(* handle_clear_fault() and the timers *)

Cleared(codes) ==
  [c \in Codes |-> IF c \in codes THEN [faults_[c] EXCEPT !.status = "CLEARED"] ELSE faults_[c]]

\* A slip: the symptoms cleared along are not audited.
HandleClearFault_AuditsOne(code, skip) ==
  LET auto_cleared == IF skip THEN {} ELSE Engine!AutoCleared(code)
  IN  /\ clears < MaxClears /\ faults_[code].status # "ABSENT"
      /\ faults_' = Cleared({code} \union auto_cleared)
      /\ IF skip THEN Engine!ClearSkippingEngine(code) ELSE Engine!ProcessClear(code)
      /\ event' = [type |-> "CLEARED", code |-> code]
      /\ shown' = ShownAfter(event', auto_cleared)
      /\ audited' = [audited EXCEPT ![code] = "cleared"]
      /\ clears' = clears + 1
      /\ UNCHANGED withheld

\* The engine first (unless skipped), then the store: the fault and the symptoms
\* cleared along.  One event names them all; each is audited.  A clear of a fault
\* that was never reported reaches no symptoms and does nothing.
HandleClearFault(code, skip) ==
  LET auto_cleared == IF skip THEN {} ELSE Engine!AutoCleared(code)
  IN  /\ clears < MaxClears /\ faults_[code].status # "ABSENT"
      /\ faults_' = Cleared({code} \union auto_cleared)
      /\ IF skip THEN Engine!ClearSkippingEngine(code) ELSE Engine!ProcessClear(code)
      /\ event' = [type |-> "CLEARED", code |-> code]
      /\ shown' = ShownAfter(event', auto_cleared)
      /\ audited' = [c \in Codes |-> IF c = code \/ c \in auto_cleared THEN "cleared" ELSE audited[c]]
      /\ clears' = clears + 1
      /\ UNCHANGED withheld

\* The timer confirms every overdue fault and announces those that are not
\* muted; event is the last of the announcements.
AutoConfirmTimer ==
  LET confirmed == Store!Overdue(faults_, now)
      announced == {c \in confirmed : muted_faults_[c] = Engine!NoCode}
  IN  /\ AutoConfirmAfter > 0 /\ confirmed # {}
      /\ faults_' = [c \in Codes |-> IF c \in confirmed
                       THEN [faults_[c] EXCEPT !.status = "CONFIRMED"] ELSE faults_[c]]
      /\ IF announced = {} THEN event' = NoEvent
         ELSE \E c \in announced : event' = [type |-> "CONFIRMED", code |-> c]
      /\ shown' = shown \union announced
      /\ withheld' = (withheld \union confirmed) \ announced
      /\ audited' = [c \in Codes |-> IF c \in confirmed THEN "confirmed" ELSE audited[c]]
      /\ UNCHANGED <<evars, now, attributed, reports, clears>>

CorrelationCleanupTimer ==
  /\ UNCHANGED <<faults_, clears, shown, withheld, audited>>
  /\ Engine!CleanupExpired
  /\ event' = NoEvent

\* The node stops between two callbacks and starts again: the engine is empty,
\* and healed faults are reclassified, and audited, when healing is off.
Restart(config) ==
  LET reclassified == IF config.healing_enabled THEN {}
                      ELSE {c \in Codes : faults_[c].status = "HEALED"}
  IN
  /\ now <= LastReport
  /\ faults_' = Cleared(reclassified)
  /\ audited' = [c \in Codes |-> IF c \in reclassified THEN "cleared" ELSE audited[c]]
  /\ pending_root_causes_' = <<>>
  /\ root_to_symptoms_' = [c \in Codes |-> {}]
  /\ muted_faults_' = [c \in Codes |-> Engine!NoCode]
  /\ pending_clusters_' = [r \in Engine!RuleIds |-> Engine!NoCluster]
  /\ active_clusters_' = [k \in Engine!ClusterIds |-> Engine!NoActive]
  /\ fault_to_cluster_' = [c \in Codes |-> 0]
  /\ cluster_counter_' = 0
  /\ attributed' = [c \in Codes |-> {}]
  /\ event' = NoEvent
  /\ UNCHANGED <<now, reports, clears, shown, withheld>>

Tick ==
  /\ UNCHANGED <<faults_, clears, shown, withheld, audited>>
  /\ Engine!Tick
  /\ event' = NoEvent

Next ==
  \/ \E code \in Codes, type \in Store!Events, severity \in Store!Severities, config \in Configs :
       HandleReportFault(code, type, severity, config)
  \/ \E code \in Codes, skip \in BOOLEAN : HandleClearFault(code, skip)
  \/ AutoConfirmTimer
  \/ CorrelationCleanupTimer
  \/ \E config \in Configs : Restart(config)
  \/ Tick

Spec == Init /\ [][Next]_vars

-----------------------------------------------------------------------------
(* Properties *)

\* The event stream tells which faults are confirmed: a consumer shows no fault
\* that is over, however it ended (cleared, cleared along with its root cause,
\* healed, or confirmed by the timer and then ended), and misses no confirmed
\* fault but one that was muted when it was confirmed.
StreamTells == shown \subseteq Confirmed /\ Confirmed \ shown \subseteq withheld

\* "records every fault state transition" (README.md:196 of the package): the last
\* record of a fault tells its status, whatever confirmed or ended it, whoever was
\* muted, and also after the reclassification of a start.
AuditTells ==
  \A c \in Codes : LET status == faults_[c].status IN
    audited[c] = CASE status = "ABSENT" -> "none"
                   [] status \in {"PREFAILED", "PREPASSED"} -> "occurred"
                   [] status = "CONFIRMED" -> "confirmed"
                   [] status = "HEALED" -> "healed"
                   [] status = "CLEARED" -> "cleared"

\* "a symptom suppressed by a root cause must not be announced, or SSE and the
\* trigger subscribers see an alarm that the fault list hides"
\* (fault_manager_node.cpp:465): no fault is announced while it is muted.
MutedNotAnnounced ==
  event.type \in {"CONFIRMED", "UPDATED"} => muted_faults_[event.code] = Engine!NoCode
=============================================================================
