-------------------------- MODULE CorrelationEngine --------------------------
(***************************************************************************)
(* Root-cause correlation and clustering of faults                         *)
(* (correlation/correlation_engine.cpp).  mutex_ makes every call atomic.  *)
(* A rule's patterns are the sets of codes they match; rules are tried in  *)
(* their order.  A map entry whose list is empty acts as an absent one     *)
(* everywhere in the code, so the maps are total functions here.  open     *)
(* stands for the caller's fault store: reported and not cleared since.    *)
(***************************************************************************)
EXTENDS Integers, Sequences, FiniteSets, SequencesExt

CONSTANTS Codes,       \* fault codes
          Severities,  \* severity ranks, naturals
          Rules,       \* config_.rules
          MaxReports,  \* bound: reports in a behaviour, and so clusters
          LastReport,  \* bound: no call but cleanup after this time
          MaxTime      \* bound on the clock

Modes == {"HIERARCHICAL", "AUTO_CLUSTER"}
Representatives == {"FIRST", "MOST_RECENT", "HIGHEST_SEVERITY"}

CorrelationRule ==
  [mode : Modes, window : Nat,
   roots : SUBSET Codes, symptoms : SUBSET Codes, mute : BOOLEAN, auto_clear : BOOLEAN,
   members : SUBSET Codes, min_count : Nat, single : BOOLEAN, representative : Representatives]

NoCode == "none"

ASSUME EngineConstants ==
  /\ Severities \subseteq Nat
  /\ Rules \in Seq(CorrelationRule)
  /\ NoCode \notin Codes
  /\ MaxReports \in Nat /\ LastReport \in Nat /\ MaxTime \in Nat

RuleIds == 1..Len(Rules)
ClusterIds == 1..MaxReports

VARIABLES
  pending_root_causes_,  \* sequence of [code, rule, at]
  root_to_symptoms_,     \* root code -> the codes tracked as its symptoms
  muted_faults_,         \* code -> the root cause that mutes it, NoCode if none
  pending_clusters_,     \* rule -> the cluster forming under it, NoCluster if none
  active_clusters_,      \* cluster id -> [codes, representative]
  fault_to_cluster_,     \* code -> cluster id, 0 if none
  cluster_counter_,
  now,
  open,                  \* the faults that are reported and not cleared
  attributed,            \* history: root -> symptoms found for it since it was cleared
  reports                \* how many faults were processed so far

evars == <<pending_root_causes_, root_to_symptoms_, muted_faults_, pending_clusters_,
           active_clusters_, fault_to_cluster_, cluster_counter_>>
vars == <<evars, now, open, attributed, reports>>

NoCluster ==
  [id |-> 0, codes |-> <<>>, representative |-> NoCode, severity |-> [c \in Codes |-> 0], at |-> 0]
NoActive == [codes |-> <<>>, representative |-> NoCode]

Clusters ==
  [id : ClusterIds \union {0}, codes : Seq(Codes), representative : Codes \union {NoCode},
   severity : [Codes -> Severities \union {0}], at : Nat]

TypeOK ==
  /\ pending_root_causes_ \in Seq([code : Codes, rule : RuleIds, at : Nat])
  /\ root_to_symptoms_ \in [Codes -> SUBSET Codes]
  /\ muted_faults_ \in [Codes -> Codes \union {NoCode}]
  /\ pending_clusters_ \in [RuleIds -> Clusters]
  /\ active_clusters_ \in [ClusterIds -> [codes : Seq(Codes), representative : Codes \union {NoCode}]]
  /\ fault_to_cluster_ \in [Codes -> ClusterIds \union {0}]
  /\ cluster_counter_ \in 0..MaxReports
  /\ now \in Nat /\ open \subseteq Codes /\ reports \in 0..MaxReports
  /\ attributed \in [Codes -> SUBSET Codes]

Init ==
  /\ pending_root_causes_ = <<>>
  /\ root_to_symptoms_ = [c \in Codes |-> {}]
  /\ muted_faults_ = [c \in Codes |-> NoCode]
  /\ pending_clusters_ = [r \in RuleIds |-> NoCluster]
  /\ active_clusters_ = [k \in ClusterIds |-> NoActive]
  /\ fault_to_cluster_ = [c \in Codes |-> 0]
  /\ cluster_counter_ = 0
  /\ now = 0 /\ open = {} /\ reports = 0
  /\ attributed = [c \in Codes |-> {}]

-----------------------------------------------------------------------------
(* process_fault(): a symptom, else a root cause, else a cluster member *)

Hierarchical == {r \in RuleIds : Rules[r].mode = "HIERARCHICAL"}
Clustering == {r \in RuleIds : Rules[r].mode = "AUTO_CLUSTER"}
Least(S) == CHOOSE i \in S : \A j \in S : i <= j

\* The root causes still within their windows.
Current(pending) == SelectSeq(pending, LAMBDA prc : now - prc.at <= Rules[prc.rule].window)

\* The positions of the pending root causes that a fault is a symptom of, the
\* hierarchical rules it is a root cause of, the clusters it belongs to.
RootsOf(code) ==
  {i \in 1..Len(Current(pending_root_causes_)) :
     code \in Rules[Current(pending_root_causes_)[i].rule].symptoms}
RootRules(code) == {r \in Hierarchical : code \in Rules[r].roots}
ClusterRules(code) == {r \in Clustering : code \in Rules[r].members}

\* What every report does first: expired root causes go, and the fault is open.
Reported(code) ==
  /\ reports < MaxReports /\ now <= LastReport
  /\ reports' = reports + 1
  /\ open' = open \union {code}
  /\ UNCHANGED now

clusters == <<pending_clusters_, active_clusters_, fault_to_cluster_, cluster_counter_>>

\* The first pending root cause whose rule has the fault among its symptoms.
RootOf(code) == Current(pending_root_causes_)[Least(RootsOf(code))]

\* try_as_symptom()
ProcessSymptom(code) ==
  LET prc == RootOf(code)
  IN  /\ Reported(code)
      /\ RootsOf(code) # {}
      /\ pending_root_causes_' = Current(pending_root_causes_)
      /\ root_to_symptoms_' = [root_to_symptoms_ EXCEPT ![prc.code] = @ \union {code}]
      /\ muted_faults_' = IF Rules[prc.rule].mute
                          THEN [muted_faults_ EXCEPT ![code] = prc.code] ELSE muted_faults_
      /\ attributed' = [attributed EXCEPT ![prc.code] = @ \union {code}]
      /\ UNCHANGED clusters

\* try_as_root_cause(): a new window opens, and the list of symptoms starts anew.
ProcessRootCause(code) ==
  /\ Reported(code)
  /\ RootsOf(code) = {} /\ RootRules(code) # {}
  /\ pending_root_causes_' =
       Append(Current(pending_root_causes_), [code |-> code, rule |-> Least(RootRules(code)), at |-> now])
  /\ root_to_symptoms_' = [root_to_symptoms_ EXCEPT ![code] = {}]
  /\ UNCHANGED <<muted_faults_, attributed, clusters>>

\* The code of a cluster that represents it once a fault has joined.
RepresentativeAfter(cluster, rule, code, severity) ==
  IF \/ rule.representative = "MOST_RECENT"
     \/ /\ rule.representative = "HIGHEST_SEVERITY"
        /\ severity > cluster.severity[cluster.representative]
  THEN code ELSE cluster.representative

\* try_auto_cluster(), no live cluster under the rule: one starts with this fault.
StartCluster(code, rule, severity) ==
  /\ pending_clusters_[rule] = NoCluster \/ now - pending_clusters_[rule].at > Rules[rule].window
  /\ cluster_counter_' = cluster_counter_ + 1
  /\ pending_clusters_' = [pending_clusters_ EXCEPT ![rule] =
       [id |-> cluster_counter_', codes |-> <<code>>, representative |-> code,
        severity |-> [c \in Codes |-> IF c = code THEN severity ELSE 0], at |-> now]]
  /\ fault_to_cluster_' = [fault_to_cluster_ EXCEPT ![code] = cluster_counter_']
  /\ UNCHANGED active_clusters_

\* A slip: the fault joins the cluster and is not filed under it.
JoinCluster_Unfiled(code, rule, severity) ==
  LET cluster == pending_clusters_[rule]
      joined == [cluster EXCEPT !.codes = Append(@, code), !.severity[code] = severity,
                   !.representative = RepresentativeAfter(cluster, Rules[rule], code, severity)]
  IN  /\ cluster # NoCluster /\ now - cluster.at <= Rules[rule].window
      /\ code \notin ToSet(cluster.codes)
      /\ pending_clusters_' = [pending_clusters_ EXCEPT ![rule] = joined]
      /\ UNCHANGED <<active_clusters_, fault_to_cluster_, cluster_counter_>>

\* A live cluster without the fault: it joins, and the cluster is (or stays)
\* active once it has min_count members.
JoinCluster(code, rule, severity) ==
  LET cluster == pending_clusters_[rule]
      joined == [cluster EXCEPT !.codes = Append(@, code), !.severity[code] = severity,
                   !.representative = RepresentativeAfter(cluster, Rules[rule], code, severity)]
  IN  /\ cluster # NoCluster /\ now - cluster.at <= Rules[rule].window
      /\ code \notin ToSet(cluster.codes)
      /\ pending_clusters_' = [pending_clusters_ EXCEPT ![rule] = joined]
      /\ fault_to_cluster_' = [fault_to_cluster_ EXCEPT ![code] = cluster.id]
      /\ active_clusters_' =
           IF Len(joined.codes) >= Rules[rule].min_count
           THEN [active_clusters_ EXCEPT ![cluster.id] =
                   [codes |-> joined.codes, representative |-> joined.representative]]
           ELSE active_clusters_
      /\ UNCHANGED cluster_counter_

\* A live cluster that has the fault already.
AlreadyInCluster(code, rule) ==
  LET cluster == pending_clusters_[rule]
  IN  /\ cluster # NoCluster /\ now - cluster.at <= Rules[rule].window
      /\ code \in ToSet(cluster.codes)
      /\ UNCHANGED clusters

ProcessClusterMember(code, severity) ==
  LET rule == Least(ClusterRules(code))
  IN  /\ Reported(code)
      /\ RootsOf(code) = {} /\ RootRules(code) = {} /\ ClusterRules(code) # {}
      /\ pending_root_causes_' = Current(pending_root_causes_)
      /\ \/ StartCluster(code, rule, severity)
         \/ JoinCluster(code, rule, severity)
         \/ AlreadyInCluster(code, rule)
      /\ UNCHANGED <<root_to_symptoms_, muted_faults_, attributed>>

ProcessUncorrelated(code) ==
  /\ Reported(code)
  /\ RootsOf(code) = {} /\ RootRules(code) = {} /\ ClusterRules(code) = {}
  /\ pending_root_causes_' = Current(pending_root_causes_)
  /\ UNCHANGED <<root_to_symptoms_, muted_faults_, attributed, clusters>>

ProcessFault(code, severity) ==
  \/ ProcessSymptom(code)
  \/ ProcessRootCause(code)
  \/ ProcessClusterMember(code, severity)
  \/ ProcessUncorrelated(code)

\* should_mute of the result: a symptom that its rule mutes, or a fault that does
\* not represent the cluster it is now in.
ShouldMute(code) ==
  IF RootsOf(code) # {} THEN Rules[RootOf(code).rule].mute
  ELSE /\ RootRules(code) = {} /\ ClusterRules(code) # {}
       /\ LET rule == Least(ClusterRules(code))
              cluster == pending_clusters_'[rule]
          IN  /\ Rules[rule].single /\ Len(cluster.codes) >= Rules[rule].min_count
              /\ code # cluster.representative

-----------------------------------------------------------------------------
(* process_clear() *)

\* A pending root cause's rule names the code among its roots, so the two
\* searches of the code come to one: does a rule with auto_clear have this root?
AutoCleared(code) ==
  IF \E r \in RootRules(code) : Rules[r].auto_clear THEN root_to_symptoms_[code] ELSE {}

\* The representative of what is left of a cluster after a code is cleared.
Reassigned(cluster, rule, code) ==
  IF cluster.representative # code THEN cluster.representative
  ELSE CASE rule.representative = "FIRST" -> Head(cluster.codes)
         [] rule.representative = "MOST_RECENT" -> cluster.codes[Len(cluster.codes)]
         [] rule.representative = "HIGHEST_SEVERITY" ->
              cluster.codes[Least({i \in 1..Len(cluster.codes) : \A j \in 1..Len(cluster.codes) :
                cluster.severity[cluster.codes[i]] >= cluster.severity[cluster.codes[j]]})]

\* A pending cluster without a code; it goes with its last one.
Without(cluster, rule, code) ==
  LET left == [cluster EXCEPT !.codes = SelectSeq(@, LAMBDA c : c # code), !.severity[code] = 0]
  IN  IF left.codes = <<>> THEN NoCluster
      ELSE [left EXCEPT !.representative = Reassigned(left, rule, code)]

\* An active cluster without a code: a lost representative is taken from the
\* pending cluster of the same id, if there still is one.
ActiveWithout(cluster, id, code, pending) ==
  LET left == SelectSeq(cluster.codes, LAMBDA c : c # code)
      twins == {r \in RuleIds : pending[r].id = id}
  IN  IF left = <<>> THEN NoActive
      ELSE [codes |-> left,
            representative |-> IF cluster.representative = code /\ twins # {}
                               THEN pending[Least(twins)].representative ELSE cluster.representative]

ClearFromClusters(code) ==
  LET id == fault_to_cluster_[code]
  IN  /\ pending_clusters_' = [r \in RuleIds |->
           IF id # 0 /\ pending_clusters_[r].id = id
           THEN Without(pending_clusters_[r], Rules[r], code) ELSE pending_clusters_[r]]
      /\ active_clusters_' = IF id = 0 THEN active_clusters_
           ELSE [active_clusters_ EXCEPT ![id] = ActiveWithout(@, id, code, pending_clusters_')]
      /\ fault_to_cluster_' = [fault_to_cluster_ EXCEPT ![code] = 0]
      /\ UNCHANGED cluster_counter_

\* A slip: a cleared root cause keeps its window open.
ProcessClear_KeepsWindow(code) ==
  /\ now <= LastReport
  /\ open' = open \ ({code} \union AutoCleared(code))
  /\ attributed' = [attributed EXCEPT ![code] = {}]
  /\ muted_faults_' = [c \in Codes |->
       IF c = code \/ c \in root_to_symptoms_[code] THEN NoCode ELSE muted_faults_[c]]
  /\ root_to_symptoms_' = [root_to_symptoms_ EXCEPT ![code] = {}]
  /\ ClearFromClusters(code)
  /\ UNCHANGED <<pending_root_causes_, now, reports>>

\* The caller then clears what AutoCleared names in the same request.
ProcessClear(code) ==
  /\ now <= LastReport
  /\ open' = open \ ({code} \union AutoCleared(code))
  /\ attributed' = [attributed EXCEPT ![code] = {}]
  /\ muted_faults_' = [c \in Codes |->
       IF c = code \/ c \in root_to_symptoms_[code] THEN NoCode ELSE muted_faults_[c]]
  /\ root_to_symptoms_' = [root_to_symptoms_ EXCEPT ![code] = {}]
  /\ pending_root_causes_' = SelectSeq(pending_root_causes_, LAMBDA prc : prc.code # code)
  /\ ClearFromClusters(code)
  /\ UNCHANGED <<now, reports>>

\* A clear with skip_correlation_auto_clear: the engine is not told.
ClearSkippingEngine(code) ==
  /\ now <= LastReport
  /\ open' = open \ {code}
  /\ attributed' = [attributed EXCEPT ![code] = {}]
  /\ UNCHANGED <<evars, now, reports>>

-----------------------------------------------------------------------------
(* cleanup_expired(), called by a timer *)

Expired(rule) ==
  pending_clusters_[rule] # NoCluster /\ now - pending_clusters_[rule].at > Rules[rule].window

\* A slip: a cluster that never became active stays.
CleanupExpired_KeepsInactive ==
  /\ pending_root_causes_' = Current(pending_root_causes_)
  /\ pending_clusters_' = [r \in RuleIds |->
       IF Expired(r) /\ active_clusters_[pending_clusters_[r].id] # NoActive
       THEN NoCluster ELSE pending_clusters_[r]]
  /\ UNCHANGED <<root_to_symptoms_, muted_faults_, active_clusters_, fault_to_cluster_,
                 cluster_counter_, now, open, attributed, reports>>

\* Expired windows close; the faults of an expired cluster that never became
\* active are in no cluster any more.
CleanupExpired ==
  LET inactive == {r \in RuleIds : Expired(r) /\ active_clusters_[pending_clusters_[r].id] = NoActive}
      freed == UNION {ToSet(pending_clusters_[r].codes) : r \in inactive}
  IN  /\ pending_root_causes_' = Current(pending_root_causes_)
      /\ pending_clusters_' = [r \in RuleIds |->
           IF Expired(r) THEN NoCluster ELSE pending_clusters_[r]]
      /\ fault_to_cluster_' = [c \in Codes |-> IF c \in freed THEN 0 ELSE fault_to_cluster_[c]]
      /\ UNCHANGED <<root_to_symptoms_, muted_faults_, active_clusters_, cluster_counter_,
                     now, open, attributed, reports>>

Tick ==
  /\ now < MaxTime
  /\ now' = now + 1
  /\ UNCHANGED <<evars, open, attributed, reports>>

Next ==
  \/ \E code \in Codes, severity \in Severities : ProcessFault(code, severity)
  \/ \E code \in Codes : ProcessClear(code) \/ ClearSkippingEngine(code)
  \/ CleanupExpired
  \/ Tick

\* The clock runs and the cleanup timer fires.
Fairness == WF_vars(Tick) /\ WF_vars(CleanupExpired)

Spec == Init /\ [][Next]_vars /\ Fairness

-----------------------------------------------------------------------------
(* Properties *)

\* A forming cluster and the index agree: each member is filed under the
\* cluster, is in it once, and one of them represents it; what is active under
\* the same id has no member the forming cluster lost.
FormingClustersIndexed ==
  \A r \in RuleIds : LET cluster == pending_clusters_[r] IN
    cluster # NoCluster =>
      /\ \A c \in ToSet(cluster.codes) : fault_to_cluster_[c] = cluster.id
      /\ cluster.representative \in ToSet(cluster.codes)
      /\ Cardinality(ToSet(cluster.codes)) = Len(cluster.codes)
      /\ ToSet(active_clusters_[cluster.id].codes) \subseteq ToSet(cluster.codes)

\* process_clear() forgets the fault: nothing mutes it, no window of it is left
\* to catch symptoms, and no forming cluster of any rule holds it.
ClearForgets ==
  [][\A c \in Codes : ProcessClear(c) =>
       /\ muted_faults_'[c] = NoCode
       /\ \A i \in 1..Len(pending_root_causes_') : pending_root_causes_'[i].code # c
       /\ \A r \in RuleIds : pending_clusters_'[r] # NoCluster =>
            c \notin ToSet(pending_clusters_'[r].codes)]_vars

\* Once reports stop, the cleanup timer closes every window.
WindowsClose ==
  <>[](pending_root_causes_ = <<>> /\ \A r \in RuleIds : pending_clusters_[r] = NoCluster)

\* "Clearing ESTOP_001 auto-clears all its symptoms" (fault-correlation.rst:255):
\* no symptom found for a root cause since its last clear outlives its clear.
ClearingRootClearsSymptoms ==
  [][\A r \in Codes : ProcessClear(r) => attributed[r] \intersect open' = {}]_vars

\* "Symptoms are muted while the root cause is displayed" (fault-correlation.rst:18):
\* the root cause that mutes a fault is open.
MutedWhileRootOpen ==
  \A c \in Codes : muted_faults_[c] # NoCode => muted_faults_[c] \in open

\* "Sync representative from pending cluster (already updated above)"
\* (correlation_engine.cpp:216): an active cluster is represented by a member.
RepresentativeIsMember ==
  \A k \in ClusterIds : active_clusters_[k] # NoActive =>
    active_clusters_[k].representative \in ToSet(active_clusters_[k].codes)

\* "Remove fault from active cluster" (correlation_engine.cpp:206): a fault that
\* was cleared through the engine is in no active cluster.
ClearedLeavesClusters ==
  [][\A c \in Codes : ProcessClear(c) =>
       \A k \in ClusterIds : c \notin ToSet(active_clusters_'[k].codes)]_vars

\* The codes ListFaults shows by default: open and not in muted_faults_.
Listed == {c \in open : muted_faults_[c] = NoCode}

\* "Only the representative fault is shown; others are muted"
\* (fault-correlation.rst:304) of an active cluster shown as single.
OnlyRepresentativeListed ==
  \A r \in RuleIds : LET cluster == pending_clusters_[r] IN
    cluster # NoCluster /\ Rules[r].single /\ active_clusters_[cluster.id] # NoActive =>
      Listed \intersect ToSet(cluster.codes) \subseteq {active_clusters_[cluster.id].representative}
=============================================================================
