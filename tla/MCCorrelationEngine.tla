------------------------ MODULE MCCorrelationEngine ------------------------
(***************************************************************************)
(* Values for CorrelationEngine: a cascade of one root cause over two      *)
(* codes, and a cluster of three codes that shares one of them.            *)
(***************************************************************************)
EXTENDS CorrelationEngine

CONSTANT Choice   \* how the cluster rule chooses its representative

MCCodes == {"root", "motor", "sensor1", "sensor2", "other"}

Rule(mode, window) ==
  [mode |-> mode, window |-> window, roots |-> {}, symptoms |-> {}, mute |-> TRUE,
   auto_clear |-> TRUE, members |-> {}, min_count |-> 2, single |-> TRUE,
   representative |-> Choice]

MCRules ==
  <<[Rule("HIERARCHICAL", 1) EXCEPT !.roots = {"root"}, !.symptoms = {"motor", "sensor1"}],
    [Rule("AUTO_CLUSTER", 1) EXCEPT !.members = {"motor", "sensor1", "sensor2"}]>>
=============================================================================
