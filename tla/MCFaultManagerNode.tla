------------------------- MODULE MCFaultManagerNode -------------------------
(***************************************************************************)
(* Values for FaultManagerNode: a root cause with a symptom, a band of two *)
(* confirmations and one heal, and one without healing.                    *)
(***************************************************************************)
EXTENDS FaultManagerNode

MCCodes == {"root", "symptom"}

MCRules ==
  <<[mode |-> "HIERARCHICAL", window |-> 1, roots |-> {"root"}, symptoms |-> {"symptom"},
     mute |-> TRUE, auto_clear |-> TRUE, members |-> {}, min_count |-> 2, single |-> TRUE,
     representative |-> "FIRST"]>>

Config(healing) ==
  [confirmation_threshold |-> -2, healing_enabled |-> healing, healing_threshold |-> 0,
   critical_immediate_confirm |-> TRUE]

MCConfigs == {Config(TRUE), Config(FALSE)}
=============================================================================
