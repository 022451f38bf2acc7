------------------------ MODULE MCSqliteFaultStorage ------------------------
(***************************************************************************)
(* Values for SqliteFaultStorage: one fault code, a wide and a narrow      *)
(* band, healing on in one parameter set and off in the other.             *)
(***************************************************************************)
EXTENDS SqliteFaultStorage

Config(confirmation, healing, heal) ==
  [confirmation_threshold |-> confirmation, healing_enabled |-> healing,
   healing_threshold |-> heal, critical_immediate_confirm |-> healing]

MCSources == {"wide", "narrow"}

MCParameters ==
  {[global |-> Config(-2, healing, 1),
    of |-> [s \in MCSources |-> IF s = "wide" THEN Config(-2, healing, 1) ELSE Config(-1, healing, 0)],
    max_near_misses |-> IF healing THEN 2 ELSE 1] : healing \in BOOLEAN}
=============================================================================
