--------------------------- MODULE MCFaultStorage ---------------------------
(***************************************************************************)
(* Values for FaultStorage: one fault code under two sources with bands of *)
(* different width, and two parameter sets a restart may alternate between.*)
(***************************************************************************)
EXTENDS FaultStorage

Config(confirmation, healing, heal) ==
  [confirmation_threshold |-> confirmation, healing_enabled |-> healing,
   healing_threshold |-> heal, critical_immediate_confirm |-> TRUE]

\* Healing on, a wide and a narrow band; healing off, with a threshold that
\* has to be sanitised, and CRITICAL not bypassing the counter.
MCParameters ==
  {[global |-> Config(-3, TRUE, 2),
    of |-> [s \in Sources |-> IF s = "wide" THEN Config(-3, TRUE, 2) ELSE Config(-1, TRUE, 0)],
    max_near_misses |-> 2],
   [global |-> Config(0, FALSE, 1),
    of |-> [s \in Sources |-> IF s = "wide"
              THEN [Config(-3, FALSE, 2) EXCEPT !.critical_immediate_confirm = FALSE]
              ELSE Config(0, FALSE, 1)],
    max_near_misses |-> 1]}

MCSources == {"wide", "narrow"}
=============================================================================
