----------------------------- MODULE MCServices -----------------------------
(***************************************************************************)
(* Entity locks and software updates in one run.  The two managers of the  *)
(* gateway share no state: subject says which of them a behaviour is of,   *)
(* and the other stays as it began.                                        *)
(***************************************************************************)
EXTENDS EntityLocks, TLC

CONSTANTS c1, c2, app, component, area

\* An app of a component of an area.
MCParent == [e \in Entities |->
               CASE e = app       -> component
                 [] e = component -> area
                 [] OTHER         -> NoEntity]
MCBreakable == [e \in Entities |-> e # component]
MCRequired == [e \in Entities |-> IF e = app THEN {"data"} ELSE {}]
MCMaxExpiration == [e \in Entities |-> IF e = app THEN 2 ELSE 1]

CONSTANTS Packages, Deleters, BackendLocks, MaxTasks, MaxRequests

VARIABLES
  states_, mutex_, stopped_, task, update_request, registered, backend_mutex,
  announced, prepared, requests,
  subject   \* "locks" | "updates"

updateVars == <<states_, mutex_, stopped_, task, update_request, registered,
                backend_mutex, announced, prepared, requests>>

Updates == INSTANCE UpdateManager WITH request <- update_request

\* The plugin never works on one package twice at a time.
OneTaskPerPackage == Updates!OneTaskPerPackage


\* The trigger subsystem heard of a completed update last.
CompletionAnnounced == Updates!CompletionAnnounced

\* No update request waits for ever.
RequestsReturn == Updates!RequestsReturn

ServicesInit == Init /\ Updates!Init /\ subject \in {"locks", "updates"}

ServicesNext ==
  \/ subject = "locks" /\ Next /\ UNCHANGED <<updateVars, subject>>
  \/ subject = "updates" /\ Updates!Next /\ UNCHANGED <<vars, subject>>

ServicesSpec ==
  /\ ServicesInit /\ [][ServicesNext]_<<vars, updateVars, subject>>
  /\ Updates!Fairness
=============================================================================
