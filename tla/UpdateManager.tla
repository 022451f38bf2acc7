---------------------------- MODULE UpdateManager ----------------------------
(***************************************************************************)
(* Software updates (update_manager.cpp): requests on HTTP threads, one    *)
(* std::async task per running prepare, execute or automated update, and   *)
(* the plugin that does the work.  mutex_ makes each critical section one  *)
(* step, except where the thread that holds it may have to wait: for the   *)
(* plugin in start_*(), and for a task whose future states_.erase()        *)
(* destroys.  The progress a plugin reports is left out, the lock that     *)
(* reporting takes is not.  The handlers (update_handlers.cpp) add nothing *)
(* to the manager's state.                                                 *)
(***************************************************************************)
EXTENDS Integers, FiniteSets

CONSTANTS Packages,      \* update package ids
          Clients,       \* HTTP threads
          Deleters,      \* those of them that send DELETE
          BackendLocks,  \* the plugin holds a mutex of its own in every call
          MaxTasks,      \* bound: tasks started in a behaviour
          MaxRequests    \* bound: requests in a behaviour

VARIABLES
  states_,        \* package -> its PackageState, NoState
  mutex_,         \* the client that waits while it holds mutex_, "free"
  stopped_,       \* "no" | "draining" | "drained": shutdown()
  task,           \* task id -> the task, NoTask before it is started
  request,        \* client -> the request it carries out
  registered,     \* the packages the plugin knows
  backend_mutex,  \* the task that holds the plugin's mutex, 0 = free
  announced,      \* package -> the status last given to the notifier
  prepared,       \* history: packages prepared since they were registered or executed
  requests        \* how many requests so far

vars == <<states_, mutex_, stopped_, task, request, registered, backend_mutex,
          announced, prepared, requests>>

Tasks == 1..MaxTasks
UpdateStatuses == {"Pending", "InProgress", "Completed", "Failed"}
UpdatePhases == {"None", "Preparing", "Prepared", "Executing", "Executed", "Failed", "Deleting"}
Infos == [status : UpdateStatuses, phase : UpdatePhases]
Kinds == {"prepare", "execute", "automated"}

Info(status, phase) == [status |-> status, phase |-> phase]
NoState == [info |-> Info("Pending", "None"), active_task |-> 0, present |-> FALSE]
PackageState(info, id) == [info |-> info, active_task |-> id, present |-> TRUE]
NoTask == [step |-> "none"]
NoRequest == [op |-> "none"]

TaskSteps == {"start", "announce", "call", "report", "return", "store", "tell", "done"}

TypeOK ==
  /\ states_ \in [Packages -> [info : Infos, active_task : Tasks \union {0}, present : BOOLEAN]]
  /\ mutex_ \in Clients \union {"free"} /\ stopped_ \in {"no", "draining", "drained"}
  /\ task \in [Tasks -> {NoTask} \union
       [step : TaskSteps, package : Packages, kind : Kinds, call : {"prepare", "execute"}, ok : BOOLEAN,
        snapshot : Infos]]
  /\ request \in [Clients -> {NoRequest} \union
       [op : {"seed", "backend", "erase", "rollback"} \union Kinds, package : Packages, had_state : BOOLEAN]]
  /\ registered \subseteq Packages /\ prepared \subseteq Packages
  /\ backend_mutex \in Tasks \union {0}
  /\ announced \in [Packages -> Infos]
  /\ requests \in 0..MaxRequests

Init ==
  /\ states_ = [p \in Packages |-> NoState]
  /\ mutex_ = "free" /\ stopped_ = "no"
  /\ task = [i \in Tasks |-> NoTask]
  /\ request = [c \in Clients |-> NoRequest]
  /\ registered = {} /\ prepared = {}
  /\ backend_mutex = 0
  /\ announced = [p \in Packages |-> NoState.info]
  /\ requests = 0

\* A slip: no task counts as active.
is_task_active_Never(p) == FALSE

is_task_active(p) == states_[p].active_task # 0 /\ task[states_[p].active_task].step # "done"

Present(p) == states_[p].present
BackendFree == ~BackendLocks \/ backend_mutex = 0

-----------------------------------------------------------------------------
(* Requests *)

Asks(c, next) ==
  /\ stopped_ = "no" /\ request[c] = NoRequest /\ requests < MaxRequests
  /\ requests' = requests + 1
  /\ request' = [request EXCEPT ![c] = next]

Step(op, p, had_state) == [op |-> op, package |-> p, had_state |-> had_state]
Goes(c, next) == request' = [request EXCEPT ![c] = next] /\ UNCHANGED requests

\* register_update(): first the plugin, which refuses a package it has ...
RegisterCallsBackend(c, p) ==
  /\ BackendFree
  /\ \/ p \notin registered /\ registered' = registered \union {p} /\ Asks(c, Step("seed", p, FALSE))
     \/ registered' = registered /\ Asks(c, NoRequest)
  /\ UNCHANGED <<states_, mutex_, stopped_, task, backend_mutex, announced, prepared>>

\* ... then a Pending state, unless there is one.
RegisterSeeds(c) ==
  /\ request[c].op = "seed" /\ mutex_ = "free"
  /\ states_' = IF Present(request[c].package) THEN states_
                ELSE [states_ EXCEPT ![request[c].package] = PackageState(Info("Pending", "None"), 0)]
  /\ Goes(c, NoRequest)
  /\ UNCHANGED <<mutex_, stopped_, task, registered, backend_mutex, announced, prepared>>

\* A slip: a running task does not keep a package from being deleted.
DeleteMarks_Anytime(c, p) ==
  /\ c \in Deleters /\ mutex_ = "free"
  /\ states_' = [states_ EXCEPT ![p].info.phase = "Deleting", ![p].present = TRUE]
  /\ Asks(c, Step("backend", p, Present(p)))
  /\ UNCHANGED <<mutex_, stopped_, task, registered, backend_mutex, announced, prepared>>

\* delete_update(): refused while a task is active; else the state, or a new one in
\* its place, is marked as Deleting.
DeleteMarks(c, p) ==
  /\ c \in Deleters /\ mutex_ = "free"
  /\ IF is_task_active(p) THEN states_' = states_ /\ Asks(c, NoRequest)
     ELSE /\ states_' = [states_ EXCEPT ![p].info.phase = "Deleting", ![p].present = TRUE]
          /\ Asks(c, Step("backend", p, Present(p)))
  /\ UNCHANGED <<mutex_, stopped_, task, registered, backend_mutex, announced, prepared>>

\* The plugin deletes the package, or fails to: it may not know it, or fail anyway.
\* A state that only stood in for the package goes in either case.
DeleteCallsBackend(c) ==
  LET p == request[c].package
  IN  /\ request[c].op = "backend" /\ BackendFree
      /\ \/ /\ p \in registered
            /\ registered' = registered \ {p} /\ prepared' = prepared \ {p}
            /\ Goes(c, [request[c] EXCEPT !.op = "erase"])
         \/ /\ Goes(c, [request[c] EXCEPT !.op = IF request[c].had_state THEN "rollback" ELSE "erase"])
            /\ UNCHANGED <<registered, prepared>>
      /\ UNCHANGED <<states_, mutex_, stopped_, task, backend_mutex, announced>>

\* states_.erase() destroys the future, which waits for its task: with mutex_ held.
EraseWaits(c) ==
  /\ request[c].op = "erase" /\ mutex_ = "free" /\ is_task_active(request[c].package)
  /\ mutex_' = c
  /\ UNCHANGED <<states_, stopped_, task, request, registered, backend_mutex, announced, prepared, requests>>

DeleteErases(c) ==
  /\ request[c].op = "erase" /\ mutex_ \in {"free", c} /\ ~is_task_active(request[c].package)
  /\ states_' = [states_ EXCEPT ![request[c].package] = NoState]
  /\ mutex_' = "free" /\ Goes(c, NoRequest)
  /\ UNCHANGED <<stopped_, task, registered, backend_mutex, announced, prepared>>

\* The deletion failed: a package that still has its state is Failed.
DeleteRollsBack(c) ==
  /\ request[c].op = "rollback" /\ mutex_ = "free"
  /\ states_' = [states_ EXCEPT ![request[c].package].info = IF Present(request[c].package)
                                                             THEN Info("Failed", "Failed") ELSE @]
  /\ Goes(c, NoRequest)
  /\ UNCHANGED <<mutex_, stopped_, task, registered, backend_mutex, announced, prepared>>

\* start_prepare(), start_execute(), start_automated() take mutex_ ...
Started == Cardinality({i \in Tasks : task[i] # NoTask})

StartLocks(c, p, kind) ==
  /\ mutex_ = "free" /\ mutex_' = c /\ Started < MaxTasks
  /\ Asks(c, Step(kind, p, FALSE))
  /\ UNCHANGED <<states_, stopped_, task, registered, backend_mutex, announced, prepared>>


\* What they ask of the package; the plugin says whether it knows it.
MayStart(p, kind) ==
  /\ p \in registered
  /\ kind = "execute" => Present(p) /\ states_[p].info.phase = "Prepared"
  /\ ~is_task_active(p)
  /\ kind # "execute" => states_[p].info.phase # "Deleting"

\* ... ask the plugin while they hold it, and start a task or refuse; the plugin may
\* not support automated updates.
StartDecides(c) ==
  LET p == request[c].package
      kind == request[c].op
      id == Started + 1
      call == IF kind = "execute" THEN "execute" ELSE "prepare"
      phase == IF kind = "execute" THEN "Executing" ELSE "Preparing"
  IN  /\ kind \in Kinds /\ mutex_ = c /\ BackendFree
      /\ \/ /\ MayStart(p, kind)
            /\ states_' = [states_ EXCEPT ![p] = PackageState(Info("Pending", phase), id)]
            /\ task' = [task EXCEPT ![id] = [step |-> "start", package |-> p, kind |-> kind, call |-> call,
                                             ok |-> TRUE, snapshot |-> Info("Pending", phase)]]
         \/ /\ MayStart(p, kind) => kind = "automated"
            /\ UNCHANGED <<states_, task>>
      /\ mutex_' = "free" /\ Goes(c, NoRequest)
      /\ UNCHANGED <<stopped_, registered, backend_mutex, announced, prepared>>

-----------------------------------------------------------------------------
(* Tasks: run_prepare(), run_execute(), run_automated() *)

Moves(i, step) == task' = [task EXCEPT ![i].step = step]
Status(i) == states_[task[i].package].info

TaskBegins(i) ==
  /\ task[i].step = "start" /\ mutex_ = "free"
  /\ states_' = [states_ EXCEPT ![task[i].package].info.status = "InProgress"]
  /\ Moves(i, "announce")
  /\ UNCHANGED <<mutex_, stopped_, request, registered, backend_mutex, announced, prepared, requests>>

\* notify_status_change(id, state->status), read without the lock.
TaskAnnounces(i) ==
  /\ task[i].step = "announce"
  /\ announced' = [announced EXCEPT ![task[i].package] = Status(i)]
  /\ Moves(i, "call")
  /\ UNCHANGED <<states_, mutex_, stopped_, request, registered, backend_mutex, prepared, requests>>

\* The plugin works, and may report its progress, which takes mutex_.
TaskCallsBackend(i) ==
  /\ task[i].step = "call" /\ BackendFree
  /\ backend_mutex' = IF BackendLocks THEN i ELSE 0
  /\ \/ Moves(i, "report") \/ Moves(i, "return")
  /\ UNCHANGED <<states_, mutex_, stopped_, request, registered, announced, prepared, requests>>

BackendReports(i) ==
  /\ task[i].step = "report" /\ mutex_ = "free"
  /\ Moves(i, "return")
  /\ UNCHANGED <<states_, mutex_, stopped_, request, registered, backend_mutex, announced, prepared, requests>>

\* It succeeds, or fails with an error or an exception.
BackendReturns(i, ok) ==
  /\ task[i].step = "return"
  /\ task' = [task EXCEPT ![i].step = "store", ![i].ok = ok]
  /\ backend_mutex' = 0
  /\ prepared' = CASE task[i].call = "prepare" /\ ok -> prepared \union {task[i].package}
                   [] task[i].call = "execute"       -> prepared \ {task[i].package}
                   [] OTHER                          -> prepared
  /\ UNCHANGED <<states_, mutex_, stopped_, request, registered, announced, requests>>

\* The second half of an automated update.
GoesOnToExecute(i) == task[i].kind = "automated" /\ task[i].call = "prepare" /\ task[i].ok

\* The last status, which is the one announced below.
Outcome(i) ==
  CASE ~task[i].ok                -> Info("Failed", "Failed")
    [] task[i].call = "prepare"   -> Info("Completed", "Prepared")
    [] OTHER                      -> Info("Completed", "Executed")

TaskStores(i) ==
  /\ task[i].step = "store" /\ mutex_ = "free"
  /\ IF GoesOnToExecute(i)
     THEN /\ states_' = [states_ EXCEPT ![task[i].package].info.phase = "Executing"]
          /\ task' = [task EXCEPT ![i].step = "call", ![i].call = "execute"]
     ELSE /\ states_' = [states_ EXCEPT ![task[i].package].info = Outcome(i)]
          /\ task' = [task EXCEPT ![i].step = "tell", ![i].snapshot = Outcome(i)]
  /\ UNCHANGED <<mutex_, stopped_, request, registered, backend_mutex, announced, prepared, requests>>

\* A slip: the status announced last is the one the task began with.
TaskTells_Stale(i) ==
  /\ task[i].step = "tell"
  /\ announced' = [announced EXCEPT ![task[i].package].status = "InProgress"]
  /\ Moves(i, "done")
  /\ UNCHANGED <<states_, mutex_, stopped_, request, registered, backend_mutex, prepared, requests>>

TaskTells(i) ==
  /\ task[i].step = "tell"
  /\ announced' = [announced EXCEPT ![task[i].package] = task[i].snapshot]
  /\ Moves(i, "done")
  /\ UNCHANGED <<states_, mutex_, stopped_, request, registered, backend_mutex, prepared, requests>>

Run(i) ==
  \/ TaskBegins(i) \/ TaskAnnounces(i) \/ TaskCallsBackend(i) \/ BackendReports(i)
  \/ \E ok \in BOOLEAN : BackendReturns(i, ok)
  \/ TaskStores(i) \/ TaskTells(i)

-----------------------------------------------------------------------------
\* shutdown(), after the REST server has stopped: no request is under way.
ShutdownStops ==
  /\ stopped_ = "no" /\ mutex_ = "free" /\ \A c \in Clients : request[c] = NoRequest
  /\ stopped_' = "draining"
  /\ UNCHANGED <<states_, mutex_, task, request, registered, backend_mutex, announced, prepared, requests>>

\* It returns once the futures it found are ready.
ShutdownReturns ==
  /\ stopped_ = "draining" /\ \A i \in Tasks : task[i].step \in {"none", "done"}
  /\ stopped_' = "drained"
  /\ UNCHANGED <<states_, mutex_, task, request, registered, backend_mutex, announced, prepared, requests>>

-----------------------------------------------------------------------------
(* The handlers, once the backend is there and the id is well formed *)

post_update(c, p) == RegisterCallsBackend(c, p)
del_update(c, p) == DeleteMarks(c, p)
put_prepare(c, p) == StartLocks(c, p, "prepare")
put_execute(c, p) == StartLocks(c, p, "execute")
put_automated(c, p) == StartLocks(c, p, "automated")

Serve(c) ==
  \/ RegisterSeeds(c)
  \/ DeleteCallsBackend(c) \/ EraseWaits(c) \/ DeleteErases(c) \/ DeleteRollsBack(c)
  \/ StartDecides(c)

Next ==
  \/ \E c \in Clients, p \in Packages :
       post_update(c, p) \/ del_update(c, p) \/ put_prepare(c, p) \/ put_execute(c, p) \/ put_automated(c, p)
  \/ \E c \in Clients : Serve(c)
  \/ \E i \in Tasks : Run(i)
  \/ ShutdownStops \/ ShutdownReturns

\* Every thread is scheduled and the plugin returns.
Fairness ==
  /\ \A c \in Clients : WF_vars(Serve(c))
  /\ \A i \in Tasks : WF_vars(Run(i))
  /\ WF_vars(ShutdownReturns)

Spec == Init /\ [][Next]_vars /\ Fairness

-----------------------------------------------------------------------------
Working(i) == task[i].step \in {"report", "return"}

\* The plugin never works on one package twice at a time, whoever asks for what and
\* whatever deletions are under way (start_*() under mutex_, is_task_active()).
OneTaskPerPackage ==
  \A i, j \in Tasks : i # j /\ Working(i) /\ Working(j) => task[i].package # task[j].package


\* Once a package is at rest with a completed update, that is the status the trigger
\* subsystem heard last (notify_status_change()).
CompletionAnnounced ==
  \A p \in Packages :
    states_[p].info.status = "Completed" /\ states_[p].info.phase # "Deleting" /\ ~is_task_active(p)
    => announced[p] = states_[p].info

\* No request waits for ever, for mutex_, the plugin or a task.
RequestsReturn == \A c \in Clients : request[c] # NoRequest ~> request[c] = NoRequest

\* update_manager.cpp, delete_update(): "Mark as deleting so no new operations can
\* start on this package".
DeletingKeepsOut ==
  [][\A c \in Clients : request[c].op \in {"backend", "erase"} =>
       \A i \in Tasks : task'[i].step = "start" /\ task[i] = NoTask => task'[i].package # request[c].package]_vars

\* docs/api/rest.rst: a successful POST "seeds a pending status for the package, so
\* this endpoint returns 200 ... immediately after registration".
RegisteredHasStatus ==
  \A p \in registered :
    (\A c \in Clients : request[c] = NoRequest \/ request[c].package # p) => Present(p)
=============================================================================
