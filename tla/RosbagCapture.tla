---------------------------- MODULE RosbagCapture ----------------------------
(***************************************************************************)
(* The black box of a fault (rosbag_capture.cpp): a ring buffer of         *)
(* messages, flushed into a bag when a fault confirms, a post-fault window *)
(* that later faults of the burst attach to, and one row per fault and bag *)
(* in the fault store.  on_fault_confirmed() runs on the capture pool, one *)
(* at a time (rosbag_mutex of the node); messages, clears and the timer    *)
(* that finalises a window run on the node's executor.  Each variable is   *)
(* behind its own mutex, so the two interleave at every step below.        *)
(***************************************************************************)
EXTENDS Integers, Sequences, FiniteSets, SequencesExt, FiniteSetsExt

CONSTANTS Codes,           \* fault codes
          NoCode,          \* the empty code of a window whose primary was cleared
          Topics,          \* subscribed topics
          EntityMode,      \* snapshots.rosbag.topics is "entity"
          Scope,           \* code -> the topics of the node that reports it
          ResolveMayFail,  \* compute_entity_topics() may come back empty
          Configs,         \* duration_after_sec > 0 and lazy_start, as the node may be set up
          AutoCleanup,     \* auto_cleanup
          MaxAttached,     \* kMaxAttachedFaults
          MaxBagsPerFault, \* max_bags_per_fault, 0 = unlimited
          MaxTotal,        \* max_total_storage_mb
          BagSizes,        \* sizes a finished bag may have
          BufferCap,       \* max_buffer_mb, in messages
          MaxConfirms,     \* bound: confirmations in a behaviour
          MaxMessages      \* bound: messages in a behaviour

ASSUME RosbagConstants ==
  /\ NoCode \notin Codes
  /\ Scope \in [Codes -> SUBSET Topics]
  /\ {EntityMode, ResolveMayFail, AutoCleanup} \subseteq BOOLEAN
  /\ Configs \subseteq [post_roll : BOOLEAN, lazy_start : BOOLEAN]
  /\ {MaxAttached, MaxBagsPerFault, MaxTotal, MaxConfirms, MaxMessages} \subseteq Nat
  /\ BufferCap \in Nat \ {0} /\ BagSizes \subseteq Nat \ {0}

VARIABLES
  config_,     \* the configuration, fixed for the process
  status,      \* code -> the status of its fault in the store
  rows,        \* the rows of rosbag_files, as [code, bag, size]
  disk,        \* bag directories that exist; bags are numbered as they are opened
  content,     \* bag -> the messages written to it
  buffer,      \* message_buffer_
  filter,      \* active_capture_topics_, {} = everything
  writer,      \* the bag active_writer_ writes to, 0 = none
  recording,   \* recording_post_fault_, current_fault_code_, current_bag_path_,
               \* attached_fault_codes_
  running,     \* running_
  stopped,     \* the node is being destroyed
  pending,     \* code -> its captures waiting in the pool
  worker,      \* where on_fault_confirmed() is
  executor,    \* where the executor's handler is
  sweep,       \* where evict_bags_over_quota() is
  confirms, published

vars == <<config_, status, rows, disk, content, buffer, filter, writer, recording, running,
          stopped, pending, worker, executor, sweep, confirms, published>>

Messages == [id : 1..MaxMessages, topic : Topics]
Bags == 1..MaxConfirms
Burst(code, bag, attached, covered) ==
  [on |-> bag # 0, code |-> code, bag |-> bag, attached |-> attached, covered |-> covered]
NoRecording == Burst(NoCode, 0, {}, {})
Worker(pc, code, scope, took, bag) ==
  [pc |-> pc, code |-> code, scope |-> scope, took |-> took, bag |-> bag]
IdleWorker == Worker("idle", NoCode, {}, <<>>, 0)
Executor(pc, burst, topic) == [pc |-> pc, burst |-> burst, topic |-> topic]
IdleExecutor == Executor("idle", NoRecording, "none")
NoSweep == [pc |-> "none", bytes |-> 0, list |-> <<>>]

\* Every variable holds values the code can give it: a row names a bag, a
\* window that records names its bag, and the attached faults stay within
\* kMaxAttachedFaults.
TypeOK ==
  /\ config_ \in Configs
  /\ status \in [Codes -> {"ABSENT", "PREFAILED", "CONFIRMED", "CLEARED"}]
  /\ rows \subseteq [code : Codes, bag : Bags, size : BagSizes]
  /\ disk \subseteq Bags /\ content \in [Bags -> SUBSET Messages]
  /\ buffer \in Seq(Messages) /\ filter \subseteq Topics /\ writer \in Bags \union {0}
  /\ recording \in [on : BOOLEAN, code : Codes \union {NoCode}, bag : Bags \union {0},
                    attached : SUBSET Codes, covered : SUBSET Codes]
  /\ Cardinality(recording.attached) <= MaxAttached
  /\ recording.on = (recording.bag # 0)
  /\ {running, stopped} \subseteq BOOLEAN /\ pending \in [Codes -> Nat]
  /\ worker.pc \in {"idle", "attach", "flush", "open", "write", "publish", "close", "store", "sweep"}
  /\ executor.pc \in {"idle", "buffer", "store", "sweep"}
  /\ sweep.pc \in {"none", "total", "list", "delete"} /\ sweep.bytes \in Nat

Init ==
  /\ config_ \in Configs
  /\ status = [c \in Codes |-> "ABSENT"]
  /\ rows = {} /\ disk = {} /\ content = [b \in Bags |-> {}]
  /\ buffer = <<>> /\ filter = {} /\ writer = 0 /\ recording = NoRecording
  /\ running = ~config_.lazy_start /\ stopped = FALSE
  /\ pending = [c \in Codes |-> 0]
  /\ worker = IdleWorker /\ executor = IdleExecutor /\ sweep = NoSweep
  /\ confirms = 0 /\ published = 0

keeps_history == MaxBagsPerFault # 1
CleansUp == AutoCleanup /\ ~keeps_history

-----------------------------------------------------------------------------
(* The rows of the fault store *)

Referenced(rs) == {r.bag : r \in rs}
BagsOf(rs, c) == {r.bag : r \in {s \in rs : s.code = c}}

\* The newest MaxBagsPerFault bags of each fault of the batch stay.
NewestOnly(rs, batch) ==
  {r \in rs : \/ MaxBagsPerFault = 0 \/ r.code \notin {s.code : s \in batch}
              \/ Cardinality({b \in BagsOf(rs, r.code) : b > r.bag}) < MaxBagsPerFault}

\* Bags whose last row is gone.
Unlinked(before, after) == Referenced(before) \ Referenced(after)

StoreRosbagFiles(batch) ==
  LET kept == NewestOnly(rows \union batch, batch)
  IN  /\ rows' = kept
      /\ disk' = disk \ Unlinked(rows \union batch, kept)

DeleteRows(doomed) ==
  /\ rows' = rows \ doomed
  /\ disk' = disk \ Unlinked(rows, rows \ doomed)

\* A row of a shared bag is counted once, by its largest size.
SizeOf(bag) == Max({r.size : r \in {s \in rows : s.bag = bag}})
TotalBytes == MapThenSumSet(SizeOf, Referenced(rows))
OldestFirst == SetToSortSeq({[bag |-> b, size |-> SizeOf(b)] : b \in Referenced(rows)},
                            LAMBDA x, y : x.bag < y.bag)

-----------------------------------------------------------------------------
(* Reports, clears and messages, on the executor *)

ExecutorIdle == executor = IdleExecutor /\ ~stopped

\* A report leaves a fault pending; with lazy_start that starts the capture.
ReportPrefailed(c) ==
  /\ ExecutorIdle /\ status[c] \in {"ABSENT", "CLEARED"}
  /\ status' = [status EXCEPT ![c] = "PREFAILED"]
  /\ running' = (running \/ config_.lazy_start)
  /\ UNCHANGED <<config_, rows, disk, content, buffer, filter, writer, recording, stopped, pending,
                 worker, executor, sweep, confirms, published>>

\* A fault confirms, perhaps again after it healed, and its capture is queued.
ReportConfirmed(c) ==
  /\ ExecutorIdle /\ confirms < MaxConfirms
  /\ status' = [status EXCEPT ![c] = "CONFIRMED"]
  /\ pending' = [pending EXCEPT ![c] = @ + 1]
  /\ confirms' = confirms + 1
  /\ UNCHANGED <<config_, rows, disk, content, buffer, filter, writer, recording, running, stopped,
                 worker, executor, sweep, published>>

\* A slip: a clear drops every attached fault of the window.
Dropped_Burst(c) ==
  [recording EXCEPT !.attached = {}, !.covered = @ \ {c},
                    !.code = IF c = @ THEN NoCode ELSE @]

\* The cleared fault leaves the window in flight, which has no row of it yet.
Dropped(c) ==
  [recording EXCEPT !.attached = @ \ {c}, !.covered = @ \ {c},
                    !.code = IF c = @ THEN NoCode ELSE @]

\* handle_clear_fault(): the store, then on_fault_cleared().
HandleClearFault(c) ==
  /\ ExecutorIdle /\ status[c] \notin {"ABSENT", "CLEARED"}
  /\ status' = [status EXCEPT ![c] = "CLEARED"]
  /\ IF CleansUp
     THEN /\ recording' = IF recording.on THEN Dropped(c) ELSE recording
          /\ DeleteRows({r \in rows : r.code = c})
     ELSE UNCHANGED <<recording, rows, disk>>
  /\ UNCHANGED <<config_, content, buffer, filter, writer, running, stopped, pending, worker,
                 executor, sweep, confirms, published>>

Captured(topic) == filter = {} \/ topic \in filter

\* message_callback() during a window writes to the bag, if the topic is in scope.
WriteMessage(t) ==
  /\ ExecutorIdle /\ running /\ recording.on /\ published < MaxMessages
  /\ published' = published + 1
  /\ content' = IF Captured(t) /\ writer # 0
                THEN [content EXCEPT ![writer] = @ \union {[id |-> published + 1, topic |-> t]}]
                ELSE content
  /\ UNCHANGED <<config_, status, rows, disk, buffer, filter, writer, recording, running, stopped,
                 pending, worker, executor, sweep, confirms>>

\* Outside a window it goes on to buffer the message, and a window may open first.
ReceiveMessage(t) ==
  /\ ExecutorIdle /\ running /\ ~recording.on /\ published < MaxMessages
  /\ published' = published + 1
  /\ executor' = Executor("buffer", NoRecording, t)
  /\ UNCHANGED <<config_, status, rows, disk, content, buffer, filter, writer, recording, running,
                 stopped, pending, worker, sweep, confirms>>

\* prune_buffer(): messages past duration_sec go, which of the older ones is up to
\* the clock, and then the oldest over the memory cap.
Pruned(messages, old) ==
  LET recent == SubSeq(messages, old + 1, Len(messages))
  IN  IF Len(recent) <= BufferCap THEN recent
      ELSE SubSeq(recent, Len(recent) - BufferCap + 1, Len(recent))

BufferMessage ==
  LET messages == Append(buffer, [id |-> published, topic |-> executor.topic])
  IN  /\ executor.pc = "buffer"
      /\ \E old \in 0..Len(buffer) :
           buffer' = IF recording.on THEN messages ELSE Pruned(messages, old)
      /\ executor' = IdleExecutor
      /\ UNCHANGED <<config_, status, rows, disk, content, filter, writer, recording, running,
                     stopped, pending, worker, sweep, confirms, published>>

-----------------------------------------------------------------------------
(* on_fault_confirmed(), on the capture pool *)

CaptureNumber == confirms - MapThenSumSet(LAMBDA c : pending[c], Codes)

\* The scope of the fault is resolved before any lock is taken, unless the fault is
\* the primary of the window in flight; it may not resolve.
BeginCapture(c) ==
  /\ worker = IdleWorker /\ ~stopped /\ pending[c] > 0
  /\ pending' = [pending EXCEPT ![c] = @ - 1]
  /\ \E scope \in IF EntityMode /\ ~(recording.on /\ recording.code = c)
                  THEN {Scope[c]} \union IF ResolveMayFail THEN {{}} ELSE {}
                  ELSE {{}} :
       worker' = IF running THEN Worker("attach", c, scope, <<>>, 0) ELSE IdleWorker
  /\ UNCHANGED <<config_, status, rows, disk, content, buffer, filter, writer, recording, running,
                 stopped, executor, sweep, confirms, published>>

\* widen_capture_filter_for()
Widened(scope) ==
  CASE ~EntityMode \/ filter = {} -> filter
    [] EntityMode /\ filter # {} /\ scope = {} -> {}
    [] OTHER -> filter \union scope

\* attach_to_active_recording(): the fault joins the window in flight; past the
\* cap only its topics do.
AttachToActiveRecording ==
  LET c == worker.code
      capped == Cardinality(recording.attached) >= MaxAttached
  IN  /\ worker.pc = "attach" /\ recording.on
      /\ recording' = IF c = recording.code \/ capped THEN recording
                      ELSE [recording EXCEPT !.attached = @ \union {c}, !.covered = @ \union {c}]
      /\ filter' = IF c = recording.code \/ (~capped /\ c \in recording.attached)
                   THEN filter ELSE Widened(worker.scope)
      /\ worker' = IdleWorker
      /\ UNCHANGED <<config_, status, rows, disk, content, buffer, writer, running, stopped, pending,
                     executor, sweep, confirms, published>>

\* No window: resolve_entity_topics() sets the filter of a new one.
BeginRecording ==
  /\ worker.pc = "attach" /\ ~recording.on
  /\ filter' = worker.scope
  /\ worker' = [worker EXCEPT !.pc = "flush"]
  /\ UNCHANGED <<config_, status, rows, disk, content, buffer, writer, recording, running, stopped,
                 pending, executor, sweep, confirms, published>>

\* A slip: the buffer is copied, not moved.
TakeBuffer_Copies ==
  /\ worker.pc = "flush"
  /\ worker' = IF buffer = <<>> /\ ~config_.post_roll THEN IdleWorker
               ELSE [worker EXCEPT !.pc = "open", !.took = buffer]
  /\ UNCHANGED <<config_, status, rows, disk, content, buffer, filter, writer, recording, running,
                 stopped, pending, executor, sweep, confirms, published>>

\* flush_to_bag() moves the buffer out.  An empty one is only worth a bag when
\* there is a post-fault window to fill it.
TakeBuffer ==
  /\ worker.pc = "flush"
  /\ worker' = IF buffer = <<>> /\ ~config_.post_roll THEN IdleWorker
               ELSE [worker EXCEPT !.pc = "open", !.took = buffer]
  /\ buffer' = <<>>
  /\ UNCHANGED <<config_, status, rows, disk, content, filter, writer, recording, running,
                 stopped, pending, executor, sweep, confirms, published>>

OpenBagWriter ==
  /\ worker.pc = "open"
  /\ writer' = CaptureNumber
  /\ disk' = disk \union {CaptureNumber}
  /\ worker' = [worker EXCEPT !.pc = IF worker.took = <<>> THEN "publish" ELSE "write",
                              !.bag = CaptureNumber]
  /\ UNCHANGED <<config_, status, rows, content, buffer, filter, recording, running, stopped, pending,
                 executor, sweep, confirms, published>>

\* The writer does not open: what was taken from the buffer is lost.
OpenFails ==
  /\ worker.pc = "open"
  /\ worker' = IdleWorker
  /\ UNCHANGED <<config_, status, rows, disk, content, buffer, filter, writer, recording, running,
                 stopped, pending, executor, sweep, confirms, published>>

WriteBuffered ==
  /\ worker.pc = "write"
  /\ content' = [content EXCEPT ![writer] =
                   @ \union {m \in ToSet(worker.took) : Captured(m.topic)}]
  /\ worker' = [worker EXCEPT !.pc = IF config_.post_roll THEN "publish" ELSE "close", !.took = <<>>]
  /\ UNCHANGED <<config_, status, rows, disk, buffer, filter, writer, recording, running, stopped,
                 pending, executor, sweep, confirms, published>>

\* A slip: the failed flush drops the writer and leaves its directory.
WriteFails_KeepsDirectory ==
  /\ worker.pc = "write"
  /\ writer' = 0 /\ worker' = IdleWorker
  /\ UNCHANGED <<config_, status, rows, disk, content, buffer, filter, recording, running, stopped,
                 pending, executor, sweep, confirms, published>>

\* A write throws: discard_active_writer().
WriteFails ==
  /\ worker.pc = "write"
  /\ writer' = 0 /\ disk' = disk \ {worker.bag} /\ worker' = IdleWorker
  /\ UNCHANGED <<config_, status, rows, content, buffer, filter, recording, running, stopped,
                 pending, executor, sweep, confirms, published>>

\* The window is published and its timer armed, under one lock.
PublishRecording ==
  /\ worker.pc = "publish"
  /\ recording' = Burst(worker.code, worker.bag, {}, {worker.code})
  /\ worker' = IdleWorker
  /\ UNCHANGED <<config_, status, rows, disk, content, buffer, filter, writer, running, stopped,
                 pending, executor, sweep, confirms, published>>

\* Without a post-fault window the bag is closed at once.
CloseBag ==
  /\ worker.pc = "close"
  /\ writer' = 0
  /\ worker' = [worker EXCEPT !.pc = "store"]
  /\ UNCHANGED <<config_, status, rows, disk, content, buffer, filter, recording, running, stopped,
                 pending, executor, sweep, confirms, published>>

BeginSweep == sweep' = [NoSweep EXCEPT !.pc = "total"]

\* store_rows_or_discard_bag(): the rows, or no bag.
StoreBag ==
  /\ worker.pc = "store"
  /\ \E size \in BagSizes :
       StoreRosbagFiles({[code |-> worker.code, bag |-> worker.bag, size |-> size]})
  /\ BeginSweep /\ worker' = [worker EXCEPT !.pc = "sweep"]
  /\ UNCHANGED <<config_, status, content, buffer, filter, writer, recording, running, stopped,
                 pending, executor, confirms, published>>

StoreBagFails ==
  /\ worker.pc = "store"
  /\ disk' = disk \ {worker.bag}
  /\ filter' = {} /\ worker' = IdleWorker
  /\ UNCHANGED <<config_, status, rows, content, buffer, writer, recording, running, stopped,
                 pending, executor, sweep, confirms, published>>

-----------------------------------------------------------------------------
(* finalize_post_fault_recording(), by the timer or by stop() *)

\* Recording state, writer and filter change hands under one lock.
FinalizeRecording ==
  /\ executor = IdleExecutor /\ recording.on
  /\ executor' = Executor("store", recording, "none")
  /\ recording' = NoRecording /\ writer' = 0 /\ filter' = {}
  /\ UNCHANGED <<config_, status, rows, disk, content, buffer, running, stopped, pending,
                 worker, sweep, confirms, published>>

\* A slip: the store is not asked again whether the fault was cleared.
wants_a_row_Always(c) == TRUE

wants_a_row(c) == ~CleansUp \/ status[c] # "CLEARED"

Wanting(burst) == {c \in (burst.attached \union {burst.code}) \ {NoCode} : wants_a_row(c)}

FinalizeStore ==
  LET burst == executor.burst
  IN  /\ executor.pc = "store" /\ Wanting(burst) # {}
      /\ \E size \in BagSizes :
           StoreRosbagFiles({[code |-> c, bag |-> burst.bag, size |-> size] : c \in Wanting(burst)})
      /\ BeginSweep /\ executor' = [executor EXCEPT !.pc = "sweep"]
      /\ UNCHANGED <<config_, status, content, buffer, filter, writer, recording, running, stopped,
                     pending, worker, confirms, published>>

\* Every fault of the burst was cleared, or the store failed: no bag.
FinalizeDiscard ==
  /\ executor.pc = "store"
  /\ disk' = disk \ {executor.burst.bag}
  /\ executor' = IdleExecutor
  /\ UNCHANGED <<config_, status, rows, content, buffer, filter, writer, recording, running, stopped,
                 pending, worker, sweep, confirms, published>>

-----------------------------------------------------------------------------
(* evict_bags_over_quota(), by whoever stored the rows *)

SweepUnchanged == UNCHANGED <<config_, status, content, buffer, writer, recording, running, stopped,
                              pending, confirms, published>>
SweepTotal ==
  /\ sweep.pc = "total"
  /\ sweep' = [sweep EXCEPT !.pc = "list", !.bytes = TotalBytes]
  /\ UNCHANGED <<rows, disk, filter, worker, executor>> /\ SweepUnchanged

SweepList ==
  /\ sweep.pc = "list"
  /\ sweep' = [sweep EXCEPT !.pc = "delete", !.list = OldestFirst]
  /\ UNCHANGED <<rows, disk, filter, worker, executor>> /\ SweepUnchanged


\* delete_rosbag_recording() of the oldest bag of the list, and its size counts
\* as freed even if a clear was quicker.
SweepDelete ==
  LET oldest == Head(sweep.list)
  IN  /\ sweep.pc = "delete" /\ sweep.bytes > MaxTotal /\ sweep.list # <<>>
      /\ DeleteRows({r \in rows : r.bag = oldest.bag})
      /\ sweep' = [sweep EXCEPT !.bytes = IF oldest.size < @ THEN @ - oldest.size ELSE 0,
                                !.list = Tail(@)]
      /\ UNCHANGED <<filter, worker, executor>> /\ SweepUnchanged

\* The sweep is over, and with it the handler that ran it.
SweepDone ==
  /\ sweep.pc = "delete" /\ (sweep.bytes <= MaxTotal \/ sweep.list = <<>>)
  /\ sweep' = NoSweep
  /\ filter' = IF worker.pc = "sweep" THEN {} ELSE filter
  /\ worker' = IF worker.pc = "sweep" THEN IdleWorker ELSE worker
  /\ executor' = IF executor.pc = "sweep" THEN IdleExecutor ELSE executor
  /\ UNCHANGED <<rows, disk>> /\ SweepUnchanged

\* The node is destroyed: the pool is joined first, then stop() finalises the window
\* in flight and clears the buffer.
Stop ==
  /\ ExecutorIdle /\ worker = IdleWorker
  /\ stopped' = TRUE /\ running' = FALSE /\ buffer' = <<>>
  /\ UNCHANGED <<config_, status, rows, disk, content, filter, writer, recording, pending, worker,
                 executor, sweep, confirms, published>>

-----------------------------------------------------------------------------
Confirmation ==
  \/ \E c \in Codes : BeginCapture(c)
  \/ AttachToActiveRecording \/ BeginRecording \/ TakeBuffer
  \/ OpenBagWriter \/ OpenFails \/ WriteBuffered \/ WriteFails
  \/ PublishRecording \/ CloseBag \/ StoreBag \/ StoreBagFails

Handlers ==
  \/ \E c \in Codes : ReportPrefailed(c) \/ ReportConfirmed(c) \/ HandleClearFault(c)
  \/ \E t \in Topics : WriteMessage(t) \/ ReceiveMessage(t)
  \/ BufferMessage \/ FinalizeRecording \/ FinalizeStore \/ FinalizeDiscard

Next ==
  \/ Confirmation \/ Handlers
  \/ SweepTotal \/ SweepList \/ SweepDelete \/ SweepDone \/ Stop

Spec == Init /\ [][Next]_vars

-----------------------------------------------------------------------------
InFlight == {recording.bag, worker.bag, executor.burst.bag}

\* A bag and its rows live and die together, whatever fails, is cleared, attached
\* or evicted meanwhile: a row always names a directory that exists
\* (store_rosbag_files, delete_rosbag_file, delete_rosbag_recording), and a
\* directory no row names is one a recording still holds (store_rows_or_discard_bag:
\* "it is now unreachable and uncounted on disk").
RowsMatchBags ==
  /\ Referenced(rows) \subseteq disk
  /\ disk \subseteq Referenced(rows) \union InFlight

\* No message is written twice: it is in the buffer, on its way to a bag, or in
\* one bag.
MessageOnce ==
  /\ \A b1, b2 \in disk : b1 # b2 => content[b1] \intersect content[b2] = {}
  /\ \A b \in disk : content[b] \intersect (ToSet(buffer) \union ToSet(worker.took)) = {}
  /\ ToSet(buffer) \intersect ToSet(worker.took) = {}

\* With auto_cleanup and no history, a fault that is acknowledged keeps no row of a
\* window, whenever in the window or its finalisation the clear comes: "A leftover row
\* for a cleared fault would keep the shared bag referenced forever"
\* (rosbag_capture.cpp:609).
ClearedHasNoRows ==
  CleansUp /\ config_.post_roll => \A r \in rows : status[r.code] # "CLEARED"

\* Every fault that joined a window, and was not cleared since, finds the bag under
\* its own code once the window is finalised.
BurstIsCovered ==
  [][executor.pc = "store" /\ executor.burst.bag \in Referenced(rows')
     => \A c \in executor.burst.covered :
          status[c] = "CONFIRMED" => executor.burst.bag \in BagsOf(rows', c)]_vars


\* "Right after a post-fault window closes the buffer is empty by construction":
\* every message of the window went into its bag.
WindowEmptiesBuffer == [][recording.on /\ ~recording'.on => buffer' = <<>>]_vars

\* In entity mode a window always records under a filter: the boundary bag never
\* becomes "a whole-graph capture", which an empty filter would make it.
WrittenInScope ==
  recording.on /\ EntityMode => filter # {}
=============================================================================
