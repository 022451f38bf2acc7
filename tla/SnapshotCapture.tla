--------------------------- MODULE SnapshotCapture ---------------------------
(***************************************************************************)
(* What a confirmation captures: capture_on_confirm() with its cooldown on *)
(* the node's executor, the bounded pool between, and capture()            *)
(* (snapshot_capture.cpp) on the pool's workers, which races the clears of *)
(* the executor.  Each access to the store is atomic (mutex_), a capture   *)
(* makes several.  The store outlives the process (storage_type sqlite).   *)
(* The pool is CaptureThreadPool's queue; a reading is only counted.       *)
(***************************************************************************)
EXTENDS Integers, Sequences, FiniteSets, FiniteSetsExt

CONSTANTS Codes,         \* fault codes with a capture configured
          EntityScoped,  \* those of them captured by entity default
          Workers,       \* the pool's threads
          QueueDepth,    \* capture_queue_depth
          Policies,      \* the values capture_queue_full_policy may have at a start
          Cooldown,      \* snapshots.recapture_cooldown_sec, 0 = off
          Topics,        \* topics of a capture
          MaxRows,       \* snapshots.max_per_fault, 0 = unlimited
          Retain,        \* retain_snapshots_on_clear_
          MaxConfirms,   \* bound: confirmations in a behaviour
          MaxTime        \* bound on the clock

ASSUME CaptureConstants ==
  /\ EntityScoped \subseteq Codes
  /\ QueueDepth \in Nat \ {0} /\ Topics \in Nat \ {0}
  /\ Cooldown \in Nat /\ MaxRows \in Nat /\ MaxConfirms \in Nat /\ MaxTime \in Nat
  /\ Policies \subseteq {"reject_newest", "drop_oldest"} /\ Policies # {}
  /\ Retain \in BOOLEAN

VARIABLES
  status,               \* code -> the status of its fault in the store
  snapshots_,           \* code -> its stored captures, as [id, rows]
  freeze_frames_,       \* code -> "none" | "empty" | "full"
  last_capture_times_,  \* code -> when a capture of it was last accepted, Never
  queue,                \* the captures waiting, as [code, at]
  job,                  \* worker -> the capture it is in
  capture_seq_,
  policy,               \* capture_queue_full_policy of this process
  up, now,
  kept,                 \* history: code -> when its captures were accepted, but for
                        \* the evicted ones, since its last clear
  confirms              \* how many confirmations so far

vars == <<status, snapshots_, freeze_frames_, last_capture_times_, queue, job,
          capture_seq_, policy, up, now, kept, confirms>>

Never == -1
NoJob == [pc |-> "idle"]
Captures == [id : Nat \ {0}, rows : 1..Topics]
Jobs == {NoJob} \union
  [pc : {"sample", "store", "frame", "write"}, code : Codes, id : Nat, left : 0..Topics, rows : 0..Topics]

TypeOK ==
  /\ status \in [Codes -> {"ABSENT", "CONFIRMED", "HEALED", "CLEARED"}]
  /\ \A c \in Codes : snapshots_[c] \subseteq Captures
  /\ freeze_frames_ \in [Codes -> {"none", "empty", "full"}]
  /\ last_capture_times_ \in [Codes -> Nat \union {Never}]
  /\ queue \in Seq([code : Codes, at : Nat]) /\ Len(queue) <= QueueDepth
  /\ job \in [Workers -> Jobs]
  /\ capture_seq_ \in Nat /\ policy \in Policies /\ up \in BOOLEAN /\ now \in Nat
  /\ kept \in [Codes -> SUBSET Nat] /\ confirms \in 0..MaxConfirms

Init ==
  /\ status = [c \in Codes |-> "ABSENT"]
  /\ snapshots_ = [c \in Codes |-> {}]
  /\ freeze_frames_ = [c \in Codes |-> "none"]
  /\ last_capture_times_ = [c \in Codes |-> Never]
  /\ queue = <<>>
  /\ job = [w \in Workers |-> NoJob]
  /\ capture_seq_ = 0 /\ policy \in Policies /\ up = TRUE /\ now = 0
  /\ kept = [c \in Codes |-> {}]
  /\ confirms = 0

-----------------------------------------------------------------------------
(* The executor: confirmations, heals and clears *)

\* Entries as old as the cooldown are swept first.
Swept == [c \in Codes |-> IF now - last_capture_times_[c] < Cooldown
                          THEN last_capture_times_[c] ELSE Never]

Accepts(times, c) == [times EXCEPT ![c] = @ \union {now}]
Evicts(entry) == [kept EXCEPT ![entry.code] = @ \ {entry.at}]

OnCooldown(c) ==
  /\ Cooldown > 0 /\ Swept[c] # Never
  /\ last_capture_times_' = Swept
  /\ UNCHANGED <<queue, kept>>

MayCapture(c) == Cooldown = 0 \/ Swept[c] = Never

EnqueueAccepted(c) ==
  /\ MayCapture(c) /\ Len(queue) < QueueDepth
  /\ queue' = Append(queue, [code |-> c, at |-> now])
  /\ last_capture_times_' = IF Cooldown > 0 THEN [Swept EXCEPT ![c] = now] ELSE last_capture_times_
  /\ kept' = Accepts(kept, c)

\* A slip: the evicted fault keeps its cooldown.
EnqueueEvictedOldest_KeepsCooldown(c) ==
  LET evicted == Head(queue)
  IN  /\ MayCapture(c) /\ Len(queue) = QueueDepth /\ policy = "drop_oldest"
      /\ queue' = Append(Tail(queue), [code |-> c, at |-> now])
      /\ last_capture_times_' = IF Cooldown > 0 THEN [Swept EXCEPT ![c] = now] ELSE last_capture_times_
      /\ kept' = Accepts(Evicts(evicted), c)

\* drop_oldest: the new capture takes the place of the oldest, whose code is
\* retriable at once.
EnqueueEvictedOldest(c) ==
  LET evicted == Head(queue)
  IN  /\ MayCapture(c) /\ Len(queue) = QueueDepth /\ policy = "drop_oldest"
      /\ queue' = Append(Tail(queue), [code |-> c, at |-> now])
      /\ last_capture_times_' = IF Cooldown > 0
                                THEN [[Swept EXCEPT ![c] = now] EXCEPT ![evicted.code] = Never]
                                ELSE last_capture_times_
      /\ kept' = Accepts(Evicts(evicted), c)

\* reject_newest: no cooldown is recorded.
EnqueueDroppedNewest(c) ==
  /\ MayCapture(c) /\ Len(queue) = QueueDepth /\ policy = "reject_newest"
  /\ last_capture_times_' = IF Cooldown > 0 THEN Swept ELSE last_capture_times_
  /\ UNCHANGED <<queue, kept>>

\* A fault becomes CONFIRMED, and capture_on_confirm() runs in the same callback.
CaptureOnConfirm(c) ==
  /\ up /\ confirms < MaxConfirms /\ status[c] # "CONFIRMED"
  /\ confirms' = confirms + 1
  /\ status' = [status EXCEPT ![c] = "CONFIRMED"]
  /\ \/ OnCooldown(c)
     \/ EnqueueAccepted(c)
     \/ EnqueueEvictedOldest(c)
     \/ EnqueueDroppedNewest(c)
  /\ UNCHANGED <<snapshots_, freeze_frames_, job, capture_seq_, policy, up, now>>

Heal(c) ==
  /\ up /\ status[c] = "CONFIRMED"
  /\ status' = [status EXCEPT ![c] = "HEALED"]
  /\ UNCHANGED <<snapshots_, freeze_frames_, last_capture_times_, queue, job,
                 capture_seq_, policy, up, now, kept, confirms>>

\* clear_fault() drops the readings unless they are retained; the node forgets
\* the cooldown.  The freeze frame stays.
ClearFault(c) ==
  /\ up /\ status[c] # "ABSENT"
  /\ status' = [status EXCEPT ![c] = "CLEARED"]
  /\ snapshots_' = IF Retain THEN snapshots_ ELSE [snapshots_ EXCEPT ![c] = {}]
  /\ last_capture_times_' = [last_capture_times_ EXCEPT ![c] = Never]
  /\ kept' = [kept EXCEPT ![c] = {}]
  /\ UNCHANGED <<freeze_frames_, queue, job, capture_seq_, policy, up, now, confirms>>

-----------------------------------------------------------------------------
(* A worker in capture() *)

\* The pool hands out the oldest capture, and its id is minted.
BeginCapture(w) ==
  /\ up /\ job[w] = NoJob /\ queue # <<>>
  /\ queue' = Tail(queue)
  /\ capture_seq_' = capture_seq_ + 1
  /\ job' = [job EXCEPT ![w] = [pc |-> "sample", code |-> Head(queue).code,
                                id |-> capture_seq_', left |-> Topics, rows |-> 0]]
  /\ UNCHANGED <<status, snapshots_, freeze_frames_, last_capture_times_, policy, up, now, kept, confirms>>

\* A topic is read, or it is silent for timeout_sec or not there.
CaptureTopic(w, success) ==
  /\ job[w].pc = "sample" /\ job[w].left > 0
  /\ job' = [job EXCEPT ![w].left = @ - 1, ![w].rows = IF success THEN @ + 1 ELSE @]
  /\ UNCHANGED <<status, snapshots_, freeze_frames_, last_capture_times_, queue,
                 capture_seq_, policy, up, now, kept, confirms>>

\* The fault's status decides whether the readings are stored.
CheckAcknowledged(w) ==
  /\ job[w].pc = "sample" /\ job[w].left = 0
  /\ job' = [job EXCEPT ![w].pc = IF status[job[w].code] = "CLEARED" /\ ~Retain
                                  THEN "frame" ELSE "store"]
  /\ UNCHANGED <<status, snapshots_, freeze_frames_, last_capture_times_, queue,
                 capture_seq_, policy, up, now, kept, confirms>>

RowsOf(captures) == MapThenSumSet(LAMBDA s : s.rows, captures)


\* Whole captures are evicted, oldest first, until what is left fits; the newest
\* one always stays.
StoredAfter(captures) ==
  LET From(s) == {t \in captures : t.id >= s.id}
      newest == {s \in captures : \A t \in captures : t.id <= s.id}
  IN  IF MaxRows = 0 THEN captures
      ELSE newest \union {s \in captures : RowsOf(From(s)) <= MaxRows}

\* store_snapshots()
StoreSnapshots(w) ==
  LET j == job[w]
  IN  /\ j.pc = "store"
      /\ snapshots_' = IF j.rows = 0 THEN snapshots_
           ELSE [snapshots_ EXCEPT ![j.code] = StoredAfter(@ \union {[id |-> j.id, rows |-> j.rows]})]
      /\ job' = [job EXCEPT ![w].pc = "frame"]
      /\ UNCHANGED <<status, freeze_frames_, last_capture_times_, queue,
                     capture_seq_, policy, up, now, kept, confirms>>

\* What is to become of the freeze frame: nothing, when nothing was read and there
\* is a full one, or the topics were only a default.
CheckFreezeFrame(w) ==
  LET j == job[w]
  IN  /\ j.pc = "frame"
      /\ job' = [job EXCEPT ![w] =
           IF j.rows = 0 /\ (j.code \in EntityScoped \/ freeze_frames_[j.code] = "full")
           THEN NoJob ELSE [j EXCEPT !.pc = "write"]]
      /\ UNCHANGED <<status, snapshots_, freeze_frames_, last_capture_times_, queue,
                     capture_seq_, policy, up, now, kept, confirms>>

StoreFreezeFrame(w) ==
  LET j == job[w]
  IN  /\ j.pc = "write"
      /\ freeze_frames_' = [freeze_frames_ EXCEPT ![j.code] = IF j.rows = 0 THEN "empty" ELSE "full"]
      /\ job' = [job EXCEPT ![w] = NoJob]
      /\ UNCHANGED <<status, snapshots_, last_capture_times_, queue,
                     capture_seq_, policy, up, now, kept, confirms>>

-----------------------------------------------------------------------------
(* The process and the clock *)

Die ==
  /\ up
  /\ up' = FALSE
  /\ queue' = <<>>
  /\ job' = [w \in Workers |-> NoJob]
  /\ last_capture_times_' = [c \in Codes |-> Never]
  /\ kept' = [c \in Codes |-> {}]
  /\ UNCHANGED <<status, snapshots_, freeze_frames_, capture_seq_, policy, now, confirms>>

\* A slip: the ids start over with the process.
Start_Unseeded ==
  /\ ~up
  /\ up' = TRUE
  /\ policy' \in Policies
  /\ capture_seq_' = 0
  /\ UNCHANGED <<status, snapshots_, freeze_frames_, last_capture_times_, queue, job,
                 now, kept, confirms>>

\* A start seeds the ids from get_max_capture_id().
Start ==
  /\ ~up
  /\ up' = TRUE
  /\ policy' \in Policies
  /\ capture_seq_' = Max({0} \union {s.id : s \in UNION {snapshots_[c] : c \in Codes}})
  /\ UNCHANGED <<status, snapshots_, freeze_frames_, last_capture_times_, queue, job,
                 now, kept, confirms>>

Tick ==
  /\ now < MaxTime
  /\ now' = now + 1
  /\ UNCHANGED <<status, snapshots_, freeze_frames_, last_capture_times_, queue, job,
                 capture_seq_, policy, up, kept, confirms>>

Work(w) ==
  \/ BeginCapture(w)
  \/ \E success \in BOOLEAN : CaptureTopic(w, success)
  \/ CheckAcknowledged(w) \/ StoreSnapshots(w)
  \/ CheckFreezeFrame(w) \/ StoreFreezeFrame(w)

Next ==
  \/ \E c \in Codes : CaptureOnConfirm(c) \/ Heal(c) \/ ClearFault(c)
  \/ \E w \in Workers : Work(w)
  \/ Die \/ Start
  \/ Tick

Spec == Init /\ [][Next]_vars

-----------------------------------------------------------------------------
(* Properties *)

\* Only a capture that waits, runs or ran holds a fault back: a capture the pool
\* dropped or evicted leaves its fault retriable (fault_manager_node.cpp:746).
CooldownIsEarned ==
  \A c \in Codes : LET last == last_capture_times_[c] IN
    last # Never /\ now - last < Cooldown => last \in kept[c]


\* An id in use is never minted again, also after a restart: two captures of a
\* fault never pass for one.
IdsAreFresh ==
  \A c \in Codes : \A s \in snapshots_[c] :
    /\ up => s.id <= capture_seq_
    /\ \A t \in snapshots_[c] : t.id = s.id => t = s

\* "Min seconds between captures for the same fault code" (README.md:92 of the
\* package): no capture is accepted within the cooldown of one that was kept.
CooldownSeparates ==
  [][\A c \in Codes : kept'[c] \ kept[c] # {} => \A t \in kept[c] \intersect kept'[c] : now - t >= Cooldown]_vars

\* A batch stored after the clear "would resurrect readings the acknowledgement had
\* just promised were gone" (snapshot_capture.cpp:188): a CLEARED fault has none.
ClearedHasNoReadings ==
  \A c \in Codes : status[c] = "CLEARED" /\ ~Retain => snapshots_[c] = {}

\* "An empty capture must never clobber an existing non-empty frame"
\* (snapshot_capture.cpp:206).
FullFrameStays ==
  [][\A c \in Codes : freeze_frames_[c] = "full" => freeze_frames_'[c] = "full"]_vars
=============================================================================
