------------------------------ MODULE Executor ------------------------------
(***************************************************************************)
(* The single-threaded io_uring executor of src/io2/src/executor.rs:       *)
(* the loop of run() (idle wait, ready-set drain, submit, completion       *)
(* drain, timers, deferred closes), the ring adapter try_submit_io(), the  *)
(* task context operations (queue_io, take_io_result, spawn, notify_when,  *)
(* yield_if_needed) and the JoinHandle / YieldIfNeeded futures.            *)
(*                                                                         *)
(* Tasks are arbitrary futures: while a task is being polled it may call   *)
(* any context operation, and it returns Pending only when it waits on     *)
(* something, as the futures of src/io2/src/fs/file.rs do.  The kernel is *)
(* the environment: it completes submitted entries in any order; entries   *)
(* of the direct (IOPOLL) ring surface only when that ring is submitted.   *)
(***************************************************************************)
EXTENDS Naturals, Sequences, FiniteSets, SequencesExt, RingSubmit

CONSTANTS
  MaxTask,    \* task ids are 0..MaxTask: 0 is the close-file task, 1 the root
  MaxIo,      \* io ids handed out by queue_io are 1..MaxIo
  Fds,        \* file descriptors tasks may drop (model values)
  MaxTimer,   \* notify_when registrations are 1..MaxTimer
  MaxBusy,    \* how many submits the kernel may refuse with EBUSY
  MoveHandles \* whether a task may move JoinHandles into a child it spawns

ASSUME MaxTask \in Nat \ {0}
ASSUME MaxIo \in Nat /\ MaxTimer \in Nat /\ MaxBusy \in Nat
ASSUME MoveHandles \in BOOLEAN

CloseTask == 0            \* close_file_task_id, executor.rs:236
Root      == 1            \* the task wrapping the root future, executor.rs:240
NoTask    == MaxTask + 1  \* the empty CURRENT_TASK_CONTEXT slot
Tasks     == 0..MaxTask
IoIds     == 1..MaxIo
TimerIds  == 1..MaxTimer
Rings     == {"buf", "dio"}  \* ring and dio_ring
\* A ring entry is an io id (user_data = io_id) or the fd of a deferred
\* close (user_data = close_file_io_id).
Entries   == IoIds \cup Fds

VARIABLES
  pc,           \* where run() is in its loop
  cur,          \* CURRENT_TASK_CONTEXT: the task being polled, or NoTask
  tasks,        \* live keys of the tasks slab
  nextTask,     \* next task key (keys are not reused)
  parent,       \* caller_task_id captured by spawn for each child
  out,          \* the root output slot is filled
  joinOut,      \* children whose JoinHandle slot holds a value
  handles,      \* JoinHandles each task holds and has not awaited yet
  wio,          \* io ids the awaitable being polled by a task waits on
  wjoin,        \* the child whose JoinHandle a task awaits, or NoTask
  wtimer,       \* the timer a task sleeps on, or 0
  io,           \* live keys of the io slab (besides close_file_io_id)
  nextIo,       \* next io key
  owner,        \* io id -> task id stored in the io slab
  kind,         \* io id -> ring it was queued on
  results,      \* io ids with a result in io_results
  queue,        \* io_queue / dio_queue: entries not yet in the ring
  sq,           \* entries pushed to a submission queue, not yet submitted
  kern,         \* entries submitted and in flight in the kernel
  polled,       \* direct entries done by the device, not yet reaped
  cq,           \* posted completion entries
  numDio,       \* num_dio_running
  filesClosing, \* files_closing
  filesToClose, \* FILES_TO_CLOSE
  dropped,      \* fds whose File has been dropped (history)
  closed,       \* fds whose close completion was drained (history)
  toNotify,     \* to_notify: the ready set
  notifying,    \* notifying: the snapshot being drained, popped from the end
  timers,       \* live entries of notify_when
  nextTimer,    \* next timer id
  timerTask,    \* timer id -> task id in notify_when
  due,          \* timers whose instant is now in the past
  overBudget,   \* start.elapsed() >= preempt_duration
  busy          \* EBUSY answers given so far

sched == <<pc, cur, toNotify, notifying, overBudget>>
taskv == <<tasks, nextTask, parent, out, joinOut, handles, wio, wjoin, wtimer>>
iov   == <<io, nextIo, owner, kind, results>>
ringv == <<queue, sq, kern, polled, cq, numDio, busy>>
filev == <<filesClosing, filesToClose, dropped, closed>>
timev == <<timers, nextTimer, timerTask, due>>
vars  == <<sched, taskv, iov, ringv, filev, timev>>

-----------------------------------------------------------------------------
(* Ring adapter: try_submit_io, executor.rs:397-443.                       *)

\* The whole of try_submit_io(queue, ring, force): the push loop, then one
\* more submit if forced or the submission queue is not empty (431-442).
\* finOk says whether that last submit succeeds.  "ran" records that some
\* submit reached the kernel, which is what reaps polled completions.
SubmitResult(r, force, okFull, finOk) ==
  LET p   == PushLoop(queue[r], sq[r], {}, okFull, FALSE)
      fin == force \/ p.s # <<>>
  IN [q     |-> p.q,
      s     |-> IF fin /\ finOk THEN <<>> ELSE p.s,
      sent  |-> IF fin /\ finOk THEN p.sent \cup ToSet(p.s) ELSE p.sent,
      ran   |-> (fin /\ finOk) \/ p.sent # {},
      busys |-> (IF p.broke THEN 1 ELSE 0) + (IF fin /\ ~finOk THEN 1 ELSE 0)]

SubmitResults(r, force) ==
  {SubmitResult(r, force, k, f) : k \in 0..Len(queue[r]), f \in BOOLEAN}

\* The ring variables after try_submit_io(buffered) and try_submit_io(direct).
ApplySubmit(b, d) ==
  /\ busy + b.busys + d.busys <= MaxBusy
  /\ busy' = busy + b.busys + d.busys
  /\ queue' = [queue EXCEPT !["buf"] = b.q, !["dio"] = d.q]
  /\ sq' = [sq EXCEPT !["buf"] = b.s, !["dio"] = d.s]
  /\ kern' = [kern EXCEPT !["buf"] = @ \cup b.sent, !["dio"] = @ \cup d.sent]
  /\ polled' = IF d.ran THEN {} ELSE polled
  /\ cq' = IF d.ran THEN [cq EXCEPT !["dio"] = @ \cup polled] ELSE cq

TrySubmitBoth(dioForce) ==
  \E b \in SubmitResults("buf", FALSE), d \in SubmitResults("dio", dioForce) :
    ApplySubmit(b, d)

-----------------------------------------------------------------------------
(* notify_timers, executor.rs:378-395: every timer whose instant is in the *)
(* past is removed and its task put in the ready set.                      *)
Fired == timers \cap due

NotifyTimers ==
  /\ timers' = timers \ Fired
  /\ toNotify' = toNotify \cup {timerTask[k] : k \in Fired}

-----------------------------------------------------------------------------
Init ==
  /\ pc = "loop"
  /\ cur = NoTask
  /\ tasks = {CloseTask, Root}
  /\ nextTask = Root + 1
  /\ parent = [t \in Tasks |-> CloseTask]
  /\ out = FALSE
  /\ joinOut = {}
  /\ handles = [t \in Tasks |-> {}]
  /\ wio = [t \in Tasks |-> {}]
  /\ wjoin = [t \in Tasks |-> NoTask]
  /\ wtimer = [t \in Tasks |-> 0]
  /\ io = {}
  /\ nextIo = 1
  /\ owner = [i \in IoIds |-> CloseTask]
  /\ kind = [i \in IoIds |-> "buf"]
  /\ results = {}
  /\ queue = [r \in Rings |-> <<>>]
  /\ sq = [r \in Rings |-> <<>>]
  /\ kern = [r \in Rings |-> {}]
  /\ polled = {}
  /\ cq = [r \in Rings |-> {}]
  /\ numDio = 0
  /\ filesClosing = 0
  /\ filesToClose = <<>>
  /\ dropped = {}
  /\ closed = {}
  /\ toNotify = {Root}
  /\ notifying = <<>>
  /\ timers = {}
  /\ nextTimer = 1
  /\ timerTask = [k \in TimerIds |-> CloseTask]
  /\ due = {}
  /\ overBudget = FALSE
  /\ busy = 0

-----------------------------------------------------------------------------
(* The loop of run(), executor.rs:243-373.                                 *)

LoopContinues ==
  ~out \/ filesClosing > 0 \/ filesToClose # <<>>

\* The idle test, executor.rs:249-256: nothing queued, pushed or completed
\* on either ring, nothing ready and no file waiting to be closed.
NothingToDo ==
  /\ \A r \in Rings : queue[r] = <<>> /\ sq[r] = <<>> /\ cq[r] = {}
  /\ toNotify = {}
  /\ filesToClose = <<>>

\* executor.rs:286-289: take the iteration start time, and move the ready
\* set onto the notifying stack in VecMap key order (left unspecified here).
StartIteration ==
  /\ overBudget' = FALSE
  /\ IF toNotify # {}
     THEN /\ \E order \in SetToSeqs(toNotify) : notifying' = notifying \o order
          /\ toNotify' = {}
          /\ pc' = "ready"
     ELSE /\ pc' = "submit"
          /\ UNCHANGED <<toNotify, notifying>>

\* Top of the loop: exit, enter the idle wait, or start polling.
LoopTop ==
  /\ pc = "loop"
  /\ IF ~LoopContinues
     THEN pc' = "done" /\ UNCHANGED <<toNotify, notifying, overBudget>>
     ELSE IF NothingToDo
          THEN pc' = "wait" /\ UNCHANGED <<toNotify, notifying, overBudget>>
          ELSE StartIteration
  /\ UNCHANGED <<cur, taskv, iov, ringv, filev, timev>>

\* Mutation: the idle wait never submits the direct ring.
IdleWaitWithoutDioPoll ==
  /\ pc = "wait"
  /\ IF cq["buf"] # {} \/ cq["dio"] # {} \/ toNotify # {}
     THEN /\ StartIteration
          /\ UNCHANGED <<ringv, timers>>
     ELSE /\ NotifyTimers
          /\ UNCHANGED <<pc, notifying, overBudget, ringv>>
  /\ UNCHANGED <<cur, taskv, iov, filev, nextTimer, timerTask, due>>

\* One pass of the 'wait loop, executor.rs:258-282.  It leaves the loop
\* once a completion or a ready task shows up; otherwise it fires elapsed
\* timers and, while direct io is running, submits the direct ring so that
\* polled completions surface.
IdleWait ==
  /\ pc = "wait"
  /\ IF cq["buf"] # {} \/ cq["dio"] # {} \/ toNotify # {}
     THEN /\ StartIteration
          /\ UNCHANGED <<ringv, timers>>
     ELSE /\ NotifyTimers
          /\ UNCHANGED <<pc, notifying, overBudget>>
          /\ IF numDio > 0
             THEN \/ /\ polled' = {}
                     /\ cq' = [cq EXCEPT !["dio"] = @ \cup polled]
                     /\ UNCHANGED <<queue, sq, kern, numDio, busy>>
                  \/ /\ busy < MaxBusy
                     /\ busy' = busy + 1
                     /\ UNCHANGED <<queue, sq, kern, polled, cq, numDio>>
             ELSE UNCHANGED ringv
  /\ UNCHANGED <<cur, taskv, iov, filev, nextTimer, timerTask, due>>

\* executor.rs:290-313 and 320-323: pop the next task id; a task no longer
\* in the slab is skipped, a live one gets the context installed and is
\* polled.  An empty stack ends the drain.
PopTask ==
  /\ pc = "ready"
  /\ IF notifying = <<>>
     THEN pc' = "submit" /\ UNCHANGED <<cur, notifying>>
     ELSE LET t == Last(notifying) IN
          /\ notifying' = Front(notifying)
          /\ IF t \in tasks
             THEN cur' = t /\ pc' = "poll"
             ELSE UNCHANGED <<cur, pc>>
  /\ UNCHANGED <<toNotify, overBudget, taskv, iov, ringv, filev, timev>>

\* executor.rs:317-337, after a poll returned: clear the context, drop a
\* finished task, then either break out of the drain because the iteration
\* is over its time budget, or submit what the poll queued and go on.
EndPoll(finished) ==
  /\ cur' = NoTask
  /\ tasks' = IF finished THEN tasks \ {cur} ELSE tasks
  /\ IF overBudget
     THEN pc' = "submit" /\ UNCHANGED ringv
     ELSE pc' = "ready" /\ TrySubmitBoth(FALSE)
  /\ UNCHANGED numDio

\* executor.rs:340-341: submit both rings; the direct ring is always forced.
Submit ==
  /\ pc = "submit"
  /\ TrySubmitBoth(TRUE)
  /\ pc' = "reap"
  /\ UNCHANGED <<numDio, cur, toNotify, notifying, overBudget, taskv, iov,
                 filev, timev>>

\* executor.rs:343-372: drain both completion queues, then fire timers,
\* then queue a close for every fd in FILES_TO_CLOSE.  A failed unwrap or
\* checked_sub aborts the process.
DrainedIos  == (cq["buf"] \cup cq["dio"]) \cap IoIds
DrainedFds  == (cq["buf"] \cup cq["dio"]) \cap Fds
ReapAborts ==
  \/ Cardinality(cq["dio"]) > numDio
  \/ Cardinality(DrainedFds) > filesClosing
  \/ ~(DrainedIos \subseteq io)

\* Mutation: the queued closes are not counted in files_closing.
ReapCompletionsNoCloseCount ==
  /\ numDio' = numDio - Cardinality(cq["dio"])
  /\ cq' = [r \in Rings |-> {}]
  /\ results' = results \cup DrainedIos
  /\ closed' = closed \cup DrainedFds
  /\ timers' = timers \ Fired
  /\ toNotify' = toNotify \cup {owner[i] : i \in DrainedIos}
                          \cup {timerTask[k] : k \in Fired}
  /\ filesClosing' = filesClosing - Cardinality(DrainedFds)
  /\ queue' = [queue EXCEPT !["buf"] = @ \o filesToClose]
  /\ filesToClose' = <<>>
  /\ pc' = "loop"
  /\ UNCHANGED <<cur, notifying, overBudget, taskv, io, nextIo, owner, kind,
                 sq, kern, polled, busy, dropped, nextTimer, timerTask, due>>

\* Mutation: a close completion is skipped without decrementing
\* files_closing.
ReapCompletionsNoCloseDecrement ==
  /\ numDio' = numDio - Cardinality(cq["dio"])
  /\ cq' = [r \in Rings |-> {}]
  /\ results' = results \cup DrainedIos
  /\ closed' = closed \cup DrainedFds
  /\ timers' = timers \ Fired
  /\ toNotify' = toNotify \cup {owner[i] : i \in DrainedIos}
                          \cup {timerTask[k] : k \in Fired}
  /\ filesClosing' = filesClosing + Len(filesToClose)
  /\ queue' = [queue EXCEPT !["buf"] = @ \o filesToClose]
  /\ filesToClose' = <<>>
  /\ pc' = "loop"
  /\ UNCHANGED <<cur, notifying, overBudget, taskv, io, nextIo, owner, kind,
                 sq, kern, polled, busy, dropped, nextTimer, timerTask, due>>

\* Mutation: FILES_TO_CLOSE is not cleared after its fds are queued.
ReapCompletionsKeepFilesToClose ==
  /\ numDio' = numDio - Cardinality(cq["dio"])
  /\ cq' = [r \in Rings |-> {}]
  /\ results' = results \cup DrainedIos
  /\ closed' = closed \cup DrainedFds
  /\ timers' = timers \ Fired
  /\ toNotify' = toNotify \cup {owner[i] : i \in DrainedIos}
                          \cup {timerTask[k] : k \in Fired}
  /\ filesClosing' = filesClosing - Cardinality(DrainedFds)
                     + Len(filesToClose)
  /\ queue' = [queue EXCEPT !["buf"] = @ \o filesToClose]
  /\ pc' = "loop"
  /\ UNCHANGED <<cur, notifying, overBudget, taskv, io, nextIo, owner, kind,
                 sq, kern, polled, busy, dropped, nextTimer, timerTask, due,
                 filesToClose>>

ReapCompletions ==
  /\ numDio' = numDio - Cardinality(cq["dio"])
  /\ cq' = [r \in Rings |-> {}]
  /\ results' = results \cup DrainedIos
  /\ closed' = closed \cup DrainedFds
  /\ timers' = timers \ Fired
  /\ toNotify' = toNotify \cup {owner[i] : i \in DrainedIos}
                          \cup {timerTask[k] : k \in Fired}
  /\ filesClosing' = filesClosing - Cardinality(DrainedFds)
                     + Len(filesToClose)
  /\ queue' = [queue EXCEPT !["buf"] = @ \o filesToClose]
  /\ filesToClose' = <<>>
  /\ pc' = "loop"
  /\ UNCHANGED <<cur, notifying, overBudget, taskv, io, nextIo, owner, kind,
                 sq, kern, polled, busy, dropped, nextTimer, timerTask, due>>

Reap ==
  /\ pc = "reap"
  /\ IF ReapAborts
     THEN pc' = "abort" /\ UNCHANGED <<cur, toNotify, notifying, overBudget,
                                       taskv, iov, ringv, filev, timev>>
     ELSE ReapCompletions

-----------------------------------------------------------------------------
(* What the polled task cur may do while CURRENT_TASK_CONTEXT is set.      *)

\* The awaitable the task is suspended in still waits on something.
Blocked(t) == wio[t] # {} \/ wjoin[t] # NoTask \/ wtimer[t] # 0

\* Something the awaitable waits on is available now.
CanResolve(t) == wio[t] \cap results # {} \/ wjoin[t] \in joinOut \/ wtimer[t] \in due

\* CurrentTaskContext::notify, executor.rs:56-60: insert into to_notify.
Notify(t) == toNotify' = toNotify \cup {t}

\* CurrentTaskContext::yield_if_needed, executor.rs:74-83, when it answers
\* true: past the budget the polled task is put back in the ready set.
YieldIfNeededCtx ==
  /\ overBudget
  /\ Notify(cur)

\* Mutation: the io record is removed before the result is looked up.
TakeIoResultEarlyRemove ==
  /\ pc = "poll"
  /\ \E i \in wio[cur] :
       /\ results' = results \ {i}
       /\ io' = io \ {i}
       /\ wio' = [wio EXCEPT ![cur] = @ \ {i}]
  /\ UNCHANGED <<sched, tasks, nextTask, parent, out, joinOut, handles, wjoin,
                 wtimer, nextIo, owner, kind, ringv, filev, timev>>

\* Mutation: the io record is never removed from the io slab.
TakeIoResultKeepRecord ==
  /\ pc = "poll"
  /\ \E i \in wio[cur] \cap results :
       /\ results' = results \ {i}
       /\ wio' = [wio EXCEPT ![cur] = @ \ {i}]
  /\ UNCHANGED <<sched, tasks, nextTask, parent, out, joinOut, handles, wjoin,
                 wtimer, io, nextIo, owner, kind, ringv, filev, timev>>

\* CurrentTaskContext::take_io_result, executor.rs:63-73, when the result is
\* present (the future of fs/file.rs then resolves with it).
TakeIoResult ==
  /\ pc = "poll"
  /\ \E i \in wio[cur] \cap results :
       /\ results' = results \ {i}
       /\ io' = io \ {i}
       /\ wio' = [wio EXCEPT ![cur] = @ \ {i}]
  /\ UNCHANGED <<sched, tasks, nextTask, parent, out, joinOut, handles, wjoin,
                 wtimer, nextIo, owner, kind, ringv, filev, timev>>

\* Mutation: num_dio_running is incremented for buffered io too.
QueueIoCountAll(r) ==
  /\ pc = "poll"
  /\ wjoin[cur] = NoTask /\ wtimer[cur] = 0
  /\ nextIo \in IoIds
  /\ io' = io \cup {nextIo}
  /\ nextIo' = nextIo + 1
  /\ owner' = [owner EXCEPT ![nextIo] = cur]
  /\ kind' = [kind EXCEPT ![nextIo] = r]
  /\ queue' = [queue EXCEPT ![r] = Append(@, nextIo)]
  /\ numDio' = numDio + 1
  /\ wio' = [wio EXCEPT ![cur] = @ \cup {nextIo}]
  /\ UNCHANGED <<sched, tasks, nextTask, parent, out, joinOut, handles, wjoin,
                 wtimer, results, sq, kern, polled, cq, busy, filev, timev>>

\* CurrentTaskContext::queue_io, executor.rs:114-125, on either ring.
QueueIo(r) ==
  /\ pc = "poll"
  /\ wjoin[cur] = NoTask /\ wtimer[cur] = 0
  /\ nextIo \in IoIds
  /\ io' = io \cup {nextIo}
  /\ nextIo' = nextIo + 1
  /\ owner' = [owner EXCEPT ![nextIo] = cur]
  /\ kind' = [kind EXCEPT ![nextIo] = r]
  /\ queue' = [queue EXCEPT ![r] = Append(@, nextIo)]
  /\ numDio' = IF r = "dio" THEN numDio + 1 ELSE numDio
  /\ wio' = [wio EXCEPT ![cur] = @ \cup {nextIo}]
  /\ UNCHANGED <<sched, tasks, nextTask, parent, out, joinOut, handles, wjoin,
                 wtimer, results, sq, kern, polled, cq, busy, filev, timev>>

\* CurrentTaskContext::spawn, executor.rs:84-105: insert the child, make it
\* ready, hand its JoinHandle to the caller.  The child wrapper notifies
\* caller_task_id, the spawner (91, 96).  A JoinHandle is an ordinary value:
\* the spawned future may own JoinHandles the caller moved into it.
Spawn ==
  /\ pc = "poll"
  /\ ~Blocked(cur)
  /\ nextTask \in Tasks
  /\ \E moved \in (IF MoveHandles THEN SUBSET handles[cur] ELSE {{}}) :
       handles' = [handles EXCEPT ![cur] = (@ \ moved) \cup {nextTask},
                                  ![nextTask] = moved]
  /\ tasks' = tasks \cup {nextTask}
  /\ nextTask' = nextTask + 1
  /\ parent' = [parent EXCEPT ![nextTask] = cur]
  /\ Notify(nextTask)
  /\ UNCHANGED <<pc, cur, notifying, overBudget, out, joinOut, wio, wjoin,
                 wtimer, iov, ringv, filev, timev>>

\* The task starts awaiting one of its JoinHandles.
AwaitJoin ==
  /\ pc = "poll"
  /\ ~Blocked(cur)
  /\ \E c \in handles[cur] :
       /\ handles' = [handles EXCEPT ![cur] = @ \ {c}]
       /\ wjoin' = [wjoin EXCEPT ![cur] = c]
  /\ UNCHANGED <<sched, tasks, nextTask, parent, out, joinOut, wio, wtimer,
                 iov, ringv, filev, timev>>

\* JoinHandle::poll, executor.rs:487-492, when the slot holds the value.
PollJoin ==
  /\ pc = "poll"
  /\ wjoin[cur] \in joinOut
  /\ joinOut' = joinOut \ {wjoin[cur]}
  /\ wjoin' = [wjoin EXCEPT ![cur] = NoTask]
  /\ UNCHANGED <<sched, tasks, nextTask, parent, out, handles, wio, wtimer,
                 iov, ringv, filev, timev>>

\* CurrentTaskContext::notify_when, executor.rs:127-133; the task then
\* sleeps until its instant has passed.
NotifyWhen ==
  /\ pc = "poll"
  /\ ~Blocked(cur)
  /\ nextTimer \in TimerIds
  /\ timers' = timers \cup {nextTimer}
  /\ nextTimer' = nextTimer + 1
  /\ timerTask' = [timerTask EXCEPT ![nextTimer] = cur]
  /\ wtimer' = [wtimer EXCEPT ![cur] = nextTimer]
  /\ UNCHANGED <<sched, tasks, nextTask, parent, out, joinOut, handles, wio,
                 wjoin, iov, ringv, filev, due>>

\* A sleeping task polled after its instant stops sleeping.
TimerElapsed ==
  /\ pc = "poll"
  /\ wtimer[cur] \in due
  /\ wtimer' = [wtimer EXCEPT ![cur] = 0]
  /\ UNCHANGED <<sched, tasks, nextTask, parent, out, joinOut, handles, wio,
                 wjoin, iov, ringv, filev, timev>>

\* Drop for File, fs/file.rs:375-381: the fd goes on FILES_TO_CLOSE.
DropFile ==
  /\ pc = "poll"
  /\ \E f \in Fds \ dropped :
       /\ filesToClose' = Append(filesToClose, f)
       /\ dropped' = dropped \cup {f}
  /\ UNCHANGED <<sched, taskv, iov, ringv, filesClosing, closed, timev>>

\* YieldIfNeeded::poll with yield_if_needed() true, executor.rs:465-478:
\* the task puts itself in the ready set and returns Pending.
\* (Under budget it returns Ready and nothing changes.)
YieldIfNeeded ==
  /\ pc = "poll"
  /\ ~Blocked(cur)
  /\ YieldIfNeededCtx
  /\ EndPoll(FALSE)
  /\ UNCHANGED <<notifying, overBudget, nextTask, parent, out, joinOut,
                 handles, wio, wjoin, wtimer, iov, filev, timev>>

\* The poll returns Pending while the awaitable still waits.
ReturnPending ==
  /\ pc = "poll"
  /\ Blocked(cur) /\ ~CanResolve(cur)
  /\ EndPoll(FALSE)
  /\ UNCHANGED <<toNotify, notifying, overBudget, nextTask, parent, out,
                 joinOut, handles, wio, wjoin, wtimer, iov, filev, timev>>

\* Mutation: a finished child fills its slot but does not notify its caller.
CompleteWithoutNotify ==
  /\ pc = "poll"
  /\ ~Blocked(cur)
  /\ IF cur = Root
     THEN out' = TRUE /\ UNCHANGED joinOut
     ELSE joinOut' = joinOut \cup {cur} /\ UNCHANGED out
  /\ EndPoll(TRUE)
  /\ UNCHANGED <<toNotify, notifying, overBudget, nextTask, parent, handles,
                 wio, wjoin, wtimer, iov, filev, timev>>

\* The poll returns Ready: the root fills out (executor.rs:196-203), a
\* child fills its JoinHandle slot and notifies its caller (92-97).  As
\* queue_io's contract requires, no io of the task is outstanding.
Complete ==
  /\ pc = "poll"
  /\ ~Blocked(cur)
  /\ IF cur = Root
     THEN out' = TRUE /\ UNCHANGED <<joinOut, toNotify>>
     ELSE /\ joinOut' = joinOut \cup {cur}
          /\ Notify(parent[cur])
          /\ UNCHANGED out
  /\ EndPoll(TRUE)
  /\ UNCHANGED <<notifying, overBudget, nextTask, parent, handles, wio, wjoin,
                 wtimer, iov, filev, timev>>

\* A poll panics: unwinding leaves run(), and CurrentTaskContextGuard
\* (executor.rs:45-54, 192) empties the context slot.
TaskPanic ==
  /\ pc = "poll"
  /\ pc' = "panicked"
  /\ cur' = NoTask
  /\ UNCHANGED <<toNotify, notifying, overBudget, taskv, iov, ringv, filev,
                 timev>>

TaskStep ==
  \/ TakeIoResult \/ \E r \in Rings : QueueIo(r) \/ Spawn \/ AwaitJoin
  \/ PollJoin \/ NotifyWhen \/ TimerElapsed \/ DropFile \/ YieldIfNeeded
  \/ ReturnPending \/ Complete \/ TaskPanic

-----------------------------------------------------------------------------
(* The environment: the kernel and the clock.                              *)

\* The kernel finishes a submitted entry.  A buffered one is posted to the
\* completion queue; a direct (IOPOLL) one waits to be polled.
KernelComplete(r, e) ==
  /\ e \in kern[r]
  /\ kern' = [kern EXCEPT ![r] = @ \ {e}]
  /\ IF r = "buf"
     THEN cq' = [cq EXCEPT !["buf"] = @ \cup {e}] /\ UNCHANGED polled
     ELSE polled' = polled \cup {e} /\ UNCHANGED cq
  /\ UNCHANGED <<sched, taskv, iov, queue, sq, numDio, busy, filev, timev>>

\* The iteration runs past preempt_duration (only read while polling).
BudgetElapses ==
  /\ pc \in {"ready", "poll"}
  /\ ~overBudget
  /\ overBudget' = TRUE
  /\ UNCHANGED <<pc, cur, toNotify, notifying, taskv, iov, ringv, filev, timev>>

\* The clock passes the instant of a registered timer.
TimeAdvances ==
  /\ \E k \in timers \ due : due' = due \cup {k}
  /\ UNCHANGED <<sched, taskv, iov, ringv, filev, timers, nextTimer, timerTask>>

Terminated ==
  /\ pc \in {"done", "panicked", "abort"}
  /\ UNCHANGED vars

SchedulerStep ==
  \/ LoopTop \/ IdleWait \/ PopTask \/ Submit \/ Reap \/ TaskStep

Next ==
  \/ SchedulerStep
  \/ \E r \in Rings, e \in Entries : KernelComplete(r, e)
  \/ BudgetElapses
  \/ TimeAdvances
  \/ Terminated

\* run() is one thread that never blocks except in the idle wait, the
\* kernel eventually completes every submitted entry, and the clock
\* eventually passes every registered instant.
Fairness ==
  /\ WF_vars(SchedulerStep)
  /\ \A r \in Rings, e \in Entries : WF_vars(KernelComplete(r, e))
  /\ WF_vars(TimeAdvances)

Spec == Init /\ [][Next]_vars /\ Fairness

-----------------------------------------------------------------------------
(* Properties.                                                             *)

Running == pc \notin {"done", "panicked", "abort"}

\* Entries of ring r the kernel has not yet handed back to run().
Pending(r) ==
  ToSet(queue[r]) \cup ToSet(sq[r]) \cup kern[r] \cup cq[r]
    \cup (IF r = "dio" THEN polled ELSE {})

TypeOK ==
  /\ pc \in {"loop", "wait", "ready", "poll", "submit", "reap",
             "done", "panicked", "abort"}
  /\ cur \in Tasks \cup {NoTask}
  /\ tasks \subseteq Tasks /\ nextTask \in 2..MaxTask + 1
  /\ parent \in [Tasks -> Tasks] /\ out \in BOOLEAN
  /\ joinOut \subseteq Tasks /\ handles \in [Tasks -> SUBSET Tasks]
  /\ wio \in [Tasks -> SUBSET IoIds]
  /\ wjoin \in [Tasks -> Tasks \cup {NoTask}]
  /\ wtimer \in [Tasks -> TimerIds \cup {0}]
  /\ io \subseteq IoIds /\ nextIo \in 1..MaxIo + 1
  /\ owner \in [IoIds -> Tasks] /\ kind \in [IoIds -> Rings]
  /\ results \subseteq IoIds
  /\ \A r \in Rings : queue[r] \in Seq(Entries) /\ sq[r] \in Seq(Entries)
                      /\ Len(sq[r]) <= RingDepth
  /\ kern \in [Rings -> SUBSET Entries] /\ cq \in [Rings -> SUBSET Entries]
  /\ polled \subseteq IoIds
  /\ numDio \in Nat /\ filesClosing \in Nat /\ busy \in 0..MaxBusy
  /\ filesToClose \in Seq(Fds) /\ dropped \subseteq Fds /\ closed \subseteq Fds
  /\ toNotify \subseteq Tasks /\ notifying \in Seq(Tasks)
  /\ timers \subseteq TimerIds /\ nextTimer \in 1..MaxTimer + 1
  /\ timerTask \in [TimerIds -> Tasks] /\ due \subseteq TimerIds
  /\ overBudget \in BOOLEAN

\* Spec 8.1: every io entry the kernel holds or hands back was issued by
\* queue_io on that ring and its result has not been posted or taken, so
\* the io.get(io_id).unwrap() of the completion drain (executor.rs:354)
\* finds its record and io_results.insert never overwrites a result.
CompletionsMatchIssued ==
  \A r \in Rings : \A i \in Pending(r) \cap IoIds :
    i \in io /\ i \notin results /\ kind[i] = r

\* Spec 8.2: every live record of the io slab belongs to a task still in
\* the tasks slab: no completion is addressed to a task that is gone.
IoOwnerLive ==
  Running => \A i \in io : owner[i] \in tasks

\* Spec 8.3: num_dio_running equals the direct entries queued by queue_io
\* and not yet drained, so its checked_sub (executor.rs:347) cannot fail
\* and the idle wait polls the direct ring exactly while it has work.
DioCounterExact ==
  numDio = Cardinality(Pending("dio"))

\* files_closing equals the close entries queued and not yet drained, so
\* its checked_sub (executor.rs:351) cannot fail.
CloseCounterExact ==
  filesClosing = Cardinality(Pending("buf") \cap Fds)

WakeSource(t) ==
  \/ t \in toNotify \/ t \in ToSet(notifying)
  \/ \E i \in wio[t] : \E r \in Rings : i \in Pending(r)
  \/ wtimer[t] \in timers
  \/ wjoin[t] \in tasks

NoLostWakeup ==
  Running => \A t \in tasks \ {CloseTask, cur} : WakeSource(t)

\* Every io a task queued eventually has its result posted, while run()
\* is still running: buffered completions are drained, and direct ones are
\* polled by the forced submit or by the idle wait.
IoEventuallyDelivered ==
  \A i \in IoIds : (i \in io /\ i \notin results) ~> (i \in results \/ ~Running)

\* Spec 8, yield fairness: a task that is ready (on the notifying stack) is
\* eventually polled, even when another task runs past the preemption
\* budget and yields in every iteration.
YieldFairness ==
  \A t \in Tasks \ {CloseTask} :
    (t \in ToSet(notifying) /\ t \in tasks) ~> (cur = t \/ t \notin tasks \/ ~Running)

\* Spec 4.4 step 1: the idle wait is entered only when no task is ready.
\* Tasks left on the notifying stack by the preemption break are ready.
IdleOnlyWhenNoneReady ==
  pc = "wait" => \A t \in ToSet(notifying) : t \notin tasks

\* run() returns once the root output is set: the deferred closes still
\* pending then (FILES_TO_CLOSE, close entries in io_queue or the ring,
\* closes in flight) all drain through the rings, EBUSY answers included,
\* and the loop condition (executor.rs:243) turns false, unless run()
\* unwinds first.  Children still running do not hold it up.
RunReturnsOnceRootDone ==
  out ~> ~Running

\* Spec 8.4: when the loop exits the task table holds only the close-file
\* task.
ExitLeavesNoTasks ==
  pc = "done" => tasks = {CloseTask}

=============================================================================
