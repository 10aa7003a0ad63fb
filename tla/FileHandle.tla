----------------------------- MODULE FileHandle -----------------------------
(***************************************************************************)
(* The fd lifecycle of src/io2/src/fs/file.rs: File::open and its Open     *)
(* future, the Read, Write, SyncAll and Statx futures that borrow a File,  *)
(* File::close (mem::forget, then a Close future) and Drop for File (the   *)
(* fd goes on the thread-local FILES_TO_CLOSE, which run() turns into      *)
(* close entries), across successive executors on one thread: run() may   *)
(* return, or unwind from a panic, and a later run() on the same thread    *)
(* finds FILES_TO_CLOSE as the last one left it.                           *)
(*                                                                         *)
(* Every future follows one protocol: the first poll queues its entry      *)
(* (io_id = Some), later polls take the result or return Pending.  The     *)
(* kernel is the environment: an openat2 takes any free fd number and a    *)
(* close frees one, so numbers are reused.  How entries travel through     *)
(* the rings is the subject of Executor; here a queued entry of a future   *)
(* is one the kernel will run unless run() unwinds first.  A future may be *)
(* dropped before its first poll; dropping one with an entry in flight is  *)
(* outside the contract (spec, Cancellation).                              *)
(***************************************************************************)
EXTENDS Naturals, Sequences, FiniteSets, SequencesExt

CONSTANTS
  Fds,        \* fd numbers the kernel may hand out (model values)
  Slots,      \* futures the task may hold at once
  MaxOpen,    \* bound on File::open calls
  Droppable,  \* kinds of future the task may drop before polling them
  Crashes     \* whether run() may unwind from a panic

NoFd == "nofd"
Ops  == {"open", "read", "write", "sync", "statx", "close"}
\* The futures that borrow a File (&'file File).
Borrowing == {"read", "write", "sync", "statx"}

ASSUME Droppable \subseteq Ops /\ NoFd \notin Fds /\ Crashes \in BOOLEAN

VARIABLES
  kfd,          \* the kernel's fd table: fd -> "free" or "open"
  files,        \* fds held by a live File value
  futs,         \* slot -> future [op, fd, io], or NoFut
  toClose,      \* FILES_TO_CLOSE
  closeQueued,  \* close entries in io_queue or the unsubmitted ring
  closing,      \* close entries submitted to the kernel
  opened,       \* File::open calls so far
  running,      \* an executor's run() is on the thread
  lost          \* fds left open with no holder: by a panic, or by dropping
                \* a Close future before its first poll (history)

vars == <<kfd, files, futs, toClose, closeQueued, closing, opened, running, lost>>

NoFut == [op |-> "none", fd |-> NoFd, io |-> "none"]
Fut(op, fd) == [op |-> op, fd |-> fd, io |-> "none"]

FreeSlot(s) == futs[s] = NoFut
\* No future holds a borrow of the File with fd f.
Unborrowed(f) == \A s \in Slots : ~(futs[s].op \in Borrowing /\ futs[s].fd = f)

Init ==
  /\ kfd = [f \in Fds |-> "free"]
  /\ files = {}
  /\ futs = [s \in Slots |-> NoFut]
  /\ toClose = <<>>
  /\ closeQueued = {}
  /\ closing = {}
  /\ opened = 0
  /\ running = TRUE
  /\ lost = {}

-----------------------------------------------------------------------------
(* Constructors, fs/file.rs:317-367: a future with io_id None, created by  *)
(* a task of the running executor.                                         *)

\* File::open, 318-328.
CallOpen(s) ==
  /\ running /\ FreeSlot(s) /\ opened < MaxOpen
  /\ futs' = [futs EXCEPT ![s] = Fut("open", NoFd)]
  /\ opened' = opened + 1
  /\ UNCHANGED <<kfd, files, toClose, closeQueued, closing, running, lost>>

\* File::read, write and sync_all, 330-353: a future borrowing the File.
CallBorrow(s, f, op) ==
  /\ running /\ FreeSlot(s) /\ f \in files
  /\ futs' = [futs EXCEPT ![s] = Fut(op, f)]
  /\ UNCHANGED <<kfd, files, toClose, closeQueued, closing, opened, running, lost>>

\* File::statx, 361-367, which File::file_size (369-372) awaits.
CallStatx(s, f) == CallBorrow(s, f, "statx")

\* Mutation: close() lets the File drop instead of forgetting it.
CallCloseWithoutForget(s, f) ==
  /\ running /\ FreeSlot(s) /\ f \in files /\ Unborrowed(f)
  /\ files' = files \ {f}
  /\ futs' = [futs EXCEPT ![s] = Fut("close", f)]
  /\ toClose' = Append(toClose, f)
  /\ UNCHANGED <<kfd, closeQueued, closing, opened, running, lost>>

\* File::close, 355-359: takes the File by value (so no borrow is left),
\* forgets it so that Drop does not run, and returns a Close future.
CallClose(s, f) ==
  /\ running /\ FreeSlot(s) /\ f \in files /\ Unborrowed(f)
  /\ files' = files \ {f}
  /\ futs' = [futs EXCEPT ![s] = Fut("close", f)]
  /\ UNCHANGED <<kfd, toClose, closeQueued, closing, opened, running, lost>>

\* Drop for File, 375-381, inside or outside an executor.
DropFile(f) ==
  /\ f \in files /\ Unborrowed(f)
  /\ files' = files \ {f}
  /\ toClose' = Append(toClose, f)
  /\ UNCHANGED <<kfd, futs, closeQueued, closing, opened, running, lost>>

-----------------------------------------------------------------------------
(* Future::poll of the six futures.  Each matches on io_id: None queues  *)
(* its entry with queue_io and returns Pending; Some takes the result with *)
(* take_io_result, returning Pending while it is absent (a stutter here)   *)
(* and resolving once it is there.  The futures differ only in what the    *)
(* resolution does with the result.                                        *)

\* io_id None: queue_io, then Pending.  (Read and Write first convert the
\* buffer length to u32 with unwrap: a panic there is a RunCrash.)
QueueEntry(s) ==
  /\ futs[s].io = "none"
  /\ futs' = [futs EXCEPT ![s].io = "queued"]
  /\ UNCHANGED files

\* io_id Some and take_io_result returned the result: Ready, future gone.
TakeResult(s) ==
  /\ futs[s].io = "done"
  /\ futs' = [futs EXCEPT ![s] = NoFut]

\* The poll of a future whose result carries no fd (Close, Read, Write,
\* Statx, SyncAll): Ok or Err, nothing else changes.
PollIo(s, op) ==
  /\ futs[s].op = op
  /\ QueueEntry(s) \/ (TakeResult(s) /\ UNCHANGED files)
  /\ UNCHANGED <<kfd, toClose, closeQueued, closing, opened, running, lost>>

\* Mutation: Open::poll wraps a negative result (an errno) in a File.
PollOpenIgnoringError(s) ==
  /\ futs[s].op = "open"
  /\ \/ QueueEntry(s)
     \/ /\ TakeResult(s)
        /\ files' = files \cup {futs[s].fd}
  /\ UNCHANGED <<kfd, toClose, closeQueued, closing, opened, running, lost>>

\* Open::poll, 65-105: a non-negative result is the fd of a new File.
PollOpen(s) ==
  /\ futs[s].op = "open"
  /\ \/ QueueEntry(s)
     \/ /\ TakeResult(s)
        /\ files' = IF futs[s].fd # NoFd THEN files \cup {futs[s].fd} ELSE files
  /\ UNCHANGED <<kfd, toClose, closeQueued, closing, opened, running, lost>>

\* Close::poll, 25-55.
PollClose(s) == PollIo(s, "close")

\* Read::poll, 114-153.
PollRead(s) == PollIo(s, "read")

\* Write::poll, 162-201.
PollWrite(s) == PollIo(s, "write")

\* Statx::poll, 217-256.
PollStatx(s) == PollIo(s, "statx")

\* SyncAll::poll, 263-293.
PollSyncAll(s) == PollIo(s, "sync")

PollFuture(s) ==
  \/ PollOpen(s) \/ PollClose(s) \/ PollRead(s) \/ PollWrite(s)
  \/ PollStatx(s) \/ PollSyncAll(s)

\* The task drops a future it has not polled yet.  Close has no Drop: the
\* File was forgotten by close() (355-359), so its fd is left open with
\* no holder.
DropFuture(s) ==
  /\ futs[s].op \in Droppable /\ futs[s].io = "none"
  /\ futs' = [futs EXCEPT ![s] = NoFut]
  /\ lost' = IF futs[s].op = "close" THEN lost \cup {futs[s].fd} ELSE lost
  /\ UNCHANGED <<kfd, files, toClose, closeQueued, closing, opened, running>>

-----------------------------------------------------------------------------
(* The deferred closes of run(), executor.rs: FILES_TO_CLOSE becomes close *)
(* entries of io_queue (362-370), which a later submit (340) hands to the  *)
(* kernel.                                                                 *)

\* Mutation: only the first fd of FILES_TO_CLOSE is queued, the rest are
\* cleared with it.
DeferredCloseQueueHeadOnly ==
  /\ running /\ toClose # <<>>
  /\ closeQueued' = closeQueued \cup {Head(toClose)}
  /\ toClose' = <<>>
  /\ UNCHANGED <<kfd, files, futs, closing, opened, running, lost>>

DeferredCloseQueue ==
  /\ running /\ toClose # <<>>
  /\ closeQueued' = closeQueued \cup ToSet(toClose)
  /\ toClose' = <<>>
  /\ UNCHANGED <<kfd, files, futs, closing, opened, running, lost>>

\* A submit hands the kernel some of the queued closes: try_submit_io
\* stops at a full ring that answers EBUSY and leaves the rest queued for a
\* later iteration (executor.rs:404-429).  Which ones is left open; the
\* code submits a prefix of io_queue.
DeferredCloseSubmit ==
  /\ running
  /\ \E sent \in SUBSET closeQueued \ {{}} :
       /\ closing' = closing \cup sent
       /\ closeQueued' = closeQueued \ sent
  /\ UNCHANGED <<kfd, files, futs, toClose, opened, running, lost>>

\* run() returns, executor.rs:243 and 375: the root is done (its futures
\* are gone), FILES_TO_CLOSE is empty and no close is pending.  Files the
\* root returned stay alive.
RunReturn ==
  /\ running
  /\ \A s \in Slots : FreeSlot(s)
  /\ toClose = <<>> /\ closeQueued = {} /\ closing = {}
  /\ running' = FALSE
  /\ UNCHANGED <<kfd, files, futs, toClose, closeQueued, closing, opened, lost>>

\* The fds that dropping the futures loses when the entries of the futures
\* in ran reached the kernel: an Open's fd not yet returned as a File, and
\* the fd of a Close whose entry did not run.
CrashDropped(ran) ==
  {futs[s].fd : s \in {s \in Slots :
     \/ futs[s].op = "open" /\ futs[s].fd # NoFd
     \/ futs[s].op = "close" /\ futs[s].io # "done"
                           /\ ~(s \in ran /\ futs[s].io = "queued")}}

\* run() unwinds from a panic (a poll, a failed submit, a failed unwrap or
\* checked_sub; the TODO at executor.rs:179-181).  Its locals are dropped
\* in reverse order of declaration: io_queue, with the close entries not
\* yet submitted, which never run; the task slab, whose futures go and
\* whose Files are dropped onto FILES_TO_CLOSE; then the rings.  An entry
\* of a future that reached the kernel still runs: a Close's fd is freed or
\* not, as it got there (ran) or not.  Files held outside run() (kept)
\* survive.
RunCrash ==
  /\ Crashes /\ running
  /\ running' = FALSE
  /\ \E kept \in SUBSET files, ran \in SUBSET Slots :
       /\ files' = kept
       /\ \E order \in SetToSeqs(files \ kept) : toClose' = toClose \o order
       /\ kfd' = [f \in Fds |->
                    IF \E s \in ran : futs[s].op = "close" /\ futs[s].io = "queued"
                                      /\ futs[s].fd = f
                    THEN "free" ELSE kfd[f]]
       /\ lost' = lost \cup closeQueued \cup CrashDropped(ran)
  /\ futs' = [s \in Slots |-> NoFut]
  /\ closeQueued' = {}
  /\ UNCHANGED <<closing, opened>>

\* A new executor starts on the thread.
RunStart ==
  /\ ~running
  /\ running' = TRUE
  /\ UNCHANGED <<kfd, files, futs, toClose, closeQueued, closing, opened, lost>>

-----------------------------------------------------------------------------
(* The kernel.                                                             *)

\* openat2 succeeds with a free fd number, or fails.
KernelOpen(s) ==
  /\ futs[s].op = "open" /\ futs[s].io = "queued"
  /\ \/ \E f \in Fds :
          /\ kfd[f] = "free"
          /\ kfd' = [kfd EXCEPT ![f] = "open"]
          /\ futs' = [futs EXCEPT ![s].io = "done", ![s].fd = f]
     \/ /\ futs' = [futs EXCEPT ![s].io = "done"]
        /\ UNCHANGED kfd
  /\ UNCHANGED <<files, toClose, closeQueued, closing, opened, running, lost>>

\* A close entry of a Close future frees its fd.
KernelClose(s) ==
  /\ futs[s].op = "close" /\ futs[s].io = "queued"
  /\ kfd' = [kfd EXCEPT ![futs[s].fd] = "free"]
  /\ futs' = [futs EXCEPT ![s].io = "done"]
  /\ UNCHANGED <<files, toClose, closeQueued, closing, opened, running, lost>>

\* read, write, fsync or statx on the borrowed fd.
KernelOther(s) ==
  /\ futs[s].op \in Borrowing /\ futs[s].io = "queued"
  /\ futs' = [futs EXCEPT ![s].io = "done"]
  /\ UNCHANGED <<kfd, files, toClose, closeQueued, closing, opened, running, lost>>

\* A submitted deferred close frees its fd (also after the ring is gone).
KernelDeferredClose(f) ==
  /\ f \in closing
  /\ kfd' = [kfd EXCEPT ![f] = "free"]
  /\ closing' = closing \ {f}
  /\ UNCHANGED <<files, futs, toClose, closeQueued, opened, running, lost>>

-----------------------------------------------------------------------------
TaskStep ==
  \/ \E s \in Slots :
       \/ CallOpen(s) \/ DropFuture(s)
       \/ \E f \in Fds : \/ CallClose(s, f) \/ CallStatx(s, f)
                         \/ \E op \in Borrowing \ {"statx"} : CallBorrow(s, f, op)
  \/ \E f \in Fds : DropFile(f)

\* Steps of a future that is being awaited, and of the kernel.
Progress(s) == PollFuture(s) \/ KernelOpen(s) \/ KernelClose(s) \/ KernelOther(s)

Next ==
  \/ TaskStep
  \/ \E s \in Slots : Progress(s)
  \/ DeferredCloseQueue \/ DeferredCloseSubmit
  \/ \E f \in Fds : KernelDeferredClose(f)
  \/ RunReturn \/ RunCrash \/ RunStart

\* A future the task keeps is awaited, and is polled again once its entry
\* completes (Executor, NoLostWakeup); the kernel completes every entry;
\* run() keeps looping while FILES_TO_CLOSE or a close is pending.  Nothing
\* makes a new executor start.
Fairness ==
  /\ \A s \in Slots : WF_vars(Progress(s))
  /\ WF_vars(DeferredCloseQueue) /\ WF_vars(DeferredCloseSubmit)
  /\ \A f \in Fds : WF_vars(KernelDeferredClose(f))

Spec == Init /\ [][Next]_vars /\ Fairness

-----------------------------------------------------------------------------
(* Properties.                                                             *)

\* Executors keep being started on the thread and, from some point on, none
\* of them panics: the condition under which the TODO at executor.rs:179-181
\* expects FILES_TO_CLOSE to be cleaned up.  (An executor whose root panics
\* at its first poll never reaches the deferred closes at all.)
ExecutorsKeepRunning == []<>running /\ <>[][~RunCrash]_vars

TypeOK ==
  /\ kfd \in [Fds -> {"free", "open"}]
  /\ files \subseteq Fds
  /\ futs \in [Slots -> [op : Ops \cup {"none"}, fd : Fds \cup {NoFd},
                          io : {"none", "queued", "done"}]]
  /\ toClose \in Seq(Fds) /\ closeQueued \subseteq Fds /\ closing \subseteq Fds
  /\ opened \in 0..MaxOpen /\ running \in BOOLEAN /\ lost \subseteq Fds

\* The holders of fd number f besides the kernel: a live File, a Close
\* future whose entry has not completed, an Open future that has its fd
\* but has not returned the File yet, an entry of FILES_TO_CLOSE, a
\* deferred close queued or in flight.
Holders(f) ==
  (IF f \in files THEN 1 ELSE 0)
  + Cardinality({s \in Slots : /\ futs[s].fd = f
                                /\ \/ futs[s].op = "close" /\ futs[s].io # "done"
                                   \/ futs[s].op = "open"})
  + Cardinality({i \in DOMAIN toClose : toClose[i] = f})
  + (IF f \in closeQueued THEN 1 ELSE 0)
  + (IF f \in closing THEN 1 ELSE 0)

\* No fd number ever has two holders, and nothing holds a number the
\* kernel has freed, across File::close, Drop, dropped futures, deferred
\* closes, panics and restarts.  A second holder, or a holder of a freed
\* number, is a close waiting to happen that, once the kernel reuses the
\* number for another File, closes that File's fd.
FdOwnedOnce ==
  \A f \in Fds : Holders(f) <= 1 /\ (Holders(f) = 1 => kfd[f] = "open")

\* No fd leaks as long as executors keep running on the thread (the claim
\* of the TODO at executor.rs:179-181), apart from the fds recorded in
\* lost (close entries a panic dropped, Close futures dropped unpolled):
\* an fd the kernel has open and no File holds (an Open result, an awaited
\* Close future, FILES_TO_CLOSE, a deferred close) is eventually held by a
\* File again, closed, or lost.
NoFdLeak ==
  ExecutorsKeepRunning =>
    \A f \in Fds : (kfd[f] = "open" /\ f \notin files \cup lost)
                      ~> (f \in files \/ kfd[f] = "free" \/ f \in lost)

\* The claim of the TODO at executor.rs:179-181 about FILES_TO_CLOSE: an fd
\* dropped onto it, and so taken by run() for a deferred close, is closed
\* eventually, by this executor or, after a panic, by the next one that
\* runs on the thread.
DroppedFileEventuallyClosed ==
  ExecutorsKeepRunning =>
    \A f \in Fds : (f \in ToSet(toClose) \cup closeQueued) ~> kfd[f] = "free"

====
