--------------------------- MODULE DeferredClose ---------------------------
(***************************************************************************)
(* What the deferred close path of run() promises for the fds of dropped   *)
(* Files (executor.rs:18-19, 340-372; fs/file.rs:375-381).  An fd is held  *)
(* by a File, then waits on FILES_TO_CLOSE, then is a close entry queued   *)
(* on io_queue, then is in the kernel, then is closed.  Every step moves   *)
(* an fd one place along that path, and an fd is in one place at a time:   *)
(* no close is queued twice and none is issued for an fd still held.      *)
(***************************************************************************)
CONSTANT Fds

VARIABLE fstate   \* fd -> where it is on the close path

Places == {"held", "toClose", "queued", "closing", "closed"}

\* Drop for File: the fd is pushed on FILES_TO_CLOSE.
Drop(f) ==
  /\ fstate[f] = "held"
  /\ fstate' = [fstate EXCEPT ![f] = "toClose"]

\* The end of an iteration: every fd on FILES_TO_CLOSE becomes a close
\* entry, and the list is cleared.
QueueAll ==
  /\ \E f \in Fds : fstate[f] = "toClose"
  /\ fstate' = [f \in Fds |-> IF fstate[f] = "toClose" THEN "queued" ELSE fstate[f]]

\* A submit hands some queued closes to the kernel.
Submit(sent) ==
  /\ sent # {}
  /\ \A f \in sent : fstate[f] = "queued"
  /\ fstate' = [f \in Fds |-> IF f \in sent THEN "closing" ELSE fstate[f]]

\* The kernel closes the fd.
Close(f) ==
  /\ fstate[f] = "closing"
  /\ fstate' = [fstate EXCEPT ![f] = "closed"]

Init == fstate = [f \in Fds |-> "held"]

Next ==
  \/ \E f \in Fds : Drop(f) \/ Close(f)
  \/ QueueAll
  \/ \E sent \in SUBSET Fds : Submit(sent)

Spec == Init /\ [][Next]_fstate

=============================================================================
