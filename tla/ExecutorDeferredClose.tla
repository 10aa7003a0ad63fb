------------------------ MODULE ExecutorDeferredClose ------------------------
(***************************************************************************)
(* Executor implements DeferredClose.  An fd's place on the close path is  *)
(* read off FILES_TO_CLOSE (filesToClose), the close entries in io_queue   *)
(* and the submission queue, the kernel's in-flight set, and the posted or *)
(* drained completions.  An fd found in two of these places at once maps   *)
(* to no abstract state, so a duplicated or re-queued close is a step      *)
(* DeferredClose does not allow.                                           *)
(***************************************************************************)
EXTENDS ExecutorIoTable

\* How many times fd f appears on the close path of run().
Copies(f) ==
  Len(SelectSeq(filesToClose \o queue["buf"] \o sq["buf"], LAMBDA e : e = f))
    + (IF f \in kern["buf"] THEN 1 ELSE 0)
    + (IF f \in cq["buf"] THEN 1 ELSE 0)
    + (IF f \in closed THEN 1 ELSE 0)

FdPlace(f) ==
  CASE Copies(f) > 1                           -> "duplicated"
    [] f \in cq["buf"] \cup closed               -> "closed"
    [] f \in kern["buf"]                         -> "closing"
    [] f \in ToSet(queue["buf"] \o sq["buf"])   -> "queued"
    [] f \in ToSet(filesToClose)                 -> "toClose"
    [] OTHER                                     -> "held"

DC == INSTANCE DeferredClose WITH fstate <- [f \in Fds |-> FdPlace(f)]

\* Every behaviour of run() moves the fds of dropped Files along the close
\* path in DeferredClose's order: queued only after the drop, handed to
\* the kernel only after being queued, closed once, and never queued or
\* closed a second time.
DeferredCloseRefined == DC!Spec

====
