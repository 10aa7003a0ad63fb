--------------------------- MODULE ExecutorIoTable ---------------------------
(***************************************************************************)
(* Executor implements IoTable.  The refinement mapping reads an io id's   *)
(* abstract state off the io slab (io), io_results (results) and the next  *)
(* slab key (nextIo); the ring entries, counters and the ready set are     *)
(* internal to the implementation and map to nothing.                      *)
(***************************************************************************)
EXTENDS Executor

\* An id not yet handed out is free; one with a stored result is done; one
\* whose record is live is issued; one whose record was removed is taken.
IoState(i) ==
  CASE i >= nextIo  -> "free"
    [] i \in results -> "done"
    [] i \in io      -> "issued"
    [] OTHER         -> "taken"

AbstractOwner(i) == IF i < nextIo THEN owner[i] ELSE NoTask

IT == INSTANCE IoTable WITH
        Ios <- IoIds, Owners <- Tasks, NoOwner <- NoTask,
        state <- [i \in IoIds |-> IoState(i)],
        owner <- [i \in IoIds |-> AbstractOwner(i)],
        poller <- cur

\* Every behaviour of run() is a behaviour of IoTable: queue_io, the
\* completion drain and take_io_result create, complete and consume io
\* records in the order IoTable allows, each result is stored once, and
\* only the task that queued an io consumes its result.
IoTableRefined == IT!Spec

====
