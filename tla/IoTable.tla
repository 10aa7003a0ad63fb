------------------------------ MODULE IoTable ------------------------------
(***************************************************************************)
(* What the executor promises about I/O records (spec section "I/O        *)
(* record"): a record is created when the task being polled queues an      *)
(* intent, gets its result at most once and only after it was created, and *)
(* is destroyed when its owning task, polling, consumes the result.        *)
(* Nothing here says how entries travel through the rings; Executor is     *)
(* shown to implement this module by ExecutorIoTable.                      *)
(***************************************************************************)
CONSTANTS
  Ios,      \* io ids
  Owners,   \* task ids
  NoOwner   \* no task is being polled / the id was never issued

VARIABLES
  state,    \* io id -> "free", "issued", "done" or "taken"
  owner,    \* io id -> the task that issued it
  poller    \* the task being polled, or NoOwner

vars == <<state, owner, poller>>

Init ==
  /\ state = [i \in Ios |-> "free"]
  /\ owner = [i \in Ios |-> NoOwner]
  /\ poller = NoOwner

\* queue_io (executor.rs:107-125): the polled task creates a record.
Issue(i) ==
  /\ poller # NoOwner
  /\ state[i] = "free"
  /\ state' = [state EXCEPT ![i] = "issued"]
  /\ owner' = [owner EXCEPT ![i] = poller]
  /\ UNCHANGED poller

\* The completion drain (executor.rs:343-357): results of some issued
\* records are stored at once.
Complete(S) ==
  /\ S # {}
  /\ \A i \in S : state[i] = "issued"
  /\ state' = [i \in Ios |-> IF i \in S THEN "done" ELSE state[i]]
  /\ UNCHANGED <<owner, poller>>

\* take_io_result (executor.rs:63-73) by the owning task, while polled.
Take(i) ==
  /\ state[i] = "done"
  /\ owner[i] = poller
  /\ state' = [state EXCEPT ![i] = "taken"]
  /\ UNCHANGED <<owner, poller>>

\* The context slot is installed or cleared.
Switch ==
  /\ poller' \in Owners \cup {NoOwner}
  /\ UNCHANGED <<state, owner>>

Next ==
  \/ \E i \in Ios : Issue(i) \/ Take(i)
  \/ \E S \in SUBSET Ios : Complete(S)
  \/ Switch

Spec == Init /\ [][Next]_vars

====
