---------------------------- MODULE MCRingSubmit ----------------------------
(* PushLoop against PushLoopSpec for every ring depth up to MaxDepth, every *)
(* submission queue that fits the ring, every queue of up to MaxQueue       *)
(* entries and every number of full-ring submits before an EBUSY.  Entries  *)
(* are distinct numbers, so a lost, repeated or reordered entry shows.      *)
EXTENDS Naturals, Sequences

CONSTANTS MaxDepth, MaxQueue

VARIABLES depth, nPushed, nQueued, okFull

vars == <<depth, nPushed, nQueued, okFull>>

R(d) == INSTANCE RingSubmit WITH RingDepth <- d

\* sq holds entries 1..nPushed, the queue nPushed+1..nPushed+nQueued.
Sq    == [i \in 1..nPushed |-> i]
Queue == [i \in 1..nQueued |-> nPushed + i]

Init ==
  /\ depth \in 1..MaxDepth
  /\ nPushed \in 0..depth
  /\ nQueued \in 0..MaxQueue
  /\ okFull \in 0..MaxQueue

\* Any call may follow any other: try_submit_io keeps no state of its own.
Next ==
  /\ depth' \in 1..MaxDepth
  /\ nPushed' \in 0..depth'
  /\ nQueued' \in 0..MaxQueue
  /\ okFull' \in 0..MaxQueue

Spec == Init /\ [][Next]_vars

Result == R(depth)!PushLoop(Queue, Sq, {}, okFull, FALSE)

\* try_submit_io's push loop keeps FIFO order and loses or repeats no entry
\* under any pattern of EBUSY answers: it equals the closed form.
PushLoopMeetsSpec ==
  Result = R(depth)!PushLoopSpec(Queue, Sq, okFull)
====
