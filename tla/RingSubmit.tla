----------------------------- MODULE RingSubmit -----------------------------
(***************************************************************************)
(* The push loop of try_submit_io, src/io2/src/executor.rs:397-429, as a   *)
(* pure operator over one ring's in-memory queue and its submission queue  *)
(* of RingDepth slots, and the closed form it must agree with.  Executor   *)
(* uses PushLoop for both rings; MCRingSubmit compares the two over every  *)
(* small queue, ring depth and EBUSY answer.                               *)
(***************************************************************************)
EXTENDS Naturals, Sequences, SequencesExt

CONSTANT RingDepth   \* submission queue capacity

ASSUME RingDepth \in Nat \ {0}

\* Mutation: the full test off by one, so an entry is pushed onto a full
\* submission queue.
RECURSIVE PushLoopOffByOne(_, _, _, _, _)
PushLoopOffByOne(q, s, sent, okFull, broke) ==
  IF q = <<>> THEN [q |-> q, s |-> s, sent |-> sent, broke |-> broke]
  ELSE IF Len(s) = RingDepth + 1
       THEN IF okFull = 0
            THEN [q |-> q, s |-> s, sent |-> sent, broke |-> TRUE]
            ELSE PushLoopOffByOne(Tail(q), <<Head(q)>>, sent \cup ToSet(s), okFull - 1, broke)
       ELSE PushLoopOffByOne(Tail(q), Append(s, Head(q)), sent, okFull, broke)

\* The push loop (404-429): entries move from the queue to the submission
\* queue in FIFO order; when it is full it is submitted first.  okFull is how
\* many of those full-ring submits succeed before one answers EBUSY, which
\* breaks the loop with the rest still queued.
RECURSIVE PushLoop(_, _, _, _, _)
PushLoop(q, s, sent, okFull, broke) ==
  IF q = <<>> THEN [q |-> q, s |-> s, sent |-> sent, broke |-> broke]
  ELSE IF Len(s) = RingDepth
       THEN IF okFull = 0
            THEN [q |-> q, s |-> s, sent |-> sent, broke |-> TRUE]
            ELSE PushLoop(Tail(q), <<Head(q)>>, sent \cup ToSet(s), okFull - 1, broke)
       ELSE PushLoop(Tail(q), Append(s, Head(q)), sent, okFull, broke)

-----------------------------------------------------------------------------
(* The reference: the entries pushed (sq, then the queue in order) leave in *)
(* batches of RingDepth, one batch for each time the submission queue is   *)
(* full while entries remain; the okFull-th + 1 such submit answers EBUSY  *)
(* and stops the loop with the next batch pushed and the rest queued.      *)

\* How many times the submission queue is full with entries still queued.
FullSubmits(q, s) ==
  IF Len(s \o q) <= RingDepth THEN 0 ELSE (Len(s \o q) - 1) \div RingDepth

PushLoopSpec(q, s, okFull) ==
  LET all == s \o q
      n   == IF okFull >= FullSubmits(q, s) THEN FullSubmits(q, s) ELSE okFull
      cut == IF okFull >= FullSubmits(q, s) THEN Len(all) ELSE (n + 1) * RingDepth
  IN [q     |-> SubSeq(all, cut + 1, Len(all)),
      s     |-> SubSeq(all, n * RingDepth + 1, cut),
      sent  |-> ToSet(SubSeq(all, 1, n * RingDepth)),
      broke |-> okFull < FullSubmits(q, s)]

====
