---------------------------- MODULE MCExecutor ----------------------------
(* Bounds for checking Executor with TLC.                                  *)
EXTENDS ExecutorDeferredClose

CONSTANTS f1, f2

MCFds == {f1}
====
