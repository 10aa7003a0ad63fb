---------------------------- MODULE MCLocalAlloc ----------------------------
(* Bounds for checking LocalAlloc with TLC.  ALIGN is 4 and requests are 1 *)
(* to 3 bytes aligned to 1 or 2, so both the aligned split and the         *)
(* coalescing on either side of a block happen, and a 3-byte request maps  *)
(* a page of 6 bytes (4.next_multiple_of(3)).  alloc_blocks allows two      *)
(* pages so that allocate scans past a full page.                          *)
EXTENDS LocalAlloc
====
