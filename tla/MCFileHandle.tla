---------------------------- MODULE MCFileHandle ----------------------------
(* Bounds for checking FileHandle with TLC: two fd numbers, so the kernel   *)
(* reuses a freed number; two futures at once, so a File can be borrowed   *)
(* while another future is pending.                                        *)
EXTENDS FileHandle

CONSTANTS fa, fb, s1, s2

MCFds   == {fa, fb}
MCSlots == {s1, s2}
====
