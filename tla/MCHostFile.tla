----------------------------- MODULE MCHostFile -----------------------------
(***************************************************************************)
(* Two inodes are enough for one writer (the published file and the        *)
(* temporary one), two writers can hold three.                             *)
(***************************************************************************)
EXTENDS HostFile

CONSTANTS p1, p2, t1, t2

OneProcess == {p1}
TwoProcesses == {p1, p2}
Texts == {t1, t2}
Inodes == 1..3
=============================================================================
