-------------------------- MODULE MCProfileSession --------------------------
(***************************************************************************)
(* Two options with two values: b may be on only while a is, and is hidden *)
(* while a is off, so edits depend on each other and on the file.          *)
(***************************************************************************)
EXTENDS ProfileSession

CONSTANTS a, b, on, off

Options == {a, b}
Values == {on, off}
LowerValues == [o \in Options |-> IF o = a THEN off ELSE Unset]
Accepted(r) == r[b] = on => r[a] = on
Open(r) == IF r[a] = on THEN {a, b} ELSE {a}
=============================================================================
