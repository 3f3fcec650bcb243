----------------------------- MODULE AtomicFile -----------------------------
(***************************************************************************)
(* What the callers of the host's atomic write rely on: the file they name *)
(* goes from one whole text to another in a single step, and only to a     *)
(* text some caller asked for.                                             *)
(***************************************************************************)
CONSTANTS Text, Absent

VARIABLES content,  \* what a reader of the path finds
          wanted    \* texts of the calls under way

AInit == content \in Text \cup {Absent} /\ wanted = {}

\* A call takes effect; it may return in the same step.
Replace ==
    /\ content' \in wanted
    /\ wanted' \subseteq wanted

\* Calls start, and return without effect.
Calls ==
    /\ wanted' \subseteq Text
    /\ UNCHANGED content

ASpec == AInit /\ [][Replace \/ Calls]_<<content, wanted>>
=============================================================================
