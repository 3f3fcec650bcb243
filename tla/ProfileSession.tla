--------------------------- MODULE ProfileSession ---------------------------
(***************************************************************************)
(* A profile editing session of tui/model_adapter_v2.c: an in-memory       *)
(* transaction of edits over the leaf profile file, previewed by a full    *)
(* resolve, saved in several steps, while other programs may write the     *)
(* same file.                                                              *)
(*                                                                         *)
(* The resolver is abstracted to what it decides for this code: which      *)
(* requested values it accepts (Valid: evaluation, constraints and         *)
(* artifact serialization) and which options may then be edited (Editable: *)
(* available, visible and in the profile write domain).  The file's write  *)
(* is one step, as HostFile shows it is.  A bool option, which the editor  *)
(* toggles, is modelled as one with two candidates.  Running out of memory *)
(* is not modelled.                                                        *)
(***************************************************************************)
CONSTANTS
    Option, Value,
    Absent,        \* the document does not mention the option
    Unset,         \* the option is in the document's unset list
    Broken,        \* the file is missing or does not parse
    Lower,         \* [Option -> Value or Unset]: defaults, target, base profiles
    Valid(_),      \* does a full resolve of these requested values succeed?
    Editable(_)    \* options the snapshot lets the user edit

Document == [Option -> Value \cup {Absent, Unset}]
Requests == [Option -> Value \cup {Unset}]

ASSUME MarkerAssumption == /\ {Absent, Unset} \cap Value = {}
                           /\ Absent # Unset
                           /\ Broken \notin Document
ASSUME LowerAssumption == Lower \in Requests
ASSUME EditableAssumption == \A r \in Requests : Editable(r) \subseteq Option

VARIABLES
    file,      \* the leaf profile file
    edits,     \* [Option -> Value or Absent], the transaction
    snapshot,  \* requested values of the published snapshot
    dirty,
    pc,        \* "closed", "idle", or a step of save
    via,       \* the key that started the save, then how it or the session ended
    full,      \* the save's full_snapshot
    document,  \* the save's document
    quiet      \* history: nobody else wrote the file since the save began

vars == <<file, edits, snapshot, dirty, pc, via, full, document, quiet>>

NoEdits == [o \in Option |-> Absent]

\* What the ledger requests: the overlay above the leaf document above the rest.
Overlay(doc, over) ==
    [o \in Option |-> IF over[o] # Absent THEN over[o]
                      ELSE IF doc[o] # Absent THEN doc[o] ELSE Lower[o]]

\* confit_tui_v2_preview re-reads the file and resolves it under the edits.
Accepts(over) == file # Broken /\ Valid(Overlay(file, over))

Init ==
    /\ file \in Document \cup {Broken}
    /\ edits = NoEdits
    /\ snapshot = Lower
    /\ dirty = FALSE
    /\ pc = "closed"
    /\ via = "none"
    /\ full = Lower
    /\ document = Broken
    /\ quiet = TRUE

Close(reason) ==
    /\ pc' = "closed"
    /\ via' = reason
    /\ edits' = NoEdits
    /\ dirty' = FALSE

\* A session starts only if the profile on disk resolves.
Start ==
    /\ pc = "closed"
    /\ Accepts(NoEdits)
    /\ snapshot' = Overlay(file, NoEdits)
    /\ pc' = "idle"
    /\ via' = "none"
    /\ UNCHANGED <<file, edits, dirty, full, document, quiet>>

\* Mutant of Edit: the edit joins the transaction before it is validated.
EditFirst(o, v) ==
    /\ pc = "idle"
    /\ o \in Editable(snapshot)
    /\ edits' = [edits EXCEPT ![o] = v]
    /\ dirty' = TRUE
    /\ snapshot' = IF Accepts(edits') THEN Overlay(file, edits') ELSE snapshot
    /\ UNCHANGED <<file, pc, via, full, document, quiet>>

\* prompt_edit and apply_edit; an edit the preview refuses changes nothing.
Edit(o, v) ==
    LET over == [edits EXCEPT ![o] = v] IN
    /\ pc = "idle"
    /\ o \in Editable(snapshot)
    /\ Accepts(over)
    /\ edits' = over
    /\ snapshot' = Overlay(file, over)
    /\ dirty' = TRUE
    /\ UNCHANGED <<file, pc, via, full, document, quiet>>

\* The s key saves whether or not there are edits.
PressSave ==
    /\ pc = "idle"
    /\ pc' = "preview"
    /\ via' = "s"
    /\ quiet' = TRUE
    /\ UNCHANGED <<file, edits, snapshot, dirty, full, document>>

\* request_exit, called for Esc, for q and for the command :quit.
RequestExit(key) ==
    /\ pc = "idle"
    /\ \/ ~dirty /\ Close("clean") /\ UNCHANGED quiet
       \/ dirty /\ Close("discard") /\ UNCHANGED quiet
       \/ /\ dirty
          /\ pc' = "preview"
          /\ via' = key
          /\ quiet' = TRUE
          /\ UNCHANGED <<edits, dirty>>
    /\ UNCHANGED <<file, snapshot, full, document>>

\* The locals of save are gone once it returns.
Forget == full' = Lower /\ document' = Broken

\* A step of save fails.  run_loop shows the error of the s key and of :quit
\* in the status row, but returns the error of Esc and q to its caller.
SaveFails ==
    /\ IF via = "esc"
       THEN Close("error")
       ELSE /\ pc' = "idle"
            /\ via' = "error"
            /\ UNCHANGED <<edits, dirty>>
    /\ Forget
    /\ UNCHANGED <<file, snapshot, quiet>>

\* Mutant of SavePreview: the save trusts the snapshot it already shows.
SavePreviewShown ==
    /\ pc = "preview"
    /\ full' = snapshot
    /\ pc' = "load"
    /\ UNCHANGED <<file, edits, snapshot, dirty, via, document, quiet>>

\* The transaction is resolved in full; reading the catalogs may fail.
SavePreview ==
    /\ pc = "preview"
    /\ \/ SaveFails
       \/ /\ Accepts(edits)
          /\ full' = Overlay(file, edits)
          /\ pc' = "load"
          /\ UNCHANGED <<file, edits, snapshot, dirty, via, document, quiet>>

\* load_profile_document reads the leaf file once more.
SaveLoad ==
    /\ pc = "load"
    /\ \/ SaveFails
       \/ /\ file # Broken
          /\ document' = file
          /\ pc' = "write"
          /\ UNCHANGED <<file, edits, snapshot, dirty, via, full, quiet>>

\* Mutant of Built: unedited ids are written as the snapshot resolved them.
BuiltFull == snapshot

\* build_profile_toml: an edited id gets the value the published snapshot
\* requests for it and leaves the unset list, the others stay as they were.
Built == [o \in Option |-> IF edits[o] # Absent THEN snapshot[o] ELSE document[o]]

\* "transaction preview lost profile assignment"
LostAssignment == \E o \in Option : edits[o] # Absent /\ snapshot[o] = Unset

\* The session shows what it validated, and an exit that saved leaves.
Commit ==
    /\ snapshot' = full
    /\ Forget
    /\ IF via = "s"
       THEN /\ pc' = "idle"
            /\ edits' = NoEdits
            /\ dirty' = FALSE
            /\ via' = "saved"
       ELSE Close("saved")

\* The document is built, parsed and written, and then the save commits.
SaveWrite ==
    /\ pc = "write"
    /\ \/ SaveFails
       \/ /\ ~LostAssignment
          /\ file' = Built
          /\ Commit
          /\ UNCHANGED quiet

\* Another editor, a checkout or a second session writes the file.
ExternalWrite ==
    /\ file' \in Document \cup {Broken}
    /\ quiet' = FALSE
    /\ UNCHANGED <<edits, snapshot, dirty, pc, via, full, document>>

Save == SavePreview \/ SaveLoad \/ SaveWrite

Next ==
    \/ Start
    \/ \E o \in Option, v \in Value : Edit(o, v)
    \/ PressSave
    \/ \E key \in {"esc", "quit"} : RequestExit(key)
    \/ Save
    \/ ExternalWrite

Spec == Init /\ [][Next]_vars /\ WF_vars(Save)
-----------------------------------------------------------------------------
\* The values the variables range over; the session is dirty exactly when its
\* transaction has edits, so no exit skips the question and none asks it idly.
TypeOK ==
    /\ file \in Document \cup {Broken}
    /\ edits \in [Option -> Value \cup {Absent}]
    /\ snapshot \in Requests
    /\ full \in Requests
    /\ dirty \in BOOLEAN
    /\ pc \in {"closed", "idle", "preview", "load", "write"}
    /\ document \in Document \cup {Broken}
    /\ dirty <=> edits # NoEdits

\* While a session is open its snapshot resolved, and requests for every edited
\* option the value the user gave, so that "transaction preview lost profile
\* assignment" is never reported, however often others write the file.
TransactionKept ==
    pc # "closed" =>
        /\ Valid(snapshot)
        /\ \A o \in Option : edits[o] # Absent => snapshot[o] = edits[o]
        /\ ~LostAssignment

Saving == pc \in {"preview", "load", "write"}

Committing == pc = "write" /\ via' = "saved"

\* A save that reports success has put every edit into the file, and unless
\* someone else wrote the file meanwhile, the file now resolves, without any
\* transaction, to the very snapshot the session shows.
SavedAsShown ==
    [][Committing =>
        /\ \A o \in Option : edits[o] # Absent => file'[o] = edits[o]
        /\ quiet => /\ Overlay(file', NoEdits) = snapshot'
                    /\ Valid(Overlay(file', NoEdits))]_vars

UneditedKept == \A o \in Option : edits[o] = Absent => file'[o] = file[o]

\* Saving changes only the ids the transaction edited: every other id keeps
\* what the file said when the save read it, an unset entry included, and a
\* failed step of the save leaves the file alone.
SaveIsSparse ==
    [][Saving /\ file' # file /\ quiet /\ quiet' =>
        /\ Committing
        /\ UneditedKept]_vars

\* docs/tui-v2.md, of the save: only the ids the transaction edited change.
\* Stated of the file as it is when it is replaced.
OnlyEditedChange ==
    [][Committing /\ file # Broken => UneditedKept]_vars

\* docs/tui-v2.md, of the exit: a dirty session asks to save, discard or cancel,
\* and :quit starts the same flow as Esc at the root.  So edits disappear only
\* into the file or because the user discards them.
EditsLostOnlyByChoice ==
    [][pc # "closed" /\ pc' = "closed" /\ dirty => via' \in {"discard", "saved"}]_vars

=============================================================================
