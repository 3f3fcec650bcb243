------------------------ MODULE ProfileSessionProofs ------------------------
(***************************************************************************)
(* For every set of options and values, every resolver and every pattern   *)
(* of foreign writes: the transaction of a session is kept, and a save     *)
(* that reports success wrote what the session shows.                      *)
(***************************************************************************)
EXTENDS ProfileSession, TLAPS

\* What each step of a save may still rely on from the steps before it.
SaveInvariant ==
    /\ pc \in {"load", "write"} => /\ Valid(full)
                                   /\ quiet => file # Broken
                                   /\ quiet => full = Overlay(file, edits)
    /\ pc = "write" => /\ document \in Document
                       /\ quiet => document = file
    /\ pc = "closed" => edits = NoEdits
    /\ pc \in {"preview", "load", "write"} => via \in {"s", "esc", "quit"}

IInv == TypeOK /\ TransactionKept /\ SaveInvariant

\* Overlaying a document with a transaction gives requested values.
LEMMA OverlayType ==
    ASSUME NEW doc \in Document, NEW over \in [Option -> Value \cup {Absent}]
    PROVE  Overlay(doc, over) \in Requests
BY LowerAssumption DEF Overlay, Document, Requests

\* Every edit is requested with its own value, and none of them reads as unset.
LEMMA OverlayKeepsEdits ==
    ASSUME NEW doc \in Document, NEW over \in [Option -> Value \cup {Absent}],
           NEW o \in Option, over[o] # Absent
    PROVE  Overlay(doc, over)[o] = over[o] /\ Overlay(doc, over)[o] # Unset
BY MarkerAssumption DEF Overlay

\* The empty transaction has the type of one.
LEMMA NoEditsType == NoEdits \in [Option -> Value \cup {Absent}]
BY DEF NoEdits

\* The document a save builds: edited ids as the user gave them, the others as
\* the document had them.
LEMMA BuiltDocument ==
    ASSUME TypeOK, TransactionKept, pc = "write", document \in Document
    PROVE  /\ Built \in Document
           /\ \A o \in Option : Built[o] = IF edits[o] # Absent THEN edits[o]
                                           ELSE document[o]
BY DEF TypeOK, TransactionKept, Built, Document, Requests

\* Resolving the built document alone is resolving the old one under the edits.
LEMMA BuiltResolves ==
    ASSUME TypeOK, TransactionKept, pc = "write", document \in Document
    PROVE  Overlay(Built, NoEdits) = Overlay(document, edits)
<1>1. \A o \in Option : Built[o] = IF edits[o] # Absent THEN edits[o] ELSE document[o]
  BY BuiltDocument
<1>2. \A o \in Option : NoEdits[o] = Absent
  BY DEF NoEdits
<1> QED BY <1>1, <1>2 DEF Overlay

\* The invariant holds initially.
LEMMA InitIInv == Init => IInv
BY LowerAssumption, NoEditsType
   DEF Init, IInv, TypeOK, TransactionKept, SaveInvariant, NoEdits

\* Every step preserves it.
LEMMA NextIInv == IInv /\ [Next]_vars => IInv'
<1> SUFFICES ASSUME IInv, [Next]_vars PROVE IInv'
  OBVIOUS
<1> USE DEF IInv
<1>1. CASE Start
  <2>1. file \in Document
    BY <1>1 DEF Start, Accepts, TypeOK
  <2>2. snapshot' \in Requests
    BY <1>1, <2>1, OverlayType, NoEditsType DEF Start
  <2>3. TypeOK'
    BY <1>1, <2>2 DEF Start, TypeOK, SaveInvariant
  <2>4. edits' = NoEdits
    BY <1>1 DEF Start, SaveInvariant
  <2>5. TransactionKept'
    BY <1>1, <2>4 DEF Start, Accepts, TransactionKept, LostAssignment, NoEdits
  <2>6. SaveInvariant'
    BY <1>1 DEF Start, SaveInvariant
  <2> QED BY <2>3, <2>5, <2>6
<1>2. ASSUME NEW o \in Option, NEW v \in Value, Edit(o, v) PROVE IInv'
  <2>1. file \in Document /\ edits' \in [Option -> Value \cup {Absent}] /\ edits'[o] = v
    BY <1>2 DEF Edit, Accepts, TypeOK
  <2>2. snapshot' = Overlay(file, edits') /\ Valid(snapshot')
    BY <1>2 DEF Edit, Accepts
  <2>3. snapshot' \in Requests
    BY <2>1, <2>2, OverlayType
  <2>4. edits' # NoEdits
    BY <2>1, MarkerAssumption DEF NoEdits
  <2>5. TypeOK'
    BY <1>2, <2>1, <2>3, <2>4 DEF Edit, TypeOK
  <2>6. \A p \in Option : edits'[p] # Absent =>
           snapshot'[p] = edits'[p] /\ snapshot'[p] # Unset
    BY <2>1, <2>2, OverlayKeepsEdits
  <2>7. TransactionKept'
    BY <2>2, <2>6 DEF TransactionKept, LostAssignment
  <2>8. SaveInvariant'
    BY <1>2 DEF Edit, SaveInvariant
  <2> QED BY <2>5, <2>7, <2>8
<1>3. CASE PressSave
  BY <1>3 DEF PressSave, TypeOK, TransactionKept, LostAssignment, SaveInvariant
<1>4. ASSUME NEW key \in {"esc", "quit"}, RequestExit(key) PROVE IInv'
  BY <1>4, NoEditsType
  DEF RequestExit, Close, TypeOK, TransactionKept, LostAssignment, SaveInvariant
<1>5. ASSUME SaveFails, Saving PROVE IInv'
  BY <1>5, LowerAssumption, NoEditsType
  DEF SaveFails, Saving, Close, Forget, TypeOK, TransactionKept, LostAssignment,
      SaveInvariant
<1>6. CASE SavePreview
  <2>1. CASE SaveFails
    BY <1>5, <1>6, <2>1 DEF SavePreview, Saving
  <2>2. CASE ~SaveFails
    <3>1. file \in Document /\ file # Broken /\ Valid(full') /\ full' = Overlay(file, edits)
      BY <1>6, <2>2 DEF SavePreview, Accepts, TypeOK
    <3>2. full' \in Requests
      BY <3>1, OverlayType DEF TypeOK
    <3> QED
      BY <1>6, <2>2, <3>1, <3>2
      DEF SavePreview, TypeOK, TransactionKept, LostAssignment, SaveInvariant
  <2> QED BY <2>1, <2>2
<1>7. CASE SaveLoad
  <2>1. CASE SaveFails
    BY <1>5, <1>7, <2>1 DEF SaveLoad, Saving
  <2>2. CASE ~SaveFails
    BY <1>7, <2>2 DEF SaveLoad, TypeOK, TransactionKept, LostAssignment, SaveInvariant
  <2> QED BY <2>1, <2>2
<1>8. CASE SaveWrite
  <2>1. CASE SaveFails
    BY <1>5, <1>8, <2>1 DEF SaveWrite, Saving
  <2>2. CASE ~SaveFails
    <3>1. pc = "write" /\ file' = Built /\ snapshot' = full /\ Valid(full)
      BY <1>8, <2>2 DEF SaveWrite, Commit, SaveInvariant
    <3>2. file' \in Document
      BY <3>1, BuiltDocument DEF SaveInvariant
    <3>3. /\ edits' = NoEdits /\ ~dirty' /\ dirty' \in BOOLEAN
          /\ pc' \in {"idle", "closed"}
          /\ full' = Lower /\ document' = Broken
      BY <1>8, <2>2 DEF SaveWrite, Commit, Close, Forget
    <3>4. TypeOK'
      BY <3>1, <3>2, <3>3, LowerAssumption, NoEditsType DEF TypeOK
    <3>5. TransactionKept'
      BY <3>1, <3>3 DEF TransactionKept, LostAssignment, NoEdits
    <3>6. SaveInvariant'
      BY <3>3 DEF SaveInvariant
    <3> QED BY <3>4, <3>5, <3>6
  <2> QED BY <2>1, <2>2
<1>9. CASE ExternalWrite
  BY <1>9 DEF ExternalWrite, TypeOK, TransactionKept, LostAssignment, SaveInvariant
<1>10. CASE UNCHANGED vars
  BY <1>10 DEF vars, TypeOK, TransactionKept, LostAssignment, SaveInvariant
<1> QED
  BY <1>1, <1>2, <1>3, <1>4, <1>6, <1>7, <1>8, <1>9, <1>10 DEF Next, Save

\* The inductive invariant holds throughout.
LEMMA SpecIInv == Spec => []IInv
BY InitIInv, NextIInv, PTL DEF Spec

\* The session's variables keep their types, and it is dirty exactly when its
\* transaction holds edits.
THEOREM SessionTypeCorrect == Spec => []TypeOK
<1>1. IInv => TypeOK
  BY DEF IInv
<1> QED BY SpecIInv, <1>1, PTL

\* However often other programs write the file, no edit of the open transaction
\* is lost from the published snapshot, which always resolved.
THEOREM TransactionIsKept == Spec => []TransactionKept
<1>1. IInv => TransactionKept
  BY DEF IInv
<1> QED BY SpecIInv, <1>1, PTL

\* A save that reports success put every edit into the file; if nobody else
\* wrote it meanwhile, the file alone resolves to the snapshot shown.
THEOREM SaveWritesWhatIsShown == Spec => SavedAsShown
<1> DEFINE Goal == Committing =>
        /\ \A o \in Option : edits[o] # Absent => file'[o] = edits[o]
        /\ quiet => /\ Overlay(file', NoEdits) = snapshot'
                    /\ Valid(Overlay(file', NoEdits))
<1>1. ASSUME IInv, [Next]_vars, Committing PROVE Goal
  <2>1. pc = "write" /\ via # "saved" /\ via' = "saved"
    BY <1>1 DEF Committing, IInv, SaveInvariant
  <2>2. SaveWrite
    BY <1>1, <2>1
    DEF Next, vars, Start, Edit, PressSave, RequestExit, Save, SavePreview, SaveLoad,
        ExternalWrite
  <2>3. file' = Built /\ snapshot' = full
    BY <2>1, <2>2 DEF SaveWrite, SaveFails, Close, Commit
  <2>4. document \in Document /\ Valid(full)
    BY <1>1, <2>1 DEF IInv, SaveInvariant
  <2>5. \A o \in Option : edits[o] # Absent => file'[o] = edits[o]
    BY <1>1, <2>1, <2>3, <2>4, BuiltDocument DEF IInv
  <2>6. ASSUME quiet PROVE Overlay(file', NoEdits) = full
    <3>1. full = Overlay(document, edits)
      BY <1>1, <2>1, <2>6 DEF IInv, SaveInvariant
    <3>2. Overlay(Built, NoEdits) = Overlay(document, edits)
      BY <1>1, <2>1, <2>4, BuiltResolves DEF IInv
    <3> QED BY <2>3, <3>1, <3>2
  <2> QED BY <2>3, <2>4, <2>5, <2>6
<1>2. IInv /\ [Next]_vars => [Goal]_vars
  BY <1>1
<1> QED BY SpecIInv, <1>2, PTL DEF Spec, SavedAsShown

\* If nobody else writes the file while a save runs, the save changes the file
\* only by committing, and only at the ids the transaction edited.
THEOREM SaveChangesOnlyEdits == Spec => SaveIsSparse
<1> DEFINE Goal == Saving /\ file' # file /\ quiet /\ quiet' => Committing /\ UneditedKept
<1>1. ASSUME IInv, [Next]_vars, Saving, file' # file, quiet, quiet'
      PROVE  Committing /\ UneditedKept
  <2>1. SaveWrite /\ ~SaveFails
    BY <1>1
    DEF Saving, Next, vars, Start, Edit, PressSave, RequestExit, Save, SavePreview,
        SaveLoad, SaveWrite, SaveFails, ExternalWrite
  <2>2. pc = "write" /\ file' = Built /\ via' = "saved"
    BY <2>1 DEF SaveWrite, Commit, Close
  <2>3. document = file /\ document \in Document
    BY <1>1, <2>2 DEF IInv, SaveInvariant
  <2>4. \A o \in Option : edits[o] = Absent => file'[o] = file[o]
    BY <1>1, <2>2, <2>3, BuiltDocument DEF IInv
  <2> QED BY <2>2, <2>4 DEF Committing, UneditedKept
<1>2. IInv /\ [Next]_vars => [Goal]_vars
  BY <1>1
<1> QED BY SpecIInv, <1>2, PTL DEF Spec, SaveIsSparse
=============================================================================
