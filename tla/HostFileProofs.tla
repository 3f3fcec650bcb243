--------------------------- MODULE HostFileProofs ---------------------------
(***************************************************************************)
(* With one writer of a path, for every set of texts, any number of calls  *)
(* and crashes and any supply of inodes: a reader never finds a torn file, *)
(* the result of a call is true, and the write implements the atomic file. *)
(***************************************************************************)
EXTENDS HostFile, TLAPS

\* Processes that write the path one after another count as one writer.
OneWriter == \A p, q \in Process : p = q

Path == entry["path"]
Temp == entry["temp"]

\* Where the writer is, its file is the temporary one, apart from the published
\* one, and holds what was written so far.
WriterInvariant ==
    /\ Path # NoInode => Path # Temp
    /\ \A p \in Process :
          /\ pc[p] \in {"write1", "write2", "rename"} => fd[p] = Temp /\ Temp # NoInode
          /\ pc[p] \in {"write2", "rename"} => data[fd[p]][1] = text[p]
          /\ pc[p] = "rename" => data[fd[p]][2] = text[p]

IInv == TypeOK /\ FileIsWhole /\ WriterInvariant

\* A text is one chunk after the other.
LEMMA WholeText ==
    ASSUME NEW d \in [Chunk -> Text \cup {Hole, Absent}], NEW t \in Text
    PROVE  d = Whole(t) <=> d[1] = t /\ d[2] = t
BY DEF Chunk, Whole

\* The directory starts without a temporary file and with a whole text or none.
LEMMA InitIInv == Init => IInv
<1> SUFFICES ASSUME Init PROVE IInv
  OBVIOUS
<1>1. NoInode \notin Inode
  BY InodeAssumption
<1>2. TypeOK
  BY DEF Init, TypeOK, Whole, Empty, Chunk
<1>3. FileIsWhole
  BY <1>1 DEF Init, FileIsWhole, Content
<1>4. WriterInvariant
  BY <1>1 DEF Init, WriterInvariant, Path, Temp
<1> QED BY <1>2, <1>3, <1>4 DEF IInv

\* Returning changes neither the disk nor what others rely on.
LEMMA ReturnIInv ==
    ASSUME OneWriter, IInv, NEW p \in Process,
           NEW status \in {"none", "unchanged", "changed", "error"},
           Return(p, status), UNCHANGED <<data, entry, text>>
    PROVE  IInv'
<1>1. TypeOK'
  BY DEF Return, IInv, TypeOK
<1>2. FileIsWhole'
  BY DEF IInv, FileIsWhole, Content
<1>3. WriterInvariant'
  BY DEF Return, IInv, TypeOK, WriterInvariant, Path, Temp, OneWriter
<1> QED BY <1>1, <1>2, <1>3 DEF IInv

\* Opening the temporary file truncates an inode that is not published.
LEMMA OpenIInv ==
    ASSUME OneWriter, IInv, NEW p \in Process, Open(p)
    PROVE  IInv'
<1>1. CASE Return(p, "error") /\ UNCHANGED <<data, entry>>
  BY <1>1, ReturnIInv DEF Open
<1>2. ASSUME NEW i \in Inode,
             IF Temp = NoInode THEN i \notin InUse ELSE i = Temp,
             entry' = [entry EXCEPT !["temp"] = i],
             fd' = [fd EXCEPT ![p] = i],
             data' = [data EXCEPT ![i] = Empty],
             pc' = [pc EXCEPT ![p] = "write1"],
             UNCHANGED <<result, text>>
      PROVE  IInv'
  <2>1. i # NoInode /\ i # Path
    BY <1>2, InodeAssumption DEF InUse, Path, Temp, IInv, WriterInvariant
  <2>2. TypeOK'
    BY <1>2 DEF IInv, TypeOK, Empty, OneWriter
  <2>3. Path' = Path /\ Temp' = i
    BY <1>2 DEF IInv, TypeOK, Path, Temp
  <2>4. FileIsWhole'
    BY <1>2, <2>1, <2>3 DEF IInv, TypeOK, FileIsWhole, Content, Path
  <2>5. WriterInvariant'
    BY <1>2, <2>1, <2>3 DEF IInv, TypeOK, WriterInvariant, OneWriter
  <2> QED BY <2>2, <2>4, <2>5 DEF IInv
<1> QED BY <1>1, <1>2 DEF Open, Temp

\* Writing changes only the temporary file.
LEMMA PutFacts ==
    ASSUME OneWriter, IInv, NEW p \in Process, NEW c \in Chunk,
           pc[p] \in {"write1", "write2"}, Put(p, c), UNCHANGED <<entry, text>>
    PROVE  /\ data' \in [Inode -> [Chunk -> Text \cup {Hole, Absent}]]
           /\ FileIsWhole'
           /\ data'[fd[p]][c] = text[p]
           /\ c = 2 /\ data[fd[p]][1] = text[p] => data'[fd[p]][1] = text[p]
<1>1. fd[p] \in Inode /\ fd[p] = Temp /\ text[p] \in Text /\ (Path # NoInode => Path # fd[p])
  BY DEF IInv, TypeOK, WriterInvariant
<1>2. data[fd[p]] \in [Chunk -> Text \cup {Hole, Absent}]
  BY <1>1 DEF IInv, TypeOK
<1>3. data'[fd[p]] = [d \in Chunk |-> IF d = c THEN text[p]
                                     ELSE IF d < c /\ data[fd[p]][d] = Absent THEN Hole
                                     ELSE data[fd[p]][d]]
  BY <1>1 DEF Put, IInv, TypeOK
<1>4. data' \in [Inode -> [Chunk -> Text \cup {Hole, Absent}]]
  BY <1>1, <1>2 DEF Put, IInv, TypeOK
<1>5. FileIsWhole'
  BY <1>1 DEF Put, IInv, TypeOK, FileIsWhole, Content, Path
<1>6. data'[fd[p]][c] = text[p]
  BY <1>3
<1>7. c = 2 /\ data[fd[p]][1] = text[p] => data'[fd[p]][1] = text[p]
  BY <1>1, <1>3, TextAssumption DEF Chunk
<1> QED BY <1>4, <1>5, <1>6, <1>7

\* A write that fails, having had effect or not, ends the call.
LEMMA WriteFailsIInv ==
    ASSUME OneWriter, IInv, NEW p \in Process, NEW c \in Chunk,
           pc[p] \in {"write1", "write2"}, Return(p, "error"),
           Put(p, c) \/ UNCHANGED data, UNCHANGED <<entry, text>>
    PROVE  IInv'
<1>1. CASE UNCHANGED data
  BY <1>1, ReturnIInv
<1>2. CASE Put(p, c)
  <2>1. data' \in [Inode -> [Chunk -> Text \cup {Hole, Absent}]] /\ FileIsWhole'
    BY <1>2, PutFacts
  <2>2. TypeOK'
    BY <2>1 DEF Return, IInv, TypeOK
  <2>3. WriterInvariant'
    BY DEF Return, IInv, TypeOK, WriterInvariant, Path, Temp, OneWriter
  <2> QED BY <2>1, <2>2, <2>3 DEF IInv
<1> QED BY <1>1, <1>2

\* The two parts of the write.
LEMMA WriteIInv ==
    ASSUME OneWriter, IInv, NEW p \in Process, WriteFirst(p) \/ WriteRest(p)
    PROVE  IInv'
<1>1. CASE WriteFirst(p)
  <2>1. CASE Return(p, "error") /\ (Put(p, 1) \/ UNCHANGED data)
    BY <1>1, <2>1, WriteFailsIInv DEF WriteFirst, Write, Chunk
  <2>2. CASE Put(p, 1) /\ pc' = [pc EXCEPT ![p] = "write2"] /\ UNCHANGED <<fd, result>>
    <3>1. data' \in [Inode -> [Chunk -> Text \cup {Hole, Absent}]] /\ FileIsWhole'
          /\ data'[fd[p]][1] = text[p]
      BY <1>1, <2>2, PutFacts DEF WriteFirst, Write, Chunk
    <3>2. TypeOK'
      BY <1>1, <2>2, <3>1 DEF WriteFirst, Write, IInv, TypeOK
    <3>3. WriterInvariant'
      BY <1>1, <2>2, <3>1
      DEF WriteFirst, Write, IInv, TypeOK, WriterInvariant, Path, Temp, OneWriter
    <3> QED BY <3>1, <3>2, <3>3 DEF IInv
  <2> QED BY <1>1, <2>1, <2>2 DEF WriteFirst, Write
<1>2. CASE WriteRest(p)
  <2>1. CASE Return(p, "error") /\ (Put(p, 2) \/ UNCHANGED data)
    BY <1>2, <2>1, WriteFailsIInv DEF WriteRest, Write, Chunk
  <2>2. CASE Put(p, 2) /\ pc' = [pc EXCEPT ![p] = "rename"] /\ UNCHANGED <<fd, result>>
    <3>1. data' \in [Inode -> [Chunk -> Text \cup {Hole, Absent}]] /\ FileIsWhole'
          /\ data'[fd[p]][2] = text[p]
          /\ (data[fd[p]][1] = text[p] => data'[fd[p]][1] = text[p])
      BY <1>2, <2>2, PutFacts DEF WriteRest, Write, Chunk
    <3>2. TypeOK'
      BY <1>2, <2>2, <3>1 DEF WriteRest, Write, IInv, TypeOK
    <3>3. WriterInvariant'
      BY <1>2, <2>2, <3>1
      DEF WriteRest, Write, IInv, TypeOK, WriterInvariant, Path, Temp, OneWriter
    <3> QED BY <3>1, <3>2, <3>3 DEF IInv
  <2> QED BY <1>2, <2>1, <2>2 DEF WriteRest, Write
<1> QED BY <1>1, <1>2

\* What rename publishes is the whole text.
LEMMA RenameFacts ==
    ASSUME OneWriter, IInv, NEW p \in Process, pc[p] = "rename"
    PROVE  Temp \in Inode /\ Temp # Path /\ data[Temp] = Whole(text[p]) /\ text[p] \in Text
<1>1. fd[p] = Temp /\ Temp # NoInode /\ text[p] \in Text /\ Temp \in Inode
  BY DEF IInv, TypeOK, WriterInvariant, Temp
<1>2. data[Temp][1] = text[p] /\ data[Temp][2] = text[p]
  BY <1>1 DEF IInv, WriterInvariant
<1>3. data[Temp] \in [Chunk -> Text \cup {Hole, Absent}]
  BY <1>1 DEF IInv, TypeOK
<1>4. Temp # Path
  BY <1>1 DEF IInv, WriterInvariant
<1> QED BY <1>1, <1>2, <1>3, <1>4, WholeText

\* Replacing the file.
LEMMA RenameIInv ==
    ASSUME OneWriter, IInv, NEW p \in Process, Rename(p)
    PROVE  IInv'
<1>1. Temp \in Inode /\ Temp # Path /\ data[Temp] = Whole(text[p]) /\ text[p] \in Text
  BY RenameFacts DEF Rename
<1>2. CASE entry' = [path |-> Temp, temp |-> NoInode] /\ Return(p, "changed")
  <2>1. TypeOK'
    BY <1>1, <1>2 DEF Rename, Return, IInv, TypeOK
  <2>2. FileIsWhole'
    BY <1>1, <1>2 DEF Rename, FileIsWhole, Content
  <2>3. WriterInvariant'
    BY <1>2 DEF Rename, Return, IInv, TypeOK, WriterInvariant, Path, Temp, OneWriter
  <2> QED BY <2>1, <2>2, <2>3 DEF IInv
<1>3. CASE entry' = [entry EXCEPT !["temp"] = NoInode] /\ Return(p, "error")
  <2>1. TypeOK'
    BY <1>3 DEF Rename, Return, IInv, TypeOK
  <2>2. FileIsWhole'
    BY <1>3 DEF Rename, IInv, TypeOK, FileIsWhole, Content
  <2>3. WriterInvariant'
    BY <1>3 DEF Rename, Return, IInv, TypeOK, WriterInvariant, Path, Temp, OneWriter
  <2> QED BY <2>1, <2>2, <2>3 DEF IInv
<1> QED BY <1>2, <1>3 DEF Rename, Temp

\* Starting a call and comparing.
LEMMA BeginIInv ==
    ASSUME OneWriter, IInv, NEW p \in Process,
           Compare(p) \/ \E t \in Text : Call(p, t)
    PROVE  IInv'
<1>1. ASSUME NEW t \in Text, Call(p, t) PROVE IInv'
  <2>1. TypeOK'
    BY <1>1 DEF Call, IInv, TypeOK
  <2>2. FileIsWhole'
    BY <1>1 DEF Call, IInv, FileIsWhole, Content
  <2>3. WriterInvariant'
    BY <1>1 DEF Call, IInv, TypeOK, WriterInvariant, Path, Temp, OneWriter
  <2> QED BY <2>1, <2>2, <2>3 DEF IInv
<1>2. CASE Compare(p)
  <2>1. CASE Return(p, "error") \/ Return(p, "unchanged")
    BY <1>2, <2>1, ReturnIInv DEF Compare
  <2>2. CASE pc' = [pc EXCEPT ![p] = "open"] /\ UNCHANGED <<result, fd>>
    <3>1. TypeOK'
      BY <1>2, <2>2 DEF Compare, IInv, TypeOK
    <3>2. FileIsWhole'
      BY <1>2, <2>2 DEF Compare, IInv, FileIsWhole, Content
    <3>3. WriterInvariant'
      BY <1>2, <2>2 DEF Compare, IInv, TypeOK, WriterInvariant, Path, Temp, OneWriter
    <3> QED BY <3>1, <3>2, <3>3 DEF IInv
  <2> QED BY <1>2, <2>1, <2>2 DEF Compare
<1> QED BY <1>1, <1>2

\* Every step of the one writer, crashes included, preserves the invariant.
LEMMA NextIInv ==
    ASSUME OneWriter PROVE IInv /\ [Next]_vars => IInv'
<1> SUFFICES ASSUME IInv, [Next]_vars PROVE IInv'
  OBVIOUS
<1>1. ASSUME NEW p \in Process, Step(p) PROVE IInv'
  BY <1>1, BeginIInv, OpenIInv, WriteIInv, RenameIInv DEF Step
<1>2. ASSUME NEW p \in Process, Crash(p) PROVE IInv'
  BY <1>2, ReturnIInv DEF Crash
<1>3. ASSUME NEW p \in Process, NEW t \in Text, Call(p, t) PROVE IInv'
  BY <1>3, BeginIInv
<1>4. CASE UNCHANGED vars
  BY <1>4 DEF vars, IInv, TypeOK, FileIsWhole, Content, WriterInvariant, Path, Temp
<1> QED BY <1>1, <1>2, <1>3, <1>4 DEF Next

\* The inductive invariant holds throughout.
LEMMA SpecIInv == ASSUME OneWriter PROVE Spec => []IInv
BY InitIInv, NextIInv, PTL DEF Spec

\* The types of the file system and of the call, for one writer.
THEOREM WriterTypeCorrect == ASSUME OneWriter PROVE Spec => []TypeOK
<1>1. IInv => TypeOK
  BY DEF IInv
<1> QED BY SpecIInv, <1>1, PTL

\* A reader of the path never finds part of a text, whatever fails and whenever
\* the writer dies.
THEOREM WriterIsWhole == ASSUME OneWriter PROVE Spec => []FileIsWhole
<1>1. IInv => FileIsWhole
  BY DEF IInv
<1> QED BY SpecIInv, <1>1, PTL

\* The one step that changes what a reader finds.
Publish(p) ==
    /\ pc[p] = "rename"
    /\ entry' = [path |-> Temp, temp |-> NoInode]
    /\ Return(p, "changed")
    /\ UNCHANGED <<data, text, calls>>

\* The other steps leave the path and its content alone.
Quiet == UNCHANGED <<Path, Content>>

\* Opening and writing touch only the temporary file.
LEMMA WritingIsQuiet ==
    ASSUME OneWriter, IInv, NEW p \in Process, Open(p) \/ WriteFirst(p) \/ WriteRest(p)
    PROVE  Quiet
<1>1. CASE UNCHANGED <<data, entry>>
  BY <1>1 DEF Quiet, Path, Content
<1>2. ASSUME NEW i \in Inode,
             IF Temp = NoInode THEN i \notin InUse ELSE i = Temp,
             entry' = [entry EXCEPT !["temp"] = i],
             data' = [data EXCEPT ![i] = Empty]
      PROVE  Quiet
  <2>1. i # Path
    BY <1>2, InodeAssumption DEF InUse, Path, Temp, IInv, WriterInvariant
  <2>2. Path' = Path
    BY <1>2 DEF IInv, TypeOK, Path
  <2> QED BY <1>2, <2>1, <2>2 DEF IInv, TypeOK, Quiet, Content, Path
<1>3. ASSUME NEW c \in Chunk, pc[p] \in {"write1", "write2"}, Put(p, c), UNCHANGED entry
      PROVE  Quiet
  <2>1. Path # NoInode => Path # fd[p]
    BY <1>3 DEF IInv, WriterInvariant
  <2> QED BY <1>3, <2>1 DEF Put, IInv, TypeOK, Quiet, Content, Path
<1>4. CASE Open(p)
  BY <1>1, <1>2, <1>4 DEF Open, Temp
<1>5. CASE WriteFirst(p)
  BY <1>1, <1>3, <1>5 DEF WriteFirst, Write, Chunk
<1>6. CASE WriteRest(p)
  BY <1>1, <1>3, <1>6 DEF WriteRest, Write, Chunk
<1> QED BY <1>4, <1>5, <1>6

\* A step of the program publishes or is quiet.
LEMMA PublishOrQuiet ==
    ASSUME OneWriter, IInv, Next
    PROVE  (\E p \in Process : Publish(p)) \/ Quiet
<1>1. ASSUME NEW p \in Process, Compare(p) \/ Crash(p) \/ \E t \in Text : Call(p, t)
      PROVE  Quiet
  BY <1>1 DEF Compare, Crash, Call, Quiet, Path, Content
<1>2. ASSUME NEW p \in Process, Rename(p) PROVE Publish(p) \/ Quiet
  BY <1>2 DEF Rename, Publish, Temp, Quiet, Path, Content, IInv, TypeOK
<1> QED BY <1>1, <1>2, WritingIsQuiet DEF Next, Step

\* What publishing does: the path gets another inode, with the caller's text.
LEMMA PublishFacts ==
    ASSUME OneWriter, IInv, NEW p \in Process, Publish(p)
    PROVE  /\ Path' \in Inode
           /\ Path' # Path
           /\ Content' = Whole(text[p])
           /\ text[p] \in Text
           /\ result'[p] = "changed"
<1>1. Temp \in Inode /\ Temp # Path /\ data[Temp] = Whole(text[p]) /\ text[p] \in Text
  BY RenameFacts DEF Publish
<1>2. Path' = Temp /\ Temp # NoInode
  BY <1>1, InodeAssumption DEF Publish, Path
<1>3. Content' = Whole(text[p])
  BY <1>1, <1>2 DEF Publish, Content, Path
<1>4. result'[p] = "changed"
  BY DEF Publish, Return, IInv, TypeOK
<1> QED BY <1>1, <1>2, <1>3, <1>4

\* A call that returns "unchanged" found its text, and only publishing returns
\* "changed".
LEMMA ReturnFacts ==
    ASSUME OneWriter, IInv, Next, NEW p \in Process, pc[p] # "idle", pc'[p] = "idle"
    PROVE  /\ result'[p] = "unchanged" => Content = Whole(text[p]) /\ Quiet
           /\ result'[p] = "changed" => Publish(p)
<1>0. \A q \in Process : q = p
  BY DEF OneWriter
<1>1. Step(p) \/ Crash(p) \/ \E t \in Text : Call(p, t)
  BY <1>0 DEF Next
<1>2. CASE Compare(p)
  BY <1>2 DEF Compare, Return, IInv, TypeOK, Quiet, Path, Content
<1>3. CASE Open(p) \/ WriteFirst(p) \/ WriteRest(p)
  BY <1>3 DEF Open, WriteFirst, WriteRest, Write, Return, IInv, TypeOK
<1>4. CASE Rename(p)
  BY <1>4 DEF Rename, Return, Publish, Temp, IInv, TypeOK
<1>5. CASE Crash(p) \/ \E t \in Text : Call(p, t)
  BY <1>5 DEF Crash, Call, Return, IInv, TypeOK
<1> QED BY <1>1, <1>2, <1>3, <1>4, <1>5 DEF Step

\* What a call reports is what happened to the file, with any failures and
\* crashes before it.
THEOREM WriterReportsTruth == ASSUME OneWriter PROVE Spec => ResultIsTrue
<1> DEFINE Goal == \A p \in Process :
        pc[p] # "idle" /\ pc'[p] = "idle" =>
            /\ result'[p] \in {"changed", "unchanged"} => Content' = Whole(text[p])
            /\ result'[p] = "changed" => entry["path"] # entry'["path"]
            /\ result'[p] \in {"error", "unchanged"} => Content' = Content
<1>1. ASSUME IInv, Next, NEW p \in Process, pc[p] # "idle", pc'[p] = "idle"
      PROVE  /\ result'[p] \in {"changed", "unchanged"} => Content' = Whole(text[p])
             /\ result'[p] = "changed" => entry["path"] # entry'["path"]
             /\ result'[p] \in {"error", "unchanged"} => Content' = Content
  <2>1. CASE result'[p] = "changed"
    <3>1. Publish(p)
      BY <1>1, <2>1, ReturnFacts
    <3> QED BY <1>1, <2>1, <3>1, PublishFacts DEF Path
  <2>2. CASE result'[p] = "unchanged"
    BY <1>1, <2>2, ReturnFacts DEF Quiet
  <2>3. CASE result'[p] \notin {"changed", "unchanged"}
    <3>1. ASSUME NEW q \in Process, Publish(q) PROVE FALSE
      <4>1. q = p
        BY DEF OneWriter
      <4> QED BY <1>1, <2>3, <3>1, <4>1, PublishFacts
    <3>2. Quiet
      BY <1>1, <3>1, PublishOrQuiet
    <3> QED BY <2>3, <3>2 DEF Quiet
  <2> QED BY <2>1, <2>2, <2>3
<1>2. IInv /\ [Next]_vars => [Goal]_vars
  BY <1>1
<1> QED BY SpecIInv, <1>2, PTL DEF Spec, ResultIsTrue

\* A single writer implements the atomic file its callers rely on.
THEOREM WriterRefinesAtomicFile == ASSUME OneWriter PROVE Spec => Refinement
<1> DEFINE Seen == IF entry["path"] = NoInode THEN Absent
                   ELSE IF Content[1] = Content[2] THEN Content[1] ELSE Hole
           Wanted == {text[p] : p \in {q \in Process : pc[q] # "idle"}}
<1>1. ASSUME Init PROVE Abstract!AInit
  <2>1. Wanted = {}
    BY <1>1 DEF Init
  <2>2. FileIsWhole
    BY <1>1, InitIInv DEF IInv
  <2>3. Seen \in Text \cup {Absent}
    BY <2>2 DEF FileIsWhole, Whole, Chunk
  <2> QED BY <2>1, <2>3 DEF Abstract!AInit
<1>2. ASSUME IInv, [Next]_vars
      PROVE  [Abstract!Replace \/ Abstract!Calls]_<<Seen, Wanted>>
  <2>1. CASE UNCHANGED vars
    BY <2>1 DEF vars, Content
  <2>2. CASE Next /\ Quiet
    <3>1. IInv'
      BY <1>2, NextIInv
    <3>2. Wanted' \subseteq Text
      BY <3>1 DEF IInv, TypeOK
    <3>3. UNCHANGED Seen
      BY <2>2 DEF Quiet, Path
    <3> QED BY <3>2, <3>3 DEF Abstract!Calls
  <2>3. ASSUME NEW p \in Process, Publish(p)
        PROVE  Abstract!Replace
    <3>1. Path' # NoInode /\ Content' = Whole(text[p])
      BY <1>2, <2>3, PublishFacts, InodeAssumption
    <3>2. Seen' = text[p]
      BY <3>1 DEF Path, Whole, Chunk
    <3>3. text[p] \in Wanted
      BY <2>3 DEF Publish
    <3>4. Wanted' \subseteq Wanted
      BY <1>2, <2>3 DEF Publish, Return, IInv, TypeOK
    <3> QED BY <3>2, <3>3, <3>4 DEF Abstract!Replace
  <2> QED BY <1>2, <2>1, <2>2, <2>3, PublishOrQuiet
<1> QED BY <1>1, <1>2, SpecIInv, PTL DEF Spec, Refinement, Abstract!ASpec
=============================================================================
