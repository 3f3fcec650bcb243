------------------------------ MODULE HostFile ------------------------------
(***************************************************************************)
(* confit_host_write_text_file_if_changed_atomic of host/host_file.c, the  *)
(* write every profile save, artifact and migration output goes through,   *)
(* on a file system with directory entries and inodes.                     *)
(*                                                                         *)
(* A text has two chunks, so a write can be caught half done.  Every       *)
(* process writes to the same path, hence through the same temporary name  *)
(* path.confit-tmp.  A process can die between any two steps; what it did  *)
(* to the disk stays (power loss is not modelled: the code never syncs).   *)
(***************************************************************************)
EXTENDS Naturals, FiniteSets

CONSTANTS
    Process,
    Text,
    Absent,    \* no such file
    Hole,      \* bytes nobody wrote
    Inode,     \* inode numbers the file system hands out
    MaxCalls   \* bound: calls of the function in a behaviour

Chunk == 1..2
NoInode == 0

ASSUME InodeAssumption == Inode \subseteq Nat \ {NoInode} /\ IsFiniteSet(Inode)
ASSUME TextAssumption == Absent \notin Text /\ Hole \notin Text

VARIABLES
    data,    \* [Inode -> [Chunk -> Text, Hole or Absent]]; Absent past the end
    entry,   \* [{"path", "temp"} -> Inode or NoInode], the directory
    pc,      \* [Process -> where in the call]
    text,    \* [Process -> the argument]
    fd,      \* [Process -> inode the temporary file was opened as]
    result,  \* [Process -> result of the last call]
    calls

vars == <<data, entry, pc, text, fd, result, calls>>

Whole(t) == [c \in Chunk |-> t]
Empty == [c \in Chunk |-> Absent]

\* What fopen and fread of the path find.
Content == IF entry["path"] = NoInode THEN Empty ELSE data[entry["path"]]

InUse == {entry["path"], entry["temp"]} \cup {fd[p] : p \in Process}

Init ==
    /\ \/ /\ entry = [path |-> NoInode, temp |-> NoInode]
          /\ data = [i \in Inode |-> Empty]
       \/ \E i \in Inode, t \in Text :
             /\ entry = [path |-> i, temp |-> NoInode]
             /\ data = [j \in Inode |-> IF j = i THEN Whole(t) ELSE Empty]
    /\ pc = [p \in Process |-> "idle"]
    /\ text \in [Process -> Text]
    /\ fd = [p \in Process |-> NoInode]
    /\ result = [p \in Process |-> "none"]
    /\ calls = 0

Return(p, status) ==
    /\ pc' = [pc EXCEPT ![p] = "idle"]
    /\ result' = [result EXCEPT ![p] = status]
    /\ fd' = [fd EXCEPT ![p] = NoInode]

Call(p, t) ==
    /\ pc[p] = "idle"
    /\ calls < MaxCalls
    /\ calls' = calls + 1
    /\ pc' = [pc EXCEPT ![p] = "compare"]
    /\ text' = [text EXCEPT ![p] = t]
    /\ result' = [result EXCEPT ![p] = "none"]
    /\ UNCHANGED <<data, entry, fd>>

\* file_exists, read_text_file and memcmp.  Reading an existing file may fail,
\* and one that cannot be opened at first passes for a missing one.
Compare(p) ==
    /\ pc[p] = "compare"
    /\ \/ /\ entry["path"] # NoInode
          /\ Return(p, "error")
       \/ /\ entry["path"] # NoInode
          /\ Content = Whole(text[p])
          /\ Return(p, "unchanged")
       \/ /\ pc' = [pc EXCEPT ![p] = "open"]
          /\ UNCHANGED <<result, fd>>
    /\ UNCHANGED <<data, entry, text, calls>>

\* Mutant of Open: the text goes to the path itself.
OpenInPlace(p) ==
    /\ pc[p] = "open"
    /\ \E i \in Inode :
          /\ IF entry["path"] = NoInode THEN i \notin InUse ELSE i = entry["path"]
          /\ entry' = [entry EXCEPT !["path"] = i]
          /\ fd' = [fd EXCEPT ![p] = i]
          /\ data' = [data EXCEPT ![i] = Empty]
          /\ pc' = [pc EXCEPT ![p] = "write1"]
          /\ UNCHANGED result
    /\ UNCHANGED <<text, calls>>

\* fopen(temporary, "wb"): truncates the file if the name exists, whoever
\* made it, and creates it otherwise; or fails.
Open(p) ==
    /\ pc[p] = "open"
    /\ \/ Return(p, "error") /\ UNCHANGED <<data, entry>>
       \/ \E i \in Inode :
             /\ IF entry["temp"] = NoInode THEN i \notin InUse ELSE i = entry["temp"]
             /\ entry' = [entry EXCEPT !["temp"] = i]
             /\ fd' = [fd EXCEPT ![p] = i]
             /\ data' = [data EXCEPT ![i] = Empty]
             /\ pc' = [pc EXCEPT ![p] = "write1"]
             /\ UNCHANGED result
    /\ UNCHANGED <<text, calls>>

Put(p, c) ==
    data' = [data EXCEPT ![fd[p]] =
                [d \in Chunk |-> IF d = c THEN text[p]
                                 ELSE IF d < c /\ @[d] = Absent THEN Hole
                                 ELSE @[d]]]

\* fwrite and fclose: each part may fail, with or without having written
\* (a failing fclose comes last), and then the call returns and the temporary
\* file stays behind.
Write(p, c, from, to) ==
    /\ pc[p] = from
    /\ \/ /\ Put(p, c)
          /\ pc' = [pc EXCEPT ![p] = to]
          /\ UNCHANGED <<fd, result>>
       \/ /\ Return(p, "error")
          /\ Put(p, c) \/ UNCHANGED data
    /\ UNCHANGED <<entry, text, calls>>

\* Mutant of WriteFirst: a short write goes unnoticed.
WriteFirstOnly(p) == Write(p, 1, "write1", "rename")

WriteFirst(p) == Write(p, 1, "write1", "write2")

WriteRest(p) == Write(p, 2, "write2", "rename")

\* Mutant of Rename: the failure is not reported.
RenameIgnoring(p) ==
    /\ pc[p] = "rename"
    /\ \/ /\ entry["temp"] # NoInode
          /\ entry' = [path |-> entry["temp"], temp |-> NoInode]
       \/ entry' = [entry EXCEPT !["temp"] = NoInode]
    /\ Return(p, "changed")
    /\ UNCHANGED <<data, text, calls>>

\* rename(temporary, path); when it fails the temporary file is removed.
Rename(p) ==
    /\ pc[p] = "rename"
    /\ \/ /\ entry["temp"] # NoInode
          /\ entry' = [path |-> entry["temp"], temp |-> NoInode]
          /\ Return(p, "changed")
       \/ /\ entry' = [entry EXCEPT !["temp"] = NoInode]
          /\ Return(p, "error")
    /\ UNCHANGED <<data, text, calls>>

\* The process is killed; another one may be started in its place.
Crash(p) ==
    /\ pc[p] # "idle"
    /\ Return(p, "none")
    /\ UNCHANGED <<data, entry, text, calls>>

Step(p) == Compare(p) \/ Open(p) \/ WriteFirst(p) \/ WriteRest(p) \/ Rename(p)

Next == \E p \in Process : Step(p) \/ Crash(p) \/ \E t \in Text : Call(p, t)

Spec == Init /\ [][Next]_vars
-----------------------------------------------------------------------------
\* The values the variables range over; a text is written only to a file that
\* was opened.
TypeOK ==
    /\ data \in [Inode -> [Chunk -> Text \cup {Hole, Absent}]]
    /\ entry \in [{"path", "temp"} -> Inode \cup {NoInode}]
    /\ pc \in [Process -> {"idle", "compare", "open", "write1", "write2", "rename"}]
    /\ text \in [Process -> Text]
    /\ fd \in [Process -> Inode \cup {NoInode}]
    /\ result \in [Process -> {"none", "unchanged", "changed", "error"}]
    /\ \A p \in Process : pc[p] \in {"write1", "write2"} => fd[p] \in Inode

\* A reader of the path finds no file or one whole text, at every moment: not
\* while a write is under way, not after a failed one, not after a crash, and
\* not from the temporary file an earlier crash left behind.
FileIsWhole == entry["path"] = NoInode \/ \E t \in Text : Content = Whole(t)

\* What the call reports is what happened: success means that the path holds
\* the text, out_changed that this call put it there, and an error that the
\* path is as it was.
ResultIsTrue ==
    [][\A p \in Process :
        pc[p] # "idle" /\ pc'[p] = "idle" =>
            /\ result'[p] \in {"changed", "unchanged"} => Content' = Whole(text[p])
            /\ result'[p] = "changed" => entry["path"] # entry'["path"]
            /\ result'[p] \in {"error", "unchanged"} => Content' = Content]_vars

\* As an atomic file: the mapping reads the path, and a call wants its text
\* until it returns.
Abstract == INSTANCE AtomicFile
    WITH content <- IF entry["path"] = NoInode THEN Absent
                    ELSE IF Content[1] = Content[2] THEN Content[1] ELSE Hole,
         wanted <- {text[p] : p \in {q \in Process : pc[q] # "idle"}}

\* A single writer implements the atomic file, failures and crashes included.
Refinement == Abstract!ASpec
=============================================================================
