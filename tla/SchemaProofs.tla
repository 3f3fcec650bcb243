---------------------------- MODULE SchemaProofs ----------------------------
(***************************************************************************)
(* Loading and compiling a schema of version 2.                            *)
(*                                                                         *)
(* SchemaLoad, for every set of files, every content of theirs and every   *)
(* depth limit: the stack of the parse recursion is the set of files in    *)
(* progress, the load succeeds for the well-formed projects and for no     *)
(* other, what it leaves is exact and in import order, and an error is     *)
(* genuine.                                                                *)
(*                                                                         *)
(* Linker and Structure, for every project the loader may hand over: every *)
(* expression is found again, the menu walk stays in its array, exactly    *)
(* the acceptable projects compile, and no edge of the graphs is lost.     *)
(***************************************************************************)
EXTENDS SchemaLoad, Structure, InductionLemmas

-----------------------------------------------------------------------------
FileOf(i) == imports[i].file
Target(i, k) == Canonical[input.imports[FileOf(i)][k]]

\* The statements of project.toml that were declared.
RootDone == {k \in DOMAIN input.root : phase = "project" => k < main}

\* The statements of import i that were followed.
Followed(i) ==
    {k \in DOMAIN input.imports[FileOf(i)] :
        \/ imports[i].state = "complete"
        \/ \E d \in DOMAIN frames :
              /\ frames[d].index = i
              /\ \/ frames[d].step = "declarations"
                 \/ frames[d].step = "imports" /\ k < frames[d].next}

\* The declarations of import i that were parsed.
Parsed(i) ==
    {k \in DOMAIN input.declares[FileOf(i)] :
        \/ imports[i].state = "complete"
        \/ \E d \in DOMAIN frames :
              /\ frames[d].index = i
              /\ frames[d].step = "declarations" /\ k < frames[d].next}

Decl(i, k) == input.declares[FileOf(i)][k]
Same(c, d) == c.kind = d.kind /\ c.id = d.id

\* StackIsVisiting without the statements between the documents.
StackHeld ==
    /\ \A d \in DOMAIN frames : imports[frames[d].index].state = "visiting"
    /\ \A i \in DOMAIN imports :
          imports[i].state = "visiting" => \E d \in DOMAIN frames : frames[d].index = i
    /\ \A d, e \in DOMAIN frames : frames[d].index = frames[e].index => d = e

\* A file is imported once.
FilesDistinct == \A i, j \in DOMAIN imports : FileOf(i) = FileOf(j) => i = j

\* A document that was not opened is at its first statement, one that imports
\* another is past a statement.
FrameShape ==
    /\ \A d \in DOMAIN frames : frames[d].step = "open" => frames[d].next = 1
    /\ \A d \in DOMAIN frames :
          d # Len(frames) =>
              /\ frames[d].step = "imports"
              /\ frames[d].next - 1 \in DOMAIN input.imports[FileOf(frames[d].index)]
              /\ Target(frames[d].index, frames[d].next - 1) = FileOf(frames[d + 1].index)

\* While project.toml is parsed nothing is opened; its imports come first.
RootFirst ==
    /\ phase = "project" =>
          /\ input.project \/ (main = 1 /\ imports = <<>>)
          /\ frames = <<>> /\ declared = <<>>
          /\ Len(imports) = main - 1
          /\ main <= Len(input.root) + 1
          /\ \A i \in DOMAIN imports : imports[i].state = "declared"
    /\ phase = "visit" => input.project
    /\ \A k \in RootDone : k \in DOMAIN imports /\ FileOf(k) = Canonical[input.root[k]]
    /\ \A i \in DOMAIN imports : imports[i].state = "declared" => i \in RootDone
    /\ phase = "visit" => \A i \in DOMAIN imports : i < main => imports[i].state # "declared"

\* Every statement that was followed led to an import and every import comes
\* from one statement.
Links ==
    /\ \A i \in DOMAIN imports : \A k \in Followed(i) :
          \E j \in DOMAIN imports : FileOf(j) = Target(i, k)
    /\ \A j \in DOMAIN imports :
          \/ j \in RootDone
          \/ \E i \in DOMAIN imports : \E k \in Followed(i) : FileOf(j) = Target(i, k)
    /\ \A i, j \in DOMAIN imports : \A k \in Followed(i) : \A l \in Followed(j) :
          Target(i, k) = Target(j, l) => i = j /\ k = l
    /\ \A r \in RootDone : \A i \in DOMAIN imports : \A k \in Followed(i) :
          Target(i, k) # FileOf(r)

\* The depth at which each import was met.
Level(level) ==
    /\ \A i \in DOMAIN imports : FileOf(i) \in Chain[level[i]] /\ level[i] <= Cardinality(File)
    /\ \A k \in RootDone : level[k] = 0
    /\ \A d \in DOMAIN frames : level[frames[d].index] = d - 1
    /\ \A i, j \in DOMAIN imports : \A k \in Followed(i) :
          FileOf(j) = Target(i, k) => level[j] = level[i] + 1

Levels == \E level \in [DOMAIN imports -> 0..(MaxDepth - 1)] : Level(level)

\* A document in progress is reached from each one below it.
StackChains ==
    \A d, e \in DOMAIN frames :
        e < d => FileOf(frames[d].index) \in
                    ChainFrom(Targets(input.imports[FileOf(frames[e].index)]))[d - e - 1]

\* Only readable documents are past their opening.
OpenedIsReadable ==
    /\ \A i \in DOMAIN imports : imports[i].state = "complete" => input.readable[FileOf(i)]
    /\ \A d \in DOMAIN frames :
          frames[d].step # "open" => input.readable[FileOf(frames[d].index)]

\* What a document imports is complete, but for the document it is importing now.
ImportsComplete ==
    \A i \in DOMAIN imports : \A k \in Followed(i) : \A j \in DOMAIN imports :
        FileOf(j) = Target(i, k) =>
            \/ imports[j].state = "complete"
            \/ \E d \in DOMAIN frames : /\ d # Len(frames)
                                        /\ frames[d].index = i
                                        /\ k = frames[d].next - 1

\* The declarations registered are those parsed, in good order and each once.
Registry ==
    /\ \A n \in DOMAIN declared : \E i \in DOMAIN imports : \E k \in Parsed(i) :
          declared[n] = [kind |-> Decl(i, k).kind, id |-> Decl(i, k).id, file |-> FileOf(i)]
    /\ \A i \in DOMAIN imports : \A k \in Parsed(i) :
          /\ Decl(i, k).defect = "none"
          /\ \E n \in DOMAIN declared :
                declared[n] = [kind |-> Decl(i, k).kind, id |-> Decl(i, k).id, file |-> FileOf(i)]
    /\ \A m, n \in DOMAIN declared : Same(declared[m], declared[n]) => m = n
    /\ \A i, j \in DOMAIN imports : \A k \in Parsed(i) : \A l \in Parsed(j) :
          Same(Decl(i, k), Decl(j, l)) => i = j /\ k = l

\* What holds until the end.
Running ==
    /\ status = "running"
    /\ RootFirst /\ Links /\ Levels /\ StackChains
    /\ OpenedIsReadable /\ ImportsComplete /\ Registry

\* What holds at the end.
Ended ==
    /\ status # "running"
    /\ status = "ok" <=> WellFormed
    /\ LoadIsExact
    /\ ErrorIsGenuine

IInv ==
    /\ input \in Inputs
    /\ TypeOK
    /\ DepthBounded
    /\ StackHeld
    /\ FilesDistinct
    /\ FrameShape
    /\ ImportsFirst
    /\ phase # "done" => Running
    /\ phase = "done" => Ended

-----------------------------------------------------------------------------
\* Imports lead to files.
LEMMA TargetsType ==
    ASSUME NEW paths \in Seq(Path)
    PROVE  /\ Targets(paths) \in SUBSET File
           /\ \A k \in DOMAIN paths : Canonical[paths[k]] \in File => Canonical[paths[k]] \in Targets(paths)
           /\ \A f \in Targets(paths) : \E k \in DOMAIN paths : f = Canonical[paths[k]]
BY CanonicalAssumption, FileAssumption DEF Targets

\* What the files hold.
LEMMA InputType ==
    ASSUME input \in Inputs
    PROVE  /\ input.root \in Seq(Path)
           /\ input.imports \in [File -> Seq(Path)]
           /\ input.declares \in [File -> Seq([kind : Kind, id : STRING,
                                               defect : {"none", "head", "body"}])]
           /\ input.readable \in [File -> BOOLEAN]
           /\ input.project \in BOOLEAN
BY InputsAssumption

\* The chains are what their definition says.
LEMMA ChainUnfold ==
    ASSUME input \in Inputs, NEW S \in SUBSET File
    PROVE  /\ ChainFrom(S) \in [Nat -> SUBSET File]
           /\ ChainFrom(S)[0] = S
           /\ \A n \in Nat : ChainFrom(S)[n + 1] =
                                UNION {Targets(input.imports[f]) : f \in ChainFrom(S)[n]}
<1> DEFINE Step(X) == UNION {Targets(input.imports[f]) : f \in X}
           G == [X \in SUBSET File |-> Step(X)]
           Body(c) == [n \in Nat |-> IF n = 0 THEN S ELSE Step(c[n - 1])]
           C == ChainFrom(S)
<1>1. \A X \in SUBSET File : Step(X) \in SUBSET File
  <2>1. \A f \in File : Targets(input.imports[f]) \in SUBSET File
    BY InputType, TargetsType
  <2> QED BY <2>1
<1>2. G \in [SUBSET File -> SUBSET File]
  BY <1>1
<1>3. PICK c \in [Nat -> SUBSET File] : c[0] = S /\ \A n \in Nat : c[n + 1] = G[c[n]]
  <2> HIDE DEF G
  <2> QED BY <1>2, Iterate
<1>4. c = Body(c)
  <2>1. ASSUME NEW n \in Nat PROVE c[n] = IF n = 0 THEN S ELSE Step(c[n - 1])
    <3>1. CASE n = 0
      BY <3>1, <1>3
    <3>2. CASE n # 0
      <4>1. n - 1 \in Nat /\ n - 1 + 1 = n
        BY <3>2
      <4>2. c[n] = G[c[n - 1]] /\ c[n - 1] \in SUBSET File
        BY <4>1, <1>3
      <4> QED BY <4>2, <3>2
    <3> QED BY <3>1, <3>2
  <2> HIDE DEF Step
  <2> QED BY <2>1
<1>5. C = CHOOSE g : g = Body(g)
  BY DEF ChainFrom
<1>6. C = Body(C)
  <2> HIDE DEF Body, C
  <2> QED BY <1>4, <1>5
<1>7. C[0] = S
  <2> HIDE DEF C, Step
  <2> QED BY <1>6
<1>8. \A n \in Nat : C[n + 1] = Step(C[n])
  <2> HIDE DEF C, Step
  <2> QED BY <1>6
<1>9. \A n \in Nat : C[n] \in SUBSET File
  <2> DEFINE Good == {n \in Nat : C[n] \in SUBSET File}
  <2> HIDE DEF C, Step
  <2>1. 0 \in Good
    BY <1>7
  <2>2. \A n \in Nat : n \in Good => n + 1 \in Good
    BY <1>8, <1>1
  <2>3. Nat \subseteq Good
    <3> HIDE DEF Good
    <3> QED BY <2>1, <2>2, Induction
  <2> QED BY <2>3
<1>10. C \in [Nat -> SUBSET File]
  <2> HIDE DEF C, Step
  <2> QED BY <1>6, <1>9
<1> QED BY <1>7, <1>8, <1>10

\* What the files say changes only with the files.
LEMMA InputFixed ==
    ASSUME input' = input
    PROVE  /\ \A S : ChainFrom(S)' = ChainFrom(S)
           /\ Chain' = Chain
           /\ Reached' = Reached
           /\ Statements' = Statements
           /\ Declarations' = Declarations
           /\ WellFormed' = WellFormed
<1>1. \A S : ChainFrom(S)' = ChainFrom(S)
  BY DEF ChainFrom, Targets
<1>2. Targets(input.root)' = Targets(input.root)
  BY DEF Targets
<1>3. Chain' = Chain
  BY <1>1, <1>2 DEF Chain
<1>4. Reached' = Reached
  BY <1>3 DEF Reached
<1>5. Statements' = Statements
  BY <1>4 DEF Statements
<1>6. Declarations' = Declarations
  BY <1>4 DEF Declarations
<1>7. WellFormed' = WellFormed
  BY <1>3, <1>4, <1>5, <1>6 DEF WellFormed, ImportedOnce, DeclaredOnce
<1> QED BY <1>1, <1>3, <1>4, <1>5, <1>6, <1>7

\* The type invariant, field by field.
LEMMA TypeFacts ==
    ASSUME TypeOK
    PROVE  /\ main \in Nat \ {0}
           /\ imports \in Seq(ImportRecord) /\ Len(imports) \in Nat
           /\ DOMAIN imports = 1..Len(imports)
           /\ \A i \in DOMAIN imports :
                 /\ imports[i] \in ImportRecord
                 /\ imports[i].path \in Path /\ imports[i].file \in File /\ FileOf(i) \in File
                 /\ imports[i].state \in {"declared", "visiting", "complete"}
           /\ frames \in Seq(FrameRecord) /\ Len(frames) \in Nat
           /\ DOMAIN frames = 1..Len(frames)
           /\ \A d \in DOMAIN frames :
                 /\ frames[d] \in FrameRecord
                 /\ frames[d].index \in DOMAIN imports
                 /\ frames[d].step \in {"open", "imports", "declarations"}
                 /\ frames[d].next \in Nat \ {0}
           /\ declared \in Seq(Declaration) /\ Len(declared) \in Nat
           /\ DOMAIN declared = 1..Len(declared)
           /\ \A n \in DOMAIN declared :
                 /\ declared[n] \in Declaration
                 /\ declared[n].kind \in Kind /\ declared[n].file \in File
<1>1. imports \in Seq(ImportRecord) /\ frames \in Seq(FrameRecord)
      /\ declared \in Seq(Declaration) /\ main \in Nat \ {0}
  BY DEF TypeOK
<1>2. /\ Len(imports) \in Nat /\ DOMAIN imports = 1..Len(imports)
      /\ \A i \in DOMAIN imports : imports[i] \in ImportRecord
  BY <1>1
<1>3. /\ Len(frames) \in Nat /\ DOMAIN frames = 1..Len(frames)
      /\ \A d \in DOMAIN frames : frames[d] \in FrameRecord
  BY <1>1
<1>4. /\ Len(declared) \in Nat /\ DOMAIN declared = 1..Len(declared)
      /\ \A n \in DOMAIN declared : declared[n] \in Declaration
  BY <1>1
<1>5. \A r \in ImportRecord : r.path \in Path /\ r.file \in File
                              /\ r.state \in {"declared", "visiting", "complete"}
  BY DEF ImportRecord
<1>6. \A r \in FrameRecord : /\ r.index \in DOMAIN imports
                             /\ r.step \in {"open", "imports", "declarations"}
                             /\ r.next \in Nat \ {0}
  BY DEF FrameRecord
<1>7. \A r \in Declaration : r.kind \in Kind /\ r.file \in File
  BY DEF Declaration
<1> QED BY <1>1, <1>2, <1>3, <1>4, <1>5, <1>6, <1>7 DEF FileOf

\* What a document holds.
LEMMA DocumentType ==
    ASSUME IInv, NEW i \in DOMAIN imports
    PROVE  /\ FileOf(i) \in File
           /\ input.imports[FileOf(i)] \in Seq(Path)
           /\ Len(input.imports[FileOf(i)]) \in Nat
           /\ DOMAIN input.imports[FileOf(i)] = 1..Len(input.imports[FileOf(i)])
           /\ Len(input.declares[FileOf(i)]) \in Nat
           /\ DOMAIN input.declares[FileOf(i)] = 1..Len(input.declares[FileOf(i)])
           /\ input.readable[FileOf(i)] \in BOOLEAN
           /\ \A k \in DOMAIN input.imports[FileOf(i)] :
                 input.imports[FileOf(i)][k] \in Path
           /\ \A k \in DOMAIN input.declares[FileOf(i)] :
                 /\ Decl(i, k).kind \in Kind /\ Decl(i, k).id \in STRING
                 /\ Decl(i, k).defect \in {"none", "head", "body"}
<1> DEFINE D == [kind : Kind, id : STRING, defect : {"none", "head", "body"}]
           decls == input.declares[FileOf(i)]
           stmts == input.imports[FileOf(i)]
<1>1. FileOf(i) \in File
  BY TypeFacts DEF IInv
<1>2. stmts \in Seq(Path) /\ decls \in Seq(D) /\ input.readable[FileOf(i)] \in BOOLEAN
  BY <1>1, InputType DEF IInv
<1>3. /\ Len(stmts) \in Nat /\ DOMAIN stmts = 1..Len(stmts)
      /\ \A k \in DOMAIN stmts : stmts[k] \in Path
  <2> HIDE DEF stmts
  <2> QED BY <1>2
<1>4. /\ Len(decls) \in Nat /\ DOMAIN decls = 1..Len(decls)
      /\ \A k \in DOMAIN decls : decls[k] \in D
  <2> HIDE DEF decls, D
  <2> QED BY <1>2
<1>5. \A d \in D : d.kind \in Kind /\ d.id \in STRING /\ d.defect \in {"none", "head", "body"}
  OBVIOUS
<1>6. \A k \in DOMAIN decls : /\ decls[k].kind \in Kind /\ decls[k].id \in STRING
                              /\ decls[k].defect \in {"none", "head", "body"}
  <2> HIDE DEF decls, D
  <2> QED BY <1>4, <1>5
<1> QED BY <1>1, <1>2, <1>3, <1>4, <1>6 DEF Decl

\* The errors the loader returns.
Errors == PathError \cup {"project", "document", "depth", "import_cycle",
                          "duplicate_import", "duplicate_definition", "declaration"}

\* ErrorIsGenuine for a given error.
Genuine(reason) ==
    /\ reason = "import_cycle" =>
          \E f \in Reached : \E n \in 0..Cardinality(File) :
              f \in ChainFrom(Targets(input.imports[f]))[n]
    /\ reason = "duplicate_import" => ~ImportedOnce
    /\ reason = "depth" => Chain[MaxDepth] # {}
    /\ reason = "duplicate_definition" => ~DeclaredOnce

\* Nothing was read yet.
LEMMA InitIInv == Init => IInv
<1> SUFFICES ASSUME Init PROVE IInv
  OBVIOUS
<1> USE DEF Init
<1>1. TypeOK
  BY DEF TypeOK
<1>2. DepthBounded
  BY DepthAssumption DEF DepthBounded
<1>3. StackHeld
  BY DEF StackHeld
<1>4. FilesDistinct /\ FrameShape /\ ImportsFirst
  BY DEF FilesDistinct, FrameShape, ImportsFirst
<1>5. RootDone = {}
  BY InputType DEF RootDone
<1>6. RootFirst
  BY <1>5, InputType DEF RootFirst
<1>7. Links
  BY <1>5 DEF Links
<1>8. Levels
  <2>1. Level([i \in DOMAIN imports |-> 0])
    BY <1>5 DEF Level
  <2>2. [i \in DOMAIN imports |-> 0] \in [DOMAIN imports -> 0..(MaxDepth - 1)]
    BY DepthAssumption
  <2> QED BY <2>1, <2>2 DEF Levels
<1>9. StackChains /\ OpenedIsReadable /\ ImportsComplete
  BY DEF StackChains, OpenedIsReadable, ImportsComplete
<1>10. Registry
  BY DEF Registry
<1> QED BY <1>1, <1>2, <1>3, <1>4, <1>6, <1>7, <1>8, <1>9, <1>10
       DEF IInv, Running

\* Where the load stops with an error, the project is not well formed.
LEMMA FailIInv ==
    ASSUME IInv, phase # "done", NEW reason \in Errors, Fail(reason),
           ~WellFormed, Genuine(reason)
    PROVE  IInv'
<1> USE DEF Fail
<1>1. TypeOK'
  <2>1. FrameRecord' = FrameRecord
    BY DEF FrameRecord
  <2>2. status' \in PathError \cup {"running", "ok", "project", "document", "depth",
                                    "import_cycle", "duplicate_import",
                                    "duplicate_definition", "declaration"}
    BY DEF Errors
  <2> QED BY <2>1, <2>2 DEF IInv, TypeOK
<1>2. DepthBounded' /\ StackHeld'
  BY DEF IInv, DepthBounded, StackHeld
<1>3. FilesDistinct'
  BY DEF IInv, FilesDistinct, FileOf
<1>4. FrameShape'
  BY DEF IInv, FrameShape, FileOf, Target
<1>5. ImportsFirst'
  BY DEF IInv, ImportsFirst, Targets
<1>6. Ended'
  <2>1. reason # "ok" /\ reason # "running"
    BY DEF Errors, PathError
  <2>2. ErrorIsGenuine'
    <3>1. Reached' = Reached /\ Statements' = Statements /\ Declarations' = Declarations
          /\ Chain' = Chain
      BY InputFixed
    <3>2. ASSUME NEW f PROVE ChainFrom(Targets(input.imports[f]))' = ChainFrom(Targets(input.imports[f]))
      BY DEF ChainFrom, Targets
    <3> QED BY <3>1, <3>2 DEF ErrorIsGenuine, Genuine, ImportedOnce, DeclaredOnce
  <2>3. ~WellFormed'
    BY InputFixed
  <2> QED BY <2>1, <2>2, <2>3 DEF Ended, LoadIsExact
<1>7. input' \in Inputs /\ phase' = "done"
  BY DEF IInv
<1> QED BY <1>1, <1>2, <1>3, <1>4, <1>5, <1>6, <1>7 DEF IInv

\* A step that parses no declaration leaves the identifiers alone.
LEMMA RegistryKept ==
    ASSUME IInv, phase # "done", UNCHANGED <<input, declared>>,
           DOMAIN imports' = DOMAIN imports,
           \A i \in DOMAIN imports : FileOf(i)' = FileOf(i) /\ Parsed(i)' = Parsed(i)
    PROVE  Registry' /\ ImportsFirst'
<1>1. \A i \in DOMAIN imports : \A k : Decl(i, k)' = Decl(i, k)
  BY DEF Decl
<1>2. Registry'
  BY <1>1 DEF IInv, Running, Registry, Same
<1>3. ImportsFirst'
  BY DEF IInv, ImportsFirst, Targets
<1> QED BY <1>2, <1>3

\* A step that follows no statement leaves the graph of imports alone.
LEMMA QuietIInv ==
    ASSUME IInv, phase # "done", phase' = "visit",
           UNCHANGED <<input, status>>, RootDone' = RootDone,
           DOMAIN imports' = DOMAIN imports,
           \A i \in DOMAIN imports : /\ FileOf(i)' = FileOf(i)
                                     /\ Followed(i)' = Followed(i),
           ASSUME NEW level, \A d \in DOMAIN frames : level[frames[d].index] = d - 1,
                  \A k \in RootDone : level[k] = 0
           PROVE  \A d \in DOMAIN frames' : level[frames'[d].index] = d - 1,
           TypeOK', DepthBounded', StackHeld', FrameShape', RootFirst', StackChains',
           OpenedIsReadable', ImportsComplete', Registry', ImportsFirst'
    PROVE  IInv'
<1>1. RootDone' = RootDone
  OBVIOUS
<1>2. \A i \in DOMAIN imports : \A k : Target(i, k)' = Target(i, k)
  BY DEF Target
<1>3. Links'
  <2>1. Links
    BY DEF IInv, Running
  <2>2. \A i \in DOMAIN imports : \A k \in Followed(i) :
          \E j \in DOMAIN imports : FileOf(j)' = Target(i, k)'
    BY <1>2, <2>1 DEF Links
  <2>3. \A j \in DOMAIN imports :
          \/ j \in RootDone
          \/ \E i \in DOMAIN imports : \E k \in Followed(i) : FileOf(j)' = Target(i, k)'
    BY <1>2, <2>1 DEF Links
  <2>4. \A i, j \in DOMAIN imports : \A k \in Followed(i) : \A l \in Followed(j) :
          Target(i, k)' = Target(j, l)' => i = j /\ k = l
    BY <1>2, <2>1 DEF Links
  <2>5. \A r \in RootDone : \A i \in DOMAIN imports : \A k \in Followed(i) :
          Target(i, k)' # FileOf(r)'
    BY <1>2, <2>1 DEF Links, IInv, Running, RootFirst
  <2> QED BY <1>1, <2>2, <2>3, <2>4, <2>5 DEF Links
<1>4. Levels'
  <2>1. PICK level \in [DOMAIN imports -> 0..(MaxDepth - 1)] : Level(level)
    BY DEF IInv, Running, Levels
  <2>2. Chain' = Chain
    BY InputFixed
  <2>3. \A d \in DOMAIN frames' : level[frames'[d].index] = d - 1
    BY <2>1 DEF Level
  <2>4. Level(level)'
    BY <1>1, <1>2, <2>1, <2>2, <2>3 DEF Level
  <2> QED BY <2>4 DEF Levels
<1>5. FilesDistinct'
  BY DEF IInv, FilesDistinct
<1> QED BY <1>3, <1>4, <1>5 DEF IInv, Running

\* Assigning a field of a frame.
LEMMA FrameStep ==
    ASSUME NEW f \in FrameRecord, NEW s \in {"open", "imports", "declarations"},
           NEW g, g = [f EXCEPT !.step = s]
    PROVE  g \in FrameRecord /\ g.index = f.index /\ g.step = s /\ g.next = f.next
BY DEF FrameRecord

\* Assigning the place a frame is at.
LEMMA FrameNext ==
    ASSUME NEW f \in FrameRecord, NEW m \in Nat \ {0},
           NEW g, g = [f EXCEPT !.next = m]
    PROVE  g \in FrameRecord /\ g.index = f.index /\ g.step = f.step /\ g.next = m
BY DEF FrameRecord

\* The innermost document.
LEMMA TopFacts ==
    ASSUME IInv, NEW step, AtTop(step)
    PROVE  /\ phase = "visit" /\ Running
           /\ Len(frames) \in DOMAIN frames /\ Len(frames) \in Nat \ {0}
           /\ Top = frames[Len(frames)] /\ Top \in FrameRecord
           /\ Top.step = step /\ Top.next \in Nat \ {0}
           /\ Top.index \in DOMAIN imports /\ imports[Top.index].state = "visiting"
           /\ TopFile = FileOf(Top.index) /\ TopFile \in File
<1>1. phase = "visit" /\ Running /\ frames # <<>> /\ TypeOK
  BY DEF AtTop, IInv
<1>2. Len(frames) \in DOMAIN frames /\ Len(frames) \in Nat \ {0}
  BY <1>1, TypeFacts
<1>3. /\ Top \in FrameRecord /\ Top.index \in DOMAIN imports /\ Top.next \in Nat \ {0}
  BY <1>1, <1>2, TypeFacts DEF Top
<1>4. imports[Top.index].state = "visiting"
  BY <1>2 DEF IInv, StackHeld, Top
<1>5. TopFile = FileOf(Top.index) /\ TopFile \in File
  BY <1>1, <1>3, TypeFacts DEF TopFile, FileOf
<1> QED BY <1>1, <1>2, <1>3, <1>4, <1>5 DEF AtTop, Top

\* A file that was imported is reached.
LEMMA ImportedIsReached ==
    ASSUME IInv, Running, NEW i \in DOMAIN imports
    PROVE  FileOf(i) \in Reached /\ FileOf(i) \in File
<1>1. PICK level \in [DOMAIN imports -> 0..(MaxDepth - 1)] : Level(level)
  BY DEF Running, Levels
<1>2. FileOf(i) \in Chain[level[i]] /\ level[i] <= Cardinality(File)
  BY <1>1 DEF Level
<1>3. Cardinality(File) \in Nat
  BY FS_CardinalityType, FileAssumption
<1>4. level[i] \in 0..(MaxDepth - 1)
  BY <1>1
<1>5. level[i] \in 0..Cardinality(File)
  BY <1>2, <1>3, <1>4, DepthAssumption
<1>6. FileOf(i) \in Reached
  BY <1>2, <1>5 DEF Reached
<1>7. FileOf(i) \in File
  BY TypeFacts DEF IInv
<1> QED BY <1>6, <1>7

\* A step that changes the innermost document only, not what it followed.
LEMMA TopKept ==
    ASSUME IInv, NEW step, AtTop(step), NEW top, top = Top.index,
           NEW r \in FrameRecord, r.index = top,
           frames' = [frames EXCEPT ![Len(frames)] = r],
           UNCHANGED <<input, phase, main, imports, status>>,
           r.step = "open" => r.next = 1,
           r.step # "open" => input.readable[TopFile],
           Followed(top)' = Followed(top),
           declared' \in Seq(Declaration), Registry', ImportsFirst'
    PROVE  IInv'
<1> DEFINE n == Len(frames)
<1>1. /\ phase = "visit" /\ Running /\ TypeOK
      /\ n \in DOMAIN frames /\ n \in Nat \ {0} /\ frames[n].index = top
      /\ top \in DOMAIN imports /\ TopFile = FileOf(top)
  BY TopFacts DEF IInv
<1>2. frames \in Seq(FrameRecord) /\ DOMAIN frames = 1..n
  BY <1>1, TypeFacts
<1>3. /\ frames' \in Seq(FrameRecord) /\ DOMAIN frames' = DOMAIN frames /\ Len(frames') = n
      /\ frames'[n] = r
      /\ \A d \in DOMAIN frames : d # n => frames'[d] = frames[d]
  BY <1>1, <1>2, SeqUpdate
<1>4. \A d \in DOMAIN frames : frames'[d].index = frames[d].index
  BY <1>1, <1>3
<1>5. TypeOK'
  <2>1. FrameRecord' = FrameRecord
    BY DEF FrameRecord
  <2> QED BY <1>1, <1>3, <2>1, Zenon DEF TypeOK
<1>6. DepthBounded' /\ StackHeld'
  BY <1>3, <1>4 DEF IInv, DepthBounded, StackHeld
<1>7. /\ \A i : FileOf(i)' = FileOf(i)
      /\ \A i, k : Target(i, k)' = Target(i, k)
  BY DEF FileOf, Target
<1>8. FrameShape'
  <2>1. FrameShape
    BY DEF IInv
  <2>2. \A d \in DOMAIN frames : d # n => d + 1 \in DOMAIN frames
    BY <1>1, <1>2
  <2> QED BY <1>3, <1>4, <1>7, <2>1, <2>2 DEF FrameShape
<1>9. \A i \in DOMAIN imports : i # top => Followed(i)' = Followed(i)
  BY <1>1, <1>3, <1>7 DEF Followed
<1>10. RootDone' = RootDone
  BY DEF RootDone
<1>11. RootFirst'
  BY <1>1, <1>7, <1>10 DEF Running, RootFirst
<1>12. StackChains'
  <2>1. ASSUME NEW f PROVE ChainFrom(Targets(input.imports[f]))' = ChainFrom(Targets(input.imports[f]))
    BY DEF ChainFrom, Targets
  <2>2. StackChains
    BY <1>1 DEF Running
  <2> QED BY <1>3, <1>4, <1>7, <2>1, <2>2 DEF StackChains
<1>13. OpenedIsReadable'
  BY <1>1, <1>3, <1>7 DEF Running, OpenedIsReadable
<1>14. \A i \in DOMAIN imports : Followed(i)' = Followed(i)
  BY <1>9
<1>15. ImportsComplete'
  <2>1. ImportsComplete
    BY <1>1 DEF Running
  <2> SUFFICES ASSUME NEW i \in DOMAIN imports, NEW k \in Followed(i), NEW j \in DOMAIN imports,
                      FileOf(j) = Target(i, k), imports[j].state # "complete"
               PROVE  \E d \in DOMAIN frames' : /\ d # Len(frames')
                                                /\ frames'[d].index = i
                                                /\ k = frames'[d].next - 1
    BY <1>7, <1>14 DEF ImportsComplete
  <2>2. PICK d \in DOMAIN frames : d # n /\ frames[d].index = i /\ k = frames[d].next - 1
    BY <2>1 DEF ImportsComplete
  <2> QED BY <1>3, <2>2
<1> HIDE DEF n
<1>16. ASSUME NEW level, \A d \in DOMAIN frames : level[frames[d].index] = d - 1
       PROVE  \A d \in DOMAIN frames' : level[frames'[d].index] = d - 1
  BY <1>3, <1>4, <1>16
<1>17. /\ phase # "done" /\ phase' = "visit" /\ DOMAIN imports' = DOMAIN imports
       /\ \A i \in DOMAIN imports : FileOf(i)' = FileOf(i) /\ Followed(i)' = Followed(i)
  BY <1>1, <1>7, <1>14
<1> QED BY <1>5, <1>6, <1>8, <1>10, <1>11, <1>12, <1>13, <1>15, <1>16, <1>17, QuietIInv

\* A step that changes the innermost document only, and neither what it followed
\* nor what it parsed.
LEMMA TopIInv ==
    ASSUME IInv, NEW step, AtTop(step), NEW top, top = Top.index,
           NEW r \in FrameRecord, r.index = top,
           frames' = [frames EXCEPT ![Len(frames)] = r],
           UNCHANGED <<input, phase, main, imports, declared, status>>,
           r.step = "open" => r.next = 1,
           r.step # "open" => input.readable[TopFile],
           Followed(top)' = Followed(top),
           Parsed(top)' = Parsed(top)
    PROVE  IInv'
<1> DEFINE n == Len(frames)
<1>1. /\ phase = "visit" /\ TypeOK
      /\ n \in DOMAIN frames /\ frames[n].index = top
  BY TopFacts DEF IInv
<1>2. frames \in Seq(FrameRecord) /\ declared' \in Seq(Declaration)
  BY <1>1, TypeFacts
<1>3. /\ DOMAIN frames' = DOMAIN frames /\ frames'[n] = r
      /\ \A d \in DOMAIN frames : d # n => frames'[d] = frames[d]
  BY <1>1, <1>2, SeqUpdate
<1>4. \A i : FileOf(i)' = FileOf(i)
  BY DEF FileOf
<1>5. \A i \in DOMAIN imports : i # top => Parsed(i)' = Parsed(i)
  BY <1>1, <1>3, <1>4 DEF Parsed
<1>6. Registry' /\ ImportsFirst'
  BY <1>1, <1>4, <1>5, RegistryKept
<1> QED BY <1>2, <1>6, TopKept

\* A document is opened, or it is not a version 2 document.
LEMMA OpenDocumentIInv == ASSUME IInv, OpenDocument PROVE IInv'
<1> DEFINE n == Len(frames)
           r == [frames[n] EXCEPT !.step = "imports"]
<1> AtTop("open")
  BY DEF OpenDocument
<1>1. CASE ~input.readable[TopFile]
  <2>1. Fail("document")
    BY <1>1 DEF OpenDocument, TopFile
  <2>2. TopFile \in Reached
    BY TopFacts, ImportedIsReached
  <2>3. ~WellFormed
    BY <1>1, <2>2 DEF WellFormed
  <2>4. Genuine("document") /\ "document" \in Errors
    BY DEF Genuine, Errors
  <2> QED BY <2>1, <2>3, <2>4, FailIInv, TopFacts
<1>2. CASE input.readable[TopFile]
  <2>1. frames' = [frames EXCEPT ![n].step = "imports"]
        /\ UNCHANGED <<input, phase, main, imports, declared, status>>
    BY <1>2 DEF OpenDocument, TopFile
  <2>2. PICK top : top = Top.index
    OBVIOUS
  <2>3. /\ n \in DOMAIN frames /\ frames[n] \in FrameRecord /\ frames[n].index = top
        /\ frames[n].step = "open" /\ top \in DOMAIN imports /\ TopFile = FileOf(top)
    BY <2>2, TopFacts
  <2>4. frames[n].next = 1
    BY <2>3 DEF IInv, FrameShape
  <2>5. r \in FrameRecord /\ r.index = top /\ r.step = "imports" /\ r.next = 1
    BY <2>3, <2>4 DEF FrameRecord
  <2>6. frames' = [frames EXCEPT ![n] = r]
    BY <2>1
  <2>7. frames \in Seq(FrameRecord)
    BY TypeFacts DEF IInv
  <2>8. /\ DOMAIN frames' = DOMAIN frames /\ frames'[n] = r
        /\ \A d \in DOMAIN frames : d # n => frames'[d] = frames[d]
    <3> HIDE DEF r, n
    <3> QED BY <2>3, <2>5, <2>6, <2>7, SeqUpdate
  <2>9. \A d \in DOMAIN frames : frames[d].index = top => d = n
    BY <2>3 DEF IInv, StackHeld
  <2>10. FileOf(top)' = FileOf(top)
    BY <2>1 DEF FileOf
  <2>11. Followed(top)' = Followed(top)
    <3>1. \A k \in DOMAIN input.imports[FileOf(top)] : ~(k < 1)
      BY <2>3, DocumentType
    <3> HIDE DEF r, n
    <3> QED BY <2>1, <2>3, <2>5, <2>8, <2>9, <2>10, <3>1 DEF Followed
  <2>12. Parsed(top)' = Parsed(top)
    <3> HIDE DEF r, n
    <3> QED BY <2>1, <2>3, <2>5, <2>8, <2>9, <2>10 DEF Parsed
  <2> HIDE DEF r
  <2> QED BY <1>2, <2>1, <2>2, <2>5, <2>6, <2>11, <2>12, TopIInv
<1> QED BY <1>1, <1>2

\* The statements of a document end.
LEMMA BeginDeclarationsIInv == ASSUME IInv, BeginDeclarations PROVE IInv'
<1> DEFINE n == Len(frames)
           r == [frames[n] EXCEPT !.step = "declarations", !.next = 1]
<1> AtTop("imports")
  BY DEF BeginDeclarations
<1>1. /\ frames' = [frames EXCEPT ![n].step = "declarations", ![n].next = 1]
      /\ UNCHANGED <<input, phase, main, imports, declared, status>>
  BY DEF BeginDeclarations
<1>2. PICK top : top = Top.index
  OBVIOUS
<1>3. /\ n \in DOMAIN frames /\ frames[n] \in FrameRecord /\ frames[n].index = top
      /\ frames[n].step = "imports" /\ top \in DOMAIN imports /\ TopFile = FileOf(top)
      /\ frames[n].next \in Nat \ {0} /\ Running
  BY <1>2, TopFacts
<1>4. r \in FrameRecord /\ r.index = top /\ r.step = "declarations" /\ r.next = 1
  <2> DEFINE g == [frames[n] EXCEPT !.step = "declarations"]
  <2>1. g \in FrameRecord /\ g.index = top /\ g.step = "declarations"
    BY <1>3, FrameStep
  <2>2. r = [g EXCEPT !.next = 1]
    OBVIOUS
  <2> HIDE DEF g, r
  <2> QED BY <2>1, <2>2, FrameNext
<1>5. frames' = [frames EXCEPT ![n] = r]
  BY <1>1, <1>3, TypeFacts DEF IInv
<1>6. frames \in Seq(FrameRecord)
  BY TypeFacts DEF IInv
<1>7. /\ DOMAIN frames' = DOMAIN frames /\ frames'[n] = r
      /\ \A d \in DOMAIN frames : d # n => frames'[d] = frames[d]
  <2> HIDE DEF r, n
  <2> QED BY <1>3, <1>4, <1>5, <1>6, SeqUpdate
<1>8. \A d \in DOMAIN frames : frames[d].index = top => d = n
  BY <1>3 DEF IInv, StackHeld
<1>9. FileOf(top)' = FileOf(top)
  BY <1>1 DEF FileOf
<1>10. Followed(top)' = Followed(top)
  <2>1. \A k \in DOMAIN input.imports[FileOf(top)] : k < frames[n].next
    <3>1. frames[n].next > Len(input.imports[FileOf(top)])
      BY <1>3, TopFacts DEF BeginDeclarations
    <3> QED BY <1>3, <3>1, DocumentType
  <2> HIDE DEF r, n
  <2> QED BY <1>1, <1>3, <1>4, <1>7, <1>8, <1>9, <2>1 DEF Followed
<1>11. Parsed(top)' = Parsed(top)
  <2>1. \A k \in DOMAIN input.declares[FileOf(top)] : ~(k < 1)
    BY <1>3, DocumentType
  <2> HIDE DEF r, n
  <2> QED BY <1>1, <1>3, <1>4, <1>7, <1>8, <1>9, <2>1 DEF Parsed
<1>12. input.readable[TopFile]
  BY <1>3 DEF Running, OpenedIsReadable
<1> HIDE DEF r
<1> QED BY <1>1, <1>2, <1>4, <1>5, <1>10, <1>11, <1>12, TopIInv

\* project.toml is refused.
LEMMA RefuseProjectIInv == ASSUME IInv, RefuseProject PROVE IInv'
<1>1. phase # "done" /\ Fail("project") /\ ~input.project
  BY DEF RefuseProject
<1>2. ~WellFormed /\ Genuine("project") /\ "project" \in Errors
  BY <1>1 DEF WellFormed, Genuine, Errors
<1> QED BY <1>1, <1>2, FailIInv

\* Assigning the state of an import.
LEMMA ImportState ==
    ASSUME NEW r \in ImportRecord, NEW s \in {"declared", "visiting", "complete"},
           NEW g, g = [r EXCEPT !.state = s]
    PROVE  g \in ImportRecord /\ g.file = r.file /\ g.path = r.path /\ g.state = s
BY DEF ImportRecord

\* Assigning the state of one import of the project.
LEMMA StateUpdate ==
    ASSUME TypeOK, NEW m \in DOMAIN imports, NEW s \in {"declared", "visiting", "complete"},
           imports' = [imports EXCEPT ![m].state = s]
    PROVE  /\ imports' \in Seq(ImportRecord)
           /\ DOMAIN imports' = DOMAIN imports /\ Len(imports') = Len(imports)
           /\ \A i \in DOMAIN imports : FileOf(i)' = FileOf(i)
           /\ imports'[m].state = s
           /\ \A i \in DOMAIN imports : i # m => imports'[i] = imports[i]
<1> DEFINE r == [imports[m] EXCEPT !.state = s]
<1>1. imports \in Seq(ImportRecord) /\ imports[m] \in ImportRecord
  BY TypeFacts
<1>2. r \in ImportRecord /\ r.file = imports[m].file /\ r.state = s
  BY <1>1, ImportState
<1>3. imports' = [imports EXCEPT ![m] = r]
  OBVIOUS
<1> HIDE DEF r
<1>4. /\ imports' \in Seq(ImportRecord)
      /\ DOMAIN imports' = DOMAIN imports /\ Len(imports') = Len(imports)
      /\ imports'[m] = r
      /\ \A i \in DOMAIN imports : i # m => imports'[i] = imports[i]
  BY <1>1, <1>2, <1>3, SeqUpdate
<1> QED BY <1>2, <1>4 DEF FileOf

\* The statements of project.toml end.
LEMMA BeginVisitsIInv == ASSUME IInv, BeginVisits PROVE IInv'
<1> USE DEF BeginVisits
<1>1. phase = "project" /\ Running /\ TypeOK /\ frames = <<>> /\ DOMAIN frames = {}
  BY DEF IInv, Running, RootFirst
<1>2. RootDone' = RootDone
  <2>1. DOMAIN input.root = 1..Len(input.root) /\ Len(input.root) \in Nat
    BY InputType DEF IInv
  <2>2. \A k \in DOMAIN input.root : k < main
    BY <1>1, <2>1, TypeFacts
  <2> QED BY <1>1, <2>2 DEF RootDone
<1>3. /\ \A i : FileOf(i)' = FileOf(i)
      /\ \A i : Followed(i)' = Followed(i) /\ Parsed(i)' = Parsed(i)
  BY DEF FileOf, Followed, Parsed
<1>4. TypeOK'
  <2>1. FrameRecord' = FrameRecord
    BY DEF FrameRecord
  <2>2. main' \in Nat \ {0}
    OBVIOUS
  <2> QED BY <1>1, <2>1, <2>2, Zenon DEF TypeOK
<1>5. DepthBounded' /\ StackHeld' /\ FrameShape' /\ StackChains'
  BY <1>1 DEF IInv, DepthBounded, StackHeld, FrameShape, StackChains
<1>6. RootFirst'
  <2>1. \A i \in DOMAIN imports : ~(i < 1)
    BY <1>1, TypeFacts
  <2> QED BY <1>1, <1>2, <1>3, <2>1 DEF Running, RootFirst
<1>7. OpenedIsReadable'
  BY <1>1, <1>3 DEF Running, OpenedIsReadable
<1>8. ImportsComplete'
  <2>1. \A i, k : Target(i, k)' = Target(i, k)
    BY DEF Target, FileOf
  <2> QED BY <1>1, <1>3, <2>1 DEF Running, ImportsComplete
<1>9. phase # "done" /\ phase' = "visit" /\ UNCHANGED <<input, declared, status, imports, frames>>
  BY <1>1
<1>10. Registry' /\ ImportsFirst'
  BY <1>3, <1>9, RegistryKept
<1> QED BY <1>10, <1>1, <1>2, <1>3, <1>4, <1>5, <1>6, <1>7, <1>8, <1>9, QuietIInv

\* The loop over the imports: those complete are passed over, the others are the
\* ones project.toml declares.
LEMMA MainLoopIInv == ASSUME IInv, MainLoop PROVE IInv'
<1> USE DEF MainLoop
<1>1. /\ phase = "visit" /\ Running /\ TypeOK /\ frames = <<>> /\ DOMAIN frames = {}
      /\ main \in DOMAIN imports /\ main \in Nat \ {0}
  <2>1. TypeOK
    BY DEF IInv
  <2> QED BY <2>1, TypeFacts DEF IInv
<1>2. RootDone' = RootDone
  BY <1>1 DEF RootDone
<1>3. \A i \in DOMAIN imports : imports[i].state # "visiting"
  BY <1>1 DEF IInv, StackHeld
<1>4. phase # "done" /\ phase' = "visit" /\ UNCHANGED <<input, declared, status>>
  BY <1>1
<1>5. CASE imports[main].state = "complete"
  <2>1. UNCHANGED <<imports, frames>> /\ main' = main + 1
    BY <1>5
  <2> HIDE DEF MainLoop
  <2>2. /\ \A i : FileOf(i)' = FileOf(i)
        /\ \A i : Followed(i)' = Followed(i) /\ Parsed(i)' = Parsed(i)
        /\ \A i, k : Target(i, k)' = Target(i, k)
    BY <1>4, <2>1 DEF FileOf, Followed, Parsed, Target
  <2>3. TypeOK'
    <3>1. FrameRecord' = FrameRecord
      BY <2>1 DEF FrameRecord
    <3>2. main' \in Nat \ {0}
      BY <1>1, <2>1
    <3> QED BY <1>1, <1>4, <2>1, <3>1, <3>2, Zenon DEF TypeOK
  <2>4. DepthBounded' /\ StackHeld' /\ FrameShape' /\ StackChains'
    BY <1>1, <2>1 DEF IInv, DepthBounded, StackHeld, FrameShape, StackChains
  <2>5. RootFirst'
    <3>1. \A i \in DOMAIN imports : i < main + 1 => i < main \/ i = main
      BY <1>1, TypeFacts
    <3> QED BY <1>1, <1>2, <1>4, <1>5, <2>1, <2>2, <3>1 DEF Running, RootFirst
  <2>6. OpenedIsReadable' /\ ImportsComplete'
    BY <1>1, <1>4, <2>1, <2>2 DEF Running, OpenedIsReadable, ImportsComplete
  <2>7. Registry' /\ ImportsFirst'
    BY <1>4, <2>1, <2>2, RegistryKept
  <2> QED BY <1>1, <1>2, <1>4, <2>1, <2>2, <2>3, <2>4, <2>5, <2>6, <2>7, QuietIInv
<1>6. CASE imports[main].state # "complete"
  <2>1. /\ imports' = [imports EXCEPT ![main].state = "visiting"]
        /\ frames' = <<Frame(main)>> /\ main' = main + 1
    BY <1>6
  <2> HIDE DEF MainLoop
  <2>2. imports[main].state = "declared" /\ main \in RootDone
    BY <1>1, <1>3, <1>6, TypeFacts DEF Running, RootFirst
  <2>3. /\ imports' \in Seq(ImportRecord)
        /\ DOMAIN imports' = DOMAIN imports /\ Len(imports') = Len(imports)
        /\ \A i \in DOMAIN imports : FileOf(i)' = FileOf(i)
        /\ imports'[main].state = "visiting"
        /\ \A i \in DOMAIN imports : i # main => imports'[i] = imports[i]
    BY <1>1, <2>1, StateUpdate
  <2>4. /\ DOMAIN frames' = {1} /\ Len(frames') = 1 /\ frames' \in Seq({Frame(main)})
        /\ frames'[1].index = main /\ frames'[1].step = "open" /\ frames'[1].next = 1
    BY <2>1 DEF Frame
  <2>5. TypeOK'
    <3>1. Frame(main) \in FrameRecord'
      BY <1>1, <2>3 DEF Frame, FrameRecord
    <3>2. frames' \in Seq(FrameRecord')
      BY <2>1, <3>1
    <3>3. main' \in Nat \ {0}
      BY <1>1, <2>1
    <3> QED BY <1>1, <1>4, <2>3, <3>2, <3>3, Zenon DEF TypeOK
  <2>6. DepthBounded' /\ StackHeld' /\ FrameShape' /\ StackChains'
    BY <1>1, <1>3, <2>3, <2>4, DepthAssumption
       DEF DepthBounded, StackHeld, FrameShape, StackChains
  <2>7. ASSUME NEW i \in DOMAIN imports
        PROVE  Followed(i)' = Followed(i) /\ Parsed(i)' = Parsed(i)
    BY <1>1, <1>4, <2>2, <2>3, <2>4 DEF Followed, Parsed
  <2>8. RootFirst'
    <3>1. \A i \in DOMAIN imports : i < main + 1 => i < main \/ i = main
      BY <1>1, TypeFacts
    <3> QED BY <1>1, <1>2, <1>4, <2>1, <2>3, <3>1 DEF Running, RootFirst
  <2>9. OpenedIsReadable'
    BY <1>1, <1>4, <2>3, <2>4 DEF Running, OpenedIsReadable
  <2>10. ImportsComplete'
    <3>1. \A i \in DOMAIN imports : \A k : Target(i, k)' = Target(i, k)
      BY <1>4, <2>3 DEF Target
    <3>2. \A j \in DOMAIN imports : imports[j].state = "complete" => imports'[j].state = "complete"
      BY <2>2, <2>3
    <3> QED BY <1>1, <2>3, <2>7, <3>1, <3>2 DEF Running, ImportsComplete
  <2>11. ASSUME NEW level, \A k \in RootDone : level[k] = 0
         PROVE  \A d \in DOMAIN frames' : level[frames'[d].index] = d - 1
    BY <2>2, <2>4, <2>11
  <2>12. Registry' /\ ImportsFirst'
    BY <1>4, <2>3, <2>7, RegistryKept
  <2> QED BY <1>1, <1>2, <1>4, <2>3, <2>5, <2>6, <2>7, <2>8, <2>9, <2>10, <2>11, <2>12,
             QuietIInv
<1> QED BY <1>5, <1>6

\* A document is complete: all its statements were followed, all its declarations
\* parsed, and the document below goes on.
LEMMA CloseDocumentIInv == ASSUME IInv, CloseDocument PROVE IInv'
<1> DEFINE n == Len(frames)
<1> AtTop("declarations")
  BY DEF CloseDocument
<1>1. PICK top : top = Top.index
  OBVIOUS
<1>2. /\ phase = "visit" /\ Running /\ TypeOK
      /\ n \in DOMAIN frames /\ n \in Nat \ {0} /\ DOMAIN frames = 1..n
      /\ frames[n].index = top /\ frames[n].step = "declarations"
      /\ top \in DOMAIN imports /\ imports[top].state = "visiting" /\ TopFile = FileOf(top)
      /\ \A d \in DOMAIN frames : frames[d].index \in DOMAIN imports
  BY <1>1, TopFacts, TypeFacts DEF IInv
<1>3. /\ imports' = [imports EXCEPT ![top].state = "complete"]
      /\ frames' = SubSeq(frames, 1, n - 1)
      /\ UNCHANGED <<input, phase, main, declared, status>>
  BY <1>1 DEF CloseDocument
<1>4. frames[n].next > Len(input.declares[FileOf(top)])
  BY <1>2, TopFacts DEF CloseDocument
<1>5. /\ imports' \in Seq(ImportRecord)
      /\ DOMAIN imports' = DOMAIN imports /\ Len(imports') = Len(imports)
      /\ \A i \in DOMAIN imports : FileOf(i)' = FileOf(i)
      /\ imports'[top].state = "complete"
      /\ \A i \in DOMAIN imports : i # top => imports'[i] = imports[i]
  BY <1>2, <1>3, StateUpdate
<1>6. /\ frames' \in Seq(FrameRecord) /\ Len(frames') = n - 1 /\ DOMAIN frames' = 1..(n - 1)
      /\ \A d \in 1..(n - 1) : frames'[d] = frames[d] /\ d \in DOMAIN frames /\ d # n
  <2>1. frames \in Seq(FrameRecord)
    BY <1>2, TypeFacts
  <2> QED BY <1>2, <1>3, <2>1
<1>7. \A d \in DOMAIN frames : frames[d].index = top => d = n
  BY <1>2 DEF IInv, StackHeld
<1>8. \A d \in DOMAIN frames : d # n => d \in 1..(n - 1)
  BY <1>2
<1> HIDE DEF n
<1>9. TypeOK'
  <2>1. FrameRecord' = FrameRecord
    BY <1>5 DEF FrameRecord
  <2> QED BY <1>2, <1>3, <1>5, <1>6, <2>1, Zenon DEF TypeOK
<1>10. DepthBounded'
  <2>1. n <= MaxDepth
    BY DEF IInv, DepthBounded, n
  <2>2. n - 1 <= MaxDepth
    BY <1>2, <2>1, DepthAssumption
  <2> QED BY <1>6, <2>2 DEF DepthBounded
<1>11. StackHeld'
  <2>1. ASSUME NEW d \in DOMAIN frames' PROVE imports'[frames'[d].index].state = "visiting"
    <3>1. d \in DOMAIN frames /\ d # n /\ frames'[d] = frames[d]
      BY <1>6
    <3>2. frames[d].index # top /\ frames[d].index \in DOMAIN imports
      BY <1>2, <1>7, <3>1
    <3> QED BY <1>5, <3>1, <3>2 DEF IInv, StackHeld
  <2>2. ASSUME NEW i \in DOMAIN imports', imports'[i].state = "visiting"
        PROVE  \E d \in DOMAIN frames' : frames'[d].index = i
    <3>1. i # top /\ i \in DOMAIN imports /\ imports[i].state = "visiting"
      BY <1>5, <2>2
    <3>2. PICK d \in DOMAIN frames : frames[d].index = i
      BY <3>1 DEF IInv, StackHeld
    <3> QED BY <1>2, <1>6, <1>8, <3>1, <3>2
  <2>3. \A d, e \in DOMAIN frames' : frames'[d].index = frames'[e].index => d = e
    BY <1>6 DEF IInv, StackHeld
  <2> QED BY <2>1, <2>2, <2>3 DEF StackHeld
<1>12. \A i \in DOMAIN imports : \A k : Target(i, k)' = Target(i, k)
  BY <1>3, <1>5 DEF Target
<1>13. FrameShape'
  <2>1. FrameShape
    BY DEF IInv
  <2>2. \A d \in 1..(n - 1) : d # n - 1 => d + 1 \in 1..(n - 1)
    BY <1>2
  <2>3. ASSUME NEW d \in DOMAIN frames', d # Len(frames')
        PROVE  /\ frames'[d].step = "imports"
               /\ frames'[d].next - 1 \in DOMAIN input'.imports[imports'[frames'[d].index].file]
               /\ Canonical[input'.imports[imports'[frames'[d].index].file][frames'[d].next - 1]]
                    = imports'[frames'[d + 1].index].file
    <3>1. PICK i, j : i = frames[d].index /\ j = frames[d + 1].index
      OBVIOUS
    <3>2. /\ d \in DOMAIN frames /\ d # n /\ frames'[d] = frames[d]
          /\ d + 1 \in DOMAIN frames /\ frames'[d + 1] = frames[d + 1]
      BY <1>6, <2>2, <2>3
    <3>3. i \in DOMAIN imports /\ j \in DOMAIN imports
      BY <1>2, <3>1, <3>2
    <3>4. /\ frames[d].step = "imports"
          /\ frames[d].next - 1 \in DOMAIN input.imports[imports[i].file]
          /\ Canonical[input.imports[imports[i].file][frames[d].next - 1]] = imports[j].file
      BY <2>1, <3>1, <3>2 DEF FrameShape, Target, FileOf, n
    <3>5. imports'[i].file = imports[i].file /\ imports'[j].file = imports[j].file
      BY <1>5, <3>3 DEF FileOf
    <3> QED BY <1>3, <3>1, <3>2, <3>4, <3>5
  <2> QED BY <1>6, <2>1, <2>3 DEF FrameShape, Target, FileOf
<1>14. ASSUME NEW i \in DOMAIN imports
       PROVE  Followed(i)' = Followed(i) /\ Parsed(i)' = Parsed(i)
  <2>1. CASE i = top
    <3>1. Followed(i) = DOMAIN input.imports[FileOf(i)]
      BY <1>2, <2>1 DEF Followed
    <3>2. Parsed(i) = DOMAIN input.declares[FileOf(i)]
      <4>1. \A k \in DOMAIN input.declares[FileOf(i)] : k < frames[n].next
        <5>1. frames[n].next \in Nat
          BY <1>2, TypeFacts
        <5> QED BY <1>4, <2>1, <5>1, DocumentType DEF n
      <4> QED BY <1>2, <2>1, <4>1 DEF Parsed
    <3> QED BY <1>3, <1>5, <2>1, <3>1, <3>2 DEF Followed, Parsed
  <2>2. CASE i # top
    <3>1. imports'[i] = imports[i] /\ FileOf(i)' = FileOf(i)
      BY <1>5, <2>2
    <3>2. \A d : (d \in DOMAIN frames /\ frames[d].index = i)
                   <=> (d \in DOMAIN frames' /\ frames'[d].index = i)
      BY <1>2, <1>6, <1>8, <2>2
    <3>3. \A d \in DOMAIN frames' : frames'[d] = frames[d]
      BY <1>6
    <3>4. Followed(i)' = Followed(i)
      <4>1. ASSUME NEW k \in DOMAIN input.imports[FileOf(i)]
            PROVE  (\E d \in DOMAIN frames' :
                      /\ frames'[d].index = i
                      /\ \/ frames'[d].step = "declarations"
                         \/ frames'[d].step = "imports" /\ k < frames'[d].next)
                   <=> (\E d \in DOMAIN frames :
                          /\ frames[d].index = i
                          /\ \/ frames[d].step = "declarations"
                             \/ frames[d].step = "imports" /\ k < frames[d].next)
        BY <3>2, <3>3, Zenon
      <4> QED BY <1>3, <3>1, <4>1 DEF Followed
    <3>5. Parsed(i)' = Parsed(i)
      <4>1. ASSUME NEW k \in DOMAIN input.declares[FileOf(i)]
            PROVE  (\E d \in DOMAIN frames' :
                      /\ frames'[d].index = i
                      /\ frames'[d].step = "declarations" /\ k < frames'[d].next)
                   <=> (\E d \in DOMAIN frames :
                          /\ frames[d].index = i
                          /\ frames[d].step = "declarations" /\ k < frames[d].next)
        BY <3>2, <3>3, Zenon
      <4> QED BY <1>3, <3>1, <4>1 DEF Parsed
    <3> QED BY <3>4, <3>5
  <2> QED BY <2>1, <2>2
<1>15. RootDone' = RootDone
  BY <1>3 DEF RootDone
<1>16. RootFirst'
  <2>1. \A i \in DOMAIN imports : imports'[i].state = "declared" => imports[i].state = "declared"
    BY <1>5
  <2> QED BY <1>2, <1>3, <1>5, <1>15, <2>1 DEF Running, RootFirst
<1>17. StackChains'
  <2>1. ASSUME NEW f PROVE ChainFrom(Targets(input.imports[f]))' = ChainFrom(Targets(input.imports[f]))
    BY <1>3 DEF ChainFrom, Targets
  <2>2. StackChains
    BY <1>2 DEF Running
  <2>3. \A d \in DOMAIN frames' : /\ d \in DOMAIN frames /\ frames'[d] = frames[d]
                                  /\ imports'[frames'[d].index].file = imports[frames[d].index].file
    BY <1>2, <1>5, <1>6 DEF FileOf
  <2> QED BY <2>1, <2>2, <2>3 DEF StackChains, FileOf
<1>18. OpenedIsReadable'
  <2>1. OpenedIsReadable
    BY <1>2 DEF Running
  <2>2. \A d \in DOMAIN frames' : /\ d \in DOMAIN frames /\ frames'[d] = frames[d]
                                  /\ imports'[frames'[d].index].file = imports[frames[d].index].file
    BY <1>2, <1>5, <1>6 DEF FileOf
  <2>3. input.readable[FileOf(top)]
    BY <1>2, <2>1 DEF OpenedIsReadable
  <2>4. ASSUME NEW i \in DOMAIN imports, imports'[i].state = "complete"
        PROVE  input.readable[imports'[i].file]
    BY <1>5, <2>1, <2>3, <2>4 DEF OpenedIsReadable, FileOf
  <2>5. ASSUME NEW d \in DOMAIN frames', frames'[d].step # "open"
        PROVE  input.readable[imports'[frames'[d].index].file]
    BY <2>1, <2>2, <2>5 DEF OpenedIsReadable, FileOf
  <2> QED BY <1>3, <1>5, <2>4, <2>5 DEF OpenedIsReadable, FileOf
<1>19. ImportsComplete'
  <2>1. ImportsComplete
    BY <1>2 DEF Running
  <2> SUFFICES ASSUME NEW i \in DOMAIN imports, NEW k \in Followed(i), NEW j \in DOMAIN imports,
                      FileOf(j) = Target(i, k), imports'[j].state # "complete"
               PROVE  \E d \in DOMAIN frames' : /\ d # Len(frames')
                                                /\ frames'[d].index = i
                                                /\ k = frames'[d].next - 1
    BY <1>5, <1>12, <1>14 DEF ImportsComplete
  <2>2. j # top /\ imports[j].state # "complete"
    BY <1>5
  <2>3. PICK d \in DOMAIN frames : d # n /\ frames[d].index = i /\ k = frames[d].next - 1
    BY <2>1, <2>2 DEF ImportsComplete, n
  <2>4. d # n - 1
    <3> SUFFICES ASSUME d = n - 1 PROVE FALSE
      OBVIOUS
    <3>1. d + 1 = n
      BY <1>2
    <3>2. Target(i, k) = FileOf(frames[d + 1].index)
      <4>1. FrameShape
        BY DEF IInv
      <4> QED BY <2>3, <4>1 DEF FrameShape, n
    <3>3. FileOf(j) = FileOf(top)
      BY <1>2, <3>1, <3>2
    <3> QED BY <1>2, <2>2, <3>3 DEF IInv, FilesDistinct
  <2> QED BY <1>6, <1>8, <2>3, <2>4
<1>20. ASSUME NEW level, \A d \in DOMAIN frames : level[frames[d].index] = d - 1
       PROVE  \A d \in DOMAIN frames' : level[frames'[d].index] = d - 1
  BY <1>6, <1>20
<1>21. phase # "done" /\ phase' = "visit" /\ UNCHANGED <<input, declared, status>>
  BY <1>2, <1>3
<1>22. Registry' /\ ImportsFirst'
  BY <1>5, <1>14, <1>21, RegistryKept
<1> QED BY <1>5, <1>9, <1>10, <1>11, <1>13, <1>14, <1>15, <1>16, <1>17, <1>18, <1>19, <1>20,
           <1>21, <1>22, QuietIInv

\* A path that is accepted names a file that was not imported.
LEMMA AcceptedIsNew ==
    ASSUME NEW way \in Path, AppendError(way) = "none"
    PROVE  Canonical[way] \in File /\ \A i \in DOMAIN imports : FileOf(i) # Canonical[way]
<1>1. Canonical[way] \notin PathError
  BY DEF AppendError, PathError
<1>2. {i \in DOMAIN imports : imports[i].file = Canonical[way]} = {}
  BY <1>1 DEF AppendError
<1> QED BY <1>1, <1>2, CanonicalAssumption DEF FileOf

\* The import statements of the files that are reached.
LEMMA StatementIsOne ==
    /\ \A r \in DOMAIN input.root : <<"project.toml", r, input.root[r]>> \in Statements
    /\ \A f \in Reached : \A k \in DOMAIN input.imports[f] :
          <<f, k, input.imports[f][k]>> \in Statements
BY DEF Statements

\* The statement that led to an import.
LEMMA ImportHasStatement ==
    ASSUME IInv, Running, NEW j \in DOMAIN imports
    PROVE  \E t \in Statements :
              /\ Canonical[t[3]] = FileOf(j)
              /\ \/ \E r \in RootDone : t = <<"project.toml", r, input.root[r]>>
                 \/ \E i \in DOMAIN imports : \E k \in Followed(i) :
                       t = <<FileOf(i), k, input.imports[FileOf(i)][k]>>
<1>1. CASE j \in RootDone
  <2> DEFINE t == <<"project.toml", j, input.root[j]>>
  <2>1. t \in Statements
    BY <1>1, StatementIsOne DEF RootDone
  <2>2. Canonical[t[3]] = FileOf(j)
    BY <1>1 DEF Running, RootFirst
  <2> QED BY <1>1, <2>1, <2>2
<1>2. CASE j \notin RootDone
  <2>1. PICK i \in DOMAIN imports : \E k \in Followed(i) : FileOf(j) = Target(i, k)
    BY <1>2 DEF Running, Links
  <2>2. PICK k \in Followed(i) : FileOf(j) = Target(i, k)
    BY <2>1
  <2> DEFINE t == <<FileOf(i), k, input.imports[FileOf(i)][k]>>
  <2>3. t \in Statements
    BY ImportedIsReached, StatementIsOne DEF Followed
  <2>4. Canonical[t[3]] = FileOf(j)
    BY <2>2 DEF Target
  <2> QED BY <2>3, <2>4
<1> QED BY <1>1, <1>2

\* A statement that is refused is a defect of the project: a path that names no
\* file, or a second statement for a file.
LEMMA RefusedStatement ==
    ASSUME IInv, Running, NEW s \in Statements,
           \A r \in RootDone : s # <<"project.toml", r, input.root[r]>>,
           \A i \in DOMAIN imports : \A k \in Followed(i) :
              s # <<FileOf(i), k, input.imports[FileOf(i)][k]>>,
           NEW way \in Path, way = s[3],
           NEW error, error = AppendError(way), error # "none"
    PROVE  /\ error \in PathError \cup {"import_cycle", "duplicate_import"}
           /\ ~WellFormed
           /\ error = "duplicate_import" => ~ImportedOnce
           /\ error = "import_cycle" =>
                 \E j \in DOMAIN imports : FileOf(j) = Canonical[way] /\ imports[j].state = "visiting"
<1>1. CASE Canonical[way] \in PathError
  <2>1. error \in PathError /\ error # "duplicate_import" /\ error # "import_cycle"
    BY <1>1 DEF AppendError, PathError
  <2>2. Canonical[s[3]] \notin File
    BY <1>1, FileAssumption
  <2>3. ~WellFormed
    BY <2>2 DEF WellFormed
  <2> QED BY <2>1, <2>3
<1>2. CASE Canonical[way] \notin PathError
  <2> DEFINE same == {i \in DOMAIN imports : imports[i].file = Canonical[way]}
  <2>1. /\ same # {}
        /\ error \in {"import_cycle", "duplicate_import"}
        /\ error = "import_cycle" => \E i \in same : imports[i].state = "visiting"
    BY <1>2 DEF AppendError
  <2>2. PICK j \in DOMAIN imports : FileOf(j) = Canonical[way]
    BY <2>1 DEF FileOf
  <2>3. PICK t \in Statements :
              /\ Canonical[t[3]] = FileOf(j)
              /\ \/ \E r \in RootDone : t = <<"project.toml", r, input.root[r]>>
                 \/ \E i \in DOMAIN imports : \E k \in Followed(i) :
                       t = <<FileOf(i), k, input.imports[FileOf(i)][k]>>
    BY ImportHasStatement
  <2>4. s # t /\ Canonical[s[3]] = Canonical[t[3]]
    BY <2>2, <2>3
  <2>5. ~ImportedOnce
    BY <2>4 DEF ImportedOnce
  <2>6. ~WellFormed
    BY <2>5 DEF WellFormed
  <2>7. error = "import_cycle" =>
           \E i \in DOMAIN imports : FileOf(i) = Canonical[way] /\ imports[i].state = "visiting"
    BY <2>1 DEF FileOf
  <2> QED BY <2>1, <2>5, <2>6, <2>7
<1> QED BY <1>1, <1>2

\* One statement of project.toml.
LEMMA DeclareRootIInv == ASSUME IInv, DeclareRoot PROVE IInv'
<1> DEFINE way == input.root[main]
<1>1. /\ phase = "project" /\ Running /\ TypeOK /\ input.project /\ main <= Len(input.root)
      /\ frames = <<>> /\ DOMAIN frames = {} /\ declared = <<>> /\ Len(imports) = main - 1
      /\ \A i \in DOMAIN imports : imports[i].state = "declared"
  BY DEF IInv, Running, RootFirst, DeclareRoot
<1>2. /\ main \in Nat \ {0} /\ main \in DOMAIN input.root /\ DOMAIN imports = 1..Len(imports)
      /\ imports \in Seq(ImportRecord) /\ way \in Path
      /\ Len(input.root) \in Nat /\ DOMAIN input.root = 1..Len(input.root)
  BY <1>1, TypeFacts, InputType DEF IInv
<1>3. \A i \in DOMAIN imports : Followed(i) = {} /\ Parsed(i) = {}
  BY <1>1 DEF Followed, Parsed
<1>4. RootDone = DOMAIN imports
  <2>1. RootDone = {k \in DOMAIN input.root : k < main}
    BY <1>1 DEF RootDone
  <2>2. \A k : k \in RootDone <=> k \in DOMAIN imports
    BY <1>1, <1>2, <2>1
  <2> QED BY <2>2, <2>1
<1>5. CASE AppendError(way) # "none"
  <2>1. Fail(AppendError(way))
    BY <1>5 DEF DeclareRoot
  <2> DEFINE s == <<"project.toml", main, input.root[main]>>
  <2>2. s \in Statements
    BY <1>2, StatementIsOne
  <2>3. main \notin RootDone
    BY <1>1, <1>2 DEF RootDone
  <2>4. \A r \in RootDone : s # <<"project.toml", r, input.root[r]>>
    BY <2>3
  <2>5. PICK error : error = AppendError(way)
    OBVIOUS
  <2>6. /\ error \in PathError \cup {"import_cycle", "duplicate_import"}
        /\ ~WellFormed
        /\ error = "duplicate_import" => ~ImportedOnce
        /\ error = "import_cycle" => \E j \in DOMAIN imports : imports[j].state = "visiting"
    <3> s[3] = way
      OBVIOUS
    <3> HIDE DEF s, way
    <3> QED BY <1>1, <1>2, <1>3, <1>5, <2>2, <2>4, <2>5, RefusedStatement
  <2>7. error \in Errors /\ Genuine(error)
    BY <1>1, <2>6 DEF Errors, Genuine, PathError
  <2> QED BY <1>1, <2>1, <2>5, <2>6, <2>7, FailIInv
<1>6. CASE AppendError(way) = "none"
  <2> DEFINE new == Import(way, "declared")
  <2>0. PICK m, file : m = main /\ file = Canonical[way]
    OBVIOUS
  <2>1. /\ imports' = Append(imports, new)
        /\ main' = main + 1
        /\ UNCHANGED <<input, phase, frames, declared, status>>
    BY <1>6 DEF DeclareRoot
  <2>2. file \in File /\ \A i \in DOMAIN imports : FileOf(i) # file
    BY <1>2, <1>6, <2>0, AcceptedIsNew
  <2>3. new \in ImportRecord /\ new.file = file /\ new.state = "declared"
    BY <1>2, <2>0, <2>2 DEF Import, ImportRecord
  <2>4. /\ imports' \in Seq(ImportRecord) /\ Len(imports') = m
        /\ DOMAIN imports' = DOMAIN imports \cup {m} /\ m \notin DOMAIN imports
        /\ imports'[m] = new
        /\ \A i \in DOMAIN imports : imports'[i] = imports[i]
    <3> HIDE DEF new, way
    <3>1. Len(imports) + 1 = m
      BY <1>1, <1>2, <2>0
    <3> QED BY <1>2, <2>1, <2>3, <3>1, SeqAppend
  <2> HIDE DEF new
  <2>5. /\ \A i \in DOMAIN imports : FileOf(i)' = FileOf(i)
        /\ FileOf(m)' = file
        /\ \A i \in DOMAIN imports' : imports'[i].state = "declared"
    BY <1>1, <2>3, <2>4 DEF FileOf
  <2>6. TypeOK'
    <3>1. main' \in Nat \ {0}
      BY <1>2, <2>1
    <3>2. frames' \in Seq(FrameRecord')
      BY <1>1, <2>1
    <3> QED BY <1>1, <2>1, <2>4, <3>1, <3>2, Zenon DEF TypeOK
  <2>7. DOMAIN frames' = {} /\ frames' = <<>>
    BY <1>1, <2>1
  <2>8. DepthBounded'
    BY <2>1 DEF IInv, DepthBounded
  <2>9. StackHeld' /\ FrameShape' /\ StackChains'
    BY <2>5, <2>7 DEF StackHeld, FrameShape, StackChains
  <2>10. FilesDistinct'
    BY <2>2, <2>4, <2>5 DEF IInv, FilesDistinct
  <2>11. \A i \in DOMAIN imports' : Followed(i)' = {} /\ Parsed(i)' = {}
    BY <2>5, <2>7 DEF Followed, Parsed
  <2>12. ImportsFirst' /\ Registry'
    BY <1>1, <2>1, <2>11 DEF ImportsFirst, Registry
  <2>13. RootDone' = DOMAIN imports'
    <3>1. RootDone' = {k \in DOMAIN input.root : k < main + 1}
      BY <1>1, <2>1 DEF RootDone
    <3>2. \A k : k \in RootDone' <=> k \in DOMAIN imports'
      BY <1>1, <1>2, <2>0, <2>4, <3>1
    <3> QED BY <3>1, <3>2
  <2>14. RootFirst'
    <3>1. \A k \in RootDone' : k \in DOMAIN imports' /\ FileOf(k)' = Canonical[input.root[k]]
      BY <1>1, <1>4, <2>0, <2>4, <2>5, <2>13 DEF Running, RootFirst
    <3>2. Len(imports') = main' - 1 /\ main' <= Len(input'.root) + 1
      BY <1>1, <1>2, <2>0, <2>1, <2>4
    <3> QED BY <1>1, <2>1, <2>5, <2>7, <2>13, <3>1, <3>2 DEF RootFirst
  <2>15. Links'
    BY <2>11, <2>13 DEF Links
  <2>16. Levels'
    <3> DEFINE level == [i \in DOMAIN imports' |-> 0]
    <3>1. level \in [DOMAIN imports' -> 0..(MaxDepth - 1)]
      BY DepthAssumption
    <3>2. Targets(input.root) \in SUBSET File /\ input.root \in Seq(Path)
      BY InputType, TargetsType DEF IInv
    <3>3. Chain[0] = Targets(input.root) /\ Chain' = Chain
      BY <2>1, <3>2, ChainUnfold, InputFixed DEF IInv, Chain
    <3>4. \A k \in RootDone' : FileOf(k)' \in Targets(input.root)
      <4>1. ASSUME NEW k \in RootDone'
            PROVE  k \in DOMAIN input.root /\ FileOf(k)' = Canonical[input.root[k]] /\ FileOf(k)' \in File
        <5>1. k \in DOMAIN input.root
          BY <2>1 DEF RootDone
        <5>2. FileOf(k)' = Canonical[input.root[k]]
          BY <1>1, <1>4, <2>0, <2>4, <2>5, <2>13 DEF Running, RootFirst
        <5>3. FileOf(k)' \in File
          BY <1>1, <2>2, <2>4, <2>5, <2>13, TypeFacts
        <5> QED BY <5>1, <5>2, <5>3
      <4> QED BY <3>2, <4>1, TargetsType
    <3>5. Cardinality(File) \in Nat
      BY FS_CardinalityType, FileAssumption
    <3>6. \A i \in DOMAIN imports' : level[i] = 0
      OBVIOUS
    <3> HIDE DEF level
    <3>7. \A i \in DOMAIN imports' : FileOf(i)' \in Chain'[0]
      BY <2>13, <3>3, <3>4
    <3>8. PICK lv : lv = level
      OBVIOUS
    <3>9. Level(lv)'
      BY <2>7, <2>11, <2>13, <3>5, <3>6, <3>7, <3>8 DEF Level
    <3> QED BY <3>1, <3>8, <3>9 DEF Levels
  <2>17. OpenedIsReadable' /\ ImportsComplete'
    BY <2>5, <2>7, <2>11 DEF OpenedIsReadable, ImportsComplete
  <2>18. input' \in Inputs /\ phase' = "project" /\ status' = "running"
    BY <1>1, <2>1 DEF IInv, Running
  <2> QED BY <2>6, <2>8, <2>9, <2>10, <2>12, <2>14, <2>15, <2>16, <2>17, <2>18 DEF IInv, Running
<1> QED BY <1>5, <1>6

\* No more documents are in progress than there are files.
LEMMA StackFits ==
    ASSUME IInv
    PROVE  Len(frames) <= Cardinality(File) /\ Cardinality(File) \in Nat
<1> DEFINE n == Len(frames)
           g == [d \in 1..n |-> FileOf(frames[d].index)]
<1>1. /\ n \in Nat /\ DOMAIN frames = 1..n
      /\ \A d \in 1..n : frames[d].index \in DOMAIN imports
      /\ \A i \in DOMAIN imports : FileOf(i) \in File
  BY TypeFacts DEF IInv
<1>2. g \in Injection(1..n, File)
  <2>1. g \in [1..n -> File]
    BY <1>1
  <2>2. ASSUME NEW d \in 1..n, NEW e \in 1..n, g[d] = g[e] PROVE d = e
    <3>1. FileOf(frames[d].index) = FileOf(frames[e].index)
      BY <2>2
    <3>2. frames[d].index = frames[e].index
      BY <1>1, <3>1 DEF IInv, FilesDistinct
    <3> QED BY <1>1, <3>2 DEF IInv, StackHeld
  <2> HIDE DEF g
  <2> QED BY <2>1, <2>2 DEF Injection, IsInjective
<1>3. Cardinality(1..n) <= Cardinality(File)
  <2> HIDE DEF g
  <2> QED BY <1>2, FS_Injection, FileAssumption
<1>4. Cardinality(1..n) = n
  BY <1>1, FS_Interval
<1>5. Cardinality(File) \in Nat
  BY FS_CardinalityType, FileAssumption
<1> QED BY <1>3, <1>4, <1>5

\* The next statement of the innermost document leads one level down.
LEMMA NextTarget ==
    ASSUME IInv, AtTop("imports"), NEW way, NEW k, k = Top.next,
           k <= Len(input.imports[TopFile]), way = input.imports[TopFile][k],
           Canonical[way] \in File
    PROVE  /\ Canonical[way] \in Targets(input.imports[TopFile])
           /\ Canonical[way] \in Chain[Len(frames)]
           /\ Len(frames) \in Nat \ {0}
           /\ \A e \in DOMAIN frames : Canonical[way] \in
                 ChainFrom(Targets(input.imports[FileOf(frames[e].index)]))[Len(frames) - e]
<1> DEFINE n == Len(frames)
           file == Canonical[way]
<1>1. /\ n \in DOMAIN frames /\ n \in Nat \ {0} /\ DOMAIN frames = 1..n /\ Running
      /\ frames[n].index \in DOMAIN imports /\ TopFile = FileOf(frames[n].index) /\ TopFile \in File
      /\ k \in Nat \ {0}
  BY TopFacts, TypeFacts DEF IInv
<1>2. /\ input.imports[TopFile] \in Seq(Path) /\ k \in DOMAIN input.imports[TopFile]
  BY <1>1, DocumentType
<1>3. file \in Targets(input.imports[TopFile])
  BY <1>2, TargetsType
<1>4. ASSUME NEW S \in SUBSET File, NEW m \in Nat, TopFile \in ChainFrom(S)[m]
      PROVE  file \in ChainFrom(S)[m + 1]
  <2>1. ChainFrom(S)[m + 1] = UNION {Targets(input.imports[f]) : f \in ChainFrom(S)[m]}
    BY ChainUnfold DEF IInv
  <2> QED BY <1>3, <1>4, <2>1
<1>5. file \in Chain[n]
  <2>1. PICK level \in [DOMAIN imports -> 0..(MaxDepth - 1)] : Level(level)
    BY <1>1 DEF Running, Levels
  <2>2. TopFile \in Chain[n - 1]
    BY <1>1, <2>1 DEF Level
  <2>3. Targets(input.root) \in SUBSET File
    BY InputType, TargetsType DEF IInv
  <2>4. n - 1 \in Nat /\ n - 1 + 1 = n
    BY <1>1
  <2> HIDE DEF n, file
  <2>5. file \in Chain[n - 1 + 1]
    BY <1>4, <2>2, <2>3, <2>4 DEF Chain
  <2> QED BY <2>4, <2>5
<1>6. ASSUME NEW e \in DOMAIN frames
      PROVE  file \in ChainFrom(Targets(input.imports[FileOf(frames[e].index)]))[n - e]
  <2> DEFINE S == Targets(input.imports[FileOf(frames[e].index)])
  <2>1. S \in SUBSET File
    <3>1. frames[e].index \in DOMAIN imports
      BY TypeFacts DEF IInv
    <3>2. input.imports[FileOf(frames[e].index)] \in Seq(Path)
      BY <3>1, DocumentType
    <3> QED BY <3>2, TargetsType
  <2>2. CASE e = n
    <3>1. ChainFrom(S)[0] = S
      BY <2>1, ChainUnfold DEF IInv
    <3>2. n - e = 0 /\ S = Targets(input.imports[TopFile])
      BY <1>1, <2>2
    <3> QED BY <1>3, <3>1, <3>2
  <2>3. CASE e # n
    <3>1. e < n /\ n - e - 1 \in Nat /\ n - e - 1 + 1 = n - e
      BY <1>1, <2>3
    <3>2. TopFile \in ChainFrom(S)[n - e - 1]
      BY <1>1, <3>1 DEF Running, StackChains
    <3>3. PICK m \in Nat : m = n - e - 1 /\ m + 1 = n - e
      BY <3>1
    <3> HIDE DEF n, S, file
    <3>4. file \in ChainFrom(S)[m + 1]
      BY <1>4, <2>1, <3>2, <3>3
    <3>5. file \in ChainFrom(S)[n - e]
      BY <3>3, <3>4, Zenon
    <3> QED BY <3>5 DEF S, file, n
  <2> QED BY <2>2, <2>3
<1> QED BY <1>1, <1>3, <1>5, <1>6

\* One statement of an imported document: refused, too deep, or followed.
LEMMA FollowImportIInv == ASSUME IInv, FollowImport PROVE IInv'
<1> DEFINE n == Len(frames)
<1> AtTop("imports")
  BY DEF FollowImport
<1>1. PICK top, k, way, file : /\ top = Top.index /\ k = Top.next
                                /\ way = input.imports[TopFile][k] /\ file = Canonical[way]
  OBVIOUS
<1>2. /\ phase = "visit" /\ Running /\ TypeOK
      /\ n \in DOMAIN frames /\ n \in Nat \ {0} /\ DOMAIN frames = 1..n
      /\ frames[n] \in FrameRecord /\ frames[n].index = top /\ frames[n].step = "imports"
      /\ frames[n].next = k /\ k \in Nat \ {0}
      /\ top \in DOMAIN imports /\ imports[top].state = "visiting"
      /\ TopFile = FileOf(top) /\ TopFile \in File
      /\ \A d \in DOMAIN frames : frames[d].index \in DOMAIN imports
  BY <1>1, TopFacts, TypeFacts DEF IInv
<1>3. k <= Len(input.imports[FileOf(top)]) /\ way = input.imports[FileOf(top)][k]
  BY <1>1, <1>2 DEF FollowImport
<1>4. k \in DOMAIN input.imports[FileOf(top)] /\ way \in Path
  BY <1>2, <1>3, DocumentType
<1>5. \A d \in DOMAIN frames : frames[d].index = top => d = n
  BY <1>2 DEF IInv, StackHeld
<1>6. k \notin Followed(top)
  BY <1>2, <1>5 DEF Followed
<1>7. CASE AppendError(way) # "none"
  <2>1. Fail(AppendError(way))
    BY <1>1, <1>2, <1>7 DEF FollowImport
  <2>2. PICK s : s = <<FileOf(top), k, way>>
    OBVIOUS
  <2>3. s \in Statements /\ s[3] = way
    BY <1>2, <1>3, <1>4, <2>2, ImportedIsReached, StatementIsOne
  <2>4. \A r \in RootDone : s # <<"project.toml", r, input.root[r]>>
    BY <1>2, <2>2, FileAssumption
  <2>5. \A i \in DOMAIN imports : \A l \in Followed(i) :
           s # <<FileOf(i), l, input.imports[FileOf(i)][l]>>
    BY <1>2, <1>6, <2>2 DEF IInv, FilesDistinct
  <2>6. PICK error : error = AppendError(way)
    OBVIOUS
  <2>7. /\ error \in PathError \cup {"import_cycle", "duplicate_import"}
        /\ ~WellFormed
        /\ error = "duplicate_import" => ~ImportedOnce
        /\ error = "import_cycle" =>
              \E j \in DOMAIN imports : FileOf(j) = Canonical[way] /\ imports[j].state = "visiting"
    BY <1>2, <1>4, <1>7, <2>3, <2>4, <2>5, <2>6, RefusedStatement
  <2>8. error = "import_cycle" =>
          \E f \in Reached : \E m \in 0..Cardinality(File) :
              f \in ChainFrom(Targets(input.imports[f]))[m]
    <3> SUFFICES ASSUME error = "import_cycle"
                 PROVE  \E f \in Reached : \E m \in 0..Cardinality(File) :
                           f \in ChainFrom(Targets(input.imports[f]))[m]
      OBVIOUS
    <3>1. PICK j \in DOMAIN imports : FileOf(j) = Canonical[way] /\ imports[j].state = "visiting"
      BY <2>7
    <3>2. PICK e \in DOMAIN frames : frames[e].index = j
      BY <3>1 DEF IInv, StackHeld
    <3>3. FileOf(j) \in Reached /\ FileOf(j) \in File
      BY <1>2, ImportedIsReached
    <3>4. FileOf(j) \in ChainFrom(Targets(input.imports[FileOf(j)]))[n - e]
      BY <1>1, <1>2, <1>3, <3>1, <3>2, <3>3, NextTarget
    <3>5. n - e \in 0..Cardinality(File)
      <4>1. n <= Cardinality(File) /\ Cardinality(File) \in Nat
        BY StackFits
      <4>2. e \in 1..n /\ n \in Nat
        BY <1>2
      <4>3. \A a, b, c \in Nat : a <= c /\ b \in 1..a => a - b \in 0..c
        OBVIOUS
      <4>4. e \in Nat
        BY <4>2
      <4> QED BY <4>1, <4>2, <4>3, <4>4
    <3> QED BY <3>3, <3>4, <3>5
  <2>9. error \in Errors /\ Genuine(error)
    BY <2>7, <2>8 DEF Errors, Genuine, PathError
  <2> QED BY <1>2, <2>1, <2>6, <2>7, <2>9, FailIInv
<1>8. CASE AppendError(way) = "none" /\ Len(frames) + 1 > MaxDepth
  <2>1. Fail("depth")
    BY <1>1, <1>2, <1>8 DEF FollowImport
  <2>2. file \in File
    BY <1>1, <1>4, <1>8, AcceptedIsNew
  <2>3. file \in Chain[n]
    BY <1>1, <1>2, <1>3, <2>2, NextTarget
  <2>4. n = MaxDepth
    <3>1. n <= MaxDepth /\ n \in Nat /\ n + 1 > MaxDepth
      BY <1>2, <1>8 DEF IInv, DepthBounded
    <3> QED BY <3>1, DepthAssumption
  <2>5. ~WellFormed /\ Genuine("depth") /\ "depth" \in Errors
    BY <2>3, <2>4 DEF WellFormed, Genuine, Errors
  <2> QED BY <1>2, <2>1, <2>5, FailIInv
<1>9. CASE AppendError(way) = "none" /\ Len(frames) + 1 <= MaxDepth
  <2> DEFINE new == Import(way, "visiting")
             r == [frames[n] EXCEPT !.next = @ + 1]
             g == [frames EXCEPT ![n].next = @ + 1]
  <2>1. PICK m : m = Len(imports) + 1
    OBVIOUS
  <2>2. /\ imports' = Append(imports, new) /\ frames' = Append(g, Frame(m))
        /\ UNCHANGED <<input, phase, main, declared, status>>
    <3>1. ~(Len(frames) + 1 > MaxDepth)
      <4>1. n \in Nat /\ n + 1 <= MaxDepth
        BY <1>2, <1>9
      <4> QED BY <4>1, DepthAssumption
    <3> QED BY <1>1, <1>9, <2>1, <3>1 DEF FollowImport
  <2>3. file \in File /\ \A i \in DOMAIN imports : FileOf(i) # file
    BY <1>1, <1>4, <1>9, AcceptedIsNew
  <2>4. new \in ImportRecord /\ new.file = file /\ new.state = "visiting"
    BY <1>1, <1>4, <2>3 DEF Import, ImportRecord
  <2>5. /\ imports' \in Seq(ImportRecord) /\ DOMAIN imports' = DOMAIN imports \cup {m}
        /\ m \notin DOMAIN imports /\ imports'[m] = new
        /\ \A i \in DOMAIN imports : imports'[i] = imports[i]
    <3>1. imports \in Seq(ImportRecord)
      BY <1>2, TypeFacts
    <3> HIDE DEF new
    <3> QED BY <2>1, <2>2, <2>4, <3>1, SeqAppend
  <2>6. /\ \A i \in DOMAIN imports : FileOf(i)' = FileOf(i)
        /\ FileOf(m)' = file /\ imports'[m].state = "visiting"
    <3> HIDE DEF new
    <3> QED BY <2>4, <2>5 DEF FileOf
  <2>7. r \in FrameRecord /\ r.index = top /\ r.step = "imports" /\ r.next = k + 1
    <3>1. r = [frames[n] EXCEPT !.next = k + 1] /\ k + 1 \in Nat \ {0}
      BY <1>2
    <3> HIDE DEF r
    <3> QED BY <1>2, <3>1, FrameNext
  <2>8. g \in Seq(FrameRecord) /\ Len(g) = n /\ DOMAIN g = DOMAIN frames /\ g[n] = r
        /\ \A d \in DOMAIN frames : d # n => g[d] = frames[d]
    <3>1. g = [frames EXCEPT ![n] = r] /\ frames \in Seq(FrameRecord)
      BY <1>2, TypeFacts
    <3> HIDE DEF g, r, n
    <3> QED BY <1>2, <2>7, <3>1, SeqUpdate DEF n
  <2>9. Frame(m) \in FrameRecord' /\ FrameRecord \subseteq FrameRecord'
    <3>1. m \in DOMAIN imports' /\ DOMAIN imports \subseteq DOMAIN imports'
      BY <2>5
    <3> HIDE DEF new
    <3> QED BY <3>1 DEF Frame, FrameRecord
  <2>10. /\ frames' \in Seq(FrameRecord') /\ Len(frames') = n + 1
         /\ DOMAIN frames' = 1..(n + 1) /\ frames'[n + 1] = Frame(m) /\ frames'[n] = r
         /\ \A d \in 1..(n - 1) : frames'[d] = frames[d]
    <3>1. g \in Seq(FrameRecord')
      BY <1>2, <2>8, <2>9
    <3>2. /\ frames' \in Seq(FrameRecord') /\ Len(frames') = n + 1
          /\ DOMAIN frames' = DOMAIN g \cup {n + 1} /\ frames'[n + 1] = Frame(m)
          /\ \A d \in DOMAIN g : frames'[d] = g[d]
      <4> HIDE DEF g, n
      <4> QED BY <2>2, <2>8, <2>9, <3>1, SeqAppend
    <3> HIDE DEF g, r
    <3> QED BY <1>2, <2>8, <3>2
  <2> HIDE DEF g, r, new
  <2>11. \A d \in DOMAIN frames : /\ frames'[d].index = frames[d].index /\ d \in DOMAIN frames'
                                  /\ frames'[d].step = frames[d].step
                                  /\ d # n => frames'[d] = frames[d]
                                  /\ d # n + 1 /\ d # Len(frames')
    BY <1>2, <2>7, <2>10
  <2>12. /\ DOMAIN frames' = DOMAIN frames \cup {n + 1} /\ n + 1 \notin DOMAIN frames
         /\ frames'[n + 1].index = m /\ frames'[n + 1].step = "open" /\ frames'[n + 1].next = 1
    BY <1>2, <2>10 DEF Frame
  <2>13. TypeOK'
    BY <1>2, <2>2, <2>5, <2>10, Zenon DEF TypeOK
  <2>14. DepthBounded'
    BY <1>9, <2>10 DEF DepthBounded
  <2>15. StackHeld'
    <3>1. StackHeld
      BY DEF IInv
    <3>2. \A d \in DOMAIN frames' : imports'[frames'[d].index].state = "visiting"
      BY <1>2, <2>5, <2>6, <2>11, <2>12, <3>1 DEF StackHeld
    <3>3. \A i \in DOMAIN imports' :
             imports'[i].state = "visiting" => \E d \in DOMAIN frames' : frames'[d].index = i
      BY <2>5, <2>11, <2>12, <3>1 DEF StackHeld
    <3>4. \A d, e \in DOMAIN frames' : frames'[d].index = frames'[e].index => d = e
      BY <1>2, <2>5, <2>11, <2>12, <3>1 DEF StackHeld
    <3> QED BY <3>2, <3>3, <3>4 DEF StackHeld
  <2>16. FilesDistinct'
    BY <2>3, <2>5, <2>6 DEF IInv, FilesDistinct
  <2>17. \A i \in DOMAIN imports : \A l : Target(i, l)' = Target(i, l)
    BY <2>2, <2>6 DEF Target
  <2>18. FrameShape'
    <3>1. FrameShape
      BY DEF IInv
    <3>2. \A d \in DOMAIN frames' : frames'[d].step = "open" => frames'[d].next = 1
      BY <1>2, <2>11, <2>12, <3>1 DEF FrameShape
    <3>3. ASSUME NEW d \in DOMAIN frames', d # Len(frames')
          PROVE  /\ frames'[d].step = "imports"
                 /\ frames'[d].next - 1 \in DOMAIN input'.imports[imports'[frames'[d].index].file]
                 /\ Canonical[input'.imports[imports'[frames'[d].index].file][frames'[d].next - 1]]
                      = imports'[frames'[d + 1].index].file
      <4>1. d \in DOMAIN frames
        BY <2>10, <2>12, <3>3
      <4>2. CASE d = n
        <5>1. imports'[top].file = imports[top].file /\ imports'[m].file = file
          BY <1>2, <2>6 DEF FileOf
        <5>2. frames'[d].index = top /\ frames'[d].next - 1 = k /\ frames'[d + 1].index = m
          BY <1>2, <2>7, <2>10, <2>12, <4>2
        <5>3. frames'[d].step = "imports" /\ input' = input
          BY <1>2, <2>2, <2>11, <4>1, <4>2
        <5>4. k \in DOMAIN input.imports[imports[top].file]
              /\ Canonical[input.imports[imports[top].file][k]] = file
          BY <1>1, <1>3, <1>4 DEF FileOf
        <5> QED BY <5>1, <5>2, <5>3, <5>4
      <4>3. CASE d # n
        <5>1. PICK i, j : i = frames[d].index /\ j = frames[d + 1].index
          OBVIOUS
        <5>2. /\ d + 1 \in DOMAIN frames /\ frames'[d] = frames[d]
              /\ frames'[d + 1].index = frames[d + 1].index
          BY <1>2, <2>11, <4>1, <4>3
        <5>3. i \in DOMAIN imports /\ j \in DOMAIN imports
          BY <1>2, <4>1, <5>1, <5>2
        <5>4. /\ frames[d].step = "imports"
              /\ frames[d].next - 1 \in DOMAIN input.imports[imports[i].file]
              /\ Canonical[input.imports[imports[i].file][frames[d].next - 1]] = imports[j].file
          BY <3>1, <4>1, <4>3, <5>1 DEF FrameShape, Target, FileOf
        <5>5. imports'[i].file = imports[i].file /\ imports'[j].file = imports[j].file
          BY <2>6, <5>3 DEF FileOf
        <5> QED BY <2>2, <5>1, <5>2, <5>4, <5>5
      <4> QED BY <4>2, <4>3
    <3> QED BY <3>2, <3>3 DEF FrameShape, Target, FileOf
  <2>19. /\ \A i \in DOMAIN imports : i # top => Followed(i)' = Followed(i)
         /\ Followed(top)' = Followed(top) \cup {k}
         /\ Followed(m)' = {}
    <3>1. ASSUME NEW i \in DOMAIN imports, i # top PROVE Followed(i)' = Followed(i)
      <4>1. \A d : (d \in DOMAIN frames' /\ frames'[d].index = i)
                     <=> (d \in DOMAIN frames /\ frames[d].index = i)
        BY <2>5, <2>11, <2>12
      <4>2. \A d \in DOMAIN frames : frames[d].index = i => frames'[d] = frames[d]
        BY <1>2, <2>11, <3>1
      <4>3. ASSUME NEW l
            PROVE  (\E d \in DOMAIN frames' :
                      /\ frames'[d].index = i
                      /\ \/ frames'[d].step = "declarations"
                         \/ frames'[d].step = "imports" /\ l < frames'[d].next)
                   <=> (\E d \in DOMAIN frames :
                          /\ frames[d].index = i
                          /\ \/ frames[d].step = "declarations"
                             \/ frames[d].step = "imports" /\ l < frames[d].next)
        BY <4>1, <4>2, Zenon
      <4>4. imports'[i] = imports[i] /\ FileOf(i)' = FileOf(i)
        BY <2>5, <2>6
      <4> QED BY <2>2, <4>3, <4>4 DEF Followed
    <3>2. Followed(top)' = {l \in DOMAIN input.imports[FileOf(top)] : l < k + 1}
      <4>1. \A d \in DOMAIN frames' : frames'[d].index = top <=> d = n
        BY <1>2, <1>5, <2>5, <2>11, <2>12
      <4>2. n \in DOMAIN frames' /\ frames'[n].step = "imports" /\ frames'[n].next = k + 1
        BY <1>2, <2>7, <2>10, <2>11
      <4>3. imports'[top].state = "visiting" /\ FileOf(top)' = FileOf(top)
        BY <1>2, <2>5, <2>6
      <4> QED BY <2>2, <4>1, <4>2, <4>3 DEF Followed
    <3>3. Followed(top) = {l \in DOMAIN input.imports[FileOf(top)] : l < k}
      BY <1>2, <1>5 DEF Followed
    <3>4. \A l \in DOMAIN input.imports[FileOf(top)] : l < k + 1 <=> l < k \/ l = k
      <4>1. \A l \in DOMAIN input.imports[FileOf(top)] : l \in Nat
        BY <1>2, DocumentType
      <4>2. k \in Nat
        BY <1>2
      <4> QED BY <4>1, <4>2
    <3>5. Followed(m)' = {}
      <4>1. \A d \in DOMAIN frames' : frames'[d].index = m => frames'[d].step = "open"
        BY <1>2, <2>5, <2>11, <2>12
      <4> QED BY <2>6, <4>1 DEF Followed
    <3> QED BY <1>4, <3>1, <3>2, <3>3, <3>4, <3>5
  <2>20. /\ \A i \in DOMAIN imports : Parsed(i)' = Parsed(i)
         /\ Parsed(m)' = {}
    <3>1. ASSUME NEW i \in DOMAIN imports PROVE Parsed(i)' = Parsed(i)
      <4>1. \A d : (d \in DOMAIN frames' /\ frames'[d].index = i /\ frames'[d].step = "declarations")
                     <=> (d \in DOMAIN frames /\ frames[d].index = i /\ frames[d].step = "declarations")
        BY <2>5, <2>11, <2>12
      <4>2. \A d \in DOMAIN frames : frames[d].step = "declarations" => frames'[d] = frames[d]
        BY <1>2, <2>11
      <4>3. ASSUME NEW l
            PROVE  (\E d \in DOMAIN frames' :
                      /\ frames'[d].index = i
                      /\ frames'[d].step = "declarations" /\ l < frames'[d].next)
                   <=> (\E d \in DOMAIN frames :
                          /\ frames[d].index = i
                          /\ frames[d].step = "declarations" /\ l < frames[d].next)
        BY <4>1, <4>2, Zenon
      <4>4. imports'[i] = imports[i] /\ FileOf(i)' = FileOf(i)
        BY <2>5, <2>6
      <4> QED BY <2>2, <4>3, <4>4 DEF Parsed
    <3>2. Parsed(m)' = {}
      <4>1. \A d \in DOMAIN frames' : frames'[d].index = m => frames'[d].step = "open"
        BY <1>2, <2>5, <2>11, <2>12
      <4> QED BY <2>6, <4>1 DEF Parsed
    <3> QED BY <3>1, <3>2
  <2>21. RootDone' = RootDone
    BY <2>2 DEF RootDone
  <2>22. RootFirst'
    <3>1. RootFirst
      BY <1>2 DEF Running
    <3>2. \A i \in DOMAIN imports' : imports'[i].state = "declared" =>
             i \in DOMAIN imports /\ imports[i].state = "declared"
      BY <2>5, <2>6
    <3>3. \A i \in DOMAIN imports' : i < main => imports'[i].state # "declared"
      BY <1>2, <3>1, <3>2 DEF RootFirst
    <3> QED BY <1>2, <2>2, <2>5, <2>6, <2>21, <3>1, <3>2, <3>3 DEF RootFirst
  <2>23. Target(top, k) = file
    BY <1>1, <1>3 DEF Target
  <2>24. ASSUME NEW i \in DOMAIN imports', NEW l \in Followed(i)'
         PROVE  /\ i \in DOMAIN imports /\ Target(i, l)' = Target(i, l)
                /\ l \in Followed(i) \/ (i = top /\ l = k)
    BY <2>5, <2>17, <2>19
  <2>25. Links'
    <3>1. Links
      BY <1>2 DEF Running
    <3>2. ASSUME NEW i \in DOMAIN imports, NEW l \in Followed(i) PROVE Target(i, l) # file
      BY <2>3, <3>1 DEF Links
    <3>3. ASSUME NEW i \in DOMAIN imports', NEW l \in Followed(i)'
          PROVE  \E j \in DOMAIN imports' : FileOf(j)' = Target(i, l)'
      <4>1. CASE l \in Followed(i)
        BY <2>5, <2>6, <2>24, <3>1, <4>1 DEF Links
      <4>2. CASE i = top /\ l = k
        BY <2>5, <2>6, <2>23, <2>24, <4>2
      <4> QED BY <2>24, <4>1, <4>2
    <3>4. ASSUME NEW j \in DOMAIN imports', j \notin RootDone'
          PROVE  \E i \in DOMAIN imports' : \E l \in Followed(i)' : FileOf(j)' = Target(i, l)'
      <4>1. CASE j = m
        BY <1>2, <2>5, <2>6, <2>17, <2>19, <2>23, <4>1
      <4>2. CASE j # m
        <5>1. j \in DOMAIN imports /\ j \notin RootDone
          BY <2>5, <2>21, <3>4, <4>2
        <5>2. PICK i \in DOMAIN imports : \E l \in Followed(i) : FileOf(j) = Target(i, l)
          BY <3>1, <5>1 DEF Links
        <5>3. PICK l \in Followed(i) : FileOf(j) = Target(i, l)
          BY <5>2
        <5>4. l \in Followed(i)' /\ i \in DOMAIN imports'
          BY <2>5, <2>19, <5>3
        <5> QED BY <2>6, <2>17, <5>1, <5>3, <5>4
      <4> QED BY <4>1, <4>2
    <3>5. ASSUME NEW i \in DOMAIN imports', NEW j \in DOMAIN imports',
                 NEW l \in Followed(i)', NEW o \in Followed(j)', Target(i, l)' = Target(j, o)'
          PROVE  i = j /\ l = o
      <4>1. Target(i, l) = Target(j, o) /\ i \in DOMAIN imports /\ j \in DOMAIN imports
        BY <2>24, <3>5
      <4>2. CASE l \in Followed(i) /\ o \in Followed(j)
        BY <3>1, <4>1, <4>2 DEF Links
      <4>3. CASE l \in Followed(i) /\ j = top /\ o = k
        BY <2>23, <3>2, <4>1, <4>3
      <4>4. CASE i = top /\ l = k /\ o \in Followed(j)
        BY <2>23, <3>2, <4>1, <4>4
      <4>5. CASE i = top /\ l = k /\ j = top /\ o = k
        BY <4>5
      <4> QED BY <2>24, <4>2, <4>3, <4>4, <4>5
    <3>6. ASSUME NEW q \in RootDone, NEW i \in DOMAIN imports', NEW l \in Followed(i)'
          PROVE  Target(i, l)' # FileOf(q)'
      <4>1. q \in DOMAIN imports /\ FileOf(q)' = FileOf(q)
        BY <1>2, <2>6 DEF Running, RootFirst
      <4>2. CASE l \in Followed(i)
        BY <2>24, <3>1, <4>1, <4>2 DEF Links
      <4>3. CASE i = top /\ l = k
        BY <2>3, <2>23, <2>24, <4>1, <4>3
      <4> QED BY <2>24, <4>2, <4>3
    <3> QED BY <2>21, <3>3, <3>4, <3>5, <3>6 DEF Links
  <2>26. Levels'
    <3>1. PICK level \in [DOMAIN imports -> 0..(MaxDepth - 1)] : Level(level)
      BY <1>2 DEF Running, Levels
    <3>2. PICK lv : lv = [i \in DOMAIN imports' |-> IF i = m THEN n ELSE level[i]]
      OBVIOUS
    <3>3. lv[m] = n /\ \A i \in DOMAIN imports : lv[i] = level[i]
      BY <2>5, <3>2
    <3>4. lv \in [DOMAIN imports' -> 0..(MaxDepth - 1)]
      <4>1. n \in 0..(MaxDepth - 1)
        <5>1. n \in Nat /\ n + 1 <= MaxDepth
          BY <1>2, <1>9
        <5> QED BY <5>1, DepthAssumption
      <4> QED BY <2>5, <3>1, <3>2, <4>1
    <3>5. level[top] = n - 1 /\ n - 1 + 1 = n
      BY <1>2, <3>1 DEF Level
    <3>6. Chain' = Chain /\ file \in Chain[n]
      BY <1>1, <1>2, <1>3, <2>2, <2>3, NextTarget, InputFixed
    <3>7. n <= Cardinality(File)
      BY StackFits
    <3>8. \A i \in DOMAIN imports' : FileOf(i)' \in Chain'[lv[i]] /\ lv[i] <= Cardinality(File)
      BY <2>5, <2>6, <3>1, <3>3, <3>6, <3>7 DEF Level
    <3>9. \A q \in RootDone : lv[q] = 0
      BY <1>2, <3>1, <3>3 DEF Level, Running, RootFirst
    <3>10. \A d \in DOMAIN frames' : lv[frames'[d].index] = d - 1
      <4>1. n + 1 - 1 = n
        BY <1>2
      <4>2. \A d \in DOMAIN frames : lv[frames'[d].index] = d - 1
        BY <1>2, <2>11, <3>1, <3>3 DEF Level
      <4> QED BY <2>12, <3>3, <4>1, <4>2
    <3>11. ASSUME NEW i \in DOMAIN imports', NEW j \in DOMAIN imports', NEW l \in Followed(i)',
                  FileOf(j)' = Target(i, l)'
           PROVE  lv[j] = lv[i] + 1
      <4>1. CASE i = top /\ l = k
        <5>1. j = m
          BY <2>3, <2>5, <2>6, <2>23, <2>24, <3>11, <4>1
        <5> QED BY <1>2, <3>3, <3>5, <4>1, <5>1
      <4>2. CASE l \in Followed(i)
        <5>1. Target(i, l) # file
          BY <1>2, <2>3, <2>24, <4>2 DEF Running, Links
        <5>2. j \in DOMAIN imports /\ FileOf(j) = Target(i, l)
          BY <2>5, <2>6, <2>24, <3>11, <5>1
        <5> QED BY <2>24, <3>1, <3>3, <4>2, <5>2 DEF Level
      <4> QED BY <2>24, <4>1, <4>2
    <3>12. Level(lv)'
      BY <2>21, <3>8, <3>9, <3>10, <3>11 DEF Level
    <3> QED BY <3>4, <3>12 DEF Levels
  <2>27. StackChains'
    <3>1. ASSUME NEW f PROVE ChainFrom(Targets(input.imports[f]))' = ChainFrom(Targets(input.imports[f]))
      BY <2>2 DEF ChainFrom, Targets
    <3>2. ASSUME NEW d \in DOMAIN frames', NEW e \in DOMAIN frames', e < d
          PROVE  imports'[frames'[d].index].file \in
                    ChainFrom(Targets(input.imports[imports'[frames'[e].index].file]))[d - e - 1]
      <4>1. e \in DOMAIN frames
        BY <1>2, <2>10, <3>2
      <4>2. PICK i \in DOMAIN imports : i = frames[e].index
        BY <1>2, <4>1
      <4>3. frames'[e].index = i /\ imports'[i].file = FileOf(i) /\ i = frames[e].index
        BY <2>6, <2>11, <4>1, <4>2 DEF FileOf
      <4>4. CASE d = n + 1
        <5>1. file \in ChainFrom(Targets(input.imports[FileOf(i)]))[n - e]
          BY <1>1, <1>2, <1>3, <2>3, <4>1, <4>3, NextTarget
        <5>2. d - e - 1 = n - e
          BY <1>2, <4>1, <4>4
        <5>3. imports'[frames'[d].index].file = file
          BY <2>6, <2>12, <4>4 DEF FileOf
        <5> QED BY <4>3, <5>1, <5>2, <5>3
      <4>5. CASE d # n + 1
        <5>1. d \in DOMAIN frames
          BY <2>12, <4>5
        <5>2. PICK j \in DOMAIN imports : j = frames[d].index
          BY <1>2, <5>1
        <5>3. frames'[d].index = j /\ imports'[j].file = FileOf(j) /\ j = frames[d].index
          BY <2>6, <2>11, <5>1, <5>2 DEF FileOf
        <5>4. FileOf(j) \in ChainFrom(Targets(input.imports[FileOf(i)]))[d - e - 1]
          BY <1>2, <3>2, <4>1, <4>3, <5>1, <5>3 DEF Running, StackChains
        <5> QED BY <4>3, <5>3, <5>4
      <4> QED BY <4>4, <4>5
    <3> QED BY <3>1, <3>2 DEF StackChains, FileOf
  <2>28. OpenedIsReadable'
    <3>1. OpenedIsReadable
      BY <1>2 DEF Running
    <3>2. \A i \in DOMAIN imports' :
             imports'[i].state = "complete" => input.readable[imports'[i].file]
      BY <2>5, <2>6, <3>1 DEF OpenedIsReadable, FileOf
    <3>3. ASSUME NEW d \in DOMAIN frames', frames'[d].step # "open"
          PROVE  input.readable[imports'[frames'[d].index].file]
      <4>1. d \in DOMAIN frames /\ frames[d].step # "open"
        BY <2>11, <2>12, <3>3
      <4>2. imports'[frames'[d].index].file = imports[frames[d].index].file
        BY <1>2, <2>5, <2>11, <4>1
      <4> QED BY <3>1, <4>1, <4>2 DEF OpenedIsReadable, FileOf
    <3> QED BY <2>2, <3>2, <3>3 DEF OpenedIsReadable, FileOf
  <2>29. ImportsComplete'
    <3>1. ImportsComplete
      BY <1>2 DEF Running
    <3> SUFFICES ASSUME NEW i \in DOMAIN imports', NEW l \in Followed(i)', NEW j \in DOMAIN imports',
                        FileOf(j)' = Target(i, l)', imports'[j].state # "complete"
                 PROVE  \E d \in DOMAIN frames' : /\ d # Len(frames')
                                                  /\ frames'[d].index = i
                                                  /\ l = frames'[d].next - 1
      BY DEF ImportsComplete
    <3>2. CASE i = top /\ l = k
      <4>1. k = frames'[n].next - 1
        BY <1>2, <2>7, <2>10
      <4> QED BY <1>2, <2>11, <3>2, <4>1
    <3>3. CASE l \in Followed(i)
      <4>1. Target(i, l) # file
        BY <1>2, <2>3, <2>24, <3>3 DEF Running, Links
      <4>2. j \in DOMAIN imports /\ FileOf(j) = Target(i, l) /\ imports[j].state # "complete"
        BY <2>5, <2>6, <2>24, <4>1
      <4>3. PICK d \in DOMAIN frames : d # n /\ frames[d].index = i /\ l = frames[d].next - 1
        BY <2>24, <3>1, <3>3, <4>2 DEF ImportsComplete
      <4> QED BY <2>11, <4>3
    <3> QED BY <2>24, <3>2, <3>3
  <2>30. ImportsFirst'
    BY <2>2 DEF IInv, ImportsFirst, Targets
  <2>31. Registry'
    <3>1. \A i \in DOMAIN imports : \A l : Decl(i, l)' = Decl(i, l)
      BY <2>2, <2>6 DEF Decl
    <3>2. \A i \in DOMAIN imports' : Parsed(i)' # {} => i \in DOMAIN imports
      BY <2>5, <2>20
    <3>3. Registry
      BY <1>2 DEF Running
    <3>4. \A j \in DOMAIN declared : \E i \in DOMAIN imports' : \E l \in Parsed(i)' :
             declared[j] = [kind |-> Decl(i, l)'.kind, id |-> Decl(i, l)'.id, file |-> FileOf(i)']
      BY <2>5, <2>6, <2>20, <3>1, <3>3 DEF Registry
    <3>5. \A i \in DOMAIN imports' : \A l \in Parsed(i)' :
             /\ Decl(i, l)'.defect = "none"
             /\ \E j \in DOMAIN declared :
                   declared[j] = [kind |-> Decl(i, l)'.kind, id |-> Decl(i, l)'.id, file |-> FileOf(i)']
      BY <2>5, <2>6, <2>20, <3>1, <3>2, <3>3 DEF Registry
    <3>6. \A i, j \in DOMAIN imports' : \A l \in Parsed(i)' : \A o \in Parsed(j)' :
             Same(Decl(i, l)', Decl(j, o)') => i = j /\ l = o
      BY <2>20, <3>1, <3>2, <3>3 DEF Registry
    <3>7. \A i, j \in DOMAIN declared : Same(declared[i], declared[j]) => i = j
      BY <3>3 DEF Registry
    <3> QED BY <2>2, <3>4, <3>5, <3>6, <3>7 DEF Registry, Same
  <2>32. input' \in Inputs /\ phase' = "visit" /\ status' = "running"
    BY <1>2, <2>2 DEF IInv, Running
  <2> QED BY <2>13, <2>14, <2>15, <2>16, <2>18, <2>22, <2>25, <2>26, <2>27, <2>28, <2>29,
             <2>30, <2>31, <2>32 DEF IInv, Running
<1>10. AppendError(way) # "none" \/ Len(frames) + 1 > MaxDepth \/ Len(frames) + 1 <= MaxDepth
  BY <1>2, DepthAssumption
<1> QED BY <1>7, <1>8, <1>9, <1>10

\* What a document that declares imports is complete, so it does not import a
\* document in progress.
LEMMA DeclaringImportsNone ==
    ASSUME IInv, Running, NEW q \in DOMAIN imports, NEW t \in DOMAIN imports,
           imports[t].state = "visiting",
           \/ imports[q].state = "complete"
           \/ \E d \in DOMAIN frames : frames[d].index = q /\ frames[d].step = "declarations"
    PROVE  FileOf(t) \notin Targets(input.imports[FileOf(q)])
<1> SUFFICES ASSUME FileOf(t) \in Targets(input.imports[FileOf(q)]) PROVE FALSE
  OBVIOUS
<1>1. input.imports[FileOf(q)] \in Seq(Path)
  BY DocumentType
<1>2. PICK l \in DOMAIN input.imports[FileOf(q)] : FileOf(t) = Canonical[input.imports[FileOf(q)][l]]
  BY <1>1, TargetsType
<1>3. l \in Followed(q) /\ FileOf(t) = Target(q, l)
  BY <1>2 DEF Followed, Target
<1>4. PICK d \in DOMAIN frames : d # Len(frames) /\ frames[d].index = q
  BY <1>3 DEF Running, ImportsComplete
<1>5. frames[d].step = "imports" /\ imports[q].state = "visiting"
  BY <1>4 DEF IInv, FrameShape, StackHeld
<1>6. PICK e \in DOMAIN frames : frames[e].index = q /\ frames[e].step = "declarations"
  BY <1>5
<1>7. d = e
  BY <1>4, <1>6 DEF IInv, StackHeld
<1> QED BY <1>5, <1>6, <1>7

\* The declarations of a file that is reached are among those of the project.
LEMMA DeclarationAt ==
    ASSUME NEW f \in Reached, NEW l \in DOMAIN input.declares[f]
    PROVE  <<f, l, input.declares[f][l]>> \in Declarations
BY DEF Declarations

\* One declaration: refused, or registered.
LEMMA ParseIInv == ASSUME IInv, NEW kind \in Kind, Parse(kind) PROVE IInv'
<1> DEFINE n == Len(frames)
<1> AtTop("declarations")
  BY DEF Parse
<1>1. PICK top, k, decl : top = Top.index /\ k = Top.next /\ decl = input.declares[TopFile][k]
  OBVIOUS
<1>2. /\ phase = "visit" /\ Running /\ TypeOK
      /\ n \in DOMAIN frames /\ n \in Nat \ {0} /\ DOMAIN frames = 1..n
      /\ frames[n] \in FrameRecord /\ frames[n].index = top /\ frames[n].step = "declarations"
      /\ frames[n].next = k /\ k \in Nat \ {0}
      /\ top \in DOMAIN imports /\ imports[top].state = "visiting"
      /\ TopFile = FileOf(top) /\ TopFile \in File
      /\ frames \in Seq(FrameRecord)
  BY <1>1, TopFacts, TypeFacts DEF IInv
<1>3. k <= Len(input.declares[FileOf(top)]) /\ decl = Decl(top, k) /\ decl.kind = kind
  BY <1>1, <1>2 DEF Parse, Decl
<1>4. /\ k \in DOMAIN input.declares[FileOf(top)]
      /\ decl.id \in STRING /\ decl.defect \in {"none", "head", "body"}
  BY <1>2, <1>3, DocumentType
<1>5. \A d \in DOMAIN frames : frames[d].index = top => d = n
  BY <1>2 DEF IInv, StackHeld
<1>6. k \notin Parsed(top)
  BY <1>2, <1>5 DEF Parsed
<1>7. <<FileOf(top), k, decl>> \in Declarations
  <2>1. FileOf(top) \in Reached
    BY <1>2, ImportedIsReached
  <2> QED BY <1>3, <1>4, <2>1 DEF Declarations, Decl
<1>8. ASSUME decl.defect # "none" PROVE ~WellFormed
  <2>1. PICK c \in Declarations : c = <<FileOf(top), k, decl>>
    BY <1>7
  <2>2. c[3].defect # "none"
    BY <1>8, <2>1
  <2> QED BY <2>2 DEF WellFormed
<1>9. CASE decl.defect # "none" /\ Fail("declaration")
  <2>1. Genuine("declaration") /\ "declaration" \in Errors
    BY DEF Genuine, Errors
  <2> QED BY <1>2, <1>8, <1>9, <2>1, FailIInv
<1>10. CASE Registered(decl) /\ Fail("duplicate_definition")
  <2>1. PICK j \in DOMAIN declared : declared[j].kind = decl.kind /\ declared[j].id = decl.id
    BY <1>10 DEF Registered
  <2>2. PICK i \in DOMAIN imports : \E l \in Parsed(i) :
          declared[j] = [kind |-> Decl(i, l).kind, id |-> Decl(i, l).id, file |-> FileOf(i)]
    BY <1>2 DEF Running, Registry
  <2>3. PICK l \in Parsed(i) :
          declared[j] = [kind |-> Decl(i, l).kind, id |-> Decl(i, l).id, file |-> FileOf(i)]
    BY <2>2
  <2>4. PICK c \in Declarations : c = <<FileOf(i), l, Decl(i, l)>>
    <3>1. FileOf(i) \in Reached /\ l \in DOMAIN input.declares[FileOf(i)]
      BY <1>2, ImportedIsReached DEF Parsed
    <3>2. <<FileOf(i), l, input.declares[FileOf(i)][l]>> \in Declarations
      BY <3>1, DeclarationAt
    <3> QED BY <3>2 DEF Decl
  <2>5. PICK b \in Declarations : b = <<FileOf(top), k, decl>>
    BY <1>7
  <2>6. b # c
    <3>1. i = top => l # k
      BY <1>6
    <3>2. i # top => FileOf(i) # FileOf(top)
      BY <1>2 DEF IInv, FilesDistinct
    <3>3. b[1] = FileOf(top) /\ b[2] = k /\ c[1] = FileOf(i) /\ c[2] = l
      BY <2>4, <2>5
    <3>4. CASE i = top
      BY <3>1, <3>3, <3>4
    <3>5. CASE i # top
      BY <3>2, <3>3, <3>5
    <3> QED BY <3>4, <3>5
  <2>7. b[3].kind = c[3].kind /\ b[3].id = c[3].id
    BY <2>1, <2>3, <2>4, <2>5
  <2>8. ~DeclaredOnce
    BY <2>6, <2>7 DEF DeclaredOnce
  <2>9. ~WellFormed /\ Genuine("duplicate_definition") /\ "duplicate_definition" \in Errors
    BY <2>8 DEF WellFormed, Genuine, Errors
  <2> QED BY <1>2, <1>10, <2>9, FailIInv
<1>11. CASE /\ decl.defect = "none" /\ ~Registered(decl)
            /\ declared' = Append(declared, [kind |-> kind, id |-> decl.id, file |-> TopFile])
            /\ frames' = [frames EXCEPT ![n].next = @ + 1]
            /\ UNCHANGED <<input, phase, main, imports, status>>
  <2> DEFINE r == [frames[n] EXCEPT !.next = @ + 1]
             new == [kind |-> kind, id |-> decl.id, file |-> TopFile]
  <2>1. r \in FrameRecord /\ r.index = top /\ r.step = "declarations" /\ r.next = k + 1
    <3>1. r = [frames[n] EXCEPT !.next = k + 1] /\ k + 1 \in Nat \ {0}
      BY <1>2
    <3> HIDE DEF r
    <3> QED BY <1>2, <3>1, FrameNext
  <2>2. frames' = [frames EXCEPT ![n] = r]
    BY <1>11
  <2>3. /\ DOMAIN frames' = DOMAIN frames /\ frames'[n] = r
        /\ \A d \in DOMAIN frames : d # n => frames'[d] = frames[d]
    <3> HIDE DEF r
    <3> QED BY <1>2, <2>1, <2>2, SeqUpdate
  <2> HIDE DEF r
  <2>4. /\ \A i : FileOf(i)' = FileOf(i)
        /\ \A i, l : Decl(i, l)' = Decl(i, l)
    BY <1>11 DEF FileOf, Decl
  <2>5. \A d \in DOMAIN frames : frames'[d].index = frames[d].index /\ frames'[d].step = frames[d].step
    BY <1>2, <2>1, <2>3
  <2>6. Followed(top)' = Followed(top)
    <3>1. Followed(top) = DOMAIN input.imports[FileOf(top)]
      BY <1>2 DEF Followed
    <3>2. Followed(top)' = DOMAIN input.imports[FileOf(top)]
      BY <1>2, <1>11, <2>1, <2>3, <2>4 DEF Followed
    <3> QED BY <3>1, <3>2
  <2>7. \A i \in DOMAIN imports : i # top => Parsed(i)' = Parsed(i)
    BY <1>2, <1>11, <2>1, <2>3, <2>4 DEF Parsed
  <2>8. Parsed(top)' = Parsed(top) \cup {k}
    <3>1. Parsed(top) = {l \in DOMAIN input.declares[FileOf(top)] : l < k}
      BY <1>2, <1>5 DEF Parsed
    <3>2. Parsed(top)' = {l \in DOMAIN input.declares[FileOf(top)] : l < k + 1}
      BY <1>2, <1>5, <1>11, <2>1, <2>3, <2>4, <2>5 DEF Parsed
    <3>3. \A l \in DOMAIN input.declares[FileOf(top)] : l < k + 1 <=> l < k \/ l = k
      <4>1. \A l \in DOMAIN input.declares[FileOf(top)] : l \in Nat
        BY <1>2, DocumentType
      <4>2. k \in Nat
        BY <1>2
      <4> QED BY <4>1, <4>2
    <3> QED BY <1>4, <3>1, <3>2, <3>3
  <2>9. new \in Declaration /\ new.kind = decl.kind /\ new.id = decl.id /\ new.file = FileOf(top)
    BY <1>2, <1>3, <1>4 DEF Declaration
  <2>10. PICK m : m = Len(declared) + 1
    OBVIOUS
  <2>11. /\ declared' \in Seq(Declaration) /\ DOMAIN declared' = DOMAIN declared \cup {m}
         /\ m \notin DOMAIN declared /\ declared'[m] = new
         /\ \A j \in DOMAIN declared : declared'[j] = declared[j]
         /\ DOMAIN declared' = 1..m /\ m \in Nat
    <3>1. declared \in Seq(Declaration) /\ DOMAIN declared = 1..Len(declared) /\ Len(declared) \in Nat
      BY <1>2, TypeFacts
    <3>2. declared' = Append(declared, new)
      BY <1>11
    <3> HIDE DEF new
    <3>3. /\ declared' \in Seq(Declaration) /\ DOMAIN declared' = DOMAIN declared \cup {m}
          /\ m \notin DOMAIN declared /\ declared'[m] = new
          /\ \A j \in DOMAIN declared : declared'[j] = declared[j]
          /\ Len(declared') = m
      BY <2>9, <2>10, <3>1, <3>2, SeqAppend
    <3> QED BY <2>10, <3>1, <3>3
  <2>12. new = [kind |-> Decl(top, k).kind, id |-> Decl(top, k).id, file |-> FileOf(top)]
    BY <1>2, <1>3
  <2> HIDE DEF new
  <2>13. \A j \in DOMAIN declared : ~Same(declared[j], decl)
    BY <1>11 DEF Registered, Same
  <2>14. Registry'
    <3>1. Registry
      BY <1>2 DEF Running
    <3>2. \A j \in DOMAIN declared' : \E i \in DOMAIN imports : \E l \in Parsed(i)' :
             declared'[j] = [kind |-> Decl(i, l).kind, id |-> Decl(i, l).id, file |-> FileOf(i)]
      <4>1. \A i \in DOMAIN imports : Parsed(i) \subseteq Parsed(i)'
        BY <2>7, <2>8
      <4>2. \A j \in DOMAIN declared : \E i \in DOMAIN imports : \E l \in Parsed(i)' :
               declared[j] = [kind |-> Decl(i, l).kind, id |-> Decl(i, l).id, file |-> FileOf(i)]
        BY <3>1, <4>1 DEF Registry
      <4>3. k \in Parsed(top)'
        BY <2>8
      <4>4. \E i \in DOMAIN imports : \E l \in Parsed(i)' :
               declared'[m] = [kind |-> Decl(i, l).kind, id |-> Decl(i, l).id, file |-> FileOf(i)]
        BY <1>2, <2>11, <2>12, <4>3
      <4> QED BY <2>11, <4>2, <4>4
    <3>3. ASSUME NEW i \in DOMAIN imports, NEW l \in Parsed(i)'
          PROVE  \/ l \in Parsed(i)
                 \/ i = top /\ l = k
      BY <2>7, <2>8
    <3>4. ASSUME NEW i \in DOMAIN imports, NEW l \in Parsed(i)'
          PROVE  /\ Decl(i, l).defect = "none"
                 /\ \E j \in DOMAIN declared' :
                       declared'[j] = [kind |-> Decl(i, l).kind, id |-> Decl(i, l).id, file |-> FileOf(i)]
      <4>1. CASE l \in Parsed(i)
        <5>1. /\ Decl(i, l).defect = "none"
              /\ \E j \in DOMAIN declared :
                    declared[j] = [kind |-> Decl(i, l).kind, id |-> Decl(i, l).id, file |-> FileOf(i)]
          BY <3>1, <4>1 DEF Registry
        <5> QED BY <2>11, <5>1
      <4>2. CASE i = top /\ l = k
        <5>1. Decl(i, l).defect = "none"
          BY <1>3, <1>11, <4>2
        <5>2. m \in DOMAIN declared'
          BY <2>11
        <5>3. declared'[m] = [kind |-> Decl(i, l).kind, id |-> Decl(i, l).id, file |-> FileOf(i)]
          BY <2>11, <2>12, <4>2
        <5> QED BY <5>1, <5>2, <5>3
      <4> QED BY <3>3, <4>1, <4>2
    <3>5. \A i, j \in DOMAIN declared' : Same(declared'[i], declared'[j]) => i = j
      <4>1. Same(new, new) /\ \A c : Same(c, new) => Same(c, decl)
        BY <2>9 DEF Same
      <4>2. \A c : Same(new, c) => Same(c, decl)
        BY <2>9 DEF Same
      <4> QED BY <2>11, <2>13, <3>1, <4>1, <4>2 DEF Registry
    <3>6. ASSUME NEW i \in DOMAIN imports, NEW l \in Parsed(i) PROVE ~Same(Decl(i, l), decl)
      <4>1. PICK j \in DOMAIN declared :
              declared[j] = [kind |-> Decl(i, l).kind, id |-> Decl(i, l).id, file |-> FileOf(i)]
        BY <3>1 DEF Registry
      <4> QED BY <2>13, <4>1 DEF Same
    <3>7. \A i, j \in DOMAIN imports : \A l \in Parsed(i)' : \A o \in Parsed(j)' :
             Same(Decl(i, l), Decl(j, o)) => i = j /\ l = o
      <4>1. \A b, c : Same(b, c) => Same(c, b)
        BY DEF Same
      <4> QED BY <1>3, <3>1, <3>3, <3>6, <4>1 DEF Registry
    <3>8. \A i, j \in DOMAIN imports : \A l \in Parsed(i)' : \A o \in Parsed(j)' :
             Same(Decl(i, l), Decl(j, o))' => i = j /\ l = o
      BY <2>4, <3>7 DEF Same
    <3>9. \A i, j \in DOMAIN declared' : Same(declared[i], declared[j])' => i = j
      BY <3>5 DEF Same
    <3>10. imports' = imports
      BY <1>11
    <3>11. \A j \in DOMAIN declared' : \E i \in DOMAIN imports' : \E l \in Parsed(i)' :
             declared'[j] = [kind |-> Decl(i, l)'.kind, id |-> Decl(i, l)'.id, file |-> FileOf(i)']
      BY <2>4, <3>2, <3>10
    <3>12. \A i \in DOMAIN imports' : \A l \in Parsed(i)' :
             /\ Decl(i, l)'.defect = "none"
             /\ \E j \in DOMAIN declared' :
                   declared'[j] = [kind |-> Decl(i, l)'.kind, id |-> Decl(i, l)'.id, file |-> FileOf(i)']
      BY <2>4, <3>4, <3>10
    <3> QED BY <3>8, <3>9, <3>10, <3>11, <3>12 DEF Registry
  <2>15. ImportsFirst'
    <3>1. ASSUME NEW i \in DOMAIN declared'
          PROVE  FileOf(top) \notin Targets(input.imports[declared'[i].file])
      <4>1. PICK q \in DOMAIN imports :
               /\ declared'[i].file = FileOf(q)
               /\ \/ imports[q].state = "complete"
                  \/ \E d \in DOMAIN frames : frames[d].index = q /\ frames[d].step = "declarations"
        <5>1. CASE i = m
          BY <1>2, <2>9, <2>11, <5>1
        <5>2. CASE i # m
          <6>1. i \in DOMAIN declared /\ declared'[i] = declared[i]
            BY <2>11, <5>2
          <6>2. PICK q \in DOMAIN imports : \E l \in Parsed(q) :
                  declared[i] = [kind |-> Decl(q, l).kind, id |-> Decl(q, l).id, file |-> FileOf(q)]
            BY <1>2, <6>1 DEF Running, Registry
          <6>3. declared[i].file = FileOf(q)
            BY <6>2
          <6> QED BY <6>1, <6>2, <6>3 DEF Parsed
        <5> QED BY <5>1, <5>2
      <4> QED BY <1>2, <4>1, DeclaringImportsNone
    <3>2. ASSUME NEW i \in DOMAIN declared', NEW j \in DOMAIN declared',
                 declared'[j].file \in Targets(input.imports[declared'[i].file])
          PROVE  j < i
      <4>1. j # m
        BY <2>9, <2>11, <3>1, <3>2
      <4>2. CASE i = m
        BY <2>11, <4>1, <4>2
      <4>3. CASE i # m
        BY <2>11, <3>2, <4>1, <4>3 DEF IInv, ImportsFirst
      <4> QED BY <4>2, <4>3
    <3>3. input' = input
      BY <1>11
    <3>4. \A i, j \in DOMAIN declared' :
             declared'[j].file \in Targets(input'.imports[declared'[i].file]) => j < i
      BY <3>2, <3>3
    <3> QED BY <3>4 DEF ImportsFirst, Targets
  <2>16. input.readable[TopFile]
    BY <1>2 DEF Running, OpenedIsReadable
  <2> QED BY <1>1, <1>11, <2>1, <2>2, <2>6, <2>11, <2>14, <2>15, <2>16, TopKept
<1> QED BY <1>1, <1>3, <1>4, <1>9, <1>10, <1>11 DEF Parse

-----------------------------------------------------------------------------
\* The main loop is over.
AtEnd == phase = "visit" /\ frames = <<>> /\ main > Len(imports)

\* Then every import is complete: all its statements and declarations were read.
LEMMA EndFacts ==
    ASSUME IInv, AtEnd
    PROVE  /\ Running /\ TypeOK /\ input.project
           /\ RootDone = DOMAIN input.root
           /\ \A i \in DOMAIN imports :
                 /\ imports[i].state = "complete"
                 /\ Followed(i) = DOMAIN input.imports[FileOf(i)]
                 /\ Parsed(i) = DOMAIN input.declares[FileOf(i)]
<1>1. Running /\ TypeOK /\ input.project /\ StackHeld /\ phase = "visit"
  BY DEF IInv, AtEnd, Running, RootFirst
<1>2. RootDone = DOMAIN input.root
  BY <1>1 DEF RootDone
<1>3. ASSUME NEW i \in DOMAIN imports PROVE imports[i].state = "complete"
  <2>1. imports[i].state \in {"declared", "visiting", "complete"} /\ i < main
    BY <1>1, TypeFacts DEF AtEnd
  <2>2. imports[i].state # "declared"
    BY <1>1, <2>1 DEF Running, RootFirst
  <2>3. DOMAIN frames = {}
    BY DEF AtEnd
  <2>4. imports[i].state # "visiting"
    BY <1>1, <2>3 DEF StackHeld
  <2> QED BY <2>1, <2>2, <2>4
<1>4. ASSUME NEW i \in DOMAIN imports PROVE Followed(i) = DOMAIN input.imports[FileOf(i)]
  BY <1>3 DEF Followed
<1>5. ASSUME NEW i \in DOMAIN imports PROVE Parsed(i) = DOMAIN input.declares[FileOf(i)]
  BY <1>3 DEF Parsed
<1> QED BY <1>1, <1>2, <1>3, <1>4, <1>5

\* A chain of statements leads to an import of its level.
LEMMA ChainAtEnd ==
    ASSUME IInv, AtEnd, NEW level \in [DOMAIN imports -> 0..(MaxDepth - 1)], Level(level),
           NEW n \in Nat, NEW f \in Chain[n]
    PROVE  \E i \in DOMAIN imports : FileOf(i) = f /\ level[i] = n
<1> DEFINE Met == {m \in Nat : \A g \in Chain[m] :
                      \E i \in DOMAIN imports : FileOf(i) = g /\ level[i] = m}
<1>1. input \in Inputs /\ Targets(input.root) \in SUBSET File /\ input.root \in Seq(Path)
  BY InputType, TargetsType DEF IInv
<1>2. /\ Chain \in [Nat -> SUBSET File] /\ Chain[0] = Targets(input.root)
      /\ \A m \in Nat : Chain[m + 1] = UNION {Targets(input.imports[g]) : g \in Chain[m]}
  BY <1>1, ChainUnfold DEF Chain
<1>3. 0 \in Met
  <2> SUFFICES ASSUME NEW g \in Targets(input.root)
               PROVE  \E i \in DOMAIN imports : FileOf(i) = g /\ level[i] = 0
    BY <1>2
  <2>1. PICK k \in DOMAIN input.root : g = Canonical[input.root[k]]
    BY <1>1, TargetsType
  <2>2. k \in RootDone
    BY EndFacts
  <2> QED BY <2>1, <2>2, EndFacts DEF Running, RootFirst, Level
<1>4. ASSUME NEW m \in Nat, m \in Met PROVE m + 1 \in Met
  <2> SUFFICES ASSUME NEW g \in Chain[m + 1]
               PROVE  \E i \in DOMAIN imports : FileOf(i) = g /\ level[i] = m + 1
    OBVIOUS
  <2>1. PICK h \in Chain[m] : g \in Targets(input.imports[h])
    BY <1>2
  <2>2. PICK i \in DOMAIN imports : FileOf(i) = h /\ level[i] = m
    BY <1>4
  <2>3. input.imports[FileOf(i)] \in Seq(Path)
    BY DocumentType
  <2>4. PICK k \in DOMAIN input.imports[FileOf(i)] : g = Canonical[input.imports[FileOf(i)][k]]
    BY <2>1, <2>2, <2>3, TargetsType
  <2>5. k \in Followed(i) /\ g = Target(i, k)
    BY <2>4, EndFacts DEF Target
  <2>6. PICK j \in DOMAIN imports : FileOf(j) = Target(i, k)
    BY <2>5, EndFacts DEF Running, Links
  <2>7. level[j] = level[i] + 1
    BY <2>5, <2>6 DEF Level
  <2> QED BY <2>2, <2>5, <2>6, <2>7
<1>5. Nat \subseteq Met
  <2> HIDE DEF Met
  <2> QED BY <1>3, <1>4, Induction
<1> QED BY <1>5

\* The imports are the files that are reached, and no chain exceeds the depth.
LEMMA ReachedAtEnd ==
    ASSUME IInv, AtEnd
    PROVE  /\ \A f : f \in Reached <=> \E i \in DOMAIN imports : FileOf(i) = f
           /\ Chain[MaxDepth] = {}
<1>1. PICK level \in [DOMAIN imports -> 0..(MaxDepth - 1)] : Level(level)
  BY EndFacts DEF Running, Levels
<1>2. Cardinality(File) \in Nat
  BY FS_CardinalityType, FileAssumption
<1>3. ASSUME NEW f \in Reached PROVE \E i \in DOMAIN imports : FileOf(i) = f
  <2>1. PICK n \in 0..Cardinality(File) : f \in Chain[n]
    BY DEF Reached
  <2>2. n \in Nat
    BY <1>2
  <2> QED BY <1>1, <2>1, <2>2, ChainAtEnd
<1>4. ASSUME NEW i \in DOMAIN imports PROVE FileOf(i) \in Reached
  BY EndFacts, ImportedIsReached
<1>5. ASSUME NEW f \in Chain[MaxDepth] PROVE FALSE
  <2>1. PICK i \in DOMAIN imports : FileOf(i) = f /\ level[i] = MaxDepth
    BY <1>1, ChainAtEnd, DepthAssumption
  <2>2. level[i] \in 0..(MaxDepth - 1)
    BY <1>1
  <2> QED BY <2>1, <2>2, DepthAssumption
<1> QED BY <1>3, <1>4, <1>5

\* Every statement of the project was followed and led to a file of its own.
LEMMA StatementsAtEnd ==
    ASSUME IInv, AtEnd
    PROVE  ImportedOnce /\ \A s \in Statements : Canonical[s[3]] \in File
<1> DEFINE FromRoot(s, r) == s = <<"project.toml", r, input.root[r]>>
           FromFile(s, i, k) == s = <<FileOf(i), k, input.imports[FileOf(i)][k]>>
<1>1. Running /\ RootFirst /\ Links /\ FilesDistinct /\ TypeOK
  BY EndFacts DEF IInv, Running
<1>2. ASSUME NEW s \in Statements
      PROVE  \/ \E r \in RootDone : FromRoot(s, r)
             \/ \E i \in DOMAIN imports : \E k \in Followed(i) : FromFile(s, i, k)
  <2>1. CASE \E r \in DOMAIN input.root : FromRoot(s, r)
    BY <2>1, EndFacts
  <2>2. CASE \E f \in Reached : \E k \in DOMAIN input.imports[f] : s = <<f, k, input.imports[f][k]>>
    <3>1. PICK f \in Reached : \E k \in DOMAIN input.imports[f] : s = <<f, k, input.imports[f][k]>>
      BY <2>2
    <3>2. PICK i \in DOMAIN imports : FileOf(i) = f
      BY <3>1, ReachedAtEnd
    <3>3. Followed(i) = DOMAIN input.imports[FileOf(i)]
      BY EndFacts
    <3> QED BY <3>1, <3>2, <3>3
  <2> QED BY <2>1, <2>2 DEF Statements
<1>3. ASSUME NEW s, NEW r \in RootDone, FromRoot(s, r)
      PROVE  r \in DOMAIN imports /\ Canonical[s[3]] = FileOf(r)
  <2>1. s[3] = input.root[r]
    BY <1>3
  <2> QED BY <1>1, <2>1 DEF RootFirst
<1>4. ASSUME NEW s, NEW i \in DOMAIN imports, NEW k \in Followed(i), FromFile(s, i, k)
      PROVE  Canonical[s[3]] = Target(i, k)
  <2>1. s[3] = input.imports[FileOf(i)][k]
    BY <1>4
  <2> QED BY <2>1 DEF Target
<1> HIDE DEF FromRoot, FromFile
<1>5. ASSUME NEW s \in Statements PROVE Canonical[s[3]] \in File
  <2>1. CASE \E r \in RootDone : FromRoot(s, r)
    BY <1>1, <1>3, <2>1, TypeFacts
  <2>2. CASE \E i \in DOMAIN imports : \E k \in Followed(i) : FromFile(s, i, k)
    <3>1. PICK i \in DOMAIN imports : \E k \in Followed(i) : FromFile(s, i, k)
      BY <2>2
    <3>1a. PICK k \in Followed(i) : FromFile(s, i, k)
      BY <3>1
    <3>2. PICK j \in DOMAIN imports : FileOf(j) = Target(i, k)
      BY <1>1 DEF Links
    <3> QED BY <1>1, <1>4, <3>1a, <3>2, TypeFacts
  <2> QED BY <1>2, <2>1, <2>2
<1>6. ASSUME NEW s \in Statements, NEW t \in Statements, Canonical[s[3]] = Canonical[t[3]]
      PROVE  s = t
  <2>1. ASSUME NEW r \in RootDone, FromRoot(s, r), NEW q \in RootDone, FromRoot(t, q) PROVE s = t
    <3>1. r = q
      BY <1>1, <1>3, <1>6, <2>1 DEF FilesDistinct
    <3> QED BY <2>1, <3>1 DEF FromRoot
  <2>2. ASSUME NEW r \in RootDone, NEW i \in DOMAIN imports, NEW k \in Followed(i),
               \/ FromRoot(s, r) /\ FromFile(t, i, k)
               \/ FromRoot(t, r) /\ FromFile(s, i, k)
        PROVE  FALSE
    <3>1. Target(i, k) # FileOf(r)
      BY <1>1 DEF Links
    <3>2. CASE FromRoot(s, r) /\ FromFile(t, i, k)
      BY <1>3, <1>4, <1>6, <3>1, <3>2
    <3>3. CASE FromRoot(t, r) /\ FromFile(s, i, k)
      BY <1>3, <1>4, <1>6, <3>1, <3>3
    <3> QED BY <2>2, <3>2, <3>3
  <2>3. ASSUME NEW i \in DOMAIN imports, NEW k \in Followed(i), FromFile(s, i, k),
               NEW j \in DOMAIN imports, NEW l \in Followed(j), FromFile(t, j, l)
        PROVE  s = t
    <3>1. Target(i, k) = Target(j, l)
      BY <1>4, <1>6, <2>3
    <3>2. i = j /\ k = l
      BY <1>1, <3>1 DEF Links
    <3> QED BY <2>3, <3>2 DEF FromFile
  <2>4. \/ \E r \in RootDone : FromRoot(s, r)
        \/ \E i \in DOMAIN imports : \E k \in Followed(i) : FromFile(s, i, k)
    BY <1>2
  <2>5. \/ \E r \in RootDone : FromRoot(t, r)
        \/ \E i \in DOMAIN imports : \E k \in Followed(i) : FromFile(t, i, k)
    BY <1>2
  <2>6. CASE \E r \in RootDone : FromRoot(s, r)
    <3>1. PICK r \in RootDone : FromRoot(s, r)
      BY <2>6
    <3>2. CASE \E q \in RootDone : FromRoot(t, q)
      BY <2>1, <3>1, <3>2
    <3>3. CASE \E i \in DOMAIN imports : \E k \in Followed(i) : FromFile(t, i, k)
      <4>1. PICK i \in DOMAIN imports : \E k \in Followed(i) : FromFile(t, i, k)
        BY <3>3
      <4>2. PICK k \in Followed(i) : FromFile(t, i, k)
        BY <4>1
      <4>3. FALSE
        BY <2>2, <3>1, <4>2
      <4> QED BY <4>3
    <3> QED BY <2>5, <3>2, <3>3
  <2>7. CASE \E i \in DOMAIN imports : \E k \in Followed(i) : FromFile(s, i, k)
    BY <2>2, <2>3, <2>5, <2>7
  <2> QED BY <2>4, <2>6, <2>7
<1> QED BY <1>5, <1>6 DEF ImportedOnce

\* The entries registered and the declarations of the project are the same.
LEMMA DeclarationsAtEnd ==
    ASSUME IInv, AtEnd
    PROVE  /\ DeclaredOnce
           /\ \A c \in Declarations :
                 /\ c[3].defect = "none"
                 /\ \E n \in DOMAIN declared :
                       declared[n].file = c[1] /\ Same(declared[n], c[3])
           /\ \A n \in DOMAIN declared : \E c \in Declarations :
                 declared[n].file = c[1] /\ Same(declared[n], c[3])
<1>1. Registry /\ Running
  BY EndFacts DEF Running
<1>2. ASSUME NEW c \in Declarations
      PROVE  \E i \in DOMAIN imports : \E k \in Parsed(i) : c = <<FileOf(i), k, Decl(i, k)>>
  <2>1. PICK f \in Reached : \E k \in DOMAIN input.declares[f] : c = <<f, k, input.declares[f][k]>>
    BY DEF Declarations
  <2>2. PICK i \in DOMAIN imports : FileOf(i) = f
    BY <2>1, ReachedAtEnd
  <2>3. Parsed(i) = DOMAIN input.declares[FileOf(i)]
    BY EndFacts
  <2> QED BY <2>1, <2>2, <2>3 DEF Decl
<1>3. ASSUME NEW c \in Declarations
      PROVE  /\ c[3].defect = "none"
             /\ \E n \in DOMAIN declared : declared[n].file = c[1] /\ Same(declared[n], c[3])
  <2>1. PICK i \in DOMAIN imports : \E k \in Parsed(i) : c = <<FileOf(i), k, Decl(i, k)>>
    BY <1>2
  <2>1a. PICK k \in Parsed(i) : c = <<FileOf(i), k, Decl(i, k)>>
    BY <2>1
  <2>2. c[1] = FileOf(i) /\ c[3] = Decl(i, k)
    BY <2>1a
  <2>3. Decl(i, k).defect = "none"
    BY <1>1 DEF Registry
  <2>4. PICK n \in DOMAIN declared :
          declared[n] = [kind |-> Decl(i, k).kind, id |-> Decl(i, k).id, file |-> FileOf(i)]
    BY <1>1 DEF Registry
  <2>5. declared[n].file = FileOf(i) /\ Same(declared[n], Decl(i, k))
    BY <2>4 DEF Same
  <2> QED BY <2>2, <2>3, <2>5
<1>4. ASSUME NEW n \in DOMAIN declared
      PROVE  \E c \in Declarations : declared[n].file = c[1] /\ Same(declared[n], c[3])
  <2>1. PICK i \in DOMAIN imports : \E k \in Parsed(i) :
          declared[n] = [kind |-> Decl(i, k).kind, id |-> Decl(i, k).id, file |-> FileOf(i)]
    BY <1>1 DEF Registry
  <2>2. PICK k \in Parsed(i) :
          declared[n] = [kind |-> Decl(i, k).kind, id |-> Decl(i, k).id, file |-> FileOf(i)]
    BY <2>1
  <2>3. FileOf(i) \in Reached /\ k \in DOMAIN input.declares[FileOf(i)]
    BY <1>1, ImportedIsReached DEF Parsed
  <2>4. PICK c \in Declarations : c = <<FileOf(i), k, input.declares[FileOf(i)][k]>>
    BY <2>3, DeclarationAt
  <2>5. c[1] = FileOf(i) /\ c[3] = Decl(i, k)
    BY <2>4 DEF Decl
  <2>6. declared[n].file = FileOf(i) /\ Same(declared[n], Decl(i, k))
    BY <2>2 DEF Same
  <2> QED BY <2>5, <2>6
<1>5. ASSUME NEW c \in Declarations, NEW d \in Declarations, Same(c[3], d[3]) PROVE c = d
  <2>1. PICK i \in DOMAIN imports : \E k \in Parsed(i) : c = <<FileOf(i), k, Decl(i, k)>>
    BY <1>2
  <2>1a. PICK k \in Parsed(i) : c = <<FileOf(i), k, Decl(i, k)>>
    BY <2>1
  <2>2. PICK j \in DOMAIN imports : \E l \in Parsed(j) : d = <<FileOf(j), l, Decl(j, l)>>
    BY <1>2
  <2>2a. PICK l \in Parsed(j) : d = <<FileOf(j), l, Decl(j, l)>>
    BY <2>2
  <2>3. Same(Decl(i, k), Decl(j, l))
    <3>1. c[3] = Decl(i, k) /\ d[3] = Decl(j, l)
      BY <2>1a, <2>2a
    <3> QED BY <1>5, <3>1
  <2>4. i = j /\ k = l
    BY <1>1, <2>3 DEF Registry
  <2> QED BY <2>1a, <2>2a, <2>4
<1>6. DeclaredOnce
  BY <1>5 DEF DeclaredOnce, Same
<1> QED BY <1>3, <1>4, <1>6

\* A project that is published is well formed.
LEMMA WellFormedAtEnd ==
    ASSUME IInv, AtEnd
    PROVE  WellFormed
<1>1. ASSUME NEW f \in Reached PROVE input.readable[f]
  <2>1. PICK i \in DOMAIN imports : FileOf(i) = f
    BY ReachedAtEnd
  <2> QED BY <2>1, EndFacts DEF Running, OpenedIsReadable
<1>2. input.project /\ Chain[MaxDepth] = {}
  BY EndFacts, ReachedAtEnd
<1>3. ImportedOnce /\ \A s \in Statements : Canonical[s[3]] \in File
  BY StatementsAtEnd
<1>4. DeclaredOnce /\ \A c \in Declarations : c[3].defect = "none"
  BY DeclarationsAtEnd
<1> QED BY <1>1, <1>2, <1>3, <1>4 DEF WellFormed

\* What is published: every file that is reached, once, and its declarations.
LEMMA ExactAtEnd ==
    ASSUME IInv, AtEnd
    PROVE  /\ {imports[i].file : i \in DOMAIN imports} = Reached
           /\ \A i \in DOMAIN imports : imports[i].state = "complete"
           /\ Len(imports) = Cardinality(Reached)
           /\ {<<declared[i].file, declared[i].kind, declared[i].id>> : i \in DOMAIN declared} =
                 {<<d[1], d[3].kind, d[3].id>> : d \in Declarations}
           /\ Len(declared) = Cardinality(Declarations)
<1>1. /\ TypeOK /\ Running /\ FilesDistinct /\ Registry
      /\ Len(imports) \in Nat /\ DOMAIN imports = 1..Len(imports)
      /\ Len(declared) \in Nat /\ DOMAIN declared = 1..Len(declared)
  BY EndFacts, TypeFacts DEF IInv, Running
<1>2. {imports[i].file : i \in DOMAIN imports} = Reached
  BY ReachedAtEnd DEF FileOf
<1>3. \A i \in DOMAIN imports : imports[i].state = "complete"
  BY EndFacts
<1>4. Len(imports) = Cardinality(Reached)
  <2> DEFINE f == [i \in 1..Len(imports) |-> FileOf(i)]
  <2>1. f \in [1..Len(imports) -> Reached]
    BY <1>1, ReachedAtEnd
  <2>2. \A x, y \in 1..Len(imports) : f[x] = f[y] => x = y
    BY <1>1 DEF FilesDistinct
  <2>3. \A c \in Reached : \E x \in 1..Len(imports) : f[x] = c
    BY <1>1, ReachedAtEnd
  <2> HIDE DEF f
  <2> QED BY <1>1, <2>1, <2>2, <2>3, ListLength
<1>5. \A n \in DOMAIN declared : \E c \in Declarations :
         declared[n].file = c[1] /\ Same(declared[n], c[3])
  BY DeclarationsAtEnd
<1>6. \A c \in Declarations : \E n \in DOMAIN declared :
         declared[n].file = c[1] /\ Same(declared[n], c[3])
  BY DeclarationsAtEnd
<1>7. {<<declared[i].file, declared[i].kind, declared[i].id>> : i \in DOMAIN declared} =
         {<<d[1], d[3].kind, d[3].id>> : d \in Declarations}
  <2>1. \A n \in DOMAIN declared : \E c \in Declarations :
          <<declared[n].file, declared[n].kind, declared[n].id>> = <<c[1], c[3].kind, c[3].id>>
    BY <1>5 DEF Same
  <2>2. \A c \in Declarations : \E n \in DOMAIN declared :
          <<declared[n].file, declared[n].kind, declared[n].id>> = <<c[1], c[3].kind, c[3].id>>
    BY <1>6 DEF Same
  <2>3. ASSUME NEW n \in DOMAIN declared
        PROVE  <<declared[n].file, declared[n].kind, declared[n].id>> \in
                  {<<d[1], d[3].kind, d[3].id>> : d \in Declarations}
    BY <2>1, Zenon
  <2>4. ASSUME NEW c \in Declarations
        PROVE  <<c[1], c[3].kind, c[3].id>> \in
                  {<<declared[i].file, declared[i].kind, declared[i].id>> : i \in DOMAIN declared}
    BY <2>2, Zenon
  <2> QED BY <2>3, <2>4, Zenon
<1>8. Len(declared) = Cardinality(Declarations)
  <2> DEFINE f == [n \in 1..Len(declared) |->
                      CHOOSE c \in Declarations : Same(declared[n], c[3])]
  <2>1. ASSUME NEW n \in 1..Len(declared)
        PROVE  f[n] \in Declarations /\ Same(declared[n], f[n][3])
    <3>1. \E c \in Declarations : Same(declared[n], c[3])
      BY <1>1, <1>5
    <3>2. f[n] = CHOOSE c \in Declarations : Same(declared[n], c[3])
      OBVIOUS
    <3> HIDE DEF f
    <3> QED BY <3>1, <3>2, Zenon
  <2>2. f \in [1..Len(declared) -> Declarations]
    <3>1. DOMAIN f = 1..Len(declared) /\ f = [n \in 1..Len(declared) |-> f[n]]
      OBVIOUS
    <3> HIDE DEF f
    <3> QED BY <2>1, <3>1
  <2> HIDE DEF f
  <2>3. \A x, y \in 1..Len(declared) : f[x] = f[y] => x = y
    <3>1. \A x, y \in DOMAIN declared : Same(declared[x], declared[y]) => x = y
      BY <1>1 DEF Registry
    <3>2. \A b, c, d : Same(b, d) /\ Same(c, d) => Same(b, c)
      BY DEF Same
    <3> QED BY <1>1, <2>1, <3>1, <3>2
  <2>4. \A c \in Declarations : \E x \in 1..Len(declared) : f[x] = c
    <3> TAKE c \in Declarations
    <3>1. PICK n \in 1..Len(declared) : Same(declared[n], c[3])
      BY <1>1, <1>6
    <3>2. f[n] \in Declarations /\ Same(f[n][3], c[3])
      BY <2>1, <3>1 DEF Same
    <3>3. f[n] = c
      BY <3>2, DeclarationsAtEnd DEF DeclaredOnce, Same
    <3> QED BY <3>3
  <2> QED BY <1>1, <2>2, <2>3, <2>4, ListLength
<1> QED BY <1>2, <1>3, <1>4, <1>7, <1>8

\* The end of a load that met no error.
LEMMA PublishIInv == ASSUME IInv, Publish PROVE IInv'
<1> USE DEF Publish
<1>1. AtEnd
  BY DEF AtEnd
<1>2. TypeOK'
  <2>1. FrameRecord' = FrameRecord
    BY DEF FrameRecord
  <2> QED BY <2>1 DEF IInv, TypeOK
<1>3. DepthBounded' /\ StackHeld'
  BY DEF IInv, DepthBounded, StackHeld
<1>4. FilesDistinct'
  BY DEF IInv, FilesDistinct, FileOf
<1>5. FrameShape'
  BY DEF IInv, FrameShape, FileOf, Target
<1>6. ImportsFirst'
  BY DEF IInv, ImportsFirst, Targets
<1>7. Ended'
  <2>1. WellFormed'
    BY <1>1, InputFixed, WellFormedAtEnd
  <2>2. Reached' = Reached /\ Declarations' = Declarations
    BY InputFixed
  <2>3. LoadIsExact'
    BY <1>1, <2>2, ExactAtEnd DEF LoadIsExact
  <2>4. ErrorIsGenuine'
    BY DEF ErrorIsGenuine
  <2> QED BY <2>1, <2>3, <2>4 DEF Ended
<1> QED BY <1>2, <1>3, <1>4, <1>5, <1>6, <1>7 DEF IInv

-----------------------------------------------------------------------------
\* Every step keeps the invariant, stuttering included.
LEMMA NextIInv == ASSUME IInv, [Next]_vars PROVE IInv'
<1>1. CASE RefuseProject
  BY <1>1, RefuseProjectIInv
<1>2. CASE DeclareRoot
  BY <1>2, DeclareRootIInv
<1>3. CASE BeginVisits
  BY <1>3, BeginVisitsIInv
<1>4. CASE MainLoop
  BY <1>4, MainLoopIInv
<1>5. CASE OpenDocument
  BY <1>5, OpenDocumentIInv
<1>6. CASE FollowImport
  BY <1>6, FollowImportIInv
<1>7. CASE BeginDeclarations
  BY <1>7, BeginDeclarationsIInv
<1>8. CASE \E kind \in Kind : Parse(kind)
  BY <1>8, ParseIInv
<1>9. CASE CloseDocument
  BY <1>9, CloseDocumentIInv
<1>10. CASE Publish
  BY <1>10, PublishIInv
<1>11. CASE UNCHANGED vars
  <2> USE <1>11 DEF vars
  <2>1. TypeOK' /\ DepthBounded' /\ StackHeld'
    <3>1. FrameRecord' = FrameRecord
      BY DEF FrameRecord
    <3> QED BY <3>1 DEF IInv, TypeOK, DepthBounded, StackHeld
  <2>2. FilesDistinct' /\ FrameShape' /\ ImportsFirst'
    BY DEF IInv, FilesDistinct, FrameShape, ImportsFirst, FileOf, Target, Targets
  <2>3. ASSUME Running PROVE Running'
    <3>1. /\ \A i : FileOf(i)' = FileOf(i) /\ Followed(i)' = Followed(i) /\ Parsed(i)' = Parsed(i)
          /\ \A i, k : Target(i, k)' = Target(i, k) /\ Decl(i, k)' = Decl(i, k)
          /\ RootDone' = RootDone
      BY DEF FileOf, Followed, Parsed, Target, Decl, RootDone
    <3>2. RootFirst' /\ Links'
      BY <2>3, <3>1 DEF Running, RootFirst, Links
    <3>3. Levels'
      <4>1. PICK level \in [DOMAIN imports -> 0..(MaxDepth - 1)] : Level(level)
        BY <2>3 DEF Running, Levels
      <4>2. Level(level)'
        BY <3>1, <4>1, InputFixed DEF Level, FileOf
      <4> QED BY <4>2 DEF Levels
    <3>4. StackChains'
      <4>1. ASSUME NEW f PROVE ChainFrom(Targets(input.imports[f]))' = ChainFrom(Targets(input.imports[f]))
        BY DEF ChainFrom, Targets
      <4> QED BY <2>3, <4>1 DEF Running, StackChains, FileOf
    <3>5. OpenedIsReadable'
      BY <2>3, <3>1 DEF Running, OpenedIsReadable, FileOf
    <3>6. ImportsComplete' /\ Registry'
      BY <2>3, <3>1 DEF Running, ImportsComplete, Registry, Same
    <3> QED BY <2>3, <3>2, <3>3, <3>4, <3>5, <3>6 DEF Running
  <2>4. ASSUME Ended PROVE Ended'
    <3>1. Reached' = Reached /\ Declarations' = Declarations /\ Chain' = Chain
          /\ Statements' = Statements /\ WellFormed' = WellFormed
      BY InputFixed
    <3>2. ErrorIsGenuine'
      <4>1. ASSUME NEW f PROVE ChainFrom(Targets(input.imports[f]))' = ChainFrom(Targets(input.imports[f]))
        BY DEF ChainFrom, Targets
      <4> QED BY <2>4, <3>1, <4>1 DEF Ended, ErrorIsGenuine, ImportedOnce, DeclaredOnce
    <3> QED BY <2>4, <3>1, <3>2 DEF Ended, LoadIsExact
  <2> QED BY <2>1, <2>2, <2>3, <2>4 DEF IInv
<1> QED BY <1>1, <1>2, <1>3, <1>4, <1>5, <1>6, <1>7, <1>8, <1>9, <1>10, <1>11
        DEF Next, ParseSymbol, ParseMenu, ParseChoice, ParseConstraint, Kind

\* The stack as the recursion has it, from the parts of the invariant.
LEMMA StackFromParts ==
    ASSUME TypeOK, StackHeld, FrameShape
    PROVE  StackIsVisiting
<1>1. {frames[d].index : d \in DOMAIN frames} =
         {i \in DOMAIN imports : imports[i].state = "visiting"}
  <2>1. \A d \in DOMAIN frames :
           frames[d].index \in DOMAIN imports /\ imports[frames[d].index].state = "visiting"
    BY TypeFacts DEF StackHeld
  <2>2. \A i \in DOMAIN imports :
           imports[i].state = "visiting" => \E d \in DOMAIN frames : frames[d].index = i
    BY DEF StackHeld
  <2> DEFINE A == {frames[d].index : d \in DOMAIN frames}
             B == {i \in DOMAIN imports : imports[i].state = "visiting"}
  <2>3. ASSUME NEW i PROVE i \in A <=> i \in B
    BY ONLY <2>1, <2>2
  <2> HIDE DEF A, B
  <2>4. A = B
    BY ONLY <2>3
  <2> QED BY <2>4 DEF A, B
<1>2. \A d, e \in DOMAIN frames : frames[d].index = frames[e].index => d = e
  BY DEF StackHeld
<1>3. ASSUME NEW d \in 2..Len(frames)
      PROVE  /\ frames[d - 1].step = "imports"
             /\ Canonical[input.imports[imports[frames[d - 1].index].file][frames[d - 1].next - 1]] =
                   imports[frames[d].index].file
  <2>1. d - 1 \in DOMAIN frames /\ d - 1 # Len(frames) /\ d - 1 + 1 = d
    BY TypeFacts
  <2>2. PICK e \in DOMAIN frames : e = d - 1
    BY <2>1
  <2>3. /\ frames[e].step = "imports"
        /\ Target(frames[e].index, frames[e].next - 1) = FileOf(frames[e + 1].index)
    BY <2>1, <2>2 DEF FrameShape
  <2> QED BY <2>1, <2>2, <2>3 DEF Target, FileOf
<1> QED BY <1>1, <1>2, <1>3 DEF StackIsVisiting

\* The invariant holds throughout a load.
LEMMA SpecIInv == Spec => []IInv
<1>1. Init => IInv
  BY InitIInv
<1>2. IInv /\ [Next]_vars => IInv'
  BY NextIInv
<1> QED BY <1>1, <1>2, PTL DEF Spec

\* The recursion of parse_import_document never nests deeper than the limit and
\* the documents on its stack are those in state visiting, each once and imported
\* by the statement the one below is at: for every project and every limit.
THEOREM LoadInvariantHolds == Spec => []LoadInvariant
<1>1. IInv => LoadInvariant
  BY StackFromParts DEF IInv, LoadInvariant
<1> QED BY <1>1, SpecIInv, PTL

\* confit_v2_schema_load_project succeeds for the well-formed projects and for no
\* other, however many files there are and however they import each other.
THEOREM VerdictHolds == Spec => []VerdictIsRight
<1>1. IInv => VerdictIsRight
  BY DEF IInv, Ended, VerdictIsRight
<1> QED BY <1>1, SpecIInv, PTL

\* What a load leaves holds every file that is reached and every declaration of
\* theirs exactly once, imports before importers.
THEOREM LoadOrderHolds == Spec => []LoadIsOrdered
<1>1. IInv => LoadIsOrdered
  <2>1. IInv /\ phase # "done" => status = "running"
    BY DEF IInv, Running
  <2> QED BY <2>1 DEF IInv, Ended, LoadIsOrdered, LoadIsExact
<1> QED BY <1>1, SpecIInv, PTL

\* A cycle, a duplicate or an exceeded depth is reported only where there is one:
\* a cycle is a chain of statements from a file to itself, over at most as many
\* statements as there are files.
THEOREM ErrorHolds == Spec => []ErrorIsGenuine
<1>1. IInv => ErrorIsGenuine
  <2>1. IInv /\ phase # "done" => status = "running"
    BY DEF IInv, Running
  <2> QED BY <2>1 DEF IInv, Ended, ErrorIsGenuine
<1> QED BY <1>1, SpecIInv, PTL

-----------------------------------------------------------------------------
(* What the operators of the model compute.                                *)

\* The middle of a range is in it.
LEMMA Middle ==
  ASSUME NEW low \in Nat, NEW high \in Nat, low < high
  PROVE  /\ low + (high - low) \div 2 \in Nat
         /\ low <= low + (high - low) \div 2 /\ low + (high - low) \div 2 < high
  <1>1. PICK d \in Nat : d = high - low /\ d > 0
    OBVIOUS
  <1>2. d \div 2 \in Nat /\ d \div 2 < d
    BY <1>1
  <1> QED BY <1>1, <1>2

\* BinarySearch finds the entry of a sorted table that has the id, or none has it.
LEMMA BinarySearchFacts ==
  ASSUME NEW table, NEW n \in Nat, Len(table) = n, NEW id \in Nat,
         \A i \in 1..n : table[i].id \in Nat,
         \A i, j \in 1..n : i < j => table[i].id < table[j].id
  PROVE  \/ \E i \in 1..n : table[i].id = id /\ BinarySearch(table, id) = i
         \/ BinarySearch(table, id) = Missing /\ \A i \in 1..n : table[i].id # id
  <1> DEFINE D == Nat \X Nat
             Mid(r) == r[1] + (r[2] - r[1]) \div 2
             Of(f, r) == IF r[1] >= r[2] THEN Missing
                         ELSE IF table[Mid(r) + 1].id = id THEN Mid(r) + 1
                         ELSE IF id < table[Mid(r) + 1].id THEN f[<<r[1], Mid(r)>>]
                         ELSE f[<<Mid(r) + 1, r[2]>>]
             Body(f) == [r \in D |-> Of(f, r)]
             Solution == CHOOSE f : f = Body(f)
             m == [r \in D |-> IF r[1] >= r[2] THEN 0 ELSE r[2] - r[1]]
             G == [f \in [D -> Nat] |-> Body(f)]
  <1>1. \A r \in D : r[1] \in Nat /\ r[2] \in Nat /\ r = <<r[1], r[2]>>
    OBVIOUS
  <1>2. \A r \in D : ~(r[1] >= r[2]) => /\ Mid(r) \in Nat /\ r[1] <= Mid(r) /\ Mid(r) < r[2]
    BY <1>1, Middle
  <1> HIDE DEF Mid
  <1>3. m \in [D -> Nat]
    BY <1>1
  <1>4. \A r \in D : ~(r[1] >= r[2]) =>
           /\ <<r[1], Mid(r)>> \in D /\ m[<<r[1], Mid(r)>>] < m[r]
           /\ <<Mid(r) + 1, r[2]>> \in D /\ m[<<Mid(r) + 1, r[2]>>] < m[r]
    <2> SUFFICES ASSUME NEW r \in D, ~(r[1] >= r[2])
                 PROVE /\ <<r[1], Mid(r)>> \in D /\ m[<<r[1], Mid(r)>>] < m[r]
                       /\ <<Mid(r) + 1, r[2]>> \in D /\ m[<<Mid(r) + 1, r[2]>>] < m[r]
      OBVIOUS
    <2>1. r[1] \in Nat /\ r[2] \in Nat /\ Mid(r) \in Nat /\ r[1] <= Mid(r) /\ Mid(r) < r[2]
      BY <1>1, <1>2
    <2>2. m[r] = r[2] - r[1]
      BY <2>1
    <2>3. <<r[1], Mid(r)>> \in D /\ <<Mid(r) + 1, r[2]>> \in D
      BY <2>1
    <2>4. m[<<r[1], Mid(r)>>] < r[2] - r[1]
      BY <2>1, <2>3
    <2>5. m[<<Mid(r) + 1, r[2]>>] < r[2] - r[1]
      BY <2>1, <2>3
    <2> QED BY <2>2, <2>3, <2>4, <2>5
  <1> HIDE DEF m
  <1>5. G \in [[D -> Nat] -> [D -> Nat]]
    <2>1. ASSUME NEW f \in [D -> Nat] PROVE Body(f) \in [D -> Nat]
      <3>1. ASSUME NEW r \in D PROVE Of(f, r) \in Nat
        <4>1. CASE r[1] >= r[2]
          BY <4>1 DEF Missing
        <4>2. CASE ~(r[1] >= r[2])
          BY <1>2, <1>4, <4>2
        <4> QED BY <4>1, <4>2
      <3> HIDE DEF Of
      <3> QED BY <3>1
    <2> HIDE DEF Body
    <2> QED BY <2>1
  <1>6. \A f, g \in [D -> Nat] : \A r \in D :
           (\A s \in D : m[s] < m[r] => f[s] = g[s]) => G[f][r] = G[g][r]
    <2> SUFFICES ASSUME NEW f \in [D -> Nat], NEW g \in [D -> Nat], NEW r \in D,
                        \A s \in D : m[s] < m[r] => f[s] = g[s]
                 PROVE  G[f][r] = G[g][r]
      OBVIOUS
    <2>1. Of(f, r) = Of(g, r)
      BY <1>4
    <2> HIDE DEF Of
    <2> QED BY <2>1
  <1>7. \E f \in [D -> Nat] : f = G[f]
    <2>1. Descends(D, Nat, m, G)
      <3> HIDE DEF D, G
      <3>1. Nat # {}
        OBVIOUS
      <3> QED BY <1>3, <1>5, <1>6, <3>1 DEF Descends
    <2>2. PICK f : FixedPoint(f, D, Nat, G)
      <3> HIDE DEF D, G
      <3> QED BY <2>1, Descent
    <2> HIDE DEF D, G
    <2> QED BY <2>2 DEF FixedPoint
  <1>8. Solution = Body(Solution)
    <2>1. \E f : f = Body(f)
      BY <1>7
    <2> HIDE DEF Body
    <2> QED BY <2>1
  <1>9. BinarySearch(table, id) = Solution[<<0, n>>]
    BY Zenon DEF BinarySearch, Mid
  <1> HIDE DEF Solution
  <1>10. \A r \in D : Solution[r] = Of(Solution, r)
    BY <1>8
  <1> DEFINE Right(r) ==
               \/ \E i \in 1..n : table[i].id = id /\ Solution[r] = i
               \/ /\ Solution[r] = Missing
                  /\ \A i \in 1..n : r[1] < i /\ i <= r[2] => table[i].id # id
             S == {k \in Nat : \A r \in D : m[r] <= k /\ r[2] <= n => Right(r)}
  <1>11. ASSUME NEW r \in D, r[2] <= n,
                \A s \in D : m[s] < m[r] /\ s[2] <= n => Right(s)
         PROVE  Right(r)
    <2>1. CASE r[1] >= r[2]
      <3>1. Solution[r] = Missing
        BY <1>10, <2>1
      <3> QED BY <1>1, <2>1, <3>1
    <2>2. CASE ~(r[1] >= r[2])
      <3>1. /\ Mid(r) \in Nat /\ r[1] <= Mid(r) /\ Mid(r) < r[2] /\ r[1] \in Nat /\ r[2] \in Nat
            /\ Mid(r) + 1 \in 1..n
        BY <1>1, <1>2, <1>11, <2>2
      <3>2. CASE table[Mid(r) + 1].id = id
        <4>1. Solution[r] = Mid(r) + 1
          BY <1>10, <2>2, <3>2
        <4> QED BY <3>1, <3>2, <4>1
      <3>3. CASE table[Mid(r) + 1].id # id /\ id < table[Mid(r) + 1].id
        <4>1. PICK s : s = <<r[1], Mid(r)>>
          OBVIOUS
        <4>2. Solution[r] = Solution[s]
          BY <1>10, <2>2, <3>3, <4>1
        <4>3. s \in D /\ m[s] < m[r] /\ s[1] = r[1] /\ s[2] = Mid(r) /\ s[2] <= n
          <5>1. s \in D /\ m[s] < m[r]
            BY <1>4, <2>2, <4>1
          <5>2. s[1] = r[1] /\ s[2] = Mid(r)
            BY <4>1
          <5> QED BY <1>11, <3>1, <5>1, <5>2
        <4>4. Right(s)
          BY <1>11, <4>3
        <4>5. \A i \in 1..n : Mid(r) < i => table[i].id # id
          <5> SUFFICES ASSUME NEW i \in 1..n, Mid(r) < i PROVE table[i].id # id
            OBVIOUS
          <5>1. i = Mid(r) + 1 \/ Mid(r) + 1 < i
            BY <3>1
          <5>2. table[i].id \in Nat /\ table[Mid(r) + 1].id \in Nat
            BY <3>1
          <5>3. Mid(r) + 1 < i => table[Mid(r) + 1].id < table[i].id
            BY <3>1
          <5> QED BY <3>3, <5>1, <5>2, <5>3
        <4> QED BY <3>1, <4>2, <4>3, <4>4, <4>5
      <3>4. CASE table[Mid(r) + 1].id # id /\ ~(id < table[Mid(r) + 1].id)
        <4>1. PICK s : s = <<Mid(r) + 1, r[2]>>
          OBVIOUS
        <4>2. Solution[r] = Solution[s]
          BY <1>10, <2>2, <3>4, <4>1
        <4>3. s \in D /\ m[s] < m[r] /\ s[1] = Mid(r) + 1 /\ s[2] = r[2]
          BY <1>4, <1>11, <2>2, <3>1, <4>1
        <4>4. Right(s)
          BY <1>11, <4>3
        <4>5. \A i \in 1..n : i <= Mid(r) + 1 => table[i].id # id
          BY <3>1, <3>4
        <4> QED BY <3>1, <4>2, <4>3, <4>4, <4>5
      <3> QED BY <3>2, <3>3, <3>4
    <2> QED BY <2>1, <2>2
  <1>12. 0 \in S
    BY <1>3, <1>11
  <1>13. ASSUME NEW k \in Nat, k \in S PROVE k + 1 \in S
    <2> SUFFICES ASSUME NEW r \in D, m[r] <= k + 1, r[2] <= n PROVE Right(r)
      OBVIOUS
    <2>1. \A s \in D : m[s] < m[r] /\ s[2] <= n => Right(s)
      <3> SUFFICES ASSUME NEW s \in D, m[s] < m[r], s[2] <= n PROVE Right(s)
        OBVIOUS
      <3>1. m[s] <= k
        BY <1>3
      <3> QED BY <1>13, <3>1
    <2> HIDE DEF Right
    <2> QED BY <1>11, <2>1
  <1>14. Nat \subseteq S
    <2> HIDE DEF S
    <2> QED BY <1>12, <1>13, Induction
  <1>15. Right(<<0, n>>)
    <2>1. <<0, n>> \in D /\ m[<<0, n>>] \in Nat /\ <<0, n>>[2] = n
      BY <1>3
    <2> HIDE DEF Right
    <2> QED BY <1>14, <2>1
  <1> QED BY <1>9, <1>15

\* LowerBound counts the first entries of a table that are in a set.
LEMMA LowerBoundFacts ==
  ASSUME NEW n \in Nat, NEW below \in SUBSET (1..n),
         \A i, j \in 1..n : i < j /\ j \in below => i \in below
  PROVE  LowerBound(below, n) \in 0..n /\ below = 1..LowerBound(below, n)
  <1> DEFINE D == Nat \X Nat
             Mid(r) == r[1] + (r[2] - r[1]) \div 2
             Of(f, r) == IF r[1] >= r[2] THEN r[1]
                         ELSE IF Mid(r) + 1 \in below THEN f[<<Mid(r) + 1, r[2]>>]
                         ELSE f[<<r[1], Mid(r)>>]
             Body(f) == [r \in D |-> Of(f, r)]
             Solution == CHOOSE f : f = Body(f)
             m == [r \in D |-> IF r[1] >= r[2] THEN 0 ELSE r[2] - r[1]]
             G == [f \in [D -> Nat] |-> Body(f)]
  <1>1. \A r \in D : r[1] \in Nat /\ r[2] \in Nat /\ r = <<r[1], r[2]>>
    OBVIOUS
  <1>2. \A r \in D : ~(r[1] >= r[2]) => /\ Mid(r) \in Nat /\ r[1] <= Mid(r) /\ Mid(r) < r[2]
    BY <1>1, Middle
  <1> HIDE DEF Mid
  <1>3. m \in [D -> Nat]
    BY <1>1
  <1>4. \A r \in D : ~(r[1] >= r[2]) =>
           /\ <<r[1], Mid(r)>> \in D /\ m[<<r[1], Mid(r)>>] < m[r]
           /\ <<Mid(r) + 1, r[2]>> \in D /\ m[<<Mid(r) + 1, r[2]>>] < m[r]
    <2> SUFFICES ASSUME NEW r \in D, ~(r[1] >= r[2])
                 PROVE /\ <<r[1], Mid(r)>> \in D /\ m[<<r[1], Mid(r)>>] < m[r]
                       /\ <<Mid(r) + 1, r[2]>> \in D /\ m[<<Mid(r) + 1, r[2]>>] < m[r]
      OBVIOUS
    <2>1. r[1] \in Nat /\ r[2] \in Nat /\ Mid(r) \in Nat /\ r[1] <= Mid(r) /\ Mid(r) < r[2]
      BY <1>1, <1>2
    <2>2. m[r] = r[2] - r[1]
      BY <2>1
    <2>3. <<r[1], Mid(r)>> \in D /\ <<Mid(r) + 1, r[2]>> \in D
      BY <2>1
    <2>4. m[<<r[1], Mid(r)>>] < r[2] - r[1]
      BY <2>1, <2>3
    <2>5. m[<<Mid(r) + 1, r[2]>>] < r[2] - r[1]
      BY <2>1, <2>3
    <2> QED BY <2>2, <2>3, <2>4, <2>5
  <1> HIDE DEF m
  <1>5. G \in [[D -> Nat] -> [D -> Nat]]
    <2>1. ASSUME NEW f \in [D -> Nat] PROVE Body(f) \in [D -> Nat]
      <3>1. ASSUME NEW r \in D PROVE Of(f, r) \in Nat
        <4>1. CASE r[1] >= r[2]
          BY <1>1, <4>1
        <4>2. CASE ~(r[1] >= r[2])
          BY <1>4, <4>2
        <4> QED BY <4>1, <4>2
      <3> HIDE DEF Of
      <3> QED BY <3>1
    <2> HIDE DEF Body
    <2> QED BY <2>1
  <1>6. \A f, g \in [D -> Nat] : \A r \in D :
           (\A s \in D : m[s] < m[r] => f[s] = g[s]) => G[f][r] = G[g][r]
    <2> SUFFICES ASSUME NEW f \in [D -> Nat], NEW g \in [D -> Nat], NEW r \in D,
                        \A s \in D : m[s] < m[r] => f[s] = g[s]
                 PROVE  G[f][r] = G[g][r]
      OBVIOUS
    <2>1. Of(f, r) = Of(g, r)
      BY <1>4
    <2> HIDE DEF Of
    <2> QED BY <2>1
  <1>7. \E f \in [D -> Nat] : f = G[f]
    <2>1. Descends(D, Nat, m, G)
      <3> HIDE DEF D, G
      <3>1. Nat # {}
        OBVIOUS
      <3> QED BY <1>3, <1>5, <1>6, <3>1 DEF Descends
    <2>2. PICK f : FixedPoint(f, D, Nat, G)
      <3> HIDE DEF D, G
      <3> QED BY <2>1, Descent
    <2> HIDE DEF D, G
    <2> QED BY <2>2 DEF FixedPoint
  <1>8. Solution = Body(Solution)
    <2>1. \E f : f = Body(f)
      BY <1>7
    <2> HIDE DEF Body
    <2> QED BY <2>1
  <1>9. LowerBound(below, n) = Solution[<<0, n>>]
    BY Zenon DEF LowerBound, Mid
  <1> HIDE DEF Solution
  <1>10. \A r \in D : Solution[r] = Of(Solution, r)
    BY <1>8
  <1> DEFINE Right(r) == Solution[r] \in 0..n /\ \A i \in 1..n : i \in below <=> i <= Solution[r]
             Around(r) == /\ r[1] <= r[2] /\ r[2] <= n
                          /\ \A i \in 1..n : (i <= r[1] => i \in below) /\ (i > r[2] => i \notin below)
             S == {k \in Nat : \A r \in D : m[r] <= k /\ Around(r) => Right(r)}
  <1>11. ASSUME NEW r \in D, Around(r),
                \A s \in D : m[s] < m[r] /\ Around(s) => Right(s)
         PROVE  Right(r)
    <2>1. CASE r[1] >= r[2]
      <3>1. Solution[r] = r[1] /\ r[1] = r[2] /\ r[1] \in Nat
        <4>1. Solution[r] = r[1]
          BY <1>10, <2>1
        <4> QED BY <1>1, <1>11, <2>1, <4>1
      <3> QED BY <1>11, <3>1
    <2>2. CASE ~(r[1] >= r[2])
      <3>1. /\ Mid(r) \in Nat /\ r[1] <= Mid(r) /\ Mid(r) < r[2] /\ r[1] \in Nat /\ r[2] \in Nat
            /\ Mid(r) + 1 \in 1..n
        BY <1>1, <1>2, <1>11, <2>2
      <3>2. CASE Mid(r) + 1 \in below
        <4>1. PICK s : s = <<Mid(r) + 1, r[2]>>
          OBVIOUS
        <4>2. Solution[r] = Solution[s]
          BY <1>10, <2>2, <3>2, <4>1
        <4>3. s \in D /\ m[s] < m[r]
          BY <1>4, <2>2, <4>1
        <4>4. s[1] = Mid(r) + 1 /\ s[2] = r[2]
          BY <4>1
        <4>5. \A i \in 1..n : i <= Mid(r) + 1 => i \in below
          <5> SUFFICES ASSUME NEW i \in 1..n, i <= Mid(r) + 1 PROVE i \in below
            OBVIOUS
          <5>1. i = Mid(r) + 1 \/ i < Mid(r) + 1
            BY <3>1
          <5> QED BY <3>1, <3>2, <5>1
        <4>6. Around(s)
          BY <1>11, <3>1, <4>4, <4>5
        <4> HIDE DEF Right, Around
        <4>7. Right(s)
          BY <1>11, <4>3, <4>6
        <4> QED BY <4>2, <4>7 DEF Right
      <3>3. CASE Mid(r) + 1 \notin below
        <4>1. PICK s : s = <<r[1], Mid(r)>>
          OBVIOUS
        <4>2. Solution[r] = Solution[s]
          BY <1>10, <2>2, <3>3, <4>1
        <4>3. s \in D /\ m[s] < m[r]
          BY <1>4, <2>2, <4>1
        <4>4. s[1] = r[1] /\ s[2] = Mid(r)
          BY <4>1
        <4>5. \A i \in 1..n : i > Mid(r) => i \notin below
          <5> SUFFICES ASSUME NEW i \in 1..n, i > Mid(r), i \in below PROVE FALSE
            OBVIOUS
          <5>1. i = Mid(r) + 1 \/ Mid(r) + 1 < i
            BY <3>1
          <5> QED BY <3>1, <3>3, <5>1
        <4>6. Around(s)
          BY <1>11, <3>1, <4>4, <4>5
        <4> HIDE DEF Right, Around
        <4>7. Right(s)
          BY <1>11, <4>3, <4>6
        <4> QED BY <4>2, <4>7 DEF Right
      <3> QED BY <3>2, <3>3
    <2> QED BY <2>1, <2>2
  <1>12. 0 \in S
    <2> SUFFICES ASSUME NEW r \in D, m[r] <= 0, Around(r) PROVE Right(r)
      OBVIOUS
    <2>1. \A s \in D : ~(m[s] < m[r])
      BY <1>3
    <2> HIDE DEF Right, Around
    <2> QED BY <1>11, <2>1
  <1>13. ASSUME NEW k \in Nat, k \in S PROVE k + 1 \in S
    <2> SUFFICES ASSUME NEW r \in D, m[r] <= k + 1, Around(r) PROVE Right(r)
      OBVIOUS
    <2>1. \A s \in D : m[s] < m[r] /\ Around(s) => Right(s)
      <3> SUFFICES ASSUME NEW s \in D, m[s] < m[r], Around(s) PROVE Right(s)
        OBVIOUS
      <3>1. m[s] <= k
        BY <1>3
      <3> HIDE DEF Right, Around
      <3> QED BY <1>13, <3>1
    <2> HIDE DEF Right, Around
    <2> QED BY <1>11, <2>1
  <1>14. Nat \subseteq S
    <2> HIDE DEF S
    <2> QED BY <1>12, <1>13, Induction
  <1>15. Right(<<0, n>>)
    <2>1. PICK r : r = <<0, n>>
      OBVIOUS
    <2>2. r \in D /\ m[r] \in Nat /\ r[1] = 0 /\ r[2] = n
      BY <1>3, <2>1
    <2>3. Around(r)
      BY <2>2
    <2> HIDE DEF Right, Around
    <2>4. Right(r)
      BY <1>14, <2>2, <2>3
    <2> QED BY <2>1, <2>4
  <1>16. PICK b : b = LowerBound(below, n)
    OBVIOUS
  <1>17. b \in 0..n /\ \A i \in 1..n : i \in below <=> i <= b
    BY <1>9, <1>15, <1>16
  <1>18. below = 1..b
    <2>1. ASSUME NEW i \in below PROVE i \in 1..b
      <3>1. i \in 1..n
        OBVIOUS
      <3> QED BY <1>17, <3>1
    <2>2. ASSUME NEW i \in 1..b PROVE i \in below
      <3>1. i \in 1..n
        BY <1>17
      <3> QED BY <1>17, <3>1
    <2> QED BY <2>1, <2>2
  <1> QED BY <1>16, <1>17, <1>18

\* A list sorted by a strict total order of its distinct entries.
IsOrder(before, S) ==
    /\ \A x \in S : <<x, x>> \notin before
    /\ \A x, y \in S : x # y => <<x, y>> \in before \/ <<y, x>> \in before
    /\ \A x, y, z \in S : <<x, y>> \in before /\ <<y, z>> \in before => <<x, z>> \in before

\* Sorted puts every entry at the place its rank says.
LEMMA SortedFacts ==
  ASSUME NEW n \in Nat, NEW S, NEW s, s \in [1..n -> S], S = Range(s), NEW before,
         \A i, j \in 1..n : s[i] = s[j] => i = j, IsOrder(before, S)
  PROVE  /\ Sorted(s, before) \in [1..n -> S] /\ Range(Sorted(s, before)) = S
         /\ IsFiniteSet(S)
         /\ \A i, j \in 1..n : i < j <=> <<Sorted(s, before)[i], Sorted(s, before)[j]>> \in before
         /\ \A i \in 1..n : Cardinality({y \in S : <<y, Sorted(s, before)[i]>> \in before}) = i - 1
  <1> DEFINE Below(x) == {y \in S : <<y, x>> \in before}
             rank(x) == Cardinality(Below(x))
  <1>1. IsFiniteSet(S) /\ Cardinality(S) = n
    <2>1. \A x \in S : \E i \in 1..n : s[i] = x
      BY DEF Range
    <2>2. s \in Bijection(1..n, S) 
      <3>2. s \in Injection(1..n, S)
        BY DEF Injection, IsInjective
      <3>3. s \in Surjection(1..n, S)
        BY <2>1 DEF Surjection
      <3> QED BY <3>2, <3>3 DEF Bijection
    <2>3. ExistsBijection(1..n, S)
      BY <2>2 DEF ExistsBijection
    <2>4. Cardinality(S) = n
      BY ONLY <2>3, n \in Nat, FS_CountingElements
    <2>5. IsFiniteSet(1..n)
      BY FS_Interval
    <2>6. IsFiniteSet(S)
      BY ONLY <2>3, <2>5, FS_Bijection
    <2> QED BY <2>4, <2>6
  <1>2. \A x \in S : Below(x) \subseteq S /\ x \notin Below(x) /\ Below(x) # S
    BY DEF IsOrder
  <1>3. \A x \in S : IsFiniteSet(Below(x)) /\ rank(x) \in 0..(n - 1)
    <2> SUFFICES ASSUME NEW x \in S
                 PROVE  IsFiniteSet(Below(x)) /\ rank(x) \in 0..(n - 1)
      OBVIOUS
    <2>1. Below(x) \subseteq S /\ Below(x) # S
      BY <1>2
    <2>2. IsFiniteSet(Below(x)) /\ rank(x) <= Cardinality(S) /\ rank(x) # Cardinality(S)
      <3>1. Cardinality(Below(x)) <= Cardinality(S) /\ Cardinality(Below(x)) # Cardinality(S)
            /\ IsFiniteSet(Below(x))
        <4> HIDE DEF Below
        <4> QED BY ONLY <1>1, <2>1, FS_Subset
      <3> QED BY <3>1
    <2>3. rank(x) \in Nat
      BY ONLY <2>2, FS_CardinalityType
    <2> QED BY <1>1, <2>2, <2>3
  <1>4. ASSUME NEW x \in S, NEW y \in S, <<x, y>> \in before PROVE rank(x) < rank(y)
    <2>1. Below(x) \subseteq Below(y) /\ x \in Below(y) /\ x \notin Below(x)
      BY <1>4 DEF IsOrder
    <2>2. Below(x) # Below(y)
      BY <2>1
    <2>3. rank(x) <= rank(y) /\ rank(x) # rank(y)
      <3>1. Below(x) \subseteq Below(y) /\ IsFiniteSet(Below(y))
        BY <1>3, <2>1
      <3> HIDE DEF Below
      <3> QED BY ONLY <3>1, <2>2, FS_Subset
    <2>4. rank(x) \in 0..(n-1) /\ rank(y) \in 0..(n-1)
      BY <1>3
    <2> HIDE DEF rank
    <2> QED BY <2>3, <2>4
  <1>5. ASSUME NEW x \in S, NEW y \in S, rank(x) = rank(y) PROVE x = y
    <2>1. rank(x) \in 0..(n-1) /\ rank(y) \in 0..(n-1)
      BY <1>3
    <2> HIDE DEF rank
    <2>2. ~(<<x, y>> \in before) /\ ~(<<y, x>> \in before)
      BY <1>4, <1>5, <2>1
    <2> QED BY <2>2 DEF IsOrder
  <1>6. ASSUME NEW i \in 1..n PROVE \E x \in S : rank(x) = i - 1
    <2> DEFINE T == 0..(n - 1)
               place == [x \in S |-> rank(x)]
    <2>1. place \in Injection(S, T)
      <3> HIDE DEF rank
      <3> QED BY <1>3, <1>5 DEF Injection, IsInjective
    <2>2. IsFiniteSet(T) /\ Cardinality(T) = Cardinality(S)
      <3>1. IsFiniteSet(T) /\ Cardinality(T) = IF 0 > n - 1 THEN 0 ELSE n - 1 - 0 + 1
        BY FS_Interval
      <3> QED BY <1>1, <3>1
    <2>3. place \in Surjection(S, T)
      <3> HIDE DEF place, T
      <3> QED BY ONLY <1>1, <2>1, <2>2, FS_Injection
    <2>4. i - 1 \in T
      OBVIOUS
    <2> HIDE DEF rank
    <2> QED BY <2>3, <2>4 DEF Surjection
  <1>7. PICK r : r = Sorted(s, before)
    OBVIOUS
  <1>8. r = [i \in 1..n |-> CHOOSE x \in S : rank(x) = i - 1]
    BY <1>7 DEF Sorted
  <1> HIDE DEF rank
  <1>9. \A i \in 1..n : r[i] \in S /\ rank(r[i]) = i - 1
    <2> SUFFICES ASSUME NEW i \in 1..n PROVE r[i] \in S /\ rank(r[i]) = i - 1
      OBVIOUS
    <2>1. r[i] = CHOOSE x \in S : rank(x) = i - 1
      BY <1>8
    <2> QED BY <1>6, <2>1, Zenon
  <1>10. r \in [1..n -> S]
    <2>1. r = [i \in 1..n |-> r[i]]
      BY <1>8
    <2> QED BY <1>9, <2>1
  <1>11. Range(r) = S
    <2>1. ASSUME NEW x \in S PROVE \E i \in 1..n : r[i] = x
      <3>1. rank(x) \in 0..(n - 1)
        BY <1>3
      <3>2. PICK k : k = rank(x) + 1
        OBVIOUS
      <3>3. k \in 1..n /\ k - 1 = rank(x)
        BY <3>1, <3>2
      <3>4. r[k] \in S /\ rank(r[k]) = k - 1
        BY <1>9, <3>3
      <3>5. r[k] = x
        BY <1>5, <3>3, <3>4
      <3> QED BY <3>3, <3>5
    <2>2. DOMAIN r = 1..n
      BY <1>10
    <2>3. Range(r) = {r[i] : i \in 1..n}
      BY <2>2 DEF Range
    <2>4. \A i \in 1..n : r[i] \in S
      BY <1>9
    <2> QED BY ONLY <2>1, <2>3, <2>4
  <1>12. \A i, j \in 1..n : i < j <=> <<r[i], r[j]>> \in before
    <2> SUFFICES ASSUME NEW i \in 1..n, NEW j \in 1..n
                 PROVE  i < j <=> <<r[i], r[j]>> \in before
      OBVIOUS
    <2>1. r[i] \in S /\ r[j] \in S /\ rank(r[i]) = i - 1 /\ rank(r[j]) = j - 1
      BY <1>9
    <2>2. <<r[i], r[j]>> \in before => i < j
      BY <1>4, <2>1
    <2>3. <<r[j], r[i]>> \in before => j < i
      BY <1>4, <2>1
    <2>4. i < j => r[i] # r[j]
      BY <2>1
    <2>5. r[i] # r[j] => <<r[i], r[j]>> \in before \/ <<r[j], r[i]>> \in before
      BY <2>1 DEF IsOrder
    <2> QED BY <2>2, <2>3, <2>4, <2>5
  <1>13. \A i \in 1..n : Cardinality({y \in S : <<y, r[i]>> \in before}) = i - 1
    BY <1>9 DEF rank
  <1> QED BY <1>1, <1>7, <1>10, <1>11, <1>12, <1>13

\* A table sorted by id has the entries of the list, in the order of their ids.
LEMMA ByIdFacts ==
  ASSUME NEW R, NEW seq \in Seq(R), \A x \in R : x.id \in Nat, Distinct(seq)
  PROVE  /\ ById(seq) \in Seq(R) /\ Len(ById(seq)) = Len(seq) /\ Range(ById(seq)) = Range(seq)
         /\ DOMAIN ById(seq) = 1..Len(seq) /\ Len(seq) \in Nat
         /\ \A i \in 1..Len(seq) : ById(seq)[i] \in R /\ ById(seq)[i].id \in Nat
         /\ \A i, j \in 1..Len(seq) : i < j <=> ById(seq)[i].id < ById(seq)[j].id
  <1>1. PICK n, S, before :
            /\ n = Len(seq) /\ S = Range(seq)
            /\ before = {p \in S \X S : p[1].id < p[2].id}
    OBVIOUS
  <1>2. n \in Nat /\ DOMAIN seq = 1..n /\ seq \in [1..n -> R]
    BY <1>1
  <1>3. S \subseteq R /\ seq \in [1..n -> S]
    <2>1. S = {seq[i] : i \in 1..n}
      BY <1>1, <1>2 DEF Range
    <2> QED BY <1>2, <2>1
  <1>4. \A i, j \in 1..n : seq[i] = seq[j] => i = j
    BY <1>2 DEF Distinct
  <1>5. \A x, y \in S : <<x, y>> \in before <=> x.id < y.id
    BY <1>1
  <1>6. \A x, y \in S : x.id = y.id => x = y
    <2>1. S = {seq[i] : i \in 1..n}
      BY <1>1, <1>2 DEF Range
    <2> QED BY <1>2, <2>1 DEF Distinct
  <1>7. IsOrder(before, S)
    <2>1. \A x \in S : x.id \in Nat
      BY <1>3
    <2> QED BY <1>5, <1>6, <2>1 DEF IsOrder
  <1>8. PICK t : t = Sorted(seq, before)
    OBVIOUS
  <1>9. ById(seq) = t
    BY <1>1, <1>8 DEF ById
  <1>10. /\ t \in [1..n -> S] /\ Range(t) = S
         /\ \A i, j \in 1..n : i < j <=> <<t[i], t[j]>> \in before
    <2>1. /\ Sorted(seq, before) \in [1..n -> S] /\ Range(Sorted(seq, before)) = S
          /\ \A i, j \in 1..n :
                i < j <=> <<Sorted(seq, before)[i], Sorted(seq, before)[j]>> \in before
      <3>1. n \in Nat /\ seq \in [1..n -> S] /\ S = Range(seq)
        BY <1>1, <1>2, <1>3
      <3> QED BY ONLY <3>1, <1>4, <1>7, SortedFacts
    <2> QED BY <1>8, <2>1
  <1>11. t \in Seq(R) /\ Len(t) = n /\ DOMAIN t = 1..n
    <2>1. t \in [1..n -> R]
      BY <1>3, <1>10
    <2> QED BY <1>2, <2>1
  <1>12. \A i, j \in 1..n : i < j <=> t[i].id < t[j].id
    BY <1>5, <1>10
  <1>13. \A i \in 1..n : t[i] \in R /\ t[i].id \in Nat
    BY <1>3, <1>10
  <1> QED BY <1>1, <1>2, <1>9, <1>10, <1>11, <1>12, <1>13

\* The search of a table sorted by id.
LEMMA FindById ==
  ASSUME NEW R, NEW seq \in Seq(R), \A x \in R : x.id \in Nat, Distinct(seq), NEW id \in Nat
  PROVE  LET found == BinarySearch(ById(seq), id)
         IN  /\ found \in 0..Len(seq)
             /\ found = Missing <=> \A x \in Range(seq) : x.id # id
             /\ found # Missing => found \in 1..Len(seq) /\ ById(seq)[found].id = id
  <1>1. PICK n, t, found : n = Len(seq) /\ t = ById(seq) /\ found = BinarySearch(t, id)
    OBVIOUS
  <1>2. /\ Len(t) = n /\ n \in Nat /\ Range(t) = Range(seq) /\ DOMAIN t = 1..n
        /\ \A i \in 1..n : t[i].id \in Nat
        /\ \A i, j \in 1..n : i < j <=> t[i].id < t[j].id
    BY <1>1, ByIdFacts
  <1>3. \/ \E i \in 1..n : t[i].id = id /\ found = i
        \/ found = Missing /\ \A i \in 1..n : t[i].id # id
    <2>1. /\ n \in Nat /\ Len(t) = n /\ id \in Nat /\ \A i \in 1..n : t[i].id \in Nat
          /\ \A i, j \in 1..n : i < j => t[i].id < t[j].id
      BY <1>2
    <2>2. \/ \E i \in 1..n : t[i].id = id /\ BinarySearch(t, id) = i
          \/ BinarySearch(t, id) = Missing /\ \A i \in 1..n : t[i].id # id
      BY ONLY <2>1, BinarySearchFacts
    <2> QED BY <1>1, <2>2
  <1>4. Range(seq) = {t[i] : i \in 1..n}
    BY <1>2 DEF Range
  <1>5. \A i \in 1..n : i # Missing
    BY DEF Missing
  <1>6. /\ found \in 0..n
        /\ found = Missing <=> \A x \in Range(seq) : x.id # id
        /\ found # Missing => found \in 1..n /\ t[found].id = id
    <2>1. CASE \E i \in 1..n : t[i].id = id /\ found = i
      BY <1>2, <1>4, <1>5, <2>1
    <2>2. CASE found = Missing /\ \A i \in 1..n : t[i].id # id
      BY <1>2, <1>4, <2>2 DEF Missing
    <2> QED BY <1>3, <2>1, <2>2
  <1> QED BY <1>1, <1>6

\* FirstError is the first entry that is an error.
LEMMA FirstErrorFacts ==
  ASSUME NEW n \in Nat, NEW errors, DOMAIN errors = 1..n
  PROVE  /\ FirstError(errors) = "none" <=> \A i \in 1..n : errors[i] = "none"
         /\ FirstError(errors) # "none" =>
               \E i \in 1..n : /\ errors[i] = FirstError(errors)
                               /\ \A j \in 1..(i - 1) : errors[j] = "none"
  <1>1. CASE \A i \in 1..n : errors[i] = "none"
    BY <1>1 DEF FirstError
  <1>2. CASE ~(\A i \in 1..n : errors[i] = "none")
    <2> DEFINE T == {i \in 1..n : errors[i] # "none"}
               First(i) == errors[i] # "none" /\ \A j \in 1..(i - 1) : errors[j] = "none"
    <2>1. PICK k \in T : \A y \in T : k <= y
      <3>1. T \in SUBSET Nat /\ T # {}
        BY <1>2
      <3> HIDE DEF T
      <3> QED BY <3>1, LeastNatural
    <2>2. k \in 1..n /\ First(k)
      BY <2>1
    <2>3. PICK c : c = CHOOSE i \in 1..n : First(i)
      OBVIOUS
    <2>4. c \in 1..n /\ First(c)
      <3> HIDE DEF First
      <3> QED BY <2>2, <2>3
    <2>5. FirstError(errors) = errors[c]
      BY <1>2, <2>3 DEF FirstError
    <2> QED BY <1>2, <2>4, <2>5
  <1> QED BY <1>1, <1>2

\* The prefixes of a list of lists, put one after the other.
FlattenSteps(f, seqs, S) ==
    /\ f \in [0..Len(seqs) -> Seq(S)]
    /\ f[0] = <<>> /\ f[Len(seqs)] = FlattenSeq(seqs)
    /\ \A i \in 1..Len(seqs) : f[i] = f[i - 1] \o seqs[i]

\* FlattenSeq can be followed list by list.
LEMMA FlattenPrefixes ==
  ASSUME NEW S, NEW seqs \in Seq(Seq(S))
  PROVE  \E f : FlattenSteps(f, seqs, S)
  <1>1. PICK N : N = Len(seqs) /\ N \in Nat /\ DOMAIN seqs = 1..N
    OBVIOUS
  <1> DEFINE T == Seq(S)
             G == [x \in T \X (1..N) |-> x[1] \o seqs[x[2]]]
  <1>2. \A i \in 1..N : seqs[i] \in T
    BY <1>1
  <1>3. G \in [T \X (1..N) -> T] /\ <<>> \in T
    BY <1>2
  <1>4. PICK g : Recursion(g, N, T, <<>>, G)
    <2>1. PICK e : e = <<>>
      OBVIOUS
    <2> HIDE DEF G, T
    <2>2. \E f : Recursion(f, N, T, e, G)
      BY ONLY <1>1, <1>3, <2>1, RecursionTo
    <2> QED BY <2>1, <2>2
  <1>5. /\ g[0] = <<>> /\ g \in [0..N -> T]
        /\ \A i \in 1..N : g[i] = g[i - 1] \o seqs[i]
    <2>1. g[0] = <<>> /\ g \in [0..N -> T]
      BY <1>4 DEF Recursion
    <2>2. ASSUME NEW i \in 1..N PROVE g[i] = g[i - 1] \o seqs[i]
      <3>1. i - 1 \in 0..N
        BY <1>1
      <3>2. <<g[i - 1], i>> \in T \X (1..N)
        BY <2>1, <3>1
      <3>3. G[<<g[i - 1], i>>] = g[i - 1] \o seqs[i]
        <4> HIDE DEF T
        <4> QED BY <3>2
      <3> HIDE DEF G
      <3> QED BY <1>4, <3>3 DEF Recursion
    <2> QED BY <2>1, <2>2
  <1> HIDE DEF G
  <1>6. g[N] = FlattenSeq(seqs)
    <2>1. CASE N = 0
      <3>1. FlattenSeq(seqs) = seqs
        BY <1>1, <2>1 DEF FlattenSeq
      <3>2. seqs = <<>>
        BY <1>1, <2>1
      <3> QED BY <1>5, <2>1, <3>1, <3>2
    <2>2. CASE N # 0
      <3> DEFINE Body(f) == [i \in 1..Len(seqs) |-> IF i = 1 THEN seqs[i] ELSE f[i - 1] \o seqs[i]]
                 Solution == CHOOSE f : f = Body(f)
                 f == [i \in 1..N |-> g[i]]
      <3>1. f = Body(f)
        <4>1. ASSUME NEW i \in 1..N PROVE f[i] = IF i = 1 THEN seqs[i] ELSE f[i - 1] \o seqs[i]
          <5>1. CASE i = 1
            <6>0. i - 1 = 0
              BY <5>1
            <6>1. i - 1 = 0 /\ g[i] = g[i - 1] \o seqs[i]
              BY <1>5, <6>0, Zenon
            <6>2. g[i] = <<>> \o seqs[i] /\ seqs[i] \in T
              BY <1>2, <1>5, <6>1
            <6>3. g[i] = seqs[i]
              BY ONLY <6>2
            <6> QED BY <5>1, <6>3
          <5>2. CASE i # 1
            <6>1. i - 1 \in 1..N
              BY <1>1, <5>2
            <6>2. g[i] = g[i - 1] \o seqs[i]
              BY <1>5
            <6>3. f[i] = g[i] /\ f[i - 1] = g[i - 1]
              BY <6>1
            <6> QED BY <5>2, <6>2, <6>3
          <5> QED BY <5>1, <5>2
        <4> HIDE DEF f
        <4>2. f = [i \in 1..N |-> f[i]]
          BY DEF f
        <4> QED BY <1>1, <4>1, <4>2
      <3>2. Solution = Body(Solution)
        <4> HIDE DEF Body
        <4> QED BY <3>1
      <3>3. FlattenSeq(seqs) = Solution[N]
        BY <1>1, <2>2 DEF FlattenSeq
      <3> HIDE DEF Solution, f
      <3>4. \A i \in 1..N : Solution[i] = IF i = 1 THEN seqs[i] ELSE Solution[i - 1] \o seqs[i]
        BY <1>1, <3>2
      <3> DEFINE Agree == {n \in Nat : n \in 1..N => Solution[n] = g[n]}
      <3>5. 0 \in Agree
        OBVIOUS
      <3>6. ASSUME NEW n \in Nat, n \in Agree PROVE n + 1 \in Agree
        <4> SUFFICES ASSUME n + 1 \in 1..N PROVE Solution[n + 1] = g[n + 1]
          OBVIOUS
        <4>1. g[n + 1] = g[n] \o seqs[n + 1]
          <5>1. PICK k \in 1..N : k = n + 1
            OBVIOUS
          <5>2. k - 1 = n
            BY <5>1
          <5>3. g[k] = g[k - 1] \o seqs[k]
            BY <1>5
          <5> QED BY <5>1, <5>2, <5>3, Zenon
        <4>2. CASE n = 0
          <5>1. Solution[n + 1] = seqs[n + 1] /\ seqs[n + 1] \in T
            BY <1>2, <3>4, <4>2
          <5>2. g[n + 1] = <<>> \o seqs[n + 1]
            BY <1>5, <4>1, <4>2
          <5>3. g[n + 1] = seqs[n + 1]
            BY ONLY <5>1, <5>2
          <5> QED BY <5>1, <5>3
        <4>3. CASE n # 0
          <5>1. n \in 1..N /\ n + 1 # 1 /\ n + 1 - 1 = n
            BY <1>1, <4>3
          <5>2. Solution[n + 1] = Solution[n] \o seqs[n + 1]
            <6>1. PICK k \in 1..N : k = n + 1
              OBVIOUS
            <6>2. k - 1 = n /\ k # 1
              BY <5>1, <6>1
            <6>3. Solution[k] = Solution[k - 1] \o seqs[k]
              BY <3>4, <6>2
            <6> QED BY <6>1, <6>2, <6>3, Zenon
          <5> QED BY <3>6, <4>1, <5>1, <5>2
        <4> QED BY <4>2, <4>3
      <3>7. Nat \subseteq Agree
        <4> HIDE DEF Agree
        <4> QED BY <3>5, <3>6, Induction
      <3>8. N \in Agree /\ N \in 1..N
        BY <1>1, <2>2, <3>7
      <3> QED BY <3>3, <3>8
    <2> QED BY <2>1, <2>2
  <1> QED BY <1>1, <1>5, <1>6 DEF FlattenSteps

\* The rank of a role is its place among the roles.
LEMMA RoleRankFacts ==
  ASSUME NEW role \in Range(Roles)
  PROVE  RoleRank(role) \in Nat /\ Roles[RoleRank(role)] = role
  <1>1. DOMAIN Roles = 1..11
    BY DEF Roles
  <1>2. \E i \in DOMAIN Roles : Roles[i] = role
    BY DEF Range
  <1>3. RoleRank(role) \in DOMAIN Roles /\ Roles[RoleRank(role)] = role
    BY <1>2, Zenon DEF RoleRank
  <1> QED BY <1>1, <1>3

\* confit_v2_link_expression_compare orders the linked expressions.
LEMMA ExpressionOrder ==
  ASSUME NEW S, NEW before,
         before = {p \in S \X S : ExpressionBefore(p[1], p[2])},
         \A e \in S : e.role \in Range(Roles) /\ e.owner \in Nat /\ e.source_order \in Nat,
         \A e, f \in S : e.source_order = f.source_order => e = f
  PROVE  /\ IsOrder(before, S)
         /\ \A e, f \in S : <<e, f>> \in before <=> ExpressionBefore(e, f)
  <1>1. \A e \in S : RoleRank(e.role) \in Nat /\ Roles[RoleRank(e.role)] = e.role
    BY RoleRankFacts
  <1>2. \A e, f \in S : <<e, f>> \in before <=> ExpressionBefore(e, f)
    OBVIOUS
  <1>3. \A e, f \in S : RoleRank(e.role) = RoleRank(f.role) <=> e.role = f.role
    BY <1>1
  <1>4. \A e \in S : ~ExpressionBefore(e, e)
    BY <1>1 DEF ExpressionBefore
  <1>5. \A e, f \in S : e # f => ExpressionBefore(e, f) \/ ExpressionBefore(f, e)
    BY <1>1, <1>3 DEF ExpressionBefore
  <1>6. \A e, f, g \in S : ExpressionBefore(e, f) /\ ExpressionBefore(f, g) => ExpressionBefore(e, g)
    BY <1>1, <1>3 DEF ExpressionBefore
  <1> HIDE DEF ExpressionBefore
  <1> QED BY <1>2, <1>4, <1>5, <1>6 DEF IsOrder

\* Two sources with the same role and owner, which their occurrences tell apart.
SameKey(a, b) == a.role = b.role /\ a.owner = b.owner
KeysApart(s, t) == \A a \in Range(s), b \in Range(t) : ~SameKey(a, b)

\* The occurrences of a role and an owner count from 0 in the order of the list,
\* and only a condition that occurs once may be absent.
Rising(s) ==
    \A i, j \in DOMAIN s : i < j /\ SameKey(s[i], s[j]) => s[i].occurrence < s[j].occurrence
Grounded(s) ==
    \A i \in DOMAIN s : s[i].occurrence > 0 =>
        /\ s[i].text # NoText
        /\ \E j \in DOMAIN s : /\ SameKey(s[i], s[j]) /\ s[j].occurrence = s[i].occurrence - 1
                               /\ s[j].text # NoText
Counted(s) == Rising(s) /\ Grounded(s)

Sourced == [role : Range(Roles), owner : Nat, self : Nat, type : ValueType, text : Text,
            occurrence : Nat]

\* Lists of different keys are counted together when each is.
LEMMA ConcatCounted ==
  ASSUME NEW s \in Seq(Sourced), NEW t \in Seq(Sourced), Counted(s), Counted(t), KeysApart(s, t)
  PROVE  s \o t \in Seq(Sourced) /\ Counted(s \o t)
  <1>1. PICK m, n, r, S : m = Len(s) /\ n = Len(t) /\ r = s \o t /\ S = Sourced
    OBVIOUS
  <1>2. /\ r \in Seq(S) /\ Len(r) = m + n /\ m \in Nat /\ n \in Nat
        /\ DOMAIN r = 1..(m + n) /\ DOMAIN s = 1..m /\ DOMAIN t = 1..n
        /\ \A i \in 1..m : r[i] = s[i]
        /\ \A i \in 1..n : r[m + i] = t[i]
        /\ \A i \in 1..(m + n) : i > m => i - m \in 1..n /\ r[i] = t[i - m]
    <2>1. s \in Seq(S) /\ t \in Seq(S) /\ m = Len(s) /\ n = Len(t)
      BY <1>1
    <2> QED BY ONLY <2>1, <1>1, ConcatPlaces
  <1>3. \A i \in 1..m, j \in 1..n : ~SameKey(s[i], t[j])
    BY <1>2 DEF KeysApart, Range
  <1>4. Rising(r)
    <2> SUFFICES ASSUME NEW i \in 1..(m + n), NEW j \in 1..(m + n), i < j, SameKey(r[i], r[j])
                 PROVE  r[i].occurrence < r[j].occurrence
      BY <1>2 DEF Rising
    <2>1. CASE j <= m
      <3>1. i \in 1..m /\ j \in 1..m
        BY <1>2, <2>1
      <3> QED BY <1>2, <3>1 DEF Counted, Rising
    <2>2. CASE i <= m /\ j > m
      <3>1. i \in 1..m /\ j - m \in 1..n /\ r[j] = t[j - m] /\ r[i] = s[i]
        BY <1>2, <2>2
      <3> QED BY <1>3, <3>1
    <2>3. CASE i > m
      <3>1. /\ i - m \in 1..n /\ j - m \in 1..n /\ r[j] = t[j - m] /\ r[i] = t[i - m]
            /\ i - m < j - m
        BY <1>2, <2>3
      <3> QED BY <1>2, <3>1 DEF Counted, Rising
    <2> QED BY <1>2, <2>1, <2>2, <2>3
  <1>5. Grounded(r)
    <2> SUFFICES ASSUME NEW i \in 1..(m + n), r[i].occurrence > 0
                 PROVE  /\ r[i].text # NoText
                        /\ \E j \in 1..(m + n) : /\ SameKey(r[i], r[j])
                                                 /\ r[j].occurrence = r[i].occurrence - 1
                                                 /\ r[j].text # NoText
      BY <1>2 DEF Grounded
    <2>1. CASE i <= m
      <3>1. i \in 1..m /\ r[i] = s[i]
        BY <1>2, <2>1
      <3>2. PICK j \in 1..m : /\ s[i].text # NoText /\ SameKey(s[i], s[j])
                              /\ s[j].occurrence = s[i].occurrence - 1 /\ s[j].text # NoText
        BY <1>2, <3>1 DEF Counted, Grounded
      <3>3. j \in 1..(m + n) /\ r[j] = s[j]
        BY <1>2
      <3> QED BY <3>1, <3>2, <3>3
    <2>2. CASE i > m
      <3>1. i - m \in 1..n /\ r[i] = t[i - m]
        BY <1>2, <2>2
      <3>2. PICK j \in 1..n : /\ t[i - m].text # NoText /\ SameKey(t[i - m], t[j])
                              /\ t[j].occurrence = t[i - m].occurrence - 1 /\ t[j].text # NoText
        BY <1>2, <3>1 DEF Counted, Grounded
      <3>3. m + j \in 1..(m + n) /\ r[m + j] = t[j]
        BY <1>2
      <3> QED BY <3>1, <3>2, <3>3
    <2> QED BY <1>2, <2>1, <2>2
  <1> QED BY <1>1, <1>2, <1>4, <1>5 DEF Counted

\* The entries of a list of lists put one after the other.
LEMMA FlattenRange ==
  ASSUME NEW S, NEW seqs \in Seq(Seq(S))
  PROVE  /\ FlattenSeq(seqs) \in Seq(S)
         /\ Range(FlattenSeq(seqs)) = UNION {Range(seqs[i]) : i \in DOMAIN seqs}
  <1>1. PICK N, f : N = Len(seqs) /\ N \in Nat /\ DOMAIN seqs = 1..N /\ FlattenSteps(f, seqs, S)
    BY FlattenPrefixes
  <1>2. /\ f[0] = <<>> /\ f[N] = FlattenSeq(seqs) /\ \A i \in 0..N : f[i] \in Seq(S)
        /\ \A i \in 1..N : f[i] = f[i - 1] \o seqs[i]
    BY <1>1 DEF FlattenSteps
  <1> DEFINE Upto(n) == UNION {Range(seqs[i]) : i \in 1..n}
             Good == {n \in Nat : n <= N => Range(f[n]) = Upto(n)}
  <1>3. 0 \in Good
    BY <1>2 DEF Range
  <1>4. ASSUME NEW n \in Nat, n \in Good PROVE n + 1 \in Good
    <2> SUFFICES ASSUME n + 1 <= N PROVE Range(f[n + 1]) = Upto(n + 1)
      OBVIOUS
    <2>1. PICK k \in 1..N : k = n + 1
      BY <1>1
    <2>2. k - 1 = n /\ n \in 0..N /\ n <= N
      BY <1>1, <2>1
    <2>3. f[k] = f[n] \o seqs[k]
      BY <1>2, <2>2, Zenon
    <2>4. f[n] \in Seq(S) /\ seqs[k] \in Seq(S)
      BY <1>1, <1>2, <2>2
    <2>5. Range(f[k]) = Range(f[n]) \cup Range(seqs[k])
      BY ONLY <2>3, <2>4, RangeConcat
    <2>6. 1..k = (1..n) \cup {k}
      BY <2>1
    <2>7. Upto(k) = Upto(n) \cup Range(seqs[k])
      BY <2>6
    <2> QED BY <1>4, <2>1, <2>2, <2>5, <2>7
  <1>5. N \in Good
    <2>1. Nat \subseteq Good
      <3> HIDE DEF Good
      <3> QED BY <1>3, <1>4, Induction
    <2> QED BY <1>1, <2>1
  <1>6. f[N] \in Seq(S) /\ Range(f[N]) = Upto(N)
    <2>1. N \in Nat /\ N <= N /\ N \in 0..N
      BY <1>1
    <2>2. f[N] \in Seq(S)
      BY <1>2, <2>1
    <2>3. Range(f[N]) = Upto(N)
      BY <1>5, <2>1
    <2> QED BY <2>2, <2>3
  <1> QED BY <1>1, <1>2, <1>6

\* The sources of many owners are counted when those of each are.
LEMMA FlattenCounted ==
  ASSUME NEW seqs \in Seq(Seq(Sourced)), \A i \in DOMAIN seqs : Counted(seqs[i]),
         \A i, j \in DOMAIN seqs : i # j => KeysApart(seqs[i], seqs[j])
  PROVE  Counted(FlattenSeq(seqs))
  <1>1. PICK S : S = Sourced
    OBVIOUS
  <1>2. PICK N, f : N = Len(seqs) /\ N \in Nat /\ DOMAIN seqs = 1..N /\ FlattenSteps(f, seqs, S)
    BY <1>1, FlattenPrefixes
  <1>3. /\ f[0] = <<>> /\ f[N] = FlattenSeq(seqs) /\ \A i \in 0..N : f[i] \in Seq(S)
        /\ \A i \in 1..N : f[i] = f[i - 1] \o seqs[i]
        /\ \A i \in 1..N : seqs[i] \in Seq(S)
    <2>1. \A i \in 1..N : seqs[i] \in Seq(S)
      BY <1>1, <1>2
    <2> QED BY <1>2, <2>1 DEF FlattenSteps
  <1> DEFINE Upto(n) == UNION {Range(seqs[i]) : i \in 1..n}
             Good == {n \in Nat : n <= N => Range(f[n]) = Upto(n) /\ Counted(f[n])}
  <1>4. 0 \in Good
    BY <1>3 DEF Range, Counted, Rising, Grounded
  <1>5. ASSUME NEW n \in Nat, n \in Good PROVE n + 1 \in Good
    <2> SUFFICES ASSUME n + 1 <= N PROVE Range(f[n + 1]) = Upto(n + 1) /\ Counted(f[n + 1])
      OBVIOUS
    <2>1. PICK k \in 1..N : k = n + 1
      BY <1>2
    <2>2. k - 1 = n /\ n \in 0..N /\ n <= N
      BY <1>2, <2>1
    <2>3. f[k] = f[n] \o seqs[k]
      BY <1>3, <2>2, Zenon
    <2>4. f[n] \in Seq(S) /\ seqs[k] \in Seq(S)
      BY <1>3, <2>2
    <2>5. Range(f[k]) = Range(f[n]) \cup Range(seqs[k])
      BY ONLY <2>3, <2>4, RangeConcat
    <2>6. 1..k = (1..n) \cup {k}
      BY <2>1
    <2>7. Upto(k) = Upto(n) \cup Range(seqs[k])
      BY <2>6
    <2>8. KeysApart(f[n], seqs[k])
      <3> SUFFICES ASSUME NEW a \in Upto(n), NEW b \in Range(seqs[k]) PROVE ~SameKey(a, b)
        BY <1>5, <2>2 DEF KeysApart
      <3>1. PICK i \in 1..n : a \in Range(seqs[i])
        OBVIOUS
      <3>2. i \in DOMAIN seqs /\ k \in DOMAIN seqs /\ i # k
        BY <1>2, <2>1, <2>2
      <3> QED BY <3>1, <3>2 DEF KeysApart
    <2>9. Counted(f[k])
      <3>1. Counted(f[n]) /\ Counted(seqs[k])
        BY <1>2, <1>5, <2>2
      <3> QED BY <1>1, <2>3, <2>4, <2>8, <3>1, ConcatCounted
    <2> QED BY <1>5, <2>1, <2>2, <2>5, <2>7, <2>9
  <1>6. N \in Good
    <2>1. Nat \subseteq Good
      <3> HIDE DEF Good
      <3> QED BY <1>4, <1>5, Induction
    <2> QED BY <1>2, <2>1
  <1> QED BY <1>2, <1>3, <1>6

\* Pairs one after the other.
LEMMA FlattenPairs ==
  ASSUME NEW S, NEW seqs \in Seq(Seq(S)), NEW N, N = Len(seqs),
         \A i \in 1..N : Len(seqs[i]) = 2
  PROVE  /\ N \in Nat /\ FlattenSeq(seqs) \in Seq(S) /\ Len(FlattenSeq(seqs)) = 2 * N
         /\ \A i \in 1..N : /\ FlattenSeq(seqs)[2 * i - 1] = seqs[i][1]
                            /\ FlattenSeq(seqs)[2 * i] = seqs[i][2]
  <1>1. PICK f : N \in Nat /\ DOMAIN seqs = 1..N /\ FlattenSteps(f, seqs, S)
    BY FlattenPrefixes
  <1>2. /\ f[0] = <<>> /\ f[N] = FlattenSeq(seqs) /\ \A i \in 0..N : f[i] \in Seq(S)
        /\ \A i \in 1..N : f[i] = f[i - 1] \o seqs[i]
        /\ \A i \in 1..N : seqs[i] \in Seq(S)
    <2>1. \A i \in 1..N : seqs[i] \in Seq(S)
      BY <1>1
    <2> QED BY <1>1, <2>1 DEF FlattenSteps
  <1> DEFINE Good == {n \in Nat : n <= N =>
                         /\ Len(f[n]) = 2 * n
                         /\ \A i \in 1..n : f[n][2 * i - 1] = seqs[i][1] /\ f[n][2 * i] = seqs[i][2]}
  <1>3. 0 \in Good
    BY <1>2
  <1>4. ASSUME NEW n \in Nat, n \in Good PROVE n + 1 \in Good
    <2> SUFFICES ASSUME n + 1 <= N
                 PROVE  /\ Len(f[n + 1]) = 2 * (n + 1)
                        /\ \A i \in 1..(n + 1) : /\ f[n + 1][2 * i - 1] = seqs[i][1]
                                                 /\ f[n + 1][2 * i] = seqs[i][2]
      OBVIOUS
    <2>1. PICK k \in 1..N : k = n + 1
      BY <1>1
    <2>2. k - 1 = n /\ n \in 0..N /\ n <= N
      BY <1>1, <2>1
    <2>3. PICK s, t, r, m, q : s = f[n] /\ t = seqs[k] /\ r = f[k] /\ m = 2 * n /\ q = 2
      OBVIOUS
    <2>4. r = s \o t
      BY <1>2, <2>2, <2>3, Zenon
    <2>5. s \in Seq(S) /\ t \in Seq(S) /\ m = Len(s) /\ q = Len(t)
      BY <1>1, <1>2, <1>4, <2>2, <2>3
    <2>6. /\ Len(r) = m + q
          /\ \A i \in 1..m : r[i] = s[i]
          /\ \A i \in 1..q : r[m + i] = t[i]
      BY ONLY <2>4, <2>5, ConcatPlaces
    <2>7. ASSUME NEW i \in 1..k PROVE r[2 * i - 1] = seqs[i][1] /\ r[2 * i] = seqs[i][2]
      <3>1. CASE i = k
        <4>1. 2 * i - 1 = m + 1 /\ 2 * i = m + 2
          BY <2>1, <2>3, <3>1
        <4>2. 1 \in 1..q /\ 2 \in 1..q
          BY <2>3
        <4>3. r[m + 1] = t[1] /\ r[m + 2] = t[2] /\ t = seqs[i]
          BY <2>3, <2>6, <3>1, <4>2
        <4> QED BY <4>1, <4>3
      <3>2. CASE i # k
        <4>1. i \in 1..n /\ 2 * i - 1 \in 1..m /\ 2 * i \in 1..m
          BY <2>1, <2>3, <3>2
        <4>2. s[2 * i - 1] = seqs[i][1] /\ s[2 * i] = seqs[i][2]
          BY <1>4, <2>2, <2>3, <4>1
        <4> QED BY <2>6, <4>1, <4>2
      <3> QED BY <3>1, <3>2
    <2>8. k = n + 1 /\ r = f[k] /\ Len(r) = 2 * k
      BY ONLY <2>1, <2>3, <2>6, n \in Nat
    <2> QED BY ONLY <2>7, <2>8
  <1>5. N \in Good
    <2>1. Nat \subseteq Good
      <3> HIDE DEF Good
      <3> QED BY <1>3, <1>4, Induction
    <2> QED BY <1>1, <2>1
  <1>6. f[N] \in Seq(S)
    BY <1>1, <1>2
  <1>7. /\ Len(f[N]) = 2 * N
        /\ \A i \in 1..N : f[N][2 * i - 1] = seqs[i][1] /\ f[N][2 * i] = seqs[i][2]
    BY <1>1, <1>5
  <1> QED BY ONLY <1>1, <1>2, <1>6, <1>7

SymbolRoles == {"computed", "available_if", "visible_if", "default_when", "suggestion_when"}
MenuRoles == {"menu_visible_if"}
ChoiceRoles == {"choice_available_if", "choice_visible_if", "choice_default_when"}
ConstraintRoles == {"constraint_when", "constraint_require"}

\* The roles the linker uses.
LEMMA RolesAre ==
  /\ SymbolRoles \subseteq Range(Roles) /\ MenuRoles \subseteq Range(Roles)
  /\ ChoiceRoles \subseteq Range(Roles) /\ ConstraintRoles \subseteq Range(Roles)
  <1>1. /\ DOMAIN Roles = 1..11
        /\ Roles[1] = "computed" /\ Roles[2] = "available_if" /\ Roles[3] = "visible_if"
        /\ Roles[4] = "default_when" /\ Roles[5] = "suggestion_when"
        /\ Roles[6] = "menu_visible_if" /\ Roles[7] = "choice_available_if"
        /\ Roles[8] = "choice_visible_if" /\ Roles[9] = "choice_default_when"
        /\ Roles[10] = "constraint_when" /\ Roles[11] = "constraint_require"
    BY DEF Roles
  <1>2. \A i \in 1..11 : Roles[i] \in Range(Roles)
    BY <1>1 DEF Range
  <1>3. /\ Roles[1] \in Range(Roles) /\ Roles[2] \in Range(Roles) /\ Roles[3] \in Range(Roles)
        /\ Roles[4] \in Range(Roles) /\ Roles[5] \in Range(Roles) /\ Roles[6] \in Range(Roles)
        /\ Roles[7] \in Range(Roles) /\ Roles[8] \in Range(Roles) /\ Roles[9] \in Range(Roles)
        /\ Roles[10] \in Range(Roles) /\ Roles[11] \in Range(Roles)
    BY <1>2
  <1> QED BY <1>1, <1>3 DEF SymbolRoles, MenuRoles, ChoiceRoles, ConstraintRoles

LEMMA EachRole ==
  /\ "computed" \in Range(Roles) /\ "available_if" \in Range(Roles) /\ "visible_if" \in Range(Roles)
  /\ "default_when" \in Range(Roles) /\ "suggestion_when" \in Range(Roles)
  /\ "menu_visible_if" \in Range(Roles) /\ "choice_available_if" \in Range(Roles)
  /\ "choice_visible_if" \in Range(Roles) /\ "choice_default_when" \in Range(Roles)
  /\ "constraint_when" \in Range(Roles) /\ "constraint_require" \in Range(Roles)
  /\ "bool" \in ValueType /\ 0 \in Nat /\ Missing \in Nat
  <1>1. /\ \A r \in SymbolRoles : r \in Range(Roles)
        /\ \A r \in MenuRoles : r \in Range(Roles)
        /\ \A r \in ChoiceRoles : r \in Range(Roles)
        /\ \A r \in ConstraintRoles : r \in Range(Roles)
    BY RolesAre
  <1>2. "bool" \in ValueType /\ 0 \in Nat /\ Missing \in Nat
    BY DEF ValueType, Missing
  <1> QED BY <1>1, <1>2 DEF SymbolRoles, MenuRoles, ChoiceRoles, ConstraintRoles

\* An absent expression has the shape of one.
LEMMA NoTextIsText == NoText \in Text /\ NoText \notin Written
  <1>1. NoText.type \notin ValueType
    BY DEF NoText, ValueType
  <1> QED BY <1>1 DEF Text, Written

LEMMA WrittenIsText == \A t \in Written : t \in Text /\ t # NoText
  BY NoTextIsText DEF Text

\* What an expression of a node is.
LEMMA SourceIsSourced ==
  ASSUME NEW role \in Range(Roles), NEW owner \in Nat, NEW self \in Nat, NEW type \in ValueType,
         NEW text \in Text, NEW occurrence \in Nat
  PROVE  Source(role, owner, self, type, text, occurrence) \in Sourced
  <1>1. PICK s : s = Source(role, owner, self, type, text, occurrence)
    OBVIOUS
  <1>2. s = [role |-> role, owner |-> owner, self |-> self, type |-> type, text |-> text,
             occurrence |-> occurrence]
    BY <1>1 DEF Source
  <1>3. s \in Sourced
    BY <1>2, Zenon DEF Sourced
  <1> QED BY <1>1, <1>3

\* What the loader hands over.
LEMMA ProjectFacts ==
  ASSUME NEW p \in Projects
  PROVE  /\ p.symbols \in Seq(SymbolNode) /\ p.menus \in Seq(MenuNode)
         /\ p.choices \in Seq(ChoiceNode) /\ p.constraints \in Seq(ConstraintNode)
         /\ Distinct(p.symbols) /\ Distinct(p.menus)
         /\ Distinct(p.choices) /\ Distinct(p.constraints)
  BY ProjectsAssumption

LEMMA NodeIds ==
  /\ \A x \in SymbolNode : x.id \in Nat /\ x.id # Missing
  /\ \A x \in MenuNode : x.id \in Nat /\ x.id # Missing
  /\ \A x \in ChoiceNode : x.id \in Nat /\ x.id # Missing
  /\ \A x \in ConstraintNode : x.id \in Nat /\ x.id # Missing
  BY DEF SymbolNode, MenuNode, ChoiceNode, ConstraintNode, Missing

\* The conditions of a list are counted one by one.
LEMMA ListCounted ==
  ASSUME NEW n \in Nat, NEW s \in [1..n -> Sourced],
         \A i \in 1..n : s[i].occurrence = i - 1 /\ s[i].text # NoText,
         \A i, j \in 1..n : SameKey(s[i], s[j])
  PROVE  s \in Seq(Sourced) /\ Counted(s)
  <1>1. DOMAIN s = 1..n /\ s \in Seq(Sourced)
    OBVIOUS
  <1>2. Rising(s)
    BY <1>1 DEF Rising
  <1>3. Grounded(s)
    <2> SUFFICES ASSUME NEW i \in 1..n, s[i].occurrence > 0
                 PROVE  /\ s[i].text # NoText
                        /\ \E j \in 1..n : /\ SameKey(s[i], s[j])
                                           /\ s[j].occurrence = s[i].occurrence - 1
                                           /\ s[j].text # NoText
      BY <1>1 DEF Grounded
    <2>1. PICK j : j = i - 1
      OBVIOUS
    <2>2. j \in 1..n
      BY <2>1
    <2> QED BY <2>1, <2>2
  <1> QED BY <1>1, <1>2, <1>3 DEF Counted

\* Conditions that occur once are counted when their roles or owners differ.
LEMMA SinglesCounted ==
  ASSUME NEW n \in Nat, NEW s \in [1..n -> Sourced],
         \A i \in 1..n : s[i].occurrence = 0,
         \A i, j \in 1..n : SameKey(s[i], s[j]) => i = j
  PROVE  s \in Seq(Sourced) /\ Counted(s)
  <1>1. DOMAIN s = 1..n /\ s \in Seq(Sourced)
    OBVIOUS
  <1>2. Rising(s)
    BY <1>1 DEF Rising
  <1>3. Grounded(s)
    BY <1>1 DEF Grounded
  <1> QED BY <1>1, <1>2, <1>3 DEF Counted

\* The expressions of one option.
LEMMA SymbolSourcesFacts ==
  ASSUME NEW s \in SymbolNode
  PROVE  /\ SymbolSources(s) \in Seq(Sourced) /\ Counted(SymbolSources(s))
         /\ \A a \in Range(SymbolSources(s)) : a.owner = s.id /\ a.role \in SymbolRoles
  <1>1. /\ s.id \in Nat /\ s.type \in ValueType /\ s.computed \in Text /\ s.available_if \in Text
        /\ s.visible_if \in Text /\ s.defaults \in Seq(Written)
        /\ s.suggestions \in Seq(Written)
    BY DEF SymbolNode
  <1>2. PICK a, b, c :
            /\ a = <<Source("computed", s.id, s.id, s.type, s.computed, 0),
                     Source("available_if", s.id, s.id, "bool", s.available_if, 0),
                     Source("visible_if", s.id, s.id, "bool", s.visible_if, 0)>>
            /\ b = [k \in DOMAIN s.defaults |->
                       Source("default_when", s.id, s.id, "bool", s.defaults[k], k - 1)]
            /\ c = [k \in DOMAIN s.suggestions |->
                       Source("suggestion_when", s.id, s.id, "bool", s.suggestions[k], k - 1)]
    OBVIOUS
  <1>3. SymbolSources(s) = a \o b \o c
    BY <1>2 DEF SymbolSources
  <1>4. PICK m, n : /\ m = Len(s.defaults) /\ n = Len(s.suggestions) /\ m \in Nat /\ n \in Nat
                    /\ DOMAIN s.defaults = 1..m /\ DOMAIN s.suggestions = 1..n
    <2>1. \E m : m = Len(s.defaults) /\ m \in Nat /\ DOMAIN s.defaults = 1..m
      BY <1>1
    <2>2. \E n : n = Len(s.suggestions) /\ n \in Nat /\ DOMAIN s.suggestions = 1..n
      BY <1>1
    <2> QED BY <2>1, <2>2
  <1>5. SymbolRoles \subseteq Range(Roles) /\ Missing \in Nat
    BY RolesAre DEF Missing
  <1>6. /\ a \in [1..3 -> Sourced]
        /\ \A i \in 1..3 : a[i].occurrence = 0 /\ a[i].owner = s.id
        /\ a[1].role = "computed" /\ a[2].role = "available_if" /\ a[3].role = "visible_if"
    <2>1. /\ DOMAIN a = 1..3
          /\ a[1] = Source("computed", s.id, s.id, s.type, s.computed, 0)
          /\ a[2] = Source("available_if", s.id, s.id, "bool", s.available_if, 0)
          /\ a[3] = Source("visible_if", s.id, s.id, "bool", s.visible_if, 0)
      BY <1>2
    <2>2. a[1] \in Sourced /\ a[2] \in Sourced /\ a[3] \in Sourced
      BY <1>1, <2>1, EachRole, SourceIsSourced
    <2>3. a = [i \in 1..3 |-> a[i]]
      BY <1>2, <2>1
    <2>4. \A i \in 1..3 : a[i] \in Sourced
      BY <2>2
    <2>5. a \in [1..3 -> Sourced]
      BY <2>3, <2>4
    <2> QED BY <2>1, <2>5 DEF Source
  <1>7. /\ b \in [1..m -> Sourced]
        /\ \A i \in 1..m : /\ b[i].role = "default_when" /\ b[i].owner = s.id
                           /\ b[i].occurrence = i - 1 /\ b[i].text # NoText
    <2>1. \A k \in 1..m : s.defaults[k] \in Text /\ s.defaults[k] # NoText
      <3>1. \A k \in 1..m : s.defaults[k] \in Written
        BY <1>1, <1>4
      <3> QED BY <3>1, WrittenIsText
    <2>2. ASSUME NEW k \in 1..m
          PROVE  Source("default_when", s.id, s.id, "bool", s.defaults[k], k - 1) \in Sourced
      <3>1. PICK i : i = k - 1
        OBVIOUS
      <3>2. i \in Nat
        BY <1>4, <3>1
      <3> QED BY <1>1, <2>1, <3>1, <3>2, EachRole, SourceIsSourced
    <2>3. b = [k \in 1..m |-> Source("default_when", s.id, s.id, "bool", s.defaults[k], k - 1)]
      BY <1>2, <1>4
    <2> QED BY <2>1, <2>2, <2>3 DEF Source
  <1>8. /\ c \in [1..n -> Sourced]
        /\ \A i \in 1..n : /\ c[i].role = "suggestion_when" /\ c[i].owner = s.id
                           /\ c[i].occurrence = i - 1 /\ c[i].text # NoText
    <2>1. \A k \in 1..n : s.suggestions[k] \in Text /\ s.suggestions[k] # NoText
      <3>1. \A k \in 1..n : s.suggestions[k] \in Written
        BY <1>1, <1>4
      <3> QED BY <3>1, WrittenIsText
    <2>2. ASSUME NEW k \in 1..n
          PROVE  Source("suggestion_when", s.id, s.id, "bool", s.suggestions[k], k - 1) \in Sourced
      <3>1. PICK i : i = k - 1
        OBVIOUS
      <3>2. i \in Nat
        BY <1>4, <3>1
      <3> QED BY <1>1, <2>1, <3>1, <3>2, EachRole, SourceIsSourced
    <2>3. c = [k \in 1..n |-> Source("suggestion_when", s.id, s.id, "bool", s.suggestions[k], k - 1)]
      BY <1>2, <1>4
    <2> QED BY <2>1, <2>2, <2>3 DEF Source
  <1>9. a \in Seq(Sourced) /\ Counted(a)
    <2>1. \A i, j \in 1..3 : SameKey(a[i], a[j]) => i = j
      BY <1>6 DEF SameKey
    <2>2. 3 \in Nat
      OBVIOUS
    <2> QED BY ONLY <1>6, <2>1, <2>2, SinglesCounted
  <1>10. b \in Seq(Sourced) /\ Counted(b)
    <2>1. \A i, j \in 1..m : SameKey(b[i], b[j])
      BY <1>7 DEF SameKey
    <2> QED BY ONLY <1>4, <1>7, <2>1, ListCounted
  <1>11. c \in Seq(Sourced) /\ Counted(c)
    <2>1. \A i, j \in 1..n : SameKey(c[i], c[j])
      BY <1>8 DEF SameKey
    <2> QED BY ONLY <1>4, <1>8, <2>1, ListCounted
  <1>12. Range(a) = {a[1], a[2], a[3]}
    BY <1>6 DEF Range
  <1>13. /\ \A x \in Range(a) : x.owner = s.id /\ x.role \in {"computed", "available_if", "visible_if"}
         /\ \A x \in Range(b) : x.owner = s.id /\ x.role = "default_when"
         /\ \A x \in Range(c) : x.owner = s.id /\ x.role = "suggestion_when"
    BY <1>6, <1>7, <1>8, <1>12 DEF Range
  <1>14. a \o b \in Seq(Sourced) /\ Counted(a \o b) /\ Range(a \o b) = Range(a) \cup Range(b)
    <2>1. KeysApart(a, b)
      BY <1>13 DEF KeysApart, SameKey
    <2> QED BY ONLY <1>9, <1>10, <2>1, ConcatCounted, RangeConcat
  <1>15. PICK d : d = a \o b
    OBVIOUS
  <1>16. d \o c \in Seq(Sourced) /\ Counted(d \o c) /\ Range(d \o c) = Range(d) \cup Range(c)
    <2>1. KeysApart(d, c)
      BY <1>13, <1>14, <1>15 DEF KeysApart, SameKey
    <2>2. d \in Seq(Sourced) /\ Counted(d)
      BY <1>14, <1>15
    <2> QED BY ONLY <1>11, <2>1, <2>2, ConcatCounted, RangeConcat
  <1>17. \A x \in Range(d \o c) : x.owner = s.id /\ x.role \in SymbolRoles
    BY <1>13, <1>14, <1>15, <1>16 DEF SymbolRoles
  <1> QED BY <1>3, <1>15, <1>16, <1>17

\* The expressions of one choice.
LEMMA ChoiceSourcesFacts ==
  ASSUME NEW s \in ChoiceNode
  PROVE  /\ ChoiceSources(s) \in Seq(Sourced) /\ Counted(ChoiceSources(s))
         /\ \A a \in Range(ChoiceSources(s)) : a.owner = s.id /\ a.role \in ChoiceRoles
  <1>1. /\ s.id \in Nat /\ s.available_if \in Text /\ s.visible_if \in Text
        /\ s.defaults \in Seq([member : Nat, priority : Int, when : Written])
    BY DEF ChoiceNode
  <1>2. PICK a, b :
            /\ a = <<Source("choice_available_if", s.id, Missing, "bool", s.available_if, 0),
                     Source("choice_visible_if", s.id, Missing, "bool", s.visible_if, 0)>>
            /\ b = [k \in DOMAIN s.defaults |->
                       Source("choice_default_when", s.id, Missing, "bool", s.defaults[k].when, k - 1)]
    OBVIOUS
  <1>3. ChoiceSources(s) = a \o b
    BY <1>2 DEF ChoiceSources
  <1>4. PICK m : m = Len(s.defaults) /\ m \in Nat /\ DOMAIN s.defaults = 1..m
    BY <1>1
  <1>5. ChoiceRoles \subseteq Range(Roles) /\ Missing \in Nat
    BY RolesAre DEF Missing
  <1>6. /\ a \in [1..2 -> Sourced]
        /\ \A i \in 1..2 : a[i].occurrence = 0 /\ a[i].owner = s.id
        /\ a[1].role = "choice_available_if" /\ a[2].role = "choice_visible_if"
    <2>1. /\ DOMAIN a = 1..2
          /\ a[1] = Source("choice_available_if", s.id, Missing, "bool", s.available_if, 0)
          /\ a[2] = Source("choice_visible_if", s.id, Missing, "bool", s.visible_if, 0)
      BY <1>2
    <2>2. a[1] \in Sourced /\ a[2] \in Sourced
      BY <1>1, <2>1, EachRole, SourceIsSourced
    <2>3. a = [i \in 1..2 |-> a[i]]
      BY <1>2, <2>1
    <2>4. \A i \in 1..2 : a[i] \in Sourced
      BY <2>2
    <2>5. a \in [1..2 -> Sourced]
      BY <2>3, <2>4
    <2> QED BY <2>1, <2>5 DEF Source
  <1>7. /\ b \in [1..m -> Sourced]
        /\ \A i \in 1..m : /\ b[i].role = "choice_default_when" /\ b[i].owner = s.id
                           /\ b[i].occurrence = i - 1 /\ b[i].text # NoText
    <2>1. \A k \in 1..m : s.defaults[k].when \in Text /\ s.defaults[k].when # NoText
      <3>1. \A k \in 1..m : s.defaults[k] \in [member : Nat, priority : Int, when : Written]
        <4>1. PICK D, l : D = [member : Nat, priority : Int, when : Written] /\ l = s.defaults
          OBVIOUS
        <4>2. l \in Seq(D) /\ m = Len(l)
          BY <1>1, <1>4, <4>1
        <4>3. \A k \in 1..m : l[k] \in D
          BY <4>2
        <4> QED BY <4>1, <4>3
      <3>2. \A k \in 1..m : s.defaults[k].when \in Written
        BY <3>1
      <3> QED BY <3>2, WrittenIsText
    <2>2. ASSUME NEW k \in 1..m
          PROVE  Source("choice_default_when", s.id, Missing, "bool", s.defaults[k].when, k - 1) \in Sourced
      <3>1. PICK i : i = k - 1
        OBVIOUS
      <3>2. i \in Nat
        BY <1>4, <3>1
      <3> QED BY <1>1, <2>1, <3>1, <3>2, EachRole, SourceIsSourced
    <2>3. b = [k \in 1..m |->
                  Source("choice_default_when", s.id, Missing, "bool", s.defaults[k].when, k - 1)]
      BY <1>2, <1>4
    <2> QED BY <2>1, <2>2, <2>3 DEF Source
  <1>8. a \in Seq(Sourced) /\ Counted(a)
    <2>1. \A i, j \in 1..2 : SameKey(a[i], a[j]) => i = j
      BY <1>6 DEF SameKey
    <2>2. 2 \in Nat
      OBVIOUS
    <2> QED BY ONLY <1>6, <2>1, <2>2, SinglesCounted
  <1>9. b \in Seq(Sourced) /\ Counted(b)
    <2>1. \A i, j \in 1..m : SameKey(b[i], b[j])
      BY <1>7 DEF SameKey
    <2> QED BY ONLY <1>4, <1>7, <2>1, ListCounted
  <1>10. Range(a) = {a[1], a[2]}
    BY <1>6 DEF Range
  <1>11. /\ \A x \in Range(a) : x.owner = s.id /\ x.role \in {"choice_available_if", "choice_visible_if"}
         /\ \A x \in Range(b) : x.owner = s.id /\ x.role = "choice_default_when"
    BY <1>6, <1>7, <1>10 DEF Range
  <1>12. a \o b \in Seq(Sourced) /\ Counted(a \o b) /\ Range(a \o b) = Range(a) \cup Range(b)
    <2>1. KeysApart(a, b)
      BY <1>11 DEF KeysApart, SameKey
    <2> QED BY ONLY <1>8, <1>9, <2>1, ConcatCounted, RangeConcat
  <1> QED BY <1>3, <1>11, <1>12 DEF ChoiceRoles

\* The expressions of one constraint and of one menu.
LEMMA ConstraintSourcesFacts ==
  ASSUME NEW s \in ConstraintNode
  PROVE  /\ ConstraintSources(s) \in Seq(Sourced) /\ Counted(ConstraintSources(s))
         /\ Len(ConstraintSources(s)) = 2
         /\ ConstraintSources(s)[1] = Source("constraint_when", s.id, Missing, "bool", s.when, 0)
         /\ ConstraintSources(s)[2] = Source("constraint_require", s.id, Missing, "bool", s.require, 0)
         /\ \A a \in Range(ConstraintSources(s)) :
               a.owner = s.id /\ a.role \in ConstraintRoles /\ a.text # NoText
  <1>1. /\ s.id \in Nat /\ s.when \in Text /\ s.require \in Text
        /\ s.when # NoText /\ s.require # NoText
    <2>1. s.id \in Nat /\ s.when \in Written /\ s.require \in Written
      BY DEF ConstraintNode
    <2> QED BY <2>1, WrittenIsText
  <1>2. PICK a : a = ConstraintSources(s)
    OBVIOUS
  <1>3. ConstraintRoles \subseteq Range(Roles) /\ Missing \in Nat
    BY RolesAre DEF Missing
  <1>4. /\ DOMAIN a = 1..2 /\ Len(a) = 2
        /\ a[1] = Source("constraint_when", s.id, Missing, "bool", s.when, 0)
        /\ a[2] = Source("constraint_require", s.id, Missing, "bool", s.require, 0)
        /\ a = [i \in 1..2 |-> a[i]]
    BY <1>2 DEF ConstraintSources
  <1>5. a[1] \in Sourced /\ a[2] \in Sourced
    BY <1>1, <1>4, EachRole, SourceIsSourced
  <1>6. a \in [1..2 -> Sourced]
    <2>1. \A i \in 1..2 : a[i] \in Sourced
      BY <1>5
    <2> QED BY <1>4, <2>1
  <1>7. a \in Seq(Sourced) /\ Counted(a)
    <2>1. \A i, j \in 1..2 : SameKey(a[i], a[j]) => i = j
      BY <1>4 DEF SameKey, Source
    <2>2. 2 \in Nat /\ \A i \in 1..2 : a[i].occurrence = 0
      BY <1>4 DEF Source
    <2> QED BY ONLY <1>6, <2>1, <2>2, SinglesCounted
  <1>8. Range(a) = {a[1], a[2]}
    BY <1>4 DEF Range
  <1>9. \A x \in Range(a) : x.owner = s.id /\ x.role \in ConstraintRoles /\ x.text # NoText
    BY <1>1, <1>4, <1>8 DEF Source, ConstraintRoles
  <1> QED BY <1>2, <1>4, <1>7, <1>9

LEMMA MenuSourceFacts ==
  ASSUME NEW s \in MenuNode
  PROVE  /\ MenuSource(s) \in Sourced /\ MenuSource(s).owner = s.id
         /\ MenuSource(s).role \in MenuRoles /\ MenuSource(s).occurrence = 0
  <1>1. s.id \in Nat /\ s.visible_if \in Text
    BY DEF MenuNode
  <1>2. MenuRoles \subseteq Range(Roles) /\ Missing \in Nat
    BY RolesAre DEF Missing
  <1>3. MenuSource(s) = Source("menu_visible_if", s.id, Missing, "bool", s.visible_if, 0)
    BY DEF MenuSource
  <1>4. MenuSource(s) \in Sourced
    BY <1>1, <1>3, EachRole, SourceIsSourced
  <1> QED BY <1>3, <1>4 DEF Source, MenuRoles

\* The expressions of one kind of node: every node has its own id.
LEMMA BlockFacts ==
  ASSUME NEW seqs \in Seq(Seq(Sourced)), NEW owner, NEW roles,
         \A i \in DOMAIN seqs : Counted(seqs[i]),
         \A i \in DOMAIN seqs : \A a \in Range(seqs[i]) : a.owner = owner[i] /\ a.role \in roles,
         \A i, j \in DOMAIN seqs : owner[i] = owner[j] => i = j
  PROVE  /\ FlattenSeq(seqs) \in Seq(Sourced) /\ Counted(FlattenSeq(seqs))
         /\ Range(FlattenSeq(seqs)) = UNION {Range(seqs[i]) : i \in DOMAIN seqs}
         /\ \A a \in Range(FlattenSeq(seqs)) : a.role \in roles
  <1>1. \A i, j \in DOMAIN seqs : i # j => KeysApart(seqs[i], seqs[j])
    BY DEF KeysApart, SameKey
  <1>2. Counted(FlattenSeq(seqs))
    BY <1>1, FlattenCounted
  <1>3. PICK S : S = Sourced
    OBVIOUS
  <1>4. seqs \in Seq(Seq(S))
    BY <1>3
  <1>5. /\ FlattenSeq(seqs) \in Seq(S)
        /\ Range(FlattenSeq(seqs)) = UNION {Range(seqs[i]) : i \in DOMAIN seqs}
    BY <1>4, FlattenRange
  <1>6. ASSUME NEW a \in Range(FlattenSeq(seqs)) PROVE a.role \in roles
    BY <1>5
  <1> QED BY <1>2, <1>3, <1>5, <1>6

\* What the linker goes through, as a set.
AllSources(p) ==
    (UNION {Range(SymbolSources(s)) : s \in Range(p.symbols)}) \cup
    {MenuSource(m) : m \in Range(p.menus)} \cup
    (UNION {Range(ChoiceSources(c)) : c \in Range(p.choices)}) \cup
    (UNION {Range(ConstraintSources(c)) : c \in Range(p.constraints)})

LEMMA SymbolBlock ==
  ASSUME project \in Projects, symbols = ById(project.symbols)
  PROVE  LET block == FlattenSeq([i \in DOMAIN symbols |-> SymbolSources(symbols[i])])
         IN  /\ block \in Seq(Sourced) /\ Counted(block)
             /\ Range(block) = UNION {Range(SymbolSources(s)) : s \in Range(project.symbols)}
             /\ \A a \in Range(block) : a.role \in SymbolRoles
  <1>1. PICK seq, n : seq = project.symbols /\ n = Len(seq)
    OBVIOUS
  <1>2. seq \in Seq(SymbolNode) /\ Distinct(seq)
    BY <1>1, ProjectFacts
  <1>3. /\ symbols \in Seq(SymbolNode) /\ n \in Nat /\ DOMAIN symbols = 1..n
        /\ Range(symbols) = Range(seq)
        /\ \A i \in 1..n : symbols[i] \in SymbolNode /\ symbols[i].id \in Nat
        /\ \A i, j \in 1..n : i < j <=> symbols[i].id < symbols[j].id
    <2>1. \A x \in SymbolNode : x.id \in Nat
      BY NodeIds
    <2> QED BY <1>1, <1>2, <2>1, ByIdFacts
  <1> DEFINE seqs == [i \in 1..n |-> SymbolSources(symbols[i])]
             owner == [i \in 1..n |-> symbols[i].id]
  <1>4. /\ \A i \in 1..n : seqs[i] \in Seq(Sourced) /\ Counted(seqs[i])
        /\ \A i \in 1..n : \A a \in Range(seqs[i]) : a.owner = owner[i] /\ a.role \in SymbolRoles
    BY <1>3, SymbolSourcesFacts
  <1>5. DOMAIN seqs = 1..n /\ seqs \in Seq(Seq(Sourced))
    BY <1>3, <1>4
  <1>6. \A i, j \in 1..n : owner[i] = owner[j] => i = j
    BY <1>3
  <1>7. UNION {Range(seqs[i]) : i \in 1..n} =
            UNION {Range(SymbolSources(s)) : s \in Range(project.symbols)}
    <2>1. Range(symbols) = {symbols[i] : i \in 1..n}
      BY <1>3 DEF Range
    <2>2. \A i \in 1..n : seqs[i] = SymbolSources(symbols[i])
      OBVIOUS
    <2> HIDE DEF seqs
    <2> QED BY <1>1, <1>3, <2>1, <2>2
  <1>8. seqs = [i \in DOMAIN symbols |-> SymbolSources(symbols[i])]
    BY <1>3
  <1>9. PICK roles : roles = SymbolRoles
    OBVIOUS
  <1> HIDE DEF seqs, owner
  <1>10. /\ FlattenSeq(seqs) \in Seq(Sourced) /\ Counted(FlattenSeq(seqs))
         /\ Range(FlattenSeq(seqs)) = UNION {Range(seqs[i]) : i \in DOMAIN seqs}
         /\ \A a \in Range(FlattenSeq(seqs)) : a.role \in roles
    <2>1. PICK os : os = owner
      OBVIOUS
    <2>2. /\ \A i \in DOMAIN seqs : Counted(seqs[i])
          /\ \A i \in DOMAIN seqs : \A a \in Range(seqs[i]) : a.owner = os[i] /\ a.role \in roles
          /\ \A i, j \in DOMAIN seqs : os[i] = os[j] => i = j
      BY <1>4, <1>5, <1>6, <1>9, <2>1
    <2> QED BY ONLY <1>5, <2>2, BlockFacts
  <1> QED BY <1>5, <1>7, <1>8, <1>9, <1>10

LEMMA ChoiceBlock ==
  ASSUME project \in Projects
  PROVE  LET block == FlattenSeq([i \in DOMAIN project.choices |-> ChoiceSources(project.choices[i])])
         IN  /\ block \in Seq(Sourced) /\ Counted(block)
             /\ Range(block) = UNION {Range(ChoiceSources(s)) : s \in Range(project.choices)}
             /\ \A a \in Range(block) : a.role \in ChoiceRoles
  <1>1. PICK seq, n : seq = project.choices /\ n = Len(seq)
    OBVIOUS
  <1>2. seq \in Seq(ChoiceNode) /\ Distinct(seq)
    BY <1>1, ProjectFacts
  <1>3. n \in Nat /\ DOMAIN seq = 1..n /\ \A i \in 1..n : seq[i] \in ChoiceNode
    BY <1>1, <1>2
  <1> DEFINE seqs == [i \in 1..n |-> ChoiceSources(seq[i])]
             owner == [i \in 1..n |-> seq[i].id]
  <1>4. /\ \A i \in 1..n : seqs[i] \in Seq(Sourced) /\ Counted(seqs[i])
        /\ \A i \in 1..n : \A a \in Range(seqs[i]) : a.owner = owner[i] /\ a.role \in ChoiceRoles
    BY <1>3, ChoiceSourcesFacts
  <1>5. DOMAIN seqs = 1..n /\ seqs \in Seq(Seq(Sourced))
    BY <1>3, <1>4
  <1>6. \A i, j \in 1..n : owner[i] = owner[j] => i = j
    BY <1>2, <1>3 DEF Distinct
  <1>7. UNION {Range(seqs[i]) : i \in 1..n} = UNION {Range(ChoiceSources(s)) : s \in Range(seq)}
    <2>1. Range(seq) = {seq[i] : i \in 1..n}
      BY <1>3 DEF Range
    <2>2. \A i \in 1..n : seqs[i] = ChoiceSources(seq[i])
      OBVIOUS
    <2> HIDE DEF seqs
    <2> QED BY <2>1, <2>2
  <1>8. seqs = [i \in DOMAIN project.choices |-> ChoiceSources(project.choices[i])]
    BY <1>1, <1>3
  <1>9. PICK roles : roles = ChoiceRoles
    OBVIOUS
  <1> HIDE DEF seqs, owner
  <1>10. /\ FlattenSeq(seqs) \in Seq(Sourced) /\ Counted(FlattenSeq(seqs))
         /\ Range(FlattenSeq(seqs)) = UNION {Range(seqs[i]) : i \in DOMAIN seqs}
         /\ \A a \in Range(FlattenSeq(seqs)) : a.role \in roles
    <2>1. PICK os : os = owner
      OBVIOUS
    <2>2. /\ \A i \in DOMAIN seqs : Counted(seqs[i])
          /\ \A i \in DOMAIN seqs : \A a \in Range(seqs[i]) : a.owner = os[i] /\ a.role \in roles
          /\ \A i, j \in DOMAIN seqs : os[i] = os[j] => i = j
      BY <1>4, <1>5, <1>6, <1>9, <2>1
    <2> QED BY ONLY <1>5, <2>2, BlockFacts
  <1> QED BY <1>1, <1>5, <1>7, <1>8, <1>9, <1>10

\* The constraints are the last block, in pairs.
LEMMA ConstraintBlock ==
  ASSUME project \in Projects
  PROVE  LET block == FlattenSeq([i \in DOMAIN project.constraints |->
                                     ConstraintSources(project.constraints[i])])
             n == Len(project.constraints)
         IN  /\ block \in Seq(Sourced) /\ Counted(block)
             /\ Range(block) = UNION {Range(ConstraintSources(s)) : s \in Range(project.constraints)}
             /\ \A a \in Range(block) : a.role \in ConstraintRoles
             /\ n \in Nat /\ Len(block) = 2 * n
             /\ \A i \in 1..n :
                   /\ block[2 * i - 1] = ConstraintSources(project.constraints[i])[1]
                   /\ block[2 * i] = ConstraintSources(project.constraints[i])[2]
  <1>1. PICK seq, n : seq = project.constraints /\ n = Len(seq)
    OBVIOUS
  <1>2. seq \in Seq(ConstraintNode) /\ Distinct(seq)
    BY <1>1, ProjectFacts
  <1>3. n \in Nat /\ DOMAIN seq = 1..n /\ \A i \in 1..n : seq[i] \in ConstraintNode
    BY <1>1, <1>2
  <1> DEFINE seqs == [i \in 1..n |-> ConstraintSources(seq[i])]
             owner == [i \in 1..n |-> seq[i].id]
  <1>4. /\ \A i \in 1..n : seqs[i] \in Seq(Sourced) /\ Counted(seqs[i]) /\ Len(seqs[i]) = 2
        /\ \A i \in 1..n : \A a \in Range(seqs[i]) :
              a.owner = owner[i] /\ a.role \in ConstraintRoles
    BY <1>3, ConstraintSourcesFacts
  <1>5. DOMAIN seqs = 1..n /\ seqs \in Seq(Seq(Sourced)) /\ n = Len(seqs)
    BY <1>3, <1>4
  <1>6. \A i, j \in 1..n : owner[i] = owner[j] => i = j
    BY <1>2, <1>3 DEF Distinct
  <1>7. UNION {Range(seqs[i]) : i \in 1..n} = UNION {Range(ConstraintSources(s)) : s \in Range(seq)}
    <2>1. Range(seq) = {seq[i] : i \in 1..n}
      BY <1>3 DEF Range
    <2>2. \A i \in 1..n : seqs[i] = ConstraintSources(seq[i])
      OBVIOUS
    <2> HIDE DEF seqs
    <2> QED BY <2>1, <2>2
  <1>8. seqs = [i \in DOMAIN project.constraints |-> ConstraintSources(project.constraints[i])]
    BY <1>1, <1>3
  <1>9. \A i \in 1..n : seqs[i] = ConstraintSources(project.constraints[i])
    BY <1>1
  <1> HIDE DEF seqs, owner
  <1>10. /\ FlattenSeq(seqs) \in Seq(Sourced) /\ Counted(FlattenSeq(seqs))
         /\ Range(FlattenSeq(seqs)) = UNION {Range(seqs[i]) : i \in DOMAIN seqs}
         /\ \A a \in Range(FlattenSeq(seqs)) : a.role \in ConstraintRoles
    <2>1. PICK os, roles : os = owner /\ roles = ConstraintRoles
      OBVIOUS
    <2>2. /\ \A i \in DOMAIN seqs : Counted(seqs[i])
          /\ \A i \in DOMAIN seqs : \A a \in Range(seqs[i]) : a.owner = os[i] /\ a.role \in roles
          /\ \A i, j \in DOMAIN seqs : os[i] = os[j] => i = j
      BY <1>4, <1>5, <1>6, <2>1
    <2>3. /\ FlattenSeq(seqs) \in Seq(Sourced) /\ Counted(FlattenSeq(seqs))
          /\ Range(FlattenSeq(seqs)) = UNION {Range(seqs[i]) : i \in DOMAIN seqs}
          /\ \A a \in Range(FlattenSeq(seqs)) : a.role \in roles
      BY ONLY <1>5, <2>2, BlockFacts
    <2> QED BY <2>1, <2>3
  <1>11. /\ Len(FlattenSeq(seqs)) = 2 * n
         /\ \A i \in 1..n : /\ FlattenSeq(seqs)[2 * i - 1] = seqs[i][1]
                            /\ FlattenSeq(seqs)[2 * i] = seqs[i][2]
    <2>1. PICK S : S = Sourced
      OBVIOUS
    <2>2. seqs \in Seq(Seq(S)) /\ n = Len(seqs) /\ \A i \in 1..n : Len(seqs[i]) = 2
      BY <1>4, <1>5, <2>1
    <2> QED BY ONLY <2>2, FlattenPairs
  <1> QED BY <1>1, <1>3, <1>5, <1>7, <1>8, <1>9, <1>10, <1>11

LEMMA MenuBlock ==
  ASSUME project \in Projects
  PROVE  LET block == [i \in DOMAIN project.menus |-> MenuSource(project.menus[i])]
         IN  /\ block \in Seq(Sourced) /\ Counted(block)
             /\ Range(block) = {MenuSource(m) : m \in Range(project.menus)}
             /\ \A a \in Range(block) : a.role \in MenuRoles
  <1>1. PICK seq, n : seq = project.menus /\ n = Len(seq)
    OBVIOUS
  <1>2. seq \in Seq(MenuNode) /\ Distinct(seq)
    BY <1>1, ProjectFacts
  <1>3. n \in Nat /\ DOMAIN seq = 1..n /\ \A i \in 1..n : seq[i] \in MenuNode
    BY <1>1, <1>2
  <1> DEFINE block == [i \in 1..n |-> MenuSource(seq[i])]
  <1>4. \A i \in 1..n : /\ block[i] \in Sourced /\ block[i].owner = seq[i].id
                        /\ block[i].role \in MenuRoles /\ block[i].occurrence = 0
    BY <1>3, MenuSourceFacts
  <1>5. block \in [1..n -> Sourced]
    BY <1>4
  <1>6. block = [i \in DOMAIN project.menus |-> MenuSource(project.menus[i])]
    BY <1>1, <1>3
  <1>7. Range(block) = {MenuSource(m) : m \in Range(seq)}
    <2>1. Range(seq) = {seq[i] : i \in 1..n}
      BY <1>3 DEF Range
    <2>2. Range(block) = {MenuSource(seq[i]) : i \in 1..n}
      BY DEF Range
    <2> QED BY <2>1, <2>2
  <1>8. \A a \in Range(block) : a.role \in MenuRoles
    BY <1>4 DEF Range
  <1> HIDE DEF block
  <1>9. \A i, j \in 1..n : SameKey(block[i], block[j]) => i = j
    BY <1>2, <1>3, <1>4 DEF SameKey, Distinct
  <1>10. block \in Seq(Sourced) /\ Counted(block)
    BY <1>3, <1>4, <1>5, <1>9, SinglesCounted
  <1> QED BY <1>1, <1>6, <1>7, <1>8, <1>10

\* What the linker goes through: every role and owner counted, the constraints last.
LEMMA SourcesFacts ==
  ASSUME project \in Projects, symbols = ById(project.symbols)
  PROVE  /\ Sources \in Seq(Sourced) /\ Counted(Sources) /\ Range(Sources) = AllSources(project)
         /\ Len(project.constraints) \in Nat
         /\ \E base \in Nat :
               /\ Len(Sources) = base + 2 * Len(project.constraints)
               /\ \A i \in 1..Len(project.constraints) :
                     LET c == project.constraints[i]
                     IN  /\ Sources[base + 2 * i - 1] =
                               Source("constraint_when", c.id, Missing, "bool", c.when, 0)
                         /\ Sources[base + 2 * i] =
                               Source("constraint_require", c.id, Missing, "bool", c.require, 0)
  <1>1. PICK a, b, c, d, S :
            /\ a = FlattenSeq([i \in DOMAIN symbols |-> SymbolSources(symbols[i])])
            /\ b = [i \in DOMAIN project.menus |-> MenuSource(project.menus[i])]
            /\ c = FlattenSeq([i \in DOMAIN project.choices |-> ChoiceSources(project.choices[i])])
            /\ d = FlattenSeq([i \in DOMAIN project.constraints |->
                                  ConstraintSources(project.constraints[i])])
            /\ S = Sourced
    OBVIOUS
  <1>2. Sources = a \o b \o c \o d
    BY <1>1, Zenon DEF Sources
  <1>3. /\ a \in Seq(Sourced) /\ Counted(a)
        /\ Range(a) = UNION {Range(SymbolSources(s)) : s \in Range(project.symbols)}
        /\ \A x \in Range(a) : x.role \in SymbolRoles
    BY <1>1, SymbolBlock
  <1>4. /\ b \in Seq(Sourced) /\ Counted(b)
        /\ Range(b) = {MenuSource(m) : m \in Range(project.menus)}
        /\ \A x \in Range(b) : x.role \in MenuRoles
    BY <1>1, MenuBlock
  <1>5. /\ c \in Seq(Sourced) /\ Counted(c)
        /\ Range(c) = UNION {Range(ChoiceSources(s)) : s \in Range(project.choices)}
        /\ \A x \in Range(c) : x.role \in ChoiceRoles
    BY <1>1, ChoiceBlock
  <1>6. PICK n : /\ n = Len(project.constraints) /\ n \in Nat
                 /\ d \in Seq(Sourced) /\ Counted(d)
                 /\ Range(d) = UNION {Range(ConstraintSources(s)) : s \in Range(project.constraints)}
                 /\ \A x \in Range(d) : x.role \in ConstraintRoles
                 /\ Len(d) = 2 * n
                 /\ \A i \in 1..n : /\ d[2 * i - 1] = ConstraintSources(project.constraints[i])[1]
                                    /\ d[2 * i] = ConstraintSources(project.constraints[i])[2]
    BY <1>1, ConstraintBlock
  <1>7. PICK ab : ab = a \o b
    OBVIOUS
  <1>8. ab \in Seq(Sourced) /\ Counted(ab) /\ Range(ab) = Range(a) \cup Range(b)
    <2>1. KeysApart(a, b)
      BY <1>3, <1>4 DEF KeysApart, SameKey, SymbolRoles, MenuRoles
    <2>2. a \in Seq(Sourced) /\ Counted(a) /\ b \in Seq(Sourced) /\ Counted(b)
      BY <1>3, <1>4
    <2>3. ab \in Seq(Sourced) /\ Counted(ab)
      BY ONLY <1>7, <2>1, <2>2, ConcatCounted
    <2>4. Range(ab) = Range(a) \cup Range(b)
      BY ONLY <1>7, <2>2, RangeConcat
    <2> QED BY <2>3, <2>4
  <1>9. PICK abc : abc = ab \o c
    OBVIOUS
  <1>10. abc \in Seq(Sourced) /\ Counted(abc) /\ Range(abc) = Range(ab) \cup Range(c)
    <2>1. KeysApart(ab, c)
      BY <1>3, <1>4, <1>5, <1>8 DEF KeysApart, SameKey, SymbolRoles, MenuRoles, ChoiceRoles
    <2> QED BY ONLY <1>5, <1>8, <1>9, <2>1, ConcatCounted, RangeConcat
  <1>11. PICK all : all = abc \o d
    OBVIOUS
  <1>12. all \in Seq(Sourced) /\ Counted(all) /\ Range(all) = Range(abc) \cup Range(d)
    <2>1. KeysApart(abc, d)
      BY <1>3, <1>4, <1>5, <1>6, <1>8, <1>10
         DEF KeysApart, SameKey, SymbolRoles, MenuRoles, ChoiceRoles, ConstraintRoles
    <2> QED BY ONLY <1>6, <1>10, <1>11, <2>1, ConcatCounted, RangeConcat
  <1>13. Sources = all
    BY <1>2, <1>7, <1>9, <1>11, Zenon
  <1>14. Range(Sources) = AllSources(project)
    BY <1>3, <1>4, <1>5, <1>6, <1>8, <1>10, <1>12, <1>13 DEF AllSources
  <1>15. PICK base, m : base = Len(abc) /\ m = 2 * n
    OBVIOUS
  <1>16. /\ Len(all) = base + m /\ base \in Nat
         /\ \A i \in 1..m : all[base + i] = d[i]
    <2>1. abc \in Seq(S) /\ d \in Seq(S) /\ base = Len(abc) /\ m = Len(d)
      BY <1>1, <1>6, <1>10, <1>15
    <2> QED BY ONLY <1>11, <2>1, ConcatPlaces
  <1>17. ASSUME NEW i \in 1..n
         PROVE  LET k == project.constraints[i]
                IN  /\ Sources[base + 2 * i - 1] =
                          Source("constraint_when", k.id, Missing, "bool", k.when, 0)
                    /\ Sources[base + 2 * i] =
                          Source("constraint_require", k.id, Missing, "bool", k.require, 0)
    <2>1. PICK x, y : x = 2 * i - 1 /\ y = 2 * i
      OBVIOUS
    <2>2. x \in 1..m /\ y \in 1..m /\ base + 2 * i - 1 = base + x /\ base + 2 * i = base + y
      BY <1>6, <1>15, <1>16, <2>1
    <2>3. all[base + x] = d[x] /\ all[base + y] = d[y]
      BY <1>16, <2>2
    <2>4. /\ d[x] = ConstraintSources(project.constraints[i])[1]
          /\ d[y] = ConstraintSources(project.constraints[i])[2]
      BY <1>6, <2>1
    <2>5. project.constraints[i] \in ConstraintNode
      <3>1. project.constraints \in Seq(ConstraintNode)
        BY ProjectFacts
      <3> QED BY <1>6, <3>1
    <2> QED BY <1>13, <2>2, <2>3, <2>4, <2>5, ConstraintSourcesFacts
  <1> QED BY <1>6, <1>12, <1>13, <1>14, <1>15, <1>16, <1>17

\* An expression the linker accepts.
SourceWell(p, s) ==
    /\ s.text.ok /\ s.text.type = s.type
    /\ Range(s.text.refs) \subseteq Ids(p.symbols) \ {s.self}

\* The sorted options and the search among them.
LEMMA SymbolFacts ==
  ASSUME project \in Projects
  PROVE  /\ LET n == Len(project.symbols)
                sorted == ById(project.symbols)
            IN  /\ n \in Nat /\ sorted \in Seq(SymbolNode) /\ DOMAIN sorted = 1..n /\ Len(sorted) = n
                /\ \A i \in 1..n : sorted[i] \in SymbolNode /\ sorted[i].id \in Nat
                /\ \A i, j \in 1..n : i < j <=> sorted[i].id < sorted[j].id
                /\ Range(sorted) = Range(project.symbols)
         /\ \A id \in Nat : LET found == BinarySearch(ById(project.symbols), id)
               IN  /\ found \in 0..Len(project.symbols)
                   /\ found = Missing <=> id \notin Ids(project.symbols)
                   /\ found # Missing =>
                         found \in 1..Len(project.symbols) /\ ById(project.symbols)[found].id = id
  <1>1. project.symbols \in Seq(SymbolNode) /\ Distinct(project.symbols)
    BY ProjectFacts
  <1>2. PICK seq : seq = project.symbols
    OBVIOUS
  <1>3. seq \in Seq(SymbolNode) /\ Distinct(seq) /\ \A x \in SymbolNode : x.id \in Nat
    BY <1>1, <1>2, NodeIds
  <1>4. \A id \in Nat : id \in Ids(seq) <=> \E x \in Range(seq) : x.id = id
    BY DEF Ids
  <1>5. ASSUME NEW id \in Nat
        PROVE  LET found == BinarySearch(ById(seq), id)
               IN  /\ found \in 0..Len(seq)
                   /\ found = Missing <=> id \notin Ids(seq)
                   /\ found # Missing => found \in 1..Len(seq) /\ ById(seq)[found].id = id
    <2>1. LET found == BinarySearch(ById(seq), id)
          IN  /\ found \in 0..Len(seq)
              /\ found = Missing <=> \A x \in Range(seq) : x.id # id
              /\ found # Missing => found \in 1..Len(seq) /\ ById(seq)[found].id = id
      BY ONLY <1>3, FindById, id \in Nat
    <2>2. id \in Ids(seq) <=> \E x \in Range(seq) : x.id = id
      BY <1>4
    <2> QED BY ONLY <2>1, <2>2
  <1>6. /\ Len(seq) \in Nat /\ ById(seq) \in Seq(SymbolNode) /\ DOMAIN ById(seq) = 1..Len(seq)
        /\ Len(ById(seq)) = Len(seq)
        /\ \A i \in 1..Len(seq) : ById(seq)[i] \in SymbolNode /\ ById(seq)[i].id \in Nat
        /\ \A i, j \in 1..Len(seq) : i < j <=> ById(seq)[i].id < ById(seq)[j].id
        /\ Range(ById(seq)) = Range(seq)
    BY <1>3, ByIdFacts
  <1> QED BY <1>2, <1>5, <1>6

\* A loaded project has no foreign option and none twice.
LEMMA NoSymbolError ==
  ASSUME project \in Projects
  PROVE  LET sorted == ById(project.symbols)
         IN  FirstError([i \in DOMAIN sorted |-> SymbolError(sorted, i)]) = "none"
  <1>1. PICK n, sorted : /\ n = Len(project.symbols) /\ sorted = ById(project.symbols)
                         /\ n \in Nat /\ DOMAIN sorted = 1..n
                         /\ \A i \in 1..n : sorted[i] \in SymbolNode /\ sorted[i].id \in Nat
                         /\ \A i, j \in 1..n : i < j <=> sorted[i].id < sorted[j].id
    BY SymbolFacts
  <1>2. ASSUME NEW i \in 1..n PROVE SymbolError(sorted, i) = "none"
    <2>1. sorted[i].owned
      BY <1>1 DEF SymbolNode
    <2>2. ASSUME i > 1 PROVE sorted[i].id # sorted[i - 1].id
      <3>1. PICK j : j = i - 1
        OBVIOUS
      <3>2. j \in 1..n /\ j < i
        BY <1>1, <2>2, <3>1
      <3>3. sorted[j].id < sorted[i].id
        BY <1>1, <3>2
      <3> QED BY <1>1, <3>1, <3>2, <3>3
    <2> QED BY <2>1, <2>2 DEF SymbolError
  <1>3. PICK errors : errors = [i \in DOMAIN sorted |-> SymbolError(sorted, i)]
    OBVIOUS
  <1>4. DOMAIN errors = 1..n /\ \A i \in 1..n : errors[i] = "none"
    BY <1>1, <1>2, <1>3
  <1>5. FirstError(errors) = "none"
    BY ONLY <1>1, <1>4, FirstErrorFacts
  <1> QED BY <1>1, <1>3, <1>5

\* What append_expression refuses.
LEMMA LinkErrorFacts ==
  ASSUME project \in Projects, symbols = ById(project.symbols),
         NEW s \in Sourced, s.text # NoText
  PROVE  /\ LinkError(s) = "none" <=> SourceWell(project, s)
         /\ LinkError(s) \in {"none", "expression", "result type", "self reference"}
  <1>1. s.text \in Written /\ s.text.refs \in Seq(Nat) /\ s.text.ok \in BOOLEAN
    <2>1. s.text \in Text
      BY DEF Sourced
    <2>2. s.text \in Written
      BY <2>1 DEF Text
    <2> QED BY <2>2 DEF Written
  <1>2. \A r \in Range(s.text.refs) : r \in Nat
    <2>1. PICK refs : refs = s.text.refs
      OBVIOUS
    <2>2. refs \in Seq(Nat)
      BY <1>1, <2>1
    <2>3. \A r \in Range(refs) : r \in Nat
      BY <2>2 DEF Range
    <2> QED BY <2>1, <2>3
  <1>3. PICK n : /\ n = Len(project.symbols) /\ DOMAIN symbols = 1..n
                 /\ Range(symbols) = Range(project.symbols)
    BY SymbolFacts
  <1>4. \A r : (\E i \in DOMAIN symbols : symbols[i].id = r) <=> r \in Ids(project.symbols)
    <2>1. Range(symbols) = {symbols[i] : i \in DOMAIN symbols}
      BY DEF Range
    <2>2. Ids(project.symbols) = {x.id : x \in Range(symbols)}
      BY <1>3 DEF Ids
    <2> QED BY <2>1, <2>2
  <1>5. \A r \in Range(s.text.refs) : FindSymbol(r) = Missing <=> r \notin Ids(project.symbols)
    BY <1>2, SymbolFacts DEF FindSymbol
  <1>6. TypeChecks(s.text) <=> s.text.ok /\ Range(s.text.refs) \subseteq Ids(project.symbols)
    BY <1>4 DEF TypeChecks
  <1> QED BY <1>5, <1>6 DEF LinkError, SourceWell

\* Expressions as the linker appends them.
Entry == [role : Range(Roles), owner : Nat, occurrence : Nat, source_order : Nat, text : Text]
EntryOf(s, i) == [role |-> s.role, owner |-> s.owner, occurrence |-> s.occurrence,
                  source_order |-> i, text |-> s.text]

\* es has the first k of the sources, without the absent ones; pos says where.
Selected(es, ss, pos, k) ==
    /\ pos \in [1..Len(es) -> 1..k]
    /\ \A i, j \in 1..Len(es) : i < j => pos[i] < pos[j]
    /\ \A i \in 1..Len(es) : es[i] = EntryOf(ss[pos[i]], i - 1) /\ ss[pos[i]].text # NoText
    /\ \A j \in 1..k : ss[j].text # NoText => \E i \in 1..Len(es) : pos[i] = j
Gathered(es, ss, k) == es \in Seq(Entry) /\ \E pos : Selected(es, ss, pos, k)

LEMMA GatheredNone ==
  ASSUME NEW ss
  PROVE  Gathered(<<>>, ss, 0)
  <1>1. <<>> \in Seq(Entry) /\ Len(<<>>) = 0
    OBVIOUS
  <1>2. PICK pos : pos = [i \in 1..0 |-> i]
    OBVIOUS
  <1>3. pos \in [1..0 -> 1..0]
    BY <1>2
  <1>4. Selected(<<>>, ss, pos, 0)
    BY <1>1, <1>3 DEF Selected
  <1> QED BY <1>1, <1>4 DEF Gathered

LEMMA GatheredSkip ==
  ASSUME NEW ss, NEW es, NEW k \in Nat, Gathered(es, ss, k), ss[k + 1].text = NoText
  PROVE  Gathered(es, ss, k + 1)
  <1>1. PICK pos : Selected(es, ss, pos, k)
    BY DEF Gathered
  <1>2. PICK n : n = Len(es) /\ n \in Nat
    BY DEF Gathered
  <1>3. pos \in [1..n -> 1..(k + 1)]
    BY <1>1, <1>2 DEF Selected
  <1>4. ASSUME NEW j \in 1..(k + 1), ss[j].text # NoText PROVE \E i \in 1..n : pos[i] = j
    <2>1. j \in 1..k
      BY <1>4
    <2> QED BY <1>1, <1>2, <1>4, <2>1 DEF Selected
  <1>5. Selected(es, ss, pos, k + 1)
    BY <1>1, <1>2, <1>3, <1>4 DEF Selected
  <1> QED BY <1>5 DEF Gathered

LEMMA GatheredAppend ==
  ASSUME NEW ss, NEW es, NEW k \in Nat, Gathered(es, ss, k), ss[k + 1] \in Sourced,
         ss[k + 1].text # NoText, NEW e, e = EntryOf(ss[k + 1], Len(es))
  PROVE  Gathered(Append(es, e), ss, k + 1)
  <1>1. PICK pos : Selected(es, ss, pos, k)
    BY DEF Gathered
  <1>2. PICK n : n = Len(es) /\ n \in Nat
    BY DEF Gathered
  <1>3. PICK fs, m, l : fs = Append(es, e) /\ m = n + 1 /\ l = k + 1
    OBVIOUS
  <1>4. e \in Entry
    BY <1>2 DEF EntryOf, Entry, Sourced
  <1>5. /\ fs \in Seq(Entry) /\ Len(fs) = m /\ \A i \in 1..n : fs[i] = es[i]
        /\ fs[m] = e /\ m \in 1..m /\ m \in Nat
    BY <1>2, <1>3, <1>4 DEF Gathered
  <1>6. PICK q : q = [i \in 1..m |-> IF i = m THEN l ELSE pos[i]]
    OBVIOUS
  <1>7. /\ pos \in [1..n -> 1..k]
        /\ \A i, j \in 1..n : i < j => pos[i] < pos[j]
        /\ \A i \in 1..n : es[i] = EntryOf(ss[pos[i]], i - 1) /\ ss[pos[i]].text # NoText
        /\ \A j \in 1..k : ss[j].text # NoText => \E i \in 1..n : pos[i] = j
    BY <1>1, <1>2 DEF Selected
  <1>8. /\ \A i \in 1..n : i \in 1..m /\ i # m /\ q[i] = pos[i] /\ q[i] \in 1..l /\ q[i] < l
        /\ q[m] = l /\ l \in 1..l
    BY <1>2, <1>3, <1>6, <1>7
  <1>9. \A i \in 1..m : i # m => i \in 1..n
    BY <1>2, <1>3
  <1>10. q \in [1..m -> 1..l]
    BY <1>6, <1>8, <1>9
  <1>11. \A i, j \in 1..m : i < j => q[i] < q[j]
    <2> SUFFICES ASSUME NEW i \in 1..m, NEW j \in 1..m, i < j PROVE q[i] < q[j]
      OBVIOUS
    <2>1. i # m
      BY <1>5
    <2>2. CASE j = m
      BY <1>8, <1>9, <2>1, <2>2
    <2>3. CASE j # m
      BY <1>7, <1>8, <1>9, <2>1, <2>3
    <2> QED BY <2>2, <2>3
  <1>12. \A i \in 1..m : fs[i] = EntryOf(ss[q[i]], i - 1) /\ ss[q[i]].text # NoText
    <2> SUFFICES ASSUME NEW i \in 1..m
                 PROVE  fs[i] = EntryOf(ss[q[i]], i - 1) /\ ss[q[i]].text # NoText
      OBVIOUS
    <2>1. CASE i = m
      <3>1. i - 1 = Len(es)
        BY <1>2, <1>3, <2>1
      <3> QED BY <1>3, <1>5, <1>8, <2>1, <3>1
    <2>2. CASE i # m
      BY <1>5, <1>7, <1>8, <1>9, <2>2
    <2> QED BY <2>1, <2>2
  <1>13. ASSUME NEW j \in 1..l, ss[j].text # NoText PROVE \E i \in 1..m : q[i] = j
    <2>1. CASE j = l
      BY <1>5, <1>8, <2>1
    <2>2. CASE j # l
      <3>1. j \in 1..k
        BY <1>3, <2>2
      <3>2. PICK i \in 1..n : pos[i] = j
        BY <1>7, <1>13, <3>1
      <3> QED BY <1>8, <3>2
    <2> QED BY <2>1, <2>2
  <1>14. Selected(fs, ss, q, l)
    BY <1>5, <1>10, <1>11, <1>12, <1>13 DEF Selected
  <1> QED BY <1>3, <1>5, <1>14 DEF Gathered

\* The expressions keep the order of the sources, and what counts them.
LEMMA GatheredCounted ==
  ASSUME NEW ss \in Seq(Sourced), Counted(ss), NEW es, Gathered(es, ss, Len(ss))
  PROVE  /\ Counted(es)
         /\ \A i \in 1..Len(es) : es[i].source_order = i - 1 /\ es[i].text # NoText
         /\ \A j \in 1..Len(ss) : ss[j].text # NoText =>
               \E i \in 1..Len(es) : /\ SameKey(es[i], ss[j]) /\ es[i].occurrence = ss[j].occurrence
                                     /\ es[i].text = ss[j].text
         /\ \A i \in 1..Len(es) : \E j \in 1..Len(ss) :
               /\ SameKey(es[i], ss[j]) /\ es[i].occurrence = ss[j].occurrence
               /\ es[i].text = ss[j].text
  <1>1. PICK N, n, pos : N = Len(ss) /\ N \in Nat /\ DOMAIN ss = 1..N /\ n = Len(es)
                         /\ Selected(es, ss, pos, N)
    <2>1. \E pos : Selected(es, ss, pos, Len(ss))
      BY DEF Gathered
    <2>2. Len(ss) \in Nat /\ DOMAIN ss = 1..Len(ss)
      OBVIOUS
    <2> QED BY <2>1, <2>2
  <1>2. n \in Nat /\ DOMAIN es = 1..n /\ \A i \in 1..n : es[i] \in Entry
    BY <1>1 DEF Gathered
  <1>3. /\ \A i \in 1..n : pos[i] \in 1..N
        /\ \A i, j \in 1..n : i < j => pos[i] < pos[j]
        /\ \A i \in 1..n : es[i] = EntryOf(ss[pos[i]], i - 1) /\ ss[pos[i]].text # NoText
        /\ \A j \in 1..N : ss[j].text # NoText => \E i \in 1..n : pos[i] = j
    BY <1>1 DEF Selected
  <1>4. \A i \in 1..n : /\ es[i].role = ss[pos[i]].role /\ es[i].owner = ss[pos[i]].owner
                        /\ es[i].occurrence = ss[pos[i]].occurrence
                        /\ es[i].text = ss[pos[i]].text /\ es[i].source_order = i - 1
    <2> SUFFICES ASSUME NEW i \in 1..n
                 PROVE  /\ es[i].role = ss[pos[i]].role /\ es[i].owner = ss[pos[i]].owner
                        /\ es[i].occurrence = ss[pos[i]].occurrence
                        /\ es[i].text = ss[pos[i]].text /\ es[i].source_order = i - 1
      OBVIOUS
    <2>1. PICK a, k : a = ss[pos[i]] /\ k = i - 1
      OBVIOUS
    <2>2. es[i] = EntryOf(a, k)
      BY <1>3, <2>1
    <2> QED BY <2>1, <2>2 DEF EntryOf
  <1>5. Rising(es)
    <2> SUFFICES ASSUME NEW i \in 1..n, NEW j \in 1..n, i < j, SameKey(es[i], es[j])
                 PROVE  es[i].occurrence < es[j].occurrence
      BY <1>2 DEF Rising
    <2>1. pos[i] < pos[j] /\ pos[i] \in 1..N /\ pos[j] \in 1..N
      BY <1>3
    <2>2. SameKey(ss[pos[i]], ss[pos[j]])
      BY <1>4 DEF SameKey
    <2>3. ss[pos[i]].occurrence < ss[pos[j]].occurrence
      BY <1>1, <2>1, <2>2 DEF Counted, Rising
    <2> QED BY <1>4, <2>3
  <1>6. Grounded(es)
    <2> SUFFICES ASSUME NEW i \in 1..n, es[i].occurrence > 0
                 PROVE  /\ es[i].text # NoText
                        /\ \E j \in 1..n : /\ SameKey(es[i], es[j])
                                           /\ es[j].occurrence = es[i].occurrence - 1
                                           /\ es[j].text # NoText
      BY <1>2 DEF Grounded
    <2>1. PICK k \in 1..N : /\ SameKey(ss[pos[i]], ss[k])
                            /\ ss[k].occurrence = ss[pos[i]].occurrence - 1 /\ ss[k].text # NoText
      BY <1>1, <1>3, <1>4 DEF Counted, Grounded
    <2>2. PICK j \in 1..n : pos[j] = k
      BY <1>3, <2>1
    <2>3. SameKey(es[i], es[j])
      BY <1>4, <2>1, <2>2 DEF SameKey
    <2>4. es[j].occurrence = es[i].occurrence - 1 /\ es[j].text # NoText
      BY <1>4, <2>1, <2>2
    <2>5. es[i].text # NoText
      BY <1>3, <1>4
    <2> QED BY <2>3, <2>4, <2>5
  <1>7. \A i \in 1..n : es[i].text # NoText
    BY <1>3, <1>4
  <1>8. ASSUME NEW j \in 1..N, ss[j].text # NoText
        PROVE  \E i \in 1..n : /\ SameKey(es[i], ss[j]) /\ es[i].occurrence = ss[j].occurrence
                               /\ es[i].text = ss[j].text
    <2>1. PICK i \in 1..n : pos[i] = j
      BY <1>3, <1>8
    <2> QED BY <1>4, <2>1 DEF SameKey
  <1>9. ASSUME NEW i \in 1..n
        PROVE  \E j \in 1..N : /\ SameKey(es[i], ss[j]) /\ es[i].occurrence = ss[j].occurrence
                               /\ es[i].text = ss[j].text
    BY <1>3, <1>4 DEF SameKey
  <1> QED BY <1>1, <1>4, <1>5, <1>6, <1>7, <1>8, <1>9 DEF Counted

\* The sources after the first ones are all there.
TailOf(ss, base, m) ==
    /\ base \in Nat /\ m \in Nat /\ Len(ss) = base + m
    /\ \A d \in 1..m : ss[base + d].text # NoText

\* They are the last expressions.
TailKept(es, ss, base, m) ==
    \E b : /\ b \in Nat /\ Len(es) = b + m
           /\ \A d \in 1..m : \E o : es[b + d] = EntryOf(ss[base + d], o)

\* Sources at the end that are all there are the last expressions.
LEMMA GatheredTail ==
  ASSUME NEW ss \in Seq(Sourced), NEW es, Gathered(es, ss, Len(ss)),
         NEW base, NEW m, TailOf(ss, base, m)
  PROVE  TailKept(es, ss, base, m)
  <1>0. /\ base \in Nat /\ m \in Nat /\ Len(ss) = base + m
        /\ \A d \in 1..m : ss[base + d].text # NoText
    BY DEF TailOf
  <1>1. PICK N, n, pos : N = Len(ss) /\ N \in Nat /\ n = Len(es) /\ Selected(es, ss, pos, N)
    BY DEF Gathered
  <1>2. n \in Nat
    BY <1>0, <1>1 DEF Gathered
  <1>3. /\ \A i \in 1..n : pos[i] \in 1..N
        /\ \A i, j \in 1..n : i < j => pos[i] < pos[j]
        /\ \A i \in 1..n : es[i] = EntryOf(ss[pos[i]], i - 1)
        /\ \A j \in 1..N : ss[j].text # NoText => \E i \in 1..n : pos[i] = j
    BY <1>0, <1>1 DEF Selected
  <1>4. \A d \in 0..(m - 1) : \E i \in 1..n : pos[i] = N - d
    <2> SUFFICES ASSUME NEW d \in 0..(m - 1) PROVE \E i \in 1..n : pos[i] = N - d
      BY <1>0
    <2>1. PICK c, j : c = m - d /\ j = base + c
      BY <1>0
    <2>2. c \in 1..m /\ j \in 1..N /\ j = N - d
      BY <1>0, <1>1, <2>1
    <2> QED BY <1>0, <1>3, <2>1, <2>2
  <1> DEFINE Good == {d \in Nat : d < m => n - d \in 1..n /\ pos[n - d] = N - d}
  <1>5. 0 \in Good
    <2> SUFFICES ASSUME 0 < m PROVE n \in 1..n /\ pos[n] = N
      BY <1>0, <1>1, <1>2
    <2>1. PICK i \in 1..n : pos[i] = N
      <3>1. 0 \in 0..(m - 1)
        BY <1>0
      <3>2. \E i \in 1..n : pos[i] = N - 0
        BY <1>0, <1>4, <3>1
      <3> QED BY <1>0, <1>1, <3>2
    <2>2. n \in 1..n /\ pos[n] \in 1..N
      BY <1>0, <1>2, <1>3
    <2>3. ~(i < n)
      BY <1>0, <1>1, <1>3, <2>1, <2>2
    <2> QED BY <1>0, <1>2, <2>1, <2>2, <2>3
  <1>6. ASSUME NEW d \in Nat, d \in Good PROVE d + 1 \in Good
    <2> SUFFICES ASSUME d + 1 < m PROVE n - (d + 1) \in 1..n /\ pos[n - (d + 1)] = N - (d + 1)
      BY <1>0
    <2>1. PICK c, x, y : c = d + 1 /\ x = n - d /\ y = n - c
      BY <1>0
    <2>2. x \in 1..n /\ pos[x] = N - d
      BY <1>0, <1>6, <2>1
    <2>3. PICK i \in 1..n : pos[i] = N - c
      <3>1. c \in 0..(m - 1)
        BY <1>0, <2>1
      <3> QED BY <1>0, <1>4, <3>1
    <2>4. i < x
      <3>1. pos[i] < pos[x]
        BY <1>0, <1>1, <2>1, <2>2, <2>3
      <3>2. pos[i] \in Int /\ pos[x] \in Int
        BY <1>0, <1>3, <2>2
      <3>3. x # i /\ ~(x < i)
        BY <1>0, <1>3, <2>2, <3>1, <3>2
      <3> QED BY <1>0, <2>2, <3>3
    <2>5. y \in 1..n /\ y < x /\ i <= y /\ x = y + 1
      BY <1>0, <1>2, <2>1, <2>2, <2>4
    <2>6. pos[y] < pos[x] /\ pos[y] \in 1..N
      BY <1>0, <1>3, <2>2, <2>5
    <2>7. ~(i < y)
      <3>1. i < y => pos[i] < pos[y]
        BY <1>0, <1>3, <2>5
      <3> QED BY <1>0, <1>1, <2>1, <2>2, <2>3, <2>6, <3>1
    <2>8. i = y
      BY <1>0, <2>5, <2>7
    <2> QED BY <1>0, <2>1, <2>3, <2>5, <2>8
  <1>7. \A d \in 0..(m - 1) : n - d \in 1..n /\ pos[n - d] = N - d
    <2>1. Nat \subseteq Good
      <3> HIDE DEF Good
      <3> QED BY <1>0, <1>5, <1>6, Induction
    <2> QED BY <1>0, <2>1
  <1>8. PICK b : b = n - m
    BY <1>0
  <1>9. b \in Nat /\ n = b + m
    <2>1. CASE m = 0
      BY <1>0, <1>2, <1>8, <2>1
    <2>2. CASE m # 0
      <3>1. m - 1 \in 0..(m - 1)
        BY <1>0, <2>2
      <3>2. n - (m - 1) \in 1..n
        BY <1>0, <1>7, <3>1
      <3> QED BY <1>0, <1>2, <1>8, <3>2
    <2> QED BY <1>0, <2>1, <2>2
  <1>10. ASSUME NEW d \in 1..m PROVE \E o : es[b + d] = EntryOf(ss[base + d], o)
    <2>1. PICK c, x, y : c = m - d /\ x = b + d /\ y = base + d
      BY <1>0
    <2>2. c \in 0..(m - 1) /\ x = n - c /\ y = N - c
      BY <1>0, <1>1, <1>9, <2>1
    <2>3. x \in 1..n /\ pos[x] = y
      BY <1>0, <1>7, <2>2
    <2>4. es[x] = EntryOf(ss[y], x - 1)
      BY <1>0, <1>3, <2>3
    <2> QED BY <1>0, <2>1, <2>4
  <1> QED BY <1>0, <1>1, <1>9, <1>10 DEF TailKept

\* The expressions are counted and the index is sorted.
Indexed ==
    /\ expressions \in Seq(Entry) /\ Counted(expressions)
    /\ \A i \in 1..Len(expressions) : expressions[i].source_order = i - 1
    /\ index = Sorted(expressions, {p \in Range(expressions) \X Range(expressions) :
                                      ExpressionBefore(p[1], p[2])})

\* The sorted index: its order, and the occurrences counted along it.
LEMMA IndexFacts ==
  ASSUME Indexed
  PROVE  LET n == Len(expressions)
         IN  /\ n \in Nat /\ index \in [1..n -> Entry] /\ Len(index) = n /\ DOMAIN index = 1..n
             /\ Range(index) = Range(expressions)
             /\ \A i, j \in 1..n : i < j <=> ExpressionBefore(index[i], index[j])
             /\ \A i, j \in 1..n : i < j /\ SameKey(index[i], index[j]) =>
                   index[i].occurrence < index[j].occurrence
             /\ \A i \in 1..n : index[i].occurrence > 0 =>
                   \E j \in 1..n : /\ SameKey(index[i], index[j])
                                   /\ index[j].occurrence = index[i].occurrence - 1
  <1>1. PICK n, es, S, before :
            /\ n = Len(expressions) /\ es = expressions /\ S = Range(expressions)
            /\ before = {p \in S \X S : ExpressionBefore(p[1], p[2])}
    OBVIOUS
  <1>2. /\ n \in Nat /\ DOMAIN es = 1..n /\ es \in Seq(Entry) /\ Counted(es)
        /\ \A i \in 1..n : es[i] \in Entry /\ es[i].source_order = i - 1
    BY <1>1 DEF Indexed
  <1>3. /\ S = {es[i] : i \in 1..n} /\ es = [i \in 1..n |-> es[i]]
    BY <1>1, <1>2 DEF Range
  <1>4. es \in [1..n -> S]
    BY <1>3
  <1>5. \A e \in S : /\ e \in Entry /\ e.role \in Range(Roles) /\ e.owner \in Nat
                     /\ e.source_order \in Nat /\ e.occurrence \in Nat
    <2>1. \A e \in S : e \in Entry
      BY <1>2, <1>3
    <2> QED BY <2>1 DEF Entry
  <1>6. \A e, f \in S : e.source_order = f.source_order => e = f
    BY <1>2, <1>3
  <1>7. /\ IsOrder(before, S)
        /\ \A e, f \in S : <<e, f>> \in before <=> ExpressionBefore(e, f)
    <2>1. before = {x \in S \X S : ExpressionBefore(x[1], x[2])}
      BY <1>1
    <2> QED BY ONLY <1>5, <1>6, <2>1, ExpressionOrder
  <1>8. \A i, j \in 1..n : es[i] = es[j] => i = j
    BY <1>2
  <1>9. PICK r : r = index
    OBVIOUS
  <1>10. r = Sorted(es, before)
    BY <1>1, <1>9 DEF Indexed
  <1>11. /\ r \in [1..n -> S] /\ Range(r) = S
         /\ \A i, j \in 1..n : i < j <=> <<r[i], r[j]>> \in before
    <2>1. S = Range(es)
      BY <1>1
    <2>2. /\ Sorted(es, before) \in [1..n -> S] /\ Range(Sorted(es, before)) = S
          /\ \A i, j \in 1..n :
                i < j <=> <<Sorted(es, before)[i], Sorted(es, before)[j]>> \in before
      <3>1. n \in Nat
        BY <1>2
      <3>2. IsOrder(before, S)
        BY <1>7
      <3> QED BY ONLY <1>4, <1>8, <2>1, <3>1, <3>2, SortedFacts
    <2> QED BY <1>10, <2>2
  <1>12. /\ \A i \in 1..n : r[i] \in S
         /\ \A i, j \in 1..n : i < j <=> ExpressionBefore(r[i], r[j])
    BY <1>7, <1>11
  <1>13. r \in [1..n -> Entry] /\ Len(r) = n /\ DOMAIN r = 1..n
    <2>1. \A i \in 1..n : r[i] \in Entry
      BY <1>5, <1>12
    <2>2. r \in [1..n -> Entry]
      BY <1>11, <2>1
    <2> QED BY <1>2, <2>2
  <1>14. ASSUME NEW i \in 1..n, NEW j \in 1..n, i < j, SameKey(r[i], r[j])
         PROVE  r[i].occurrence < r[j].occurrence
    <2>1. PICK x \in 1..n, y \in 1..n : r[i] = es[x] /\ r[j] = es[y]
      BY <1>3, <1>12
    <2>2. ExpressionBefore(r[i], r[j])
      BY <1>12, <1>14
    <2>3. r[i].source_order < r[j].source_order
      <3>1. RoleRank(r[i].role) \in Nat
        BY <1>5, <1>12, RoleRankFacts
      <3>2. r[i].owner \in Nat
        BY <1>5, <1>12
      <3> QED BY <1>14, <2>2, <3>1, <3>2 DEF SameKey, ExpressionBefore
    <2>4. x < y
      BY <1>2, <2>1, <2>3
    <2> QED BY <1>2, <1>14, <2>1, <2>4 DEF Counted, Rising
  <1>15. ASSUME NEW i \in 1..n, r[i].occurrence > 0
         PROVE  \E j \in 1..n : SameKey(r[i], r[j]) /\ r[j].occurrence = r[i].occurrence - 1
    <2>1. PICK x \in 1..n : r[i] = es[x]
      BY <1>3, <1>12
    <2>2. PICK y \in 1..n : SameKey(es[x], es[y]) /\ es[y].occurrence = es[x].occurrence - 1
      BY <1>2, <1>15, <2>1 DEF Counted, Grounded
    <2>3. es[y] \in Range(r)
      BY <1>3, <1>11
    <2>4. PICK j \in 1..n : r[j] = es[y]
      BY <1>13, <2>3 DEF Range
    <2> QED BY <2>1, <2>2, <2>4
  <1> QED BY <1>1, <1>2, <1>9, <1>11, <1>12, <1>13, <1>14, <1>15

HasKey(e, role, owner) == e.role = role /\ e.owner = owner

\* The entries of a role and an owner are together in the index, counted from 0.
LEMMA IndexBlock ==
  ASSUME Indexed, NEW role \in Range(Roles), NEW owner \in Nat
  PROVE  LET n == Len(expressions)
             below == {i \in DOMAIN index : \/ RoleRank(index[i].role) < RoleRank(role)
                                            \/ index[i].role = role /\ index[i].owner < owner}
             L == LowerBound(below, Len(index))
         IN  /\ L \in Nat
             /\ \A p \in 1..n : HasKey(index[p], role, owner) =>
                   /\ L < p /\ index[p].occurrence = p - L - 1
                   /\ \A i \in (L + 1)..p : HasKey(index[i], role, owner)
  <1>1. PICK n, r : /\ n = Len(expressions) /\ r = index /\ n \in Nat
                    /\ r \in [1..n -> Entry] /\ Len(r) = n /\ DOMAIN r = 1..n
                    /\ \A i, j \in 1..n : i < j <=> ExpressionBefore(r[i], r[j])
                    /\ \A i, j \in 1..n : i < j /\ SameKey(r[i], r[j]) =>
                          r[i].occurrence < r[j].occurrence
                    /\ \A i \in 1..n : r[i].occurrence > 0 =>
                          \E j \in 1..n : /\ SameKey(r[i], r[j])
                                          /\ r[j].occurrence = r[i].occurrence - 1
    BY IndexFacts
  <1>2. \A i \in 1..n : /\ r[i].role \in Range(Roles) /\ r[i].owner \in Nat
                        /\ r[i].occurrence \in Nat /\ RoleRank(r[i].role) \in Nat
    <2>1. \A i \in 1..n : r[i] \in Entry
      BY <1>1
    <2> QED BY <2>1, RoleRankFacts DEF Entry
  <1>3. RoleRank(role) \in Nat /\ \A i \in 1..n : RoleRank(r[i].role) = RoleRank(role) => r[i].role = role
    BY <1>2, RoleRankFacts
  <1>4. PICK below : below = {i \in 1..n : \/ RoleRank(r[i].role) < RoleRank(role)
                                           \/ r[i].role = role /\ r[i].owner < owner}
    OBVIOUS
  <1>5. \A i \in 1..n : i \in below <=> \/ RoleRank(r[i].role) < RoleRank(role)
                                        \/ r[i].role = role /\ r[i].owner < owner
    BY <1>4
  <1>6. ASSUME NEW i \in 1..n, NEW j \in 1..n, i < j, j \in below PROVE i \in below
    <2>1. ExpressionBefore(r[i], r[j])
      BY <1>1, <1>6
    <2> QED BY <1>2, <1>3, <1>5, <1>6, <2>1 DEF ExpressionBefore
  <1>7. PICK L : L = LowerBound(below, n) /\ L \in 0..n /\ below = 1..L
    <2>1. below \in SUBSET (1..n)
      BY <1>4
    <2> QED BY <1>1, <1>6, <2>1, LowerBoundFacts
  <1>7a. n \in Nat /\ L \in Nat /\ L <= n /\ \A i \in 1..n : i \in below <=> i <= L
    <2>1. n \in Nat
      BY <1>1
    <2>2. L \in Nat /\ L <= n
      BY <1>7, <2>1
    <2>3. below = 1..L
      BY <1>7
    <2>4. \A i \in 1..n : i \in below <=> i <= L
      BY <2>1, <2>2, <2>3
    <2> QED BY <2>1, <2>2, <2>4
  <1>8. ASSUME NEW p \in 1..n, HasKey(r[p], role, owner)
        PROVE  /\ L < p
               /\ \A i \in (L + 1)..p : HasKey(r[i], role, owner)
    <2>1. p \notin below
      BY <1>2, <1>3, <1>5, <1>8 DEF HasKey
    <2>2. L < p
      BY ONLY <1>7a, <2>1, p \in 1..n
    <2>3. ASSUME NEW i \in (L + 1)..p PROVE HasKey(r[i], role, owner)
      <3>1. i \in 1..n /\ i \notin below
        BY ONLY <1>7a, p \in 1..n, i \in (L + 1)..p
      <3>2. CASE i = p
        BY <1>8, <3>2
      <3>3. CASE i < p
        <4>1. ExpressionBefore(r[i], r[p])
          BY <1>1, <3>1, <3>3
        <4> QED BY <1>2, <1>3, <1>5, <1>8, <3>1, <4>1 DEF ExpressionBefore, HasKey
      <3> QED BY <1>7, <3>2, <3>3
    <2> QED BY <2>2, <2>3
  <1> DEFINE Good == {p \in Nat : p \in 1..n /\ HasKey(r[p], role, owner) =>
                                     r[p].occurrence = p - L - 1}
  <1>9. 0 \in Good
    OBVIOUS
  <1>10. ASSUME NEW q \in Nat, q \in Good PROVE q + 1 \in Good
    <2> SUFFICES ASSUME NEW p, p = q + 1, p \in 1..n, HasKey(r[p], role, owner)
                 PROVE  r[p].occurrence = p - L - 1
      OBVIOUS
    <2>1. L < p /\ \A i \in (L + 1)..p : HasKey(r[i], role, owner)
      BY <1>8
    <2>2. ASSUME r[p].occurrence > 0
          PROVE  \E j \in 1..n : /\ SameKey(r[p], r[j]) /\ r[j].occurrence = r[p].occurrence - 1
                                 /\ L < j /\ j < p
      <3>1. PICK j \in 1..n : SameKey(r[p], r[j]) /\ r[j].occurrence = r[p].occurrence - 1
        BY <1>1, <2>2
      <3>2. L < j
        BY <1>8, <3>1 DEF SameKey, HasKey
      <3>3. r[j].occurrence < r[p].occurrence
        BY <1>2, <3>1
      <3>4. j # p /\ ~(p < j)
        BY <1>1, <1>2, <3>1, <3>3
      <3>5. j < p
        BY <1>1, <3>4
      <3> QED BY <3>1, <3>2, <3>5
    <2>3. CASE p = L + 1
      <3>1. ~(r[p].occurrence > 0)
        <4> SUFFICES ASSUME r[p].occurrence > 0 PROVE FALSE
          OBVIOUS
        <4>1. PICK j \in 1..n : L < j /\ j < p
          BY <2>2
        <4> QED BY <1>7, <2>3, <4>1
      <3>2. r[p].occurrence \in Nat
        BY <1>2
      <3>3. r[p].occurrence = 0
        BY ONLY <3>1, <3>2
      <3> QED BY <1>7, <2>3, <3>3
    <2>4. CASE p # L + 1
      <3>1. q \in 1..n /\ q \in (L + 1)..p /\ q < p
        BY <1>1, <1>7, <2>1, <2>4
      <3>2. HasKey(r[q], role, owner)
        BY <2>1, <3>1
      <3>3. r[q].occurrence = q - L - 1
        BY <1>10, <3>1, <3>2
      <3>4. r[q].occurrence < r[p].occurrence
        BY <1>1, <3>1, <3>2 DEF SameKey, HasKey
      <3>5. PICK j \in 1..n : /\ SameKey(r[p], r[j]) /\ r[j].occurrence = r[p].occurrence - 1
                              /\ L < j /\ j < p
        BY <1>2, <2>2, <3>1, <3>4
      <3>6. r[j].occurrence <= r[q].occurrence
        <4>1. CASE j = q
          BY <1>2, <3>1, <4>1
        <4>2. CASE j < q
          <5>1. SameKey(r[j], r[q])
            BY <3>2, <3>5 DEF SameKey, HasKey
          <5>2. r[j].occurrence < r[q].occurrence
            BY <1>1, <3>1, <4>2, <5>1
          <5> QED BY <1>2, <3>1, <5>2
        <4> QED BY <3>5, <4>1, <4>2
      <3>7. r[p].occurrence \in Nat /\ r[q].occurrence \in Nat
        BY <1>2, <3>1
      <3>8. r[p].occurrence - 1 <= r[q].occurrence
        BY <3>5, <3>6
      <3>9. r[p].occurrence = r[q].occurrence + 1
        BY ONLY <3>4, <3>7, <3>8
      <3> QED BY ONLY <1>7a, <3>3, <3>9, p = q + 1, q \in Nat
    <2> QED BY <2>3, <2>4
  <1>11. \A p \in 1..n : HasKey(r[p], role, owner) => r[p].occurrence = p - L - 1
    <2>1. Nat \subseteq Good
      <3> HIDE DEF Good
      <3> QED BY <1>9, <1>10, Induction
    <2> QED BY <2>1
  <1>12. below = {i \in DOMAIN index : \/ RoleRank(index[i].role) < RoleRank(role)
                                       \/ index[i].role = role /\ index[i].owner < owner}
    BY <1>1, <1>4
  <1> HIDE DEF Good
  <1>13. L \in Nat /\ \A p \in 1..n : HasKey(r[p], role, owner) =>
             /\ L < p /\ r[p].occurrence = p - L - 1
             /\ \A i \in (L + 1)..p : HasKey(r[i], role, owner)
    BY <1>7a, <1>8, <1>11
  <1>14. n = Len(expressions) /\ n = Len(index) /\ r = index
    BY <1>1
  <1> QED BY <1>7, <1>12, <1>13, <1>14

\* Before an expression there are as many of its role and owner as it counts.
LEMMA ScanCount ==
  ASSUME Indexed, NEW role, NEW owner,
         NEW matches, matches = {i \in DOMAIN expressions : HasKey(expressions[i], role, owner)},
         NEW i \in matches
  PROVE  Cardinality({j \in matches : j < i}) = expressions[i].occurrence
  <1>1. PICK n, es : /\ n = Len(expressions) /\ es = expressions /\ n \in Nat
                     /\ DOMAIN es = 1..n /\ Counted(es)
                     /\ \A k \in 1..n : es[k] \in Entry
    BY DEF Indexed
  <1>2. \A k \in 1..n : es[k].occurrence \in Nat
    BY <1>1 DEF Entry
  <1>3. matches \subseteq 1..n /\ \A k \in matches : HasKey(es[k], role, owner)
    BY <1>1
  <1>4. \A k, l \in matches : k < l => es[k].occurrence < es[l].occurrence
    BY <1>1, <1>3 DEF Counted, Rising, HasKey, SameKey
  <1>5. \A k \in matches : es[k].occurrence > 0 =>
           \E l \in matches : es[l].occurrence = es[k].occurrence - 1
    <2> SUFFICES ASSUME NEW k \in matches, es[k].occurrence > 0
                 PROVE  \E l \in matches : es[l].occurrence = es[k].occurrence - 1
      OBVIOUS
    <2>1. PICK l \in 1..n : SameKey(es[k], es[l]) /\ es[l].occurrence = es[k].occurrence - 1
      BY <1>1, <1>3 DEF Counted, Grounded
    <2>2. l \in matches
      BY <1>1, <1>3, <2>1 DEF SameKey, HasKey
    <2> QED BY <2>1, <2>2
  <1>6. PICK a : a = es[i].occurrence /\ a \in Nat
    BY <1>2, <1>3
  <1> DEFINE Good == {d \in Nat : d <= a => \E j \in matches : es[j].occurrence = a - d}
  <1>7. 0 \in Good
    BY <1>6
  <1>8. ASSUME NEW d \in Nat, d \in Good PROVE d + 1 \in Good
    <2> SUFFICES ASSUME d + 1 <= a PROVE \E j \in matches : es[j].occurrence = a - (d + 1)
      OBVIOUS
    <2>1. PICK j \in matches : es[j].occurrence = a - d
      BY <1>6, <1>8
    <2>2. PICK l \in matches : es[l].occurrence = es[j].occurrence - 1
      BY <1>5, <1>6, <2>1
    <2> QED BY <1>6, <2>1, <2>2
  <1>9. \A k \in 1..a : \E j \in matches : j < i /\ es[j].occurrence = k - 1
    <2> SUFFICES ASSUME NEW k \in 1..a PROVE \E j \in matches : j < i /\ es[j].occurrence = k - 1
      OBVIOUS
    <2>1. Nat \subseteq Good
      <3> HIDE DEF Good
      <3> QED BY <1>7, <1>8, Induction
    <2>2. PICK d : d = a - k + 1
      OBVIOUS
    <2>3. d \in Nat /\ d <= a /\ a - d = k - 1
      BY <1>6, <2>2
    <2>4. PICK j \in matches : es[j].occurrence = k - 1
      BY <2>1, <2>3
    <2>5. j < i
      <3>1. j \in 1..n /\ i \in 1..n
        BY <1>3
      <3>2. ~(i < j) /\ i # j
        <4>1. i < j => a < es[j].occurrence
          BY <1>4, <1>6
        <4> QED BY <1>6, <2>4, <4>1
      <3> QED BY <1>1, <3>1, <3>2
    <2> QED BY <2>4, <2>5
  <1>10. PICK S : S = {j \in matches : j < i}
    OBVIOUS
  <1>11. PICK f : f = [k \in 1..a |-> CHOOSE j \in S : es[j].occurrence = k - 1]
    OBVIOUS
  <1>12. \A k \in 1..a : f[k] \in S /\ es[f[k]].occurrence = k - 1
    <2> SUFFICES ASSUME NEW k \in 1..a PROVE f[k] \in S /\ es[f[k]].occurrence = k - 1
      OBVIOUS
    <2>1. \E j \in S : es[j].occurrence = k - 1
      BY <1>9, <1>10
    <2>2. f[k] = CHOOSE j \in S : es[j].occurrence = k - 1
      BY <1>11
    <2> QED BY <2>1, <2>2
  <1>13. f \in [1..a -> S]
    BY <1>11, <1>12
  <1>14. \A x, y \in 1..a : f[x] = f[y] => x = y
    BY <1>6, <1>12
  <1>15. ASSUME NEW c \in S PROVE \E x \in 1..a : f[x] = c
    <2>1. c \in matches /\ c < i /\ es[c].occurrence < a /\ es[c].occurrence \in Nat
      BY <1>2, <1>3, <1>4, <1>6, <1>10
    <2>2. PICK x : x = es[c].occurrence + 1
      OBVIOUS
    <2>3. x \in 1..a /\ x - 1 = es[c].occurrence
      BY <1>6, <2>1, <2>2
    <2>4. f[x] \in matches /\ es[f[x]].occurrence = es[c].occurrence
      BY <1>10, <1>12, <2>3
    <2>5. f[x] \in 1..n /\ c \in 1..n
      BY <1>3, <2>1, <2>4
    <2>6. ~(f[x] < c) /\ ~(c < f[x])
      BY <1>2, <1>4, <2>1, <2>4
    <2> QED BY <1>1, <2>3, <2>5, <2>6
  <1>16. a = Cardinality(S)
    BY ONLY <1>6, <1>13, <1>14, <1>15, ListLength
  <1> QED BY <1>1, <1>6, <1>10, <1>16

\* Both lookups find the expression of a role, an owner and an occurrence, or both none.
LEMMA LookupFacts ==
  ASSUME Indexed, NEW role \in Range(Roles), NEW owner \in Nat, NEW occurrence \in Nat
  PROVE  \/ /\ FindExpression(role, owner, occurrence) = NoExpression
            /\ ScanExpression(role, owner, occurrence) = NoExpression
            /\ \A e \in Range(expressions) : ~(HasKey(e, role, owner) /\ e.occurrence = occurrence)
         \/ \E e \in Range(expressions) :
               /\ HasKey(e, role, owner) /\ e.occurrence = occurrence
               /\ FindExpression(role, owner, occurrence) = e
               /\ ScanExpression(role, owner, occurrence) = e
  <1>1. PICK n, es, r : /\ n = Len(expressions) /\ es = expressions /\ r = index /\ n \in Nat
                        /\ Len(r) = n /\ DOMAIN r = 1..n /\ Range(r) = Range(es)
                        /\ DOMAIN es = 1..n
    <2>1. expressions \in Seq(Entry)
      BY DEF Indexed
    <2>2. DOMAIN expressions = 1..Len(expressions)
      BY <2>1
    <2> QED BY <2>2, IndexFacts
  <1>2. PICK L : /\ L = LowerBound({i \in DOMAIN index :
                                     \/ RoleRank(index[i].role) < RoleRank(role)
                                     \/ index[i].role = role /\ index[i].owner < owner}, Len(index))
                 /\ L \in Nat
                 /\ \A p \in 1..n : HasKey(r[p], role, owner) =>
                      /\ L < p /\ r[p].occurrence = p - L - 1
                      /\ \A i \in (L + 1)..p : HasKey(r[i], role, owner)
    BY <1>1, IndexBlock
  <1>3. PICK slot : slot = L + occurrence + 1
    OBVIOUS
  <1> DEFINE hit == slot <= n /\ \A i \in (slot - occurrence)..slot : HasKey(r[i], role, owner)
  <1>4. FindExpression(role, owner, occurrence) = IF hit THEN r[slot] ELSE NoExpression
    BY <1>1, <1>2, <1>3 DEF FindExpression, HasKey
  <1>5. slot - occurrence = L + 1 /\ slot \in Nat /\ slot > 0
    BY <1>2, <1>3
  <1>6. ASSUME NEW p \in 1..n, HasKey(r[p], role, owner), r[p].occurrence = occurrence
        PROVE  hit /\ slot = p
    <2>1. slot = p
      <3>1. r[p].occurrence = p - L - 1
        BY <1>2, <1>6
      <3>2. p \in Nat
        BY <1>1
      <3> QED BY <1>2, <1>3, <1>6, <3>1, <3>2
    <2>2. \A i \in (L + 1)..p : HasKey(r[i], role, owner)
      BY <1>2, <1>6
    <2>3. slot <= n
      BY <1>1, <2>1
    <2>4. \A i \in (slot - occurrence)..slot : HasKey(r[i], role, owner)
      BY <1>5, <2>1, <2>2
    <2> QED BY <2>1, <2>3, <2>4
  <1>7. ASSUME hit PROVE slot \in 1..n /\ HasKey(r[slot], role, owner) /\ r[slot].occurrence = occurrence
    <2>0. n \in Nat /\ slot <= n
      BY <1>1, <1>7
    <2>1. slot \in 1..n /\ slot \in (slot - occurrence)..slot
      BY ONLY <1>2, <1>3, <1>5, <2>0, occurrence \in Nat
    <2>2. HasKey(r[slot], role, owner)
      BY <1>7, <2>1
    <2>3. r[slot].occurrence = slot - L - 1
      BY <1>2, <2>1, <2>2
    <2>4. slot - L - 1 = occurrence
      BY ONLY <1>2, <1>3, occurrence \in Nat
    <2> QED BY <2>1, <2>2, <2>3, <2>4
  <1> HIDE DEF hit
  <1>8. PICK matches, found :
            /\ matches = {i \in DOMAIN expressions : HasKey(expressions[i], role, owner)}
            /\ found = {i \in matches : Cardinality({j \in matches : j < i}) = occurrence}
    OBVIOUS
  <1>9. /\ found = {} => ScanExpression(role, owner, occurrence) = NoExpression
        /\ found # {} => \E i \in found : ScanExpression(role, owner, occurrence) = es[i]
    <2>1. ScanExpression(role, owner, occurrence) =
             IF found = {} THEN NoExpression ELSE expressions[CHOOSE i \in found : TRUE]
      BY <1>8 DEF ScanExpression, HasKey
    <2> QED BY <1>1, <2>1
  <1>10. \A i \in matches : i \in found <=> es[i].occurrence = occurrence
    <2> SUFFICES ASSUME NEW i \in matches PROVE i \in found <=> es[i].occurrence = occurrence
      OBVIOUS
    <2>0. PICK ro, ow, c : ro = role /\ ow = owner /\ c = occurrence
      OBVIOUS
    <2>1. Cardinality({j \in matches : j < i}) = expressions[i].occurrence
      <3>1. matches = {k \in DOMAIN expressions : HasKey(expressions[k], ro, ow)}
        BY <1>8, <2>0
      <3> QED BY ONLY Indexed, <3>1, i \in matches, ScanCount
    <2> QED BY <1>1, <1>8, <2>1
  <1>11. \A i \in found : i \in 1..n /\ HasKey(es[i], role, owner) /\ es[i].occurrence = occurrence
    BY <1>1, <1>8, <1>10
  <1>12. \A i \in 1..n : HasKey(es[i], role, owner) /\ es[i].occurrence = occurrence => i \in found
    BY <1>1, <1>8, <1>10
  <1>13. Range(es) = {es[i] : i \in 1..n} /\ Range(r) = {r[i] : i \in 1..n}
    BY <1>1 DEF Range
  <1>14. CASE hit
    <2>1. PICK e : e = r[slot] /\ e \in Range(es) /\ HasKey(e, role, owner) /\ e.occurrence = occurrence
      BY <1>1, <1>7, <1>13, <1>14
    <2>2. PICK k \in 1..n : es[k] = e
      BY <1>13, <2>1
    <2>3. k \in found
      BY <1>12, <2>1, <2>2
    <2>4. PICK i \in found : ScanExpression(role, owner, occurrence) = es[i]
      BY <1>9, <2>3
    <2>5. es[i] = e
      <3>1. i \in 1..n /\ SameKey(es[i], es[k]) /\ es[i].occurrence = es[k].occurrence
        BY <1>11, <2>1, <2>2, <2>4 DEF HasKey, SameKey
      <3>2. es[k] \in Entry
        BY <1>1 DEF Indexed
      <3>3. es[k].occurrence \in Nat
        BY <3>2 DEF Entry
      <3>4. Rising(es)
        BY <1>1 DEF Indexed, Counted
      <3>5. ~(i < k) /\ ~(k < i)
        BY <1>1, <3>1, <3>3, <3>4 DEF Rising, SameKey
      <3> QED BY <1>1, <2>2, <3>1, <3>5
    <2> QED BY <1>1, <1>4, <1>14, <2>1, <2>4, <2>5
  <1>15. CASE ~hit
    <2>1. \A e \in Range(es) : ~(HasKey(e, role, owner) /\ e.occurrence = occurrence)
      <3> SUFFICES ASSUME NEW e \in Range(es), HasKey(e, role, owner), e.occurrence = occurrence
                   PROVE  FALSE
        OBVIOUS
      <3>1. e \in Range(r)
        BY <1>1
      <3>2. PICK p \in 1..n : r[p] = e
        BY <1>13, <3>1
      <3>3. hit
        BY <1>6, <3>2
      <3> QED BY <1>15, <3>3
    <2>2. found = {}
      BY <1>11, <1>13, <2>1
    <2> QED BY <1>1, <1>4, <1>9, <1>15, <2>1, <2>2
  <1> QED BY <1>14, <1>15

-----------------------------------------------------------------------------
(* The linker.                                                             *)

LinkReasons == {"expression", "result type", "self reference"}
Compiling == {"linked", "parents", "walk", "siblings", "options", "references", "choices",
              "constraints"}

\* Between two expressions.
Linking ==
    /\ symbols = ById(project.symbols)
    /\ at = 1 \/ at - 1 <= Len(Sources)
    /\ Gathered(expressions, Sources, at - 1)
    /\ \A j \in 1..(at - 1) : Sources[j].text # NoText => SourceWell(project, Sources[j])

\* The expression linked for a source.
Stands(e, s) == HasKey(e, s.role, s.owner) /\ e.occurrence = s.occurrence /\ e.text = s.text

\* The pairs of the constraints are the last expressions.
PairsAt(base) ==
    /\ Len(expressions) = base + 2 * Len(project.constraints)
    /\ \A i \in 1..Len(project.constraints) :
          LET c == project.constraints[i]
          IN  /\ HasKey(expressions[base + 2 * i - 1], "constraint_when", c.id)
              /\ expressions[base + 2 * i - 1].text = c.when
              /\ HasKey(expressions[base + 2 * i], "constraint_require", c.id)
              /\ expressions[base + 2 * i].text = c.require

\* What the compiler starts from.
Linked ==
    /\ symbols = ById(project.symbols)
    /\ Indexed
    /\ \A s \in AllSources(project) : s.text # NoText => \E e \in Range(expressions) : Stands(e, s)
    /\ \E base \in Nat : PairsAt(base)
    /\ LinksWell(project)

LinkInv ==
    /\ project \in Projects /\ at \in Nat \ {0}
    /\ stage \in {"symbols", "expressions", "done"} \cup Compiling
    /\ stage = "symbols" => expressions = <<>>
    /\ stage = "expressions" => Linking
    /\ stage \in Compiling \/ outcome = "ok" => Linked
    /\ stage = "done" <=> outcome # "running"
    /\ outcome \in LinkReasons => ~LinksWell(project)

\* Every option is one of the project's.
LEMMA AllOwned ==
  ASSUME NEW p \in Projects
  PROVE  LinksWell(p) <=> \A s \in AllSources(p) : s.text # NoText => SourceWell(p, s)
  <1>1. \A s \in Range(p.symbols) : s.owned
    <2>1. PICK seq : seq = p.symbols /\ seq \in Seq(SymbolNode)
      BY ProjectFacts
    <2>2. \A s \in Range(seq) : s \in SymbolNode
      BY <2>1 DEF Range
    <2>3. \A s \in SymbolNode : s.owned
      BY DEF SymbolNode
    <2> QED BY <2>1, <2>2, <2>3
  <1>2. PICK all : all = AllSources(p)
    OBVIOUS
  <1>3. LinksWell(p) <=> \A s \in all : s.text # NoText => SourceWell(p, s)
    BY <1>1, <1>2 DEF LinksWell, AllSources, SourceWell
  <1> QED BY <1>2, <1>3

LEMMA SourcesStable ==
  ASSUME project' = project, symbols' = symbols
  PROVE  Sources' = Sources
  BY DEF Sources

LEMMA LinkedStable ==
  ASSUME Linked, UNCHANGED linkTables
  PROVE  Linked'
  BY DEF Linked, linkTables, Indexed, PairsAt

LEMMA LinkStable ==
  ASSUME LinkInv, stage \in Compiling, UNCHANGED linkTables, at' \in Nat \ {0},
         \/ stage' \in Compiling /\ outcome' = "running"
         \/ stage' = "done" /\ outcome' # "running" /\ outcome' \notin LinkReasons
  PROVE  LinkInv'
  <1>1. Linked'
    BY LinkedStable DEF LinkInv
  <1>2. project' = project
    BY DEF linkTables
  <1> QED BY <1>1, <1>2 DEF LinkInv, Compiling, LinkReasons

LEMMA LinkInitInv ==
  ASSUME CompileInit
  PROVE  LinkInv
  BY DEF CompileInit, LinkInit, LinkInv, Compiling, LinkReasons

LEMMA SortSymbolsInv ==
  ASSUME LinkInv, SortSymbols
  PROVE  LinkInv'
  <1>1. project \in Projects /\ stage = "symbols" /\ expressions = <<>> /\ outcome = "running"
    BY DEF LinkInv, SortSymbols, Compiling
  <1>2. /\ symbols' = ById(project.symbols) /\ stage' = "expressions" /\ at' = 1
        /\ project' = project /\ expressions' = <<>> /\ outcome' = "running"
    BY <1>1, NoSymbolError DEF SortSymbols, Go
  <1>3. Linking'
    <2>1. PICK ss : ss = Sources'
      OBVIOUS
    <2>2. at' - 1 = 0 /\ Gathered(<<>>, ss, 0)
      BY <1>2, GatheredNone
    <2>3. Gathered(expressions', Sources', at' - 1)
      BY <1>2, <2>1, <2>2, Zenon
    <2> QED BY <1>2, <2>2, <2>3 DEF Linking
  <1> QED BY <1>1, <1>2, <1>3 DEF LinkInv, Compiling, LinkReasons

LEMMA AppendExpressionInv ==
  ASSUME LinkInv, AppendExpression
  PROVE  LinkInv'
  <1>1. /\ project \in Projects /\ stage = "expressions" /\ outcome = "running" /\ at \in Nat \ {0}
        /\ Linking /\ at <= Len(Sources) /\ symbols = ById(project.symbols)
    BY DEF LinkInv, AppendExpression, Compiling, Linking
  <1>2. Sources \in Seq(Sourced) /\ Range(Sources) = AllSources(project)
    BY <1>1, SourcesFacts
  <1>3. PICK ss, k, s : ss = Sources /\ k = at - 1 /\ s = ss[at]
    OBVIOUS
  <1>4. /\ k \in Nat /\ at = k + 1 /\ at \in 1..Len(ss) /\ s \in Sourced
        /\ s \in AllSources(project) /\ s = Sources[at]
    <2>1. at \in 1..Len(ss) /\ ss \in Seq(Sourced)
      BY <1>1, <1>2, <1>3
    <2>2. s \in Sourced /\ s \in Range(ss)
      BY <1>3, <2>1 DEF Range
    <2> QED BY <1>1, <1>2, <1>3, <2>1, <2>2
  <1>5. /\ Gathered(expressions, ss, k)
        /\ \A j \in 1..k : ss[j].text # NoText => SourceWell(project, ss[j])
    BY <1>1, <1>3 DEF Linking
  <1>6. CASE s.text # NoText /\ LinkError(s) # "none"
    <2>1. /\ outcome' = LinkError(s) /\ stage' = "done" /\ project' = project /\ at' = at
      BY <1>4, <1>6 DEF AppendExpression, Refuse
    <2>2. LinkError(s) \in {"none", "expression", "result type", "self reference"}
      BY <1>1, <1>4, <1>6, LinkErrorFacts
    <2>3. ~SourceWell(project, s)
      BY <1>1, <1>4, <1>6, LinkErrorFacts
    <2>4. ~LinksWell(project)
      BY <1>1, <1>4, <1>6, <2>3, AllOwned
    <2> QED BY <1>1, <1>6, <2>1, <2>2, <2>4 DEF LinkInv, Compiling, LinkReasons
  <1>7. CASE s.text = NoText \/ LinkError(s) = "none"
    <2>1. /\ at' = at + 1 /\ stage' = stage /\ outcome' = outcome /\ project' = project
          /\ symbols' = symbols
      BY <1>4, <1>7 DEF AppendExpression, Advance
    <2>2. Sources' = ss
      BY <1>3, <2>1, SourcesStable
    <2>3. Gathered(expressions', ss, k + 1)
      <3>1. CASE s.text = NoText
        <4>1. expressions' = expressions
          BY <1>4, <3>1 DEF AppendExpression
        <4> QED BY <1>3, <1>4, <1>5, <3>1, <4>1, GatheredSkip
      <3>2. CASE s.text # NoText
        <4>1. PICK e : e = EntryOf(s, Len(expressions))
          OBVIOUS
        <4>2. expressions' = Append(expressions, e)
          BY <1>4, <1>7, <3>2, <4>1 DEF AppendExpression, EntryOf
        <4>3. ss[k + 1] \in Sourced /\ ss[k + 1].text # NoText /\ e = EntryOf(ss[k + 1], Len(expressions))
          BY <1>3, <1>4, <3>2, <4>1
        <4>4. Gathered(Append(expressions, e), ss, k + 1)
          BY ONLY <1>4, <1>5, <4>3, GatheredAppend
        <4> QED BY <4>2, <4>4
      <3> QED BY <3>1, <3>2
    <2>4. ASSUME NEW j \in 1..at, ss[j].text # NoText PROVE SourceWell(project, ss[j])
      <3>1. CASE j = at
        <4>1. SourceWell(project, s)
          BY <1>1, <1>3, <1>4, <1>7, <2>4, <3>1, LinkErrorFacts
        <4> QED BY <1>3, <3>1, <4>1
      <3>2. CASE j # at
        <4>1. j \in 1..k
          BY <1>4, <3>2
        <4> QED BY <1>5, <2>4, <4>1
      <3> QED BY <3>1, <3>2
    <2>5. at' - 1 = at /\ at' - 1 = k + 1 /\ at' \in Nat \ {0} /\ at' - 1 <= Len(ss)
      BY <1>1, <1>3, <1>4, <2>1
    <2>6. Linking'
      <3>1. Gathered(expressions', Sources', at' - 1)
        BY <2>2, <2>3, <2>5
      <3>2. \A j \in 1..(at' - 1) : (Sources')[j].text # NoText => SourceWell(project', (Sources')[j])
        BY <2>1, <2>2, <2>4, <2>5
      <3>3. symbols' = ById(project'.symbols) /\ at' - 1 <= Len(Sources')
        BY <1>1, <2>1, <2>2, <2>5
      <3> QED BY <3>1, <3>2, <3>3 DEF Linking
    <2> QED BY <1>1, <2>1, <2>5, <2>6 DEF LinkInv, Compiling, LinkReasons
  <1> QED BY <1>6, <1>7

LEMMA BuildIndexInv ==
  ASSUME LinkInv, BuildIndex
  PROVE  LinkInv'
  <1>1. /\ project \in Projects /\ stage = "expressions" /\ outcome = "running" /\ at \in Nat \ {0}
        /\ Linking /\ at > Len(Sources) /\ symbols = ById(project.symbols)
    BY DEF LinkInv, BuildIndex, Compiling, Linking
  <1>2. /\ stage' = "linked" /\ at' = 1 /\ project' = project /\ symbols' = symbols
        /\ expressions' = expressions /\ outcome' = outcome
        /\ index' = Sorted(expressions, {p \in Range(expressions) \X Range(expressions) :
                                            ExpressionBefore(p[1], p[2])})
    BY DEF BuildIndex, Go
  <1>3. PICK ss, N, es, n : /\ ss = Sources /\ N = Len(ss) /\ es = expressions
                            /\ n = Len(project.constraints)
    OBVIOUS
  <1>4. ss \in Seq(Sourced) /\ Counted(ss) /\ Range(ss) = AllSources(project) /\ N \in Nat /\ n \in Nat
    BY <1>1, <1>3, SourcesFacts
  <1>5. at - 1 = N
    <2>1. at = 1 \/ at - 1 <= N
      BY <1>1, <1>3 DEF Linking
    <2> QED BY <1>1, <1>3, <1>4, <2>1
  <1>6. /\ Gathered(es, ss, Len(ss))
        /\ \A j \in 1..N : ss[j].text # NoText => SourceWell(project, ss[j])
    BY <1>1, <1>3, <1>5 DEF Linking
  <1>7. /\ es \in Seq(Entry) /\ Counted(es)
        /\ \A i \in 1..Len(es) : es[i].source_order = i - 1
        /\ \A j \in 1..N : ss[j].text # NoText =>
              \E i \in 1..Len(es) : /\ SameKey(es[i], ss[j]) /\ es[i].occurrence = ss[j].occurrence
                                    /\ es[i].text = ss[j].text
    <2>1. ss \in Seq(Sourced) /\ Counted(ss) /\ Gathered(es, ss, Len(ss))
      BY <1>4, <1>6
    <2>2. /\ Counted(es)
          /\ \A i \in 1..Len(es) : es[i].source_order = i - 1 /\ es[i].text # NoText
          /\ \A j \in 1..Len(ss) : ss[j].text # NoText =>
                \E i \in 1..Len(es) : /\ SameKey(es[i], ss[j]) /\ es[i].occurrence = ss[j].occurrence
                                      /\ es[i].text = ss[j].text
      BY ONLY <2>1, GatheredCounted
    <2>3. es \in Seq(Entry)
      BY <2>1 DEF Gathered
    <2> QED BY <1>3, <2>2, <2>3
  <1>8. Indexed'
    BY <1>2, <1>3, <1>7 DEF Indexed
  <1>9. Range(ss) = {ss[j] : j \in 1..N} /\ \A i \in 1..Len(es) : es[i] \in Range(es)
    <2>1. DOMAIN ss = 1..N
      BY ONLY <1>3, <1>4
    <2>2. DOMAIN es = 1..Len(es)
      BY ONLY <1>7
    <2> QED BY ONLY <2>1, <2>2 DEF Range
  <1>10. ASSUME NEW s \in AllSources(project), s.text # NoText PROVE \E e \in Range(es) : Stands(e, s)
    <2>1. PICK j \in 1..N : ss[j] = s
      BY <1>4, <1>9
    <2>2. PICK i \in 1..Len(es) : /\ SameKey(es[i], s) /\ es[i].occurrence = s.occurrence
                                  /\ es[i].text = s.text
      BY <1>7, <1>10, <2>1
    <2> QED BY <1>9, <2>2 DEF Stands, SameKey, HasKey
  <1>11. LinksWell(project)
    <2>1. ASSUME NEW s \in AllSources(project), s.text # NoText PROVE SourceWell(project, s)
      <3>1. PICK j \in 1..N : ss[j] = s
        BY <1>4, <1>9
      <3> QED BY <1>6, <2>1, <3>1
    <2> QED BY <1>1, <2>1, AllOwned
  <1>12. \E b \in Nat : PairsAt(b)
    <2>1. PICK base :
              /\ base \in Nat /\ Len(Sources) = base + 2 * n
              /\ \A i \in 1..n :
                    LET c == project.constraints[i]
                    IN  /\ Sources[base + 2 * i - 1] =
                              Source("constraint_when", c.id, Missing, "bool", c.when, 0)
                        /\ Sources[base + 2 * i] =
                              Source("constraint_require", c.id, Missing, "bool", c.require, 0)
      BY <1>1, <1>3, SourcesFacts
    <2>2. PICK m : m = 2 * n /\ m \in Nat /\ Len(ss) = base + m
      BY <1>3, <1>4, <2>1
    <2>3. \A i \in 1..n : /\ project.constraints[i] \in ConstraintNode
                          /\ project.constraints[i].when # NoText
                          /\ project.constraints[i].require # NoText
      <3>1. project.constraints \in Seq(ConstraintNode)
        BY <1>1, ProjectFacts
      <3>2. \A i \in 1..n : project.constraints[i] \in ConstraintNode
        BY <1>3, <3>1
      <3>3. \A c \in ConstraintNode : c.when \in Written /\ c.require \in Written
        BY DEF ConstraintNode
      <3> QED BY <3>2, <3>3, WrittenIsText
    <2>4. ASSUME NEW i \in 1..n
          PROVE  LET c == project.constraints[i]
                 IN  /\ 2 * i - 1 \in 1..m /\ 2 * i \in 1..m
                     /\ ss[base + (2 * i - 1)] =
                            Source("constraint_when", c.id, Missing, "bool", c.when, 0)
                     /\ ss[base + (2 * i - 1)].text = c.when
                     /\ ss[base + 2 * i] =
                            Source("constraint_require", c.id, Missing, "bool", c.require, 0)
                     /\ ss[base + 2 * i].text = c.require
      <3>1. base + 2 * i - 1 = base + (2 * i - 1) /\ 2 * i - 1 \in 1..m /\ 2 * i \in 1..m
        BY <1>4, <2>2
      <3>2. PICK c, x, y, t, u : /\ c = project.constraints[i] /\ x = 2 * i - 1 /\ y = 2 * i
                                 /\ t = ss[base + x] /\ u = ss[base + y]
        OBVIOUS
      <3>3. /\ t = Source("constraint_when", c.id, Missing, "bool", c.when, 0)
            /\ u = Source("constraint_require", c.id, Missing, "bool", c.require, 0)
        BY <1>3, <2>1, <3>1, <3>2
      <3>4. t.text = c.when /\ u.text = c.require
        BY <3>3 DEF Source
      <3> QED BY <3>1, <3>2, <3>3, <3>4
    <2>5. \A d \in 1..m : ss[base + d].text # NoText
      <3> SUFFICES ASSUME NEW d \in 1..m PROVE ss[base + d].text # NoText
        OBVIOUS
      <3>1. PICK i \in 1..n : d = 2 * i - 1 \/ d = 2 * i
        <4>1. PICK i : i = (d + 1) \div 2
          OBVIOUS
        <4>2. i \in 1..n /\ (d = 2 * i - 1 \/ d = 2 * i)
          BY <1>4, <2>2, <4>1
        <4> QED BY <4>2
      <3>2. CASE d = 2 * i - 1
        <4>1. ss[base + d] = ss[base + (2 * i - 1)]
          BY <3>2
        <4>2. ss[base + (2 * i - 1)].text = project.constraints[i].when
          BY <2>4
        <4> QED BY <2>3, <4>1, <4>2
      <3>3. CASE d = 2 * i
        <4>1. ss[base + d] = ss[base + 2 * i]
          BY <3>3
        <4>2. ss[base + 2 * i].text = project.constraints[i].require
          BY <2>4
        <4> QED BY <2>3, <4>1, <4>2
      <3> QED BY <3>1, <3>2, <3>3
    <2>6. PICK b : /\ b \in Nat /\ Len(es) = b + m
                   /\ \A d \in 1..m : \E o : es[b + d] = EntryOf(ss[base + d], o)
      <3>1. ss \in Seq(Sourced) /\ Gathered(es, ss, Len(ss))
        BY <1>4, <1>6
      <3>2. TailOf(ss, base, m)
        BY <2>1, <2>2, <2>5 DEF TailOf
      <3>3. TailKept(es, ss, base, m)
        BY ONLY <3>1, <3>2, GatheredTail
      <3> QED BY <3>3, Zenon DEF TailKept
    <2>7. ASSUME NEW i \in 1..n
          PROVE  LET c == project.constraints[i]
                 IN  /\ HasKey(es[b + 2 * i - 1], "constraint_when", c.id)
                     /\ es[b + 2 * i - 1].text = c.when
                     /\ HasKey(es[b + 2 * i], "constraint_require", c.id)
                     /\ es[b + 2 * i].text = c.require
      <3>1. PICK x, y : x = 2 * i - 1 /\ y = 2 * i
        OBVIOUS
      <3>2. x \in 1..m /\ y \in 1..m /\ b + 2 * i - 1 = b + x
        BY <2>4, <3>1
      <3>3. \E o : es[b + x] = EntryOf(ss[base + x], o)
        BY <2>6, <3>2
      <3>4. \E o : es[b + y] = EntryOf(ss[base + y], o)
        BY <2>6, <3>2
      <3>5. /\ ss[base + x] = Source("constraint_when", project.constraints[i].id, Missing, "bool",
                                     project.constraints[i].when, 0)
            /\ ss[base + y] = Source("constraint_require", project.constraints[i].id, Missing, "bool",
                                     project.constraints[i].require, 0)
        BY <2>4, <3>1
      <3>6. /\ HasKey(es[b + x], "constraint_when", project.constraints[i].id)
            /\ es[b + x].text = project.constraints[i].when
        BY <3>3, <3>5 DEF EntryOf, Source, HasKey
      <3>7. /\ HasKey(es[b + y], "constraint_require", project.constraints[i].id)
            /\ es[b + y].text = project.constraints[i].require
        BY <3>4, <3>5 DEF EntryOf, Source, HasKey
      <3> QED BY <3>1, <3>2, <3>6, <3>7
    <2> QED BY <1>3, <2>2, <2>6, <2>7 DEF PairsAt
  <1>13. Linked'
    <2>1. \E base \in Nat : PairsAt(base)'
      BY <1>2, <1>12 DEF PairsAt
    <2>2. \A s \in AllSources(project') : s.text # NoText => \E e \in Range(expressions') : Stands(e, s)
      BY <1>2, <1>3, <1>10
    <2> QED BY <1>1, <1>2, <1>8, <1>11, <2>1, <2>2 DEF Linked
  <1> QED BY <1>1, <1>2, <1>13 DEF LinkInv, Compiling, LinkReasons

LEMMA LinkStepInv ==
  ASSUME LinkInv, LinkNext
  PROVE  LinkInv'
  BY SortSymbolsInv, AppendExpressionInv, BuildIndexInv DEF LinkNext

\* Every expression the linker went through is found.
LEMMA SourceFound ==
  ASSUME project \in Projects, Linked, NEW s \in AllSources(project), s.text # NoText
  PROVE  /\ FindExpression(s.role, s.owner, s.occurrence) # NoExpression
         /\ FindExpression(s.role, s.owner, s.occurrence).text = s.text
  <1>1. s \in Sourced
    <2>1. symbols = ById(project.symbols)
      BY DEF Linked
    <2>2. PICK ss : ss = Sources /\ ss \in Seq(Sourced) /\ Range(ss) = AllSources(project)
      BY <2>1, SourcesFacts
    <2>3. s \in Range(ss)
      BY <2>2
    <2> QED BY <2>2, <2>3 DEF Range
  <1>2. s.role \in Range(Roles) /\ s.owner \in Nat /\ s.occurrence \in Nat
    BY <1>1 DEF Sourced
  <1>3. PICK ro, ow, oc : ro = s.role /\ ow = s.owner /\ oc = s.occurrence
    OBVIOUS
  <1>4. PICK e \in Range(expressions) : HasKey(e, ro, ow) /\ e.occurrence = oc /\ e.text = s.text
    BY <1>3 DEF Linked, Stands
  <1>5. Indexed
    BY DEF Linked
  <1>6. /\ ro \in Range(Roles) /\ ow \in Nat /\ oc \in Nat
    BY <1>2, <1>3
  <1>7. PICK f \in Range(expressions) : /\ HasKey(f, ro, ow) /\ f.occurrence = oc
                                        /\ FindExpression(ro, ow, oc) = f
                                        /\ ScanExpression(ro, ow, oc) = f
    <2>1. HasKey(e, ro, ow) /\ e.occurrence = oc /\ e \in Range(expressions)
      BY <1>4
    <2> QED BY ONLY <1>5, <1>6, <2>1, LookupFacts
  <1>8. f = e
    <2>1. PICK es : es = expressions
      OBVIOUS
    <2>2. es \in Seq(Entry) /\ Rising(es)
      BY <1>5, <2>1 DEF Indexed, Counted
    <2>3. PICK i \in DOMAIN es, j \in DOMAIN es : es[i] = e /\ es[j] = f
      BY <1>4, <1>7, <2>1 DEF Range
    <2>4. ~(i < j) /\ ~(j < i)
      BY <1>4, <1>6, <1>7, <2>2, <2>3 DEF Rising, SameKey, HasKey
    <2>5. i \in Nat /\ j \in Nat
      BY <2>2, <2>3
    <2> QED BY <2>3, <2>4, <2>5
  <1>9. f # NoExpression
    <2>1. f.role \in Range(Roles)
      BY <1>6, <1>7 DEF HasKey
    <2>2. \A x \in Range(Roles) : x # "none"
      BY DEF Range, Roles
    <2> QED BY <2>1, <2>2 DEF NoExpression
  <1> QED BY <1>3, <1>4, <1>7, <1>8, <1>9

\* The condition of a menu is found.
LEMMA MenuFound ==
  ASSUME project \in Projects, Linked, NEW m \in Range(project.menus), m.visible_if # NoText
  PROVE  FindExpression("menu_visible_if", m.id, 0) # NoExpression
  <1>1. PICK s : s = MenuSource(m)
    OBVIOUS
  <1>2. s \in AllSources(project)
    BY <1>1 DEF AllSources
  <1>3. /\ s.role = "menu_visible_if" /\ s.owner = m.id /\ s.occurrence = 0
        /\ s.text = m.visible_if
    BY <1>1 DEF MenuSource, Source
  <1> QED BY <1>2, <1>3, SourceFound

\* The conditions of a choice are found, each default its own.
LEMMA ChoiceFound ==
  ASSUME project \in Projects, Linked, NEW c, c \in Range(project.choices)
  PROVE  /\ c.available_if # NoText => FindExpression("choice_available_if", c.id, 0) # NoExpression
         /\ c.visible_if # NoText => FindExpression("choice_visible_if", c.id, 0) # NoExpression
         /\ \A k \in DOMAIN c.defaults :
               LET found == FindExpression("choice_default_when", c.id, k - 1)
               IN  found # NoExpression /\ found.text = c.defaults[k].when
  <1>1. c \in ChoiceNode
    <2>1. PICK seq : seq = project.choices /\ seq \in Seq(ChoiceNode)
      BY ProjectFacts
    <2> QED BY <2>1 DEF Range
  <1>2. \A s \in Range(ChoiceSources(c)) : s \in AllSources(project)
    BY DEF AllSources
  <1>3. PICK a, b :
            /\ a = <<Source("choice_available_if", c.id, Missing, "bool", c.available_if, 0),
                     Source("choice_visible_if", c.id, Missing, "bool", c.visible_if, 0)>>
            /\ b = [k \in DOMAIN c.defaults |->
                       Source("choice_default_when", c.id, Missing, "bool", c.defaults[k].when, k - 1)]
    OBVIOUS
  <1>4. ChoiceSources(c) = a \o b
    BY <1>3 DEF ChoiceSources
  <1>5. PICK m : m = Len(c.defaults) /\ m \in Nat /\ DOMAIN c.defaults = 1..m
    <2>1. c.defaults \in Seq([member : Nat, priority : Int, when : Written])
      BY <1>1 DEF ChoiceNode
    <2> QED BY <2>1
  <1>6. b \in Seq(Range(b)) /\ a \in Seq(Range(a))
    <2>1. b = [k \in 1..m |-> b[k]] /\ \A k \in 1..m : b[k] \in Range(b)
      BY <1>3, <1>5 DEF Range
    <2>2. b \in Seq(Range(b))
      BY <1>5, <2>1
    <2>3. a = [k \in 1..2 |-> a[k]] /\ \A k \in 1..2 : a[k] \in Range(a)
      BY <1>3 DEF Range
    <2>4. a \in Seq(Range(a))
      BY <2>3
    <2> QED BY <2>2, <2>4
  <1>7. Range(ChoiceSources(c)) = Range(a) \cup Range(b)
    <2>1. PICK S : S = Range(a) \cup Range(b)
      OBVIOUS
    <2>2. a \in Seq(S) /\ b \in Seq(S)
      BY <1>6, <2>1
    <2> QED BY ONLY <1>4, <2>2, RangeConcat
  <1>8. a[1] \in Range(a) /\ a[2] \in Range(a)
    BY <1>3 DEF Range
  <1>9. /\ a[1].role = "choice_available_if" /\ a[1].owner = c.id /\ a[1].occurrence = 0
        /\ a[1].text = c.available_if
        /\ a[2].role = "choice_visible_if" /\ a[2].owner = c.id /\ a[2].occurrence = 0
        /\ a[2].text = c.visible_if
    BY <1>3 DEF Source
  <1>10. a[1] \in AllSources(project) /\ a[2] \in AllSources(project)
    BY <1>2, <1>7, <1>8
  <1>11. c.available_if # NoText => FindExpression("choice_available_if", c.id, 0) # NoExpression
    BY <1>9, <1>10, SourceFound
  <1>12. c.visible_if # NoText => FindExpression("choice_visible_if", c.id, 0) # NoExpression
    BY <1>9, <1>10, SourceFound
  <1>13. ASSUME NEW k \in DOMAIN c.defaults
         PROVE  LET found == FindExpression("choice_default_when", c.id, k - 1)
                IN  found # NoExpression /\ found.text = c.defaults[k].when
    <2>1. PICK s, o, t : s = b[k] /\ o = k - 1 /\ t = c.defaults[k].when
      OBVIOUS
    <2>2. s = Source("choice_default_when", c.id, Missing, "bool", t, o)
      BY <1>3, <2>1
    <2>3. s.role = "choice_default_when" /\ s.owner = c.id /\ s.occurrence = o /\ s.text = t
      BY <2>2 DEF Source
    <2>4. s \in AllSources(project)
      <3>1. s \in Range(b)
        BY <1>3, <2>1 DEF Range
      <3> QED BY <1>2, <1>7, <3>1
    <2>5. t # NoText
      <3>1. PICK D, l : D = [member : Nat, priority : Int, when : Written] /\ l = c.defaults
        OBVIOUS
      <3>2. l \in Seq(D) /\ k \in DOMAIN l
        BY <1>1, <3>1 DEF ChoiceNode
      <3>3. l[k] \in D
        BY <3>2
      <3>4. t \in Written
        BY <2>1, <3>1, <3>3
      <3> QED BY <3>4, WrittenIsText
    <2>6. /\ FindExpression("choice_default_when", c.id, o) # NoExpression
          /\ FindExpression("choice_default_when", c.id, o).text = t
      BY <2>3, <2>4, <2>5, SourceFound
    <2> QED BY <2>1, <2>6
  <1> QED BY <1>11, <1>12, <1>13

\* The two lookups agree.
LEMMA LookupsAgreeWhenLinked ==
  ASSUME Indexed
  PROVE  \A role \in Range(Roles), owner \in 1..3, occurrence \in 0..2 :
            LET found == FindExpression(role, owner, occurrence)
            IN /\ found = ScanExpression(role, owner, occurrence)
               /\ found # NoExpression => found.occurrence = occurrence
  <1> SUFFICES ASSUME NEW role \in Range(Roles), NEW owner \in 1..3, NEW occurrence \in 0..2
               PROVE  LET found == FindExpression(role, owner, occurrence)
                      IN /\ found = ScanExpression(role, owner, occurrence)
                         /\ found # NoExpression => found.occurrence = occurrence
    OBVIOUS
  <1>1. PICK ro, ow, oc : ro = role /\ ow = owner /\ oc = occurrence
    OBVIOUS
  <1>2. ro \in Range(Roles) /\ ow \in Nat /\ oc \in Nat
    BY <1>1
  <1>3. /\ FindExpression(ro, ow, oc) = ScanExpression(ro, ow, oc)
        /\ FindExpression(ro, ow, oc) # NoExpression => FindExpression(ro, ow, oc).occurrence = oc
    BY <1>2, LookupFacts
  <1> QED BY <1>1, <1>3

\* Menus by their ids.
LEMMA MenuFacts ==
  ASSUME project \in Projects
  PROVE  /\ LET n == Len(project.menus)
                sorted == ById(project.menus)
            IN  /\ n \in Nat /\ sorted \in Seq(MenuNode) /\ DOMAIN sorted = 1..n /\ Len(sorted) = n
                /\ \A i \in 1..n : /\ sorted[i] \in MenuNode /\ sorted[i].id \in Nat
                                   /\ sorted[i].id # Missing /\ sorted[i].parent \in Nat
                /\ \A i, j \in 1..n : i < j <=> sorted[i].id < sorted[j].id
                /\ Range(sorted) = Range(project.menus)
         /\ \A id \in Nat : LET found == BinarySearch(ById(project.menus), id)
               IN  /\ found \in 0..Len(project.menus)
                   /\ found = Missing <=> id \notin Ids(project.menus)
                   /\ found # Missing =>
                         found \in 1..Len(project.menus) /\ ById(project.menus)[found].id = id
  <1>1. PICK seq : seq = project.menus /\ seq \in Seq(MenuNode) /\ Distinct(seq)
    BY ProjectFacts
  <1>2. \A x \in MenuNode : x.id \in Nat /\ x.id # Missing /\ x.parent \in Nat
    BY DEF MenuNode, Missing
  <1>3. seq \in Seq(MenuNode) /\ Distinct(seq) /\ \A x \in MenuNode : x.id \in Nat
    BY <1>1, <1>2
  <1>4. \A id \in Nat : id \in Ids(seq) <=> \E x \in Range(seq) : x.id = id
    BY DEF Ids
  <1>5. ASSUME NEW id \in Nat
        PROVE  LET found == BinarySearch(ById(seq), id)
               IN  /\ found \in 0..Len(seq)
                   /\ found = Missing <=> id \notin Ids(seq)
                   /\ found # Missing => found \in 1..Len(seq) /\ ById(seq)[found].id = id
    <2>1. LET found == BinarySearch(ById(seq), id)
          IN  /\ found \in 0..Len(seq)
              /\ found = Missing <=> \A x \in Range(seq) : x.id # id
              /\ found # Missing => found \in 1..Len(seq) /\ ById(seq)[found].id = id
      BY ONLY <1>3, FindById, id \in Nat
    <2>2. id \in Ids(seq) <=> \E x \in Range(seq) : x.id = id
      BY <1>4
    <2> QED BY ONLY <2>1, <2>2
  <1>6. /\ Len(seq) \in Nat /\ ById(seq) \in Seq(MenuNode) /\ DOMAIN ById(seq) = 1..Len(seq)
        /\ Len(ById(seq)) = Len(seq)
        /\ \A i \in 1..Len(seq) : ById(seq)[i] \in MenuNode
        /\ \A i, j \in 1..Len(seq) : i < j <=> ById(seq)[i].id < ById(seq)[j].id
        /\ Range(ById(seq)) = Range(seq)
    BY <1>3, ByIdFacts
  <1> QED BY <1>1, <1>2, <1>5, <1>6

-----------------------------------------------------------------------------
(* Menus.                                                                  *)

\* Up follows the parents from m.
Follows(Up, p, m) ==
    /\ Up[0] = {m.parent}
    /\ \A n \in Nat : Up[n + 1] = {a.parent : a \in {b \in Range(p.menus) : b.id \in Up[n]}}
    /\ Above(p, m) = UNION {Up[n] : n \in 0..Len(p.menus)}

LEMMA AboveFacts ==
  ASSUME NEW p, NEW m
  PROVE  \E Up : Follows(Up, p, m)
  <1> DEFINE Ahead(S) == {a.parent : a \in {b \in Range(p.menus) : b.id \in S}}
             V == {m.parent} \cup {a.parent : a \in Range(p.menus)}
             T == SUBSET V
             G == [S \in T |-> Ahead(S)]
             Body(f) == [n \in Nat |-> IF n = 0 THEN {m.parent} ELSE Ahead(f[n - 1])]
             Up == CHOOSE f : f = Body(f)
  <1>1. {m.parent} \in T /\ G \in [T -> T]
    OBVIOUS
  <1>2. PICK f \in [Nat -> T] : f[0] = {m.parent} /\ \A n \in Nat : f[n + 1] = Ahead(f[n])
    <2>1. PICK S, a, H : S = T /\ a = {m.parent} /\ H = G
      OBVIOUS
    <2>2. a \in S /\ H \in [S -> S]
      BY <1>1, <2>1
    <2>3. PICK f \in [Nat -> S] : f[0] = a /\ \A n \in Nat : f[n + 1] = H[f[n]]
      BY ONLY <2>2, Iterate
    <2>4. \A n \in Nat : H[f[n]] = Ahead(f[n])
      BY <2>1, <2>3
    <2> QED BY <2>1, <2>3, <2>4
  <1>3. f = Body(f)
    <2>1. \A n \in Nat : f[n] = IF n = 0 THEN {m.parent} ELSE Ahead(f[n - 1])
      <3> SUFFICES ASSUME NEW n \in Nat, n # 0 PROVE f[n] = Ahead(f[n - 1])
        BY <1>2
      <3>1. PICK k \in Nat : n = k + 1
        BY n - 1 \in Nat
      <3>2. f[k + 1] = Ahead(f[k])
        BY <1>2
      <3> QED BY <3>1, <3>2
    <2> QED BY <1>2, <2>1
  <1>4. Up = Body(Up)
    BY <1>3
  <1>5. Up[0] = {m.parent} /\ \A n \in Nat : Up[n + 1] = Ahead(Up[n])
    <2> HIDE DEF Up
    <2>1. Up[0] = {m.parent}
      BY <1>4
    <2>2. ASSUME NEW n \in Nat PROVE Up[n + 1] = Ahead(Up[n])
      <3>1. PICK k \in Nat : k = n + 1 /\ k # 0 /\ k - 1 = n
        OBVIOUS
      <3>2. Up[k] = IF k = 0 THEN {m.parent} ELSE Ahead(Up[k - 1])
        <4>1. Body(Up)[k] = IF k = 0 THEN {m.parent} ELSE Ahead(Up[k - 1])
          OBVIOUS
        <4> HIDE DEF Body
        <4> QED BY <1>4, <4>1
      <3> QED BY <3>1, <3>2
    <2> QED BY <2>1, <2>2
  <1>6. Above(p, m) = UNION {Up[n] : n \in 0..Len(p.menus)}
    BY Zenon DEF Above
  <1> HIDE DEF Up
  <1> QED BY <1>5, <1>6 DEF Follows

\* The id of a menu, or of none.
IdOf(ms, i) == IF i = Missing THEN Missing ELSE ms[i].id

\* The parents of all menus are resolved.
ParentsRight(p, ms, par) ==
    /\ p \in Projects /\ ms = ById(p.menus)
    /\ \A i \in 1..Len(p.menus) : par[i] \in 0..Len(p.menus) /\ ms[i].parent = IdOf(ms, par[i])

\* The table of menus with its parents.
MenuTable(p, ms, par, n) ==
    /\ n \in Nat /\ DOMAIN ms = 1..n
    /\ \A j \in 1..n : ms[j].id # Missing
    /\ \A j, k \in 1..n : ms[j].id = ms[k].id => j = k
    /\ Range(p.menus) = {ms[j] : j \in 1..n}
    /\ \A j \in 1..n : par[j] \in 0..n /\ ms[j].parent = IdOf(ms, par[j])

LEMMA ParentsFacts ==
  ASSUME NEW p, NEW ms, NEW par, ParentsRight(p, ms, par), NEW n, n = Len(p.menus)
  PROVE  MenuTable(p, ms, par, n)
  <1>1. p \in Projects /\ ms = ById(p.menus)
    BY DEF ParentsRight
  <1>2. p.menus \in Seq(MenuNode) /\ Distinct(p.menus)
    BY <1>1, ProjectFacts
  <1>3. \A x \in MenuNode : x.id \in Nat /\ x.id # Missing
    BY NodeIds
  <1>4. PICK seq : seq = p.menus
    OBVIOUS
  <1>5. /\ DOMAIN ms = 1..n /\ n \in Nat /\ Range(ms) = Range(seq)
        /\ \A j \in 1..n : ms[j] \in MenuNode /\ ms[j].id \in Nat
        /\ \A j, k \in 1..n : j < k <=> ms[j].id < ms[k].id
    <2>1. seq \in Seq(MenuNode) /\ Distinct(seq) /\ \A x \in MenuNode : x.id \in Nat
      BY <1>2, <1>3, <1>4
    <2>2. n = Len(seq) /\ ms = ById(seq)
      BY <1>1, <1>4
    <2> QED BY ONLY <2>1, <2>2, ByIdFacts
  <1>6. Range(ms) = {ms[j] : j \in 1..n}
    BY <1>5 DEF Range
  <1>7. \A j, k \in 1..n : ms[j].id = ms[k].id => j = k
    BY <1>5
  <1> QED BY <1>3, <1>4, <1>5, <1>6, <1>7 DEF ParentsRight, MenuTable

\* The menus above are those of the chain.
LEMMA ChainUp ==
  ASSUME NEW p, NEW ms, NEW par, ParentsRight(p, ms, par), NEW n, n = Len(p.menus),
         NEW f, NEW K, NEW i, i \in 1..n, Climb(par, n, f, K, i), NEW Up, Follows(Up, p, ms[i])
  PROVE  /\ K \in Nat
         /\ \A k \in Nat : k < K => Up[k] = {IdOf(ms, f[k + 1])}
         /\ K > 0 /\ f[K] = Missing => \A k \in Nat : k >= K => Up[k] = {}
  <1>1. /\ n \in Nat
        /\ \A j \in 1..n : ms[j].id # Missing
        /\ \A j, k \in 1..n : ms[j].id = ms[k].id => j = k
        /\ Range(p.menus) = {ms[j] : j \in 1..n}
        /\ \A j \in 1..n : par[j] \in 0..n /\ ms[j].parent = IdOf(ms, par[j])
    <2>1. MenuTable(p, ms, par, n)
      BY ParentsFacts
    <2> QED BY <2>1 DEF MenuTable
  <1>2. /\ K \in Nat /\ \A j \in 0..K : f[j] \in 0..n
        /\ f[0] = i /\ \A j \in 1..K : f[j - 1] # Missing /\ f[j] = par[f[j - 1]]
    BY DEF Climb, Missing
  <1>3. /\ Up[0] = {ms[i].parent}
        /\ \A k \in Nat : Up[k + 1] = {a.parent : a \in {b \in Range(p.menus) : b.id \in Up[k]}}
    BY DEF Follows
  <1>4. \A k \in Nat : Up[k + 1] = {ms[j].parent : j \in {l \in 1..n : ms[l].id \in Up[k]}}
    BY <1>1, <1>3
  <1> DEFINE Good == {k \in Nat : k < K => Up[k] = {IdOf(ms, f[k + 1])}}
  <1>5. 0 \in Good
    <2> SUFFICES ASSUME 0 < K PROVE Up[0] = {IdOf(ms, f[1])}
      OBVIOUS
    <2>1. 1 \in 1..K /\ f[1] = par[f[1 - 1]]
      BY <1>2
    <2>2. f[1] = par[i]
      BY <1>2, <2>1
    <2> QED BY <1>1, <1>3, <2>2
  <1>6. ASSUME NEW k \in Nat, k \in Good PROVE k + 1 \in Good
    <2> SUFFICES ASSUME k + 1 < K PROVE Up[k + 1] = {IdOf(ms, f[k + 1 + 1])}
      OBVIOUS
    <2>1. PICK a, b : a = k + 1 /\ b = k + 1 + 1
      OBVIOUS
    <2>2. a \in 0..K /\ b \in 1..K /\ b - 1 = a
      BY <1>2, <2>1
    <2>3. f[a] # Missing /\ f[b] = par[f[a]] /\ f[a] \in 1..n
      <3>1. f[b - 1] # Missing /\ f[b] = par[f[b - 1]] /\ f[a] \in 0..n
        BY <1>2, <2>2
      <3> QED BY <1>1, <2>2, <3>1 DEF Missing
    <2>4. Up[k] = {ms[f[a]].id}
      BY <1>2, <1>6, <2>1, <2>3 DEF IdOf
    <2>5. {l \in 1..n : ms[l].id \in Up[k]} = {f[a]}
      BY <1>1, <2>3, <2>4
    <2>6. Up[k + 1] = {ms[f[a]].parent}
      BY <1>4, <2>5
    <2>7. ms[f[a]].parent = IdOf(ms, f[b])
      BY <1>1, <2>3
    <2> QED BY <2>1, <2>6, <2>7
  <1>7. \A k \in Nat : k < K => Up[k] = {IdOf(ms, f[k + 1])}
    <2>1. Nat \subseteq Good
      <3> HIDE DEF Good
      <3> QED BY <1>5, <1>6, Induction
    <2> QED BY <2>1
  <1>8. ASSUME K > 0, f[K] = Missing PROVE \A k \in Nat : k >= K => Up[k] = {}
    <2> DEFINE Gone == {k \in Nat : k >= K => Up[k] = {}}
    <2>1. 0 \in Gone
      BY <1>2, <1>8
    <2>2. ASSUME NEW k \in Nat, k \in Gone PROVE k + 1 \in Gone
      <3> SUFFICES ASSUME k + 1 >= K PROVE Up[k + 1] = {}
        OBVIOUS
      <3>1. {l \in 1..n : ms[l].id \in Up[k]} = {}
        <4>1. CASE k >= K
          BY <2>2, <4>1
        <4>2. CASE k < K
          <5>1. k + 1 = K
            BY <1>2, <4>2
          <5>2. Up[k] = {IdOf(ms, f[K])}
            BY <1>7, <4>2, <5>1
          <5>3. Up[k] = {Missing}
            BY <1>8, <5>2 DEF IdOf
          <5> QED BY <1>1, <5>3
        <4> QED BY <1>2, <4>1, <4>2
      <3> QED BY <1>4, <3>1
    <2>3. Nat \subseteq Gone
      <3> HIDE DEF Gone
      <3> QED BY <2>1, <2>2, Induction
    <2> QED BY <2>3
  <1> QED BY <1>2, <1>7, <1>8

\* A menu that reaches the root is not above itself.
LEMMA RootedIsWell ==
  ASSUME NEW p, NEW ms, NEW par, ParentsRight(p, ms, par), NEW n, n = Len(p.menus),
         NEW i, i \in 1..n, Rooted(par, n, i)
  PROVE  ms[i].id \notin Above(p, ms[i])
  <1>1. PICK K, f : Climb(par, n, f, K, i) /\ f[K] = Missing /\ \A j \in 1..K : f[j] # i
    BY DEF Rooted, Missing
  <1>2. PICK Up : Follows(Up, p, ms[i])
    BY AboveFacts
  <1>3. /\ K \in Nat
        /\ \A k \in Nat : k < K => Up[k] = {IdOf(ms, f[k + 1])}
        /\ K > 0 /\ f[K] = Missing => \A k \in Nat : k >= K => Up[k] = {}
    BY <1>1, <1>2, ChainUp
  <1>4. /\ n \in Nat /\ \A j \in 1..n : ms[j].id # Missing
        /\ \A j, k \in 1..n : ms[j].id = ms[k].id => j = k
    <2>1. MenuTable(p, ms, par, n)
      BY ParentsFacts
    <2> QED BY <2>1 DEF MenuTable
  <1>5. K > 0
    <2>1. f[0] = i /\ i # Missing
      BY <1>1, <1>4 DEF Climb, Missing
    <2> QED BY <1>1, <1>3, <2>1
  <1>6. ASSUME NEW k \in Nat, ms[i].id \in Up[k] PROVE FALSE
    <2>1. k < K
      BY <1>1, <1>3, <1>5, <1>6
    <2>2. PICK j : j = k + 1 /\ j \in 1..K
      BY <1>3, <2>1
    <2>3. ms[i].id = IdOf(ms, f[j])
      BY <1>3, <1>6, <2>1, <2>2
    <2>4. f[j] \in 0..n /\ f[j] # i
      BY <1>1, <1>3, <2>2 DEF Climb
    <2>5. f[j] # Missing /\ ms[i].id = ms[f[j]].id
      BY <1>4, <2>3 DEF IdOf
    <2>6. f[j] \in 1..n
      BY <1>4, <2>4, <2>5 DEF Missing
    <2> QED BY <1>4, <2>4, <2>5, <2>6
  <1>7. Above(p, ms[i]) = UNION {Up[k] : k \in 0..Len(p.menus)}
    BY <1>2 DEF Follows
  <1> QED BY <1>6, <1>7

\* A menu that is met again is above itself.
LEMMA LoopIsAbove ==
  ASSUME NEW p, NEW ms, NEW par, ParentsRight(p, ms, par), NEW n, n = Len(p.menus), n \in Nat,
         NEW i, i \in 1..n, NEW K, NEW f, Climb(par, n, f, K, i), f[K] = i, K > 0, K - 1 <= n
  PROVE  ms[i].id \in Above(p, ms[i])
  <1>1. PICK Up : Follows(Up, p, ms[i])
    BY AboveFacts
  <1>2. K \in Nat /\ \A k \in Nat : k < K => Up[k] = {IdOf(ms, f[k + 1])}
    BY <1>1, ChainUp
  <1>3. PICK k : k = K - 1 /\ k \in 0..n /\ k < K /\ k \in Nat /\ k + 1 = K
    BY <1>2
  <1>4. Up[k] = {IdOf(ms, i)} /\ i # Missing
    BY <1>2, <1>3 DEF Missing
  <1>5. ms[i].id \in Up[k]
    BY <1>4 DEF IdOf
  <1>6. Above(p, ms[i]) = UNION {Up[j] : j \in 0..Len(p.menus)}
    BY <1>1 DEF Follows
  <1> QED BY <1>3, <1>5, <1>6

-----------------------------------------------------------------------------
(* The inductive invariant of the compiler.                                *)

BeforeMenus == {"symbols", "expressions", "linked"}
AfterReferences == {"choices", "constraints"}
AfterOptions == {"references"} \cup AfterReferences
AfterSiblings == {"options"} \cup AfterOptions
AfterWalk == {"siblings"} \cup AfterSiblings
AfterParents == {"walk"} \cup AfterWalk
MenuReasons == {"missing parent", "menu cycle", "sibling order", "missing menu",
                "writable reference", "missing option", "duplicate reference"}

\* Pointers are in their tables.
MenuTypes ==
    /\ parent \in Seq(0..Len(menus)) /\ path \in Seq(1..Len(menus)) /\ cursor \in 0..Len(menus)
    /\ references \in Seq([menu : 1..Len(menus), symbol : 1..Len(symbols)])

NoMenus ==
    /\ menus = <<>> /\ parent = <<>> /\ cursor = Missing /\ path = <<>> /\ references = <<>>

\* The parents of the menus before at are resolved.
Resolving ==
    /\ at - 1 <= Len(menus) /\ path = <<>> /\ cursor = Missing /\ references = <<>>
    /\ \A i \in 1..(at - 1) : menus[i].parent = IdOf(menus, parent[i])

\* The walk is at the end of a path of different menus from menu at, and the
\* menus before at reach their roots.
Walking ==
    /\ at = 1 \/ at <= Len(menus)
    /\ Len(path) <= Len(menus)
    /\ \A i, j \in 1..Len(path) : path[i] = path[j] => i = j
    /\ path = <<>> => cursor = IF menus = <<>> THEN Missing ELSE at
    /\ path # <<>> => path[1] = at /\ cursor = parent[path[Len(path)]]
    /\ \A j \in 1..Len(path) : j < Len(path) => path[j + 1] = parent[path[j]]
    /\ \A i \in 1..(at - 1) : Rooted(parent, Len(menus), i)

MenuInv ==
    /\ MenuTypes
    /\ stage \in BeforeMenus => NoMenus
    /\ stage \in {"parents"} \cup AfterParents =>
          menus = ById(project.menus) /\ Len(parent) = Len(menus)
    /\ stage = "parents" => Resolving
    /\ stage \in AfterParents => ParentsRight(project, menus, parent)
    /\ stage = "walk" => Walking
    /\ stage \in AfterWalk => HierarchyWell(project)
    /\ stage \in AfterSiblings => SiblingsWell(project)
    /\ stage \in AfterOptions => OptionsWell(project)
    /\ stage = "references" => /\ at - 1 <= Len(project.menus)
                               /\ \A i \in 1..(at - 1) : ReferencesWell(project, project.menus[i])
    /\ stage \in AfterReferences \/ outcome = "ok" => MenusWell(project)
    /\ outcome \in MenuReasons => ~MenusWell(project)
    /\ CycleGenuine

ChoiceReasons == {"nested choice", "missing member", "member type", "member domain",
                  "default member", "default tie"}

\* x is choice c compiled.
ChoiceRight(x, c) ==
    /\ x.source = c
    /\ \A k \in DOMAIN c.defaults : x.default_when[k].text = c.defaults[k].when

ChoicesRight(n) ==
    /\ Len(choices) = n /\ n <= Len(project.choices)
    /\ \A i \in 1..n : /\ ChoiceRight(choices[i], SortedChoices[i])
                       /\ ChoiceWell(project, SortedChoices[i])

ChoiceInv ==
    /\ choices \in Seq(Range(choices))
    /\ \A c \in Range(choices) : c.members \in Seq(1..Len(symbols))
    /\ stage \notin AfterReferences \cup {"done"} => choices = <<>>
    /\ stage = "choices" => ChoicesRight(at - 1)
    /\ stage = "constraints" \/ outcome = "ok" => ChoicesRight(Len(project.choices))
    /\ outcome \in ChoiceReasons => \E c \in Range(project.choices) : ~ChoiceWell(project, c)

\* x is constraint c compiled.
ConstraintRight(x, c) == x.source = c /\ x.when.text = c.when /\ x.require.text = c.require

ConstraintInv ==
    /\ stage \notin {"constraints", "done"} => constraints = <<>>
    /\ stage = "constraints" =>
          /\ at - 1 <= Len(project.constraints)
          /\ constraints \in Seq(Range(constraints)) /\ Len(constraints) = at - 1
          /\ \A i \in 1..(at - 1) : /\ ConstraintRight(constraints[i], project.constraints[i])
                                    /\ project.constraints[i].message
    /\ outcome = "empty message" => \E c \in Range(project.constraints) : ~c.message
    /\ outcome = "ok" => \A c \in Range(project.constraints) : c.message
    /\ PairingIsRight /\ GraphsAreComplete

Outcomes == {"running", "ok", "empty message"} \cup LinkReasons \cup MenuReasons \cup ChoiceReasons

CompileInv == LinkInv /\ MenuInv /\ ChoiceInv /\ ConstraintInv /\ outcome \in Outcomes

-----------------------------------------------------------------------------
(* The menus: each step.                                                   *)

\* What the steps after linking start from.
LEMMA CompilingFacts ==
  ASSUME LinkInv, stage \in Compiling
  PROVE  /\ project \in Projects /\ Linked /\ symbols = ById(project.symbols) /\ LinksWell(project)
         /\ outcome = "running" /\ at \in Nat \ {0}
  BY DEF LinkInv, Linked, Compiling

LEMMA MenuRefused ==
  ASSUME MenuInv, project' = project, symbols' = symbols, UNCHANGED menuVars,
         stage' = "done", outcome' # "ok", outcome' # "menu cycle",
         outcome' \in MenuReasons => ~MenusWell(project)
  PROVE  MenuInv'
  <1>1. MenuTypes'
    BY DEF MenuInv, MenuTypes, menuVars
  <1>2. CycleGenuine'
    BY DEF CycleGenuine
  <1> QED BY <1>1, <1>2 DEF MenuInv, BeforeMenus, AfterParents, AfterWalk, AfterSiblings,
                            AfterOptions, AfterReferences

LEMMA MenuInitInv ==
  ASSUME CompileInit
  PROVE  MenuInv
  <1>1. /\ menus = <<>> /\ parent = <<>> /\ cursor = Missing /\ path = <<>> /\ references = <<>>
        /\ stage = "symbols" /\ outcome = "running"
    BY DEF CompileInit, LinkInit
  <1>2. MenuTypes /\ NoMenus
    BY <1>1 DEF MenuTypes, NoMenus, Missing
  <1> QED BY <1>1, <1>2 DEF MenuInv, CycleGenuine, BeforeMenus, AfterParents, AfterWalk,
                            AfterSiblings, AfterOptions, AfterReferences, MenuReasons

LEMMA MenuLink ==
  ASSUME LinkInv, MenuInv, Link
  PROVE  MenuInv'
  <1>1. /\ stage \in {"symbols", "expressions"} /\ outcome = "running" /\ UNCHANGED menuVars
    BY DEF Link, LinkNext, SortSymbols, AppendExpression, BuildIndex, LinkInv, Compiling
  <1>2. NoMenus
    BY <1>1 DEF MenuInv, BeforeMenus
  <1>3. \/ stage' \in {"symbols", "expressions", "linked"} /\ outcome' = "running"
        \/ stage' = "done" /\ outcome' \notin MenuReasons \cup {"ok"}
    <2>1. CASE SortSymbols
      <3>1. /\ symbols' = ById(project.symbols) /\ stage' = "expressions" /\ outcome' = outcome
        <4>1. project \in Projects
          BY DEF LinkInv
        <4> QED BY <2>1, <4>1, NoSymbolError DEF SortSymbols, Go
      <3> QED BY <1>1, <3>1
    <2>2. CASE AppendExpression
      <3>1. PICK s : s = Sources[at]
        OBVIOUS
      <3>2. \/ stage' = stage /\ outcome' = outcome
            \/ s.text # NoText /\ stage' = "done" /\ outcome' = LinkError(s) /\ LinkError(s) # "none"
        BY <2>2, <3>1 DEF AppendExpression, Refuse, Advance
      <3>3. LinkError(s) \in {"none", "expression", "result type", "missing reference",
                              "self reference"}
        BY DEF LinkError
      <3> QED BY <1>1, <3>2, <3>3 DEF MenuReasons
    <2>3. CASE BuildIndex
      BY <1>1, <2>3 DEF BuildIndex, Go
    <2> QED BY <2>1, <2>2, <2>3 DEF Link, LinkNext
  <1>4. NoMenus'
    BY <1>1, <1>2 DEF NoMenus, menuVars
  <1>5. MenuTypes'
    BY <1>4 DEF MenuTypes, NoMenus, Missing
  <1> QED BY <1>3, <1>4, <1>5 DEF MenuInv, CycleGenuine, BeforeMenus, AfterParents, AfterWalk,
                            AfterSiblings, AfterOptions, AfterReferences, MenuReasons

LEMMA MenuCollect ==
  ASSUME LinkInv, MenuInv, CollectMenus
  PROVE  MenuInv'
  <1>1. /\ stage = "linked" /\ outcome = "running" /\ outcome' = "running" /\ stage' = "parents"
        /\ at' = 1 /\ project' = project /\ project \in Projects
        /\ menus' = ById(project.menus)
        /\ parent' = [i \in DOMAIN project.menus |-> Missing]
        /\ cursor' = cursor /\ path' = path /\ references' = references
    BY CompilingFacts DEF CollectMenus, Go, linkTables, Compiling
  <1>2. NoMenus
    BY <1>1 DEF MenuInv, BeforeMenus
  <1>3. PICK n, ms, seq : n = Len(seq) /\ ms = menus' /\ seq = project.menus
    OBVIOUS
  <1>4. n \in Nat /\ Len(ms) = n
    BY <1>1, <1>3, MenuFacts
  <1>5. DOMAIN seq = 1..n
    <2>1. seq \in Seq(MenuNode)
      BY <1>1, <1>3, ProjectFacts
    <2> QED BY <1>3, <2>1
  <1>6. parent' = [i \in 1..n |-> Missing]
    BY <1>1, <1>3, <1>5
  <1>7. parent' \in Seq(0..n) /\ Len(parent') = n
    BY <1>4, <1>6 DEF Missing
  <1>8. MenuTypes'
    BY <1>1, <1>2, <1>3, <1>4, <1>7 DEF MenuTypes, NoMenus, Missing
  <1>9. Resolving'
    BY <1>1, <1>2, <1>3, <1>4 DEF Resolving, NoMenus
  <1> QED BY <1>1, <1>3, <1>4, <1>7, <1>8, <1>9
          DEF MenuInv, CycleGenuine, BeforeMenus, AfterParents, AfterWalk,
              AfterSiblings, AfterOptions, AfterReferences, MenuReasons

LEMMA MenuResolve ==
  ASSUME LinkInv, MenuInv, ResolveParent
  PROVE  MenuInv'
  <1>1. /\ stage = "parents" /\ outcome = "running" /\ project \in Projects /\ Linked
        /\ at \in Nat \ {0} /\ at <= Len(menus) /\ menus = ById(project.menus)
        /\ Len(parent) = Len(menus) /\ Resolving /\ MenuTypes
    BY CompilingFacts DEF ResolveParent, Compiling, MenuInv
  <1>2. PICK n, ms, m, id, found :
            /\ n = Len(project.menus) /\ ms = menus /\ m = menus[at] /\ id = m.parent
            /\ found = FindMenu(id)
    OBVIOUS
  <1>3. /\ n \in Nat /\ Len(ms) = n /\ at \in 1..n /\ m \in Range(project.menus)
        /\ id \in Nat /\ m = ms[at]
        /\ \A i \in 1..n : ms[i].id # Missing
    <2>1. PICK sorted : sorted = ById(project.menus)
      OBVIOUS
    <2>2. n \in Nat /\ Len(sorted) = n /\ DOMAIN sorted = 1..n /\ Range(sorted) = Range(project.menus)
          /\ \A i \in 1..n : sorted[i].id # Missing /\ sorted[i].parent \in Nat
      BY <1>1, <1>2, <2>1, MenuFacts
    <2>3. at \in 1..n /\ m = sorted[at]
      BY <1>1, <1>2, <2>1, <2>2
    <2>4. m \in Range(project.menus)
      BY <2>2, <2>3 DEF Range
    <2> QED BY <1>1, <1>2, <2>1, <2>2, <2>3, <2>4
  <1>4. /\ found \in 0..n
        /\ found = Missing <=> id \notin Ids(project.menus)
        /\ found # Missing => found \in 1..n /\ ms[found].id = id
    <2>1. found = BinarySearch(ById(project.menus), id)
      BY <1>1, <1>2 DEF FindMenu
    <2>2. LET g == BinarySearch(ById(project.menus), id)
          IN  /\ g \in 0..n
              /\ g = Missing <=> id \notin Ids(project.menus)
              /\ g # Missing => g \in 1..n /\ ById(project.menus)[g].id = id
      BY <1>1, <1>2, <1>3, MenuFacts
    <2> QED BY <1>1, <1>2, <2>1, <2>2
  <1>5. ~(m.visible_if # NoText /\ FindExpression("menu_visible_if", m.id, 0) = NoExpression)
    BY <1>1, <1>3, MenuFound
  <1>6. CASE id # Missing /\ found = Missing
    <2>1. Reject("missing parent")
      BY <1>2, <1>5, <1>6 DEF ResolveParent
    <2>2. ~HierarchyWell(project)
      <3>1. m.parent \notin Ids(project.menus) \cup {Missing}
        BY <1>2, <1>4, <1>6
      <3> QED BY <1>3, <3>1, Zenon DEF HierarchyWell
    <2> QED BY <2>1, <2>2, MenuRefused DEF Reject, Refuse, MenusWell
  <1>7. CASE ~(id # Missing /\ found = Missing)
    <2>1. /\ parent' = [parent EXCEPT ![at] = found] /\ at' = at + 1 /\ stage' = stage
          /\ outcome' = outcome /\ project' = project /\ symbols' = symbols /\ menus' = menus
          /\ cursor' = cursor /\ path' = path /\ references' = references
      BY <1>2, <1>5, <1>7 DEF ResolveParent, Advance, linkTables
    <2>2. id = IdOf(ms, found)
      <3>1. CASE found = Missing
        BY <1>7, <3>1 DEF IdOf
      <3>2. CASE found # Missing
        BY <1>4, <3>2 DEF IdOf
      <3> QED BY <3>1, <3>2
    <2>3. parent \in Seq(0..n) /\ DOMAIN parent = 1..n /\ Len(parent) = n
      BY <1>1, <1>2, <1>3 DEF MenuTypes
    <2>4. /\ parent' \in Seq(0..n) /\ Len(parent') = n /\ parent'[at] = found
          /\ \A i \in 1..n : i # at => parent'[i] = parent[i]
      <3>1. PICK q, r : q = parent /\ r = parent'
        OBVIOUS
      <3>2. q \in [1..n -> 0..n] /\ r = [q EXCEPT ![at] = found]
        BY <2>1, <2>3, <3>1
      <3>3. /\ r \in [1..n -> 0..n] /\ r[at] = found
            /\ \A i \in 1..n : i # at => r[i] = q[i]
        BY <1>3, <1>4, <3>2
      <3>4. r \in Seq(0..n) /\ Len(r) = n
        BY <1>3, <3>3
      <3> QED BY <3>1, <3>3, <3>4
    <2>5. MenuTypes'
      BY <1>1, <1>2, <1>3, <2>1, <2>4 DEF MenuTypes
    <2>6. \A i \in 1..at : ms[i].parent = IdOf(ms, parent'[i])
      <3> SUFFICES ASSUME NEW i \in 1..at PROVE ms[i].parent = IdOf(ms, parent'[i])
        OBVIOUS
      <3>1. CASE i = at
        BY <1>2, <1>3, <2>2, <2>4, <3>1
      <3>2. CASE i # at
        <4>1. i \in 1..(at - 1) /\ i \in 1..n
          BY <1>3, <3>2
        <4>2. ms[i].parent = IdOf(ms, parent[i])
          BY <1>1, <1>2, <4>1 DEF Resolving
        <4> QED BY <2>4, <3>2, <4>1, <4>2
      <3> QED BY <3>1, <3>2
    <2>7. Resolving'
      <3>1. at' - 1 = at /\ menus' = ms
        BY <1>2, <1>3, <2>1
      <3>2. at' - 1 <= Len(menus')
        BY <1>1, <2>1, <3>1
      <3>3. path' = <<>> /\ cursor' = Missing /\ references' = <<>>
        BY <1>1, <2>1 DEF Resolving
      <3>4. \A i \in 1..(at' - 1) : menus'[i].parent = IdOf(menus', parent'[i])
        BY <2>6, <3>1
      <3> QED BY <3>2, <3>3, <3>4 DEF Resolving
    <2> QED BY <1>1, <1>2, <1>3, <2>1, <2>4, <2>5, <2>7
            DEF MenuInv, CycleGenuine, BeforeMenus, AfterParents, AfterWalk,
                AfterSiblings, AfterOptions, AfterReferences, MenuReasons
  <1> QED BY <1>6, <1>7

LEMMA MenuBeginWalks ==
  ASSUME LinkInv, MenuInv, BeginWalks
  PROVE  MenuInv'
  <1>1. /\ stage = "parents" /\ outcome = "running" /\ project \in Projects
        /\ at \in Nat \ {0} /\ at > Len(menus) /\ menus = ById(project.menus)
        /\ Len(parent) = Len(menus) /\ Resolving /\ MenuTypes
    BY CompilingFacts DEF BeginWalks, Compiling, MenuInv
  <1>2. /\ stage' = "walk" /\ at' = 1 /\ outcome' = outcome /\ project' = project
        /\ symbols' = symbols /\ menus' = menus /\ parent' = parent /\ path' = path
        /\ references' = references /\ cursor' = IF menus = <<>> THEN Missing ELSE 1
    BY DEF BeginWalks, Go, linkTables
  <1>3. PICK n, ms, par : n = Len(project.menus) /\ ms = menus /\ par = parent
    OBVIOUS
  <1>4. n \in Nat /\ Len(ms) = n /\ Len(project.menus) = n /\ ms \in Seq(MenuNode)
    BY <1>1, <1>3, MenuFacts
  <1>5. \A i \in 1..n : par[i] \in 0..n /\ ms[i].parent = IdOf(ms, par[i])
    <2>1. at - 1 = n
      BY <1>1, <1>3, <1>4 DEF Resolving
    <2>2. par \in Seq(0..n) /\ Len(par) = n
      BY <1>1, <1>3, <1>4 DEF MenuTypes
    <2> QED BY <1>1, <1>3, <2>1, <2>2 DEF Resolving
  <1>6. ParentsRight(project, ms, par)
    BY <1>1, <1>3, <1>4, <1>5 DEF ParentsRight
  <1>7. menus = <<>> \/ n >= 1
    BY <1>3, <1>4
  <1>8. MenuTypes'
    BY <1>1, <1>2, <1>3, <1>4, <1>7 DEF MenuTypes, Missing
  <1>9. Walking'
    <2>1. path' = <<>>
      BY <1>1, <1>2 DEF Resolving
    <2>2. cursor' = IF menus' = <<>> THEN Missing ELSE at'
      BY <1>2
    <2> QED BY <1>2, <1>3, <1>4, <2>1, <2>2 DEF Walking
  <1> QED BY <1>1, <1>2, <1>3, <1>6, <1>8, <1>9
          DEF MenuInv, CycleGenuine, BeforeMenus, AfterParents, AfterWalk,
              AfterSiblings, AfterOptions, AfterReferences, MenuReasons

-----------------------------------------------------------------------------
(* The walks.                                                              *)

\* The walk is a path.
LEMMA WalkFacts ==
  ASSUME LinkInv, MenuInv, stage = "walk"
  PROVE  /\ project \in Projects /\ outcome = "running" /\ at \in Nat \ {0}
         /\ LET n == Len(project.menus)
            IN  /\ n \in Nat /\ Len(menus) = n /\ Len(parent) = n /\ MenuTypes
                /\ menus = ById(project.menus)
                /\ parent \in [1..n -> 0..n] /\ path \in Seq(1..n) /\ cursor \in 0..n
                /\ ParentsRight(project, menus, parent)
                /\ Wander(parent, n, path, Len(path), cursor) /\ Len(path) <= n
                /\ Walking
  <1>1. /\ project \in Projects /\ outcome = "running" /\ at \in Nat \ {0}
    BY CompilingFacts DEF Compiling
  <1>2. /\ menus = ById(project.menus) /\ Len(parent) = Len(menus) /\ MenuTypes
        /\ ParentsRight(project, menus, parent) /\ Walking
    BY DEF MenuInv, AfterParents
  <1>3. PICK n, way, L, here : n = Len(project.menus) /\ way = path /\ L = Len(path) /\ here = cursor
    OBVIOUS
  <1>4. n \in Nat /\ Len(menus) = n
    BY <1>1, <1>2, <1>3, MenuFacts
  <1>5. parent \in Seq(0..n) /\ way \in Seq(1..n) /\ here \in 0..n
    BY <1>2, <1>3, <1>4 DEF MenuTypes
  <1>6. parent \in [1..n -> 0..n] /\ L \in Nat /\ way \in [1..L -> 1..n]
    <2>1. PICK par : par = parent
      OBVIOUS
    <2>2. par \in Seq(0..n) /\ Len(par) = n
      BY <1>2, <1>4, <1>5, <2>1
    <2>3. par \in [1..n -> 0..n]
      BY ONLY <1>4, <2>2
    <2>4. L = Len(way)
      BY <1>3
    <2>5. L \in Nat /\ way \in [1..L -> 1..n]
      BY ONLY <1>4, <1>5, <2>4
    <2> QED BY <2>1, <2>3, <2>5
  <1>7. Wander(parent, n, way, L, here)
    <2>1. L > 0 => way # <<>>
      BY <1>3, <1>5
    <2> QED BY <1>2, <1>3, <1>4, <1>5, <1>6, <2>1 DEF Walking, Wander
  <1>8. L <= n
    BY <1>2, <1>3, <1>4 DEF Walking
  <1> QED BY <1>1, <1>2, <1>3, <1>4, <1>5, <1>6, <1>7, <1>8

LEMMA MenuWalkUp ==
  ASSUME LinkInv, MenuInv, WalkUp
  PROVE  MenuInv'
  <1>1. stage = "walk" /\ cursor # Missing
    BY DEF WalkUp
  <1>2. PICK n, par, way, L, here :
            /\ n = Len(project.menus) /\ par = parent /\ way = path /\ L = Len(path) /\ here = cursor
    OBVIOUS
  <1>3. /\ project \in Projects /\ outcome = "running" /\ at \in Nat \ {0}
        /\ n \in Nat /\ Len(menus) = n /\ Len(par) = n /\ MenuTypes
        /\ menus = ById(project.menus)
        /\ way \in Seq(1..n) /\ here \in 1..n
        /\ ParentsRight(project, menus, par)
        /\ Wander(par, n, way, L, here) /\ L <= n /\ Walking
    BY <1>1, <1>2, WalkFacts DEF Missing
  <1>4. DOMAIN way = 1..L /\ L \in Nat
    BY <1>2, <1>3
  <1>5. CASE \E i \in DOMAIN path : path[i] = cursor
    <2>1. PICK first : /\ first = CHOOSE i \in DOMAIN path : path[i] = cursor
                       /\ first \in 1..L /\ way[first] = here
      BY <1>2, <1>4, <1>5
    <2>2. /\ reported' = SubSeq(way, first, L) /\ outcome' = "menu cycle" /\ stage' = "done"
          /\ project' = project /\ symbols' = symbols /\ menus' = menus /\ parent' = parent
          /\ cursor' = cursor /\ path' = path /\ references' = references
      BY <1>2, <1>5, <2>1 DEF WalkUp, Refuse
    <2>3. PICK K, loop : K = L - first + 1 /\ loop = SubSeq(way, first, L)
      OBVIOUS
    <2>4. DOMAIN loop = 1..K /\ Len(loop) = K /\ \A i \in 1..K : loop[i] = way[first + i - 1]
      <3>1. PICK R : R = 1..n
        OBVIOUS
      <3>2. way \in Seq(R) /\ L = Len(way) /\ first \in 1..L
        BY <1>2, <1>3, <2>1, <3>1
      <3>3. loop \in Seq(R) /\ Len(loop) = K
        BY ONLY <2>3, <3>2
      <3>4. \A i \in 1..K : loop[i] = way[first + i - 1]
        BY ONLY <2>3, <3>2
      <3> QED BY <3>3, <3>4
    <2>5. /\ loop # <<>>
          /\ \A i, j \in DOMAIN loop : loop[i] = loop[j] => i = j
          /\ \A i \in DOMAIN loop : par[loop[i]] = loop[(i % Len(loop)) + 1]
      <3>1. Wander(par, n, way, L, here) /\ first \in 1..L /\ way[first] = here
        BY <1>3, <2>1
      <3>2. Loop(par, n, way, L, here, first, loop, K)
        BY <2>3, <2>4, <3>1 DEF Loop
      <3> QED BY ONLY <3>2, CycleReported
    <2>6. CycleGenuine'
      BY <1>2, <2>2, <2>3, <2>5 DEF CycleGenuine
    <2>7. ~HierarchyWell(project)
      <3>1. PICK f : /\ Climb(par, n, f, L - first + 1, way[first])
                     /\ f[L - first + 1] = here
                     /\ \A j \in 0..(L - first) : f[j] = way[first + j]
        <4>1. Wander(par, n, way, L, here) /\ first \in 1..L
          BY <1>3, <2>1
        <4> QED BY ONLY <4>1, PathChain
      <3>2. /\ Climb(par, n, f, K, here) /\ f[K] = here /\ K > 0 /\ K - 1 <= n
        BY <1>3, <1>4, <2>1, <2>3, <3>1
      <3>3. PICK p, ms : p = project /\ ms = menus
        OBVIOUS
      <3>4. ParentsRight(p, ms, par) /\ n = Len(p.menus) /\ n \in Nat /\ here \in 1..n
        BY <1>2, <1>3, <3>3
      <3>5. ms[here].id \in Above(p, ms[here])
        BY ONLY <3>2, <3>4, LoopIsAbove
      <3>6. ms[here] \in Range(p.menus)
        <4>1. PICK sorted : sorted = ById(project.menus)
          OBVIOUS
        <4>2. DOMAIN sorted = 1..n /\ Range(sorted) = Range(project.menus)
          BY <1>2, <1>3, <4>1, MenuFacts
        <4>3. sorted[here] \in Range(sorted)
          BY <1>3, <4>2 DEF Range
        <4> QED BY <1>3, <3>3, <4>1, <4>2, <4>3
      <3> QED BY <3>3, <3>5, <3>6 DEF HierarchyWell
    <2>8. MenuTypes'
      BY <1>3, <2>2 DEF MenuTypes
    <2> QED BY <2>2, <2>6, <2>7, <2>8 DEF MenuInv, MenusWell, BeforeMenus, AfterParents, AfterWalk,
                            AfterSiblings, AfterOptions, AfterReferences
  <1>6. CASE ~\E i \in DOMAIN path : path[i] = cursor
    <2>1. \A i \in 1..L : way[i] # here
      BY <1>2, <1>4, <1>6
    <2>2. L # n
      <3>1. here # Missing
        BY <1>3 DEF Missing
      <3> QED BY <1>3, <2>1, <3>1, PathFull DEF Missing
    <2>3. /\ path' = Append(way, here) /\ cursor' = par[here]
          /\ project' = project /\ symbols' = symbols /\ menus' = menus /\ parent' = parent
          /\ references' = references /\ stage' = stage /\ at' = at /\ outcome' = outcome
      BY <1>2, <1>3, <1>6, <2>2 DEF WalkUp, linkTables
    <2>4. PICK M, longer : M = L + 1 /\ longer = Append(way, here)
      OBVIOUS
    <2>5. /\ M \in Nat /\ longer \in Seq(1..n) /\ Len(longer) = M /\ DOMAIN longer = 1..M /\ M <= n
          /\ longer[M] = here /\ \A i \in 1..L : longer[i] = way[i]
          /\ longer # <<>>
      BY <1>2, <1>3, <1>4, <2>2, <2>4
    <2>6. /\ par[here] \in 0..n
      BY <1>2, <1>3 DEF ParentsRight
    <2>7. \A i, j \in 1..M : longer[i] = longer[j] => i = j
      <3> SUFFICES ASSUME NEW i \in 1..M, NEW j \in 1..M, longer[i] = longer[j] PROVE i = j
        OBVIOUS
      <3>1. CASE i \in 1..L /\ j \in 1..L
        BY <1>3, <2>5, <3>1 DEF Wander
      <3>2. CASE i \in 1..L /\ j = M
        BY <2>1, <2>5, <3>2
      <3>3. CASE i = M /\ j \in 1..L
        BY <2>1, <2>5, <3>3
      <3> QED BY <1>4, <2>4, <3>1, <3>2, <3>3
    <2>8. longer[1] = at
      <3>1. CASE way = <<>>
        <4>1. L = 0 /\ menus # <<>>
          BY <1>2, <1>3, <3>1
        <4>2. here = at
          BY <1>2, <1>3, <3>1, <4>1 DEF Walking
        <4> QED BY <2>4, <2>5, <4>1, <4>2
      <3>2. CASE way # <<>>
        <4>1. 1 \in 1..L
          BY <1>2, <1>3, <1>4, <3>2
        <4>2. way[1] = at
          BY <1>2, <1>3, <3>2 DEF Walking
        <4> QED BY <2>5, <4>1, <4>2
      <3> QED BY <3>1, <3>2
    <2>9. \A j \in 1..M : j < M => longer[j + 1] = par[longer[j]]
      <3> SUFFICES ASSUME NEW j \in 1..M, j < M PROVE longer[j + 1] = par[longer[j]]
        OBVIOUS
      <3>1. j \in 1..L /\ longer[j] = way[j]
        BY <1>4, <2>4, <2>5
      <3>2. CASE j = L
        <4>1. j + 1 = M
          BY <2>4, <3>2
        <4>2. here = par[way[L]]
          BY <1>3, <1>4, <3>1, <3>2 DEF Wander
        <4> QED BY <2>5, <3>1, <3>2, <4>1, <4>2
      <3>3. CASE j # L
        <4>1. PICK k : k = j + 1 /\ k \in 1..L /\ j < L
          BY <1>4, <3>1, <3>3
        <4>2. way[k] = par[way[j]]
          BY <1>3, <3>1, <4>1 DEF Wander
        <4> QED BY <2>5, <3>1, <4>1, <4>2
      <3> QED BY <3>2, <3>3
    <2>10. Walking'
      <3>1. /\ at' = 1 \/ at' <= Len(menus')
            /\ \A i \in 1..(at' - 1) : Rooted(parent', Len(menus'), i)
        BY <1>2, <1>3, <2>3 DEF Walking
      <3>2. Len(path') = M /\ path' = longer /\ Len(menus') = n /\ parent' = par
        BY <1>2, <1>3, <2>3, <2>4, <2>5
      <3>3. cursor' = parent'[path'[Len(path')]]
        BY <2>3, <2>5, <3>2
      <3> QED BY <2>3, <2>5, <2>7, <2>8, <2>9, <3>1, <3>2, <3>3 DEF Walking
    <2>11. MenuTypes'
      BY <1>2, <1>3, <2>3, <2>4, <2>5, <2>6 DEF MenuTypes
    <2> QED BY <1>1, <1>2, <1>3, <2>3, <2>10, <2>11
            DEF MenuInv, CycleGenuine, BeforeMenus, AfterParents, AfterWalk, AfterSiblings,
                AfterOptions, AfterReferences, MenuReasons
  <1> QED BY <1>5, <1>6

\* When every menu reaches its root the hierarchy is a forest.
LEMMA RootedHierarchy ==
  ASSUME NEW p, NEW ms, NEW par, ParentsRight(p, ms, par), NEW n, n = Len(p.menus),
         \A i \in 1..n : Rooted(par, n, i)
  PROVE  HierarchyWell(p)
  <1>1. /\ n \in Nat /\ DOMAIN ms = 1..n
        /\ Range(p.menus) = {ms[j] : j \in 1..n}
        /\ \A j \in 1..n : par[j] \in 0..n /\ ms[j].parent = IdOf(ms, par[j])
    <2>1. MenuTable(p, ms, par, n)
      BY ParentsFacts
    <2> QED BY <2>1 DEF MenuTable
  <1> SUFFICES ASSUME NEW m \in Range(p.menus)
               PROVE  m.parent \in Ids(p.menus) \cup {Missing} /\ m.id \notin Above(p, m)
    BY DEF HierarchyWell
  <1>2. PICK i : i \in 1..n /\ m = ms[i]
    BY <1>1
  <1>3. m.parent \in Ids(p.menus) \cup {Missing}
    <2>1. PICK a : a = par[i] /\ a \in 0..n /\ m.parent = IdOf(ms, a)
      BY <1>1, <1>2
    <2>2. CASE a = Missing
      BY <2>1, <2>2 DEF IdOf
    <2>3. CASE a # Missing
      <3>1. a \in 1..n /\ m.parent = ms[a].id
        BY <1>1, <2>1, <2>3 DEF IdOf, Missing
      <3>2. ms[a] \in Range(p.menus)
        BY <1>1, <3>1
      <3> QED BY <3>1, <3>2 DEF Ids
    <2> QED BY <2>2, <2>3
  <1>4. m.id \notin Above(p, m)
    <2>1. Rooted(par, n, i)
      BY <1>2
    <2> QED BY <1>2, <2>1, RootedIsWell
  <1> QED BY <1>3, <1>4

\* Siblings by parent index are siblings by parent id.
LEMMA SiblingFacts ==
  ASSUME NEW p, NEW ms, NEW par, ParentsRight(p, ms, par), NEW n, n = Len(p.menus)
  PROVE  SiblingsWell(p) <=>
            ~\E i, j \in DOMAIN ms : i # j /\ par[i] = par[j] /\ ms[i].order = ms[j].order
  <1>1. /\ n \in Nat /\ DOMAIN ms = 1..n
        /\ \A j \in 1..n : ms[j].id # Missing
        /\ \A j, k \in 1..n : ms[j].id = ms[k].id => j = k
        /\ Range(p.menus) = {ms[j] : j \in 1..n}
        /\ \A j \in 1..n : par[j] \in 0..n /\ ms[j].parent = IdOf(ms, par[j])
    <2>1. MenuTable(p, ms, par, n)
      BY ParentsFacts
    <2> QED BY <2>1 DEF MenuTable
  <1>2. ASSUME NEW i \in 1..n, NEW j \in 1..n
        PROVE  ms[i].parent = ms[j].parent <=> par[i] = par[j]
    <2>1. PICK a, b : a = par[i] /\ b = par[j]
      OBVIOUS
    <2>2. a \in 0..n /\ b \in 0..n /\ ms[i].parent = IdOf(ms, a) /\ ms[j].parent = IdOf(ms, b)
      BY <1>1, <2>1
    <2>3. IdOf(ms, a) = IdOf(ms, b) => a = b
      <3>1. \A c \in 0..n : c # Missing => c \in 1..n
        BY <1>1 DEF Missing
      <3> QED BY <1>1, <2>2, <3>1 DEF IdOf
    <2> QED BY <2>1, <2>2, <2>3
  <1>3. SiblingsWell(p) <=>
           \A i, j \in 1..n : ms[i].parent = ms[j].parent /\ ms[i].order = ms[j].order => ms[i] = ms[j]
    <2> DEFINE Fit(a, b) == a.parent = b.parent /\ a.order = b.order => a = b
    <2>1. SiblingsWell(p) <=> \A a, b \in {ms[j] : j \in 1..n} : Fit(a, b)
      <3>1. Range(p.menus) = {ms[j] : j \in 1..n}
        BY <1>1
      <3> QED BY ONLY <3>1 DEF SiblingsWell
    <2>2. SiblingsWell(p) <=> \A i, j \in 1..n : Fit(ms[i], ms[j])
      <3> HIDE DEF Fit
      <3> QED BY ONLY <2>1
    <2> QED BY <2>2
  <1>4. \A i, j \in 1..n : ms[i] = ms[j] => i = j
    BY <1>1
  <1> QED BY <1>1, <1>2, <1>3, <1>4

\* After the hierarchy the menus are only read.
LEMMA MenuKept ==
  ASSUME MenuInv, project' = project, symbols' = symbols, UNCHANGED menuVars,
         stage \in AfterWalk, stage' \in AfterWalk, outcome' = "running",
         stage' \in AfterSiblings => SiblingsWell(project),
         stage' \in AfterOptions => OptionsWell(project),
         stage' = "references" => at' = 1,
         stage' \in AfterReferences => MenusWell(project)
  PROVE  MenuInv'
  <1>1. MenuTypes'
    BY DEF MenuInv, MenuTypes, menuVars
  <1>2. /\ menus' = ById(project'.menus) /\ Len(parent') = Len(menus')
        /\ ParentsRight(project', menus', parent') /\ HierarchyWell(project')
    BY DEF MenuInv, AfterParents, menuVars
  <1>3. stage' \notin BeforeMenus /\ stage' # "parents" /\ stage' # "walk"
    BY DEF BeforeMenus, AfterWalk, AfterSiblings, AfterOptions, AfterReferences
  <1>4. stage' = "references" => /\ at' - 1 <= Len(project'.menus)
                                 /\ \A i \in 1..(at' - 1) : ReferencesWell(project', project'.menus[i])
    <2>1. Len(project.menus) \in Nat
      <3>1. Len(project.menus) = Len(menus) /\ path \in Seq(1..Len(menus)) /\ parent \in Seq(0..Len(menus))
            /\ Len(parent) = Len(menus)
        BY DEF MenuInv, AfterParents, ParentsRight, MenuTypes, ById, Sorted
      <3> QED BY <3>1
    <2> QED BY <2>1
  <1> QED BY <1>1, <1>2, <1>3, <1>4 DEF MenuInv, CycleGenuine, MenuReasons

LEMMA MenuNextWalk ==
  ASSUME LinkInv, MenuInv, NextWalk
  PROVE  MenuInv'
  <1>1. stage = "walk" /\ cursor = Missing
    BY DEF NextWalk
  <1>2. PICK n, par, way, L, here :
            /\ n = Len(project.menus) /\ par = parent /\ way = path /\ L = Len(path) /\ here = cursor
    OBVIOUS
  <1>3. /\ project \in Projects /\ outcome = "running" /\ at \in Nat \ {0}
        /\ n \in Nat /\ Len(menus) = n /\ Len(par) = n /\ MenuTypes
        /\ menus = ById(project.menus) /\ DOMAIN menus = 1..n
        /\ way \in Seq(1..n)
        /\ ParentsRight(project, menus, par)
        /\ Wander(par, n, way, L, here) /\ L <= n /\ Walking
    <2>1. /\ project \in Projects /\ outcome = "running" /\ at \in Nat \ {0}
          /\ n \in Nat /\ Len(menus) = n /\ Len(par) = n /\ MenuTypes
          /\ menus = ById(project.menus) /\ way \in Seq(1..n)
          /\ ParentsRight(project, menus, par)
          /\ Wander(par, n, way, L, here) /\ L <= n /\ Walking
      BY <1>1, <1>2, WalkFacts
    <2>2. PICK p, ms : p = project /\ ms = menus
      OBVIOUS
    <2>3. MenuTable(p, ms, par, n)
      BY <1>2, <2>1, <2>2, ParentsFacts
    <2> QED BY <2>1, <2>2, <2>3 DEF MenuTable
  <1>4. n > 0 => at <= n /\ Rooted(par, n, at)
    <2> SUFFICES ASSUME n > 0 PROVE at <= n /\ Rooted(par, n, at)
      OBVIOUS
    <2>1. menus # <<>>
      BY <1>3
    <2>2. way # <<>>
      BY <1>1, <1>2, <1>3, <2>1 DEF Walking, Missing
    <2>3. L > 0 /\ way[1] = at
      BY <1>2, <1>3, <2>2 DEF Walking
    <2>4. Wander(par, n, way, L, here) /\ here = Missing /\ L > 0
      BY <1>1, <1>2, <1>3, <2>3
    <2>5. Rooted(par, n, way[1])
      BY ONLY <2>4, PathRooted DEF Missing
    <2>6. at <= n
      BY <1>3 DEF Walking
    <2> QED BY <2>3, <2>5, <2>6
  <1>5. \A i \in 1..(at - 1) : Rooted(par, n, i)
    BY <1>2, <1>3 DEF Walking
  <1>6. /\ project' = project /\ symbols' = symbols /\ menus' = menus /\ parent' = parent
        /\ references' = references /\ path' = <<>> /\ outcome' = outcome
    BY DEF NextWalk, linkTables, Go, Advance
  <1>7. CASE at < n
    <2>1. /\ cursor' = at + 1 /\ at' = at + 1 /\ stage' = stage
      BY <1>3, <1>7 DEF NextWalk, Advance
    <2>2. \A i \in 1..at : Rooted(par, n, i)
      <3> SUFFICES ASSUME NEW i \in 1..at PROVE Rooted(par, n, i)
        OBVIOUS
      <3>1. i = at \/ i \in 1..(at - 1)
        BY <1>3
      <3> QED BY <1>3, <1>4, <1>5, <1>7, <3>1
    <2>3. Walking'
      <3>1. at' - 1 = at /\ at' <= n /\ Len(menus') = n /\ parent' = par /\ menus' # <<>>
        BY <1>2, <1>3, <1>6, <1>7, <2>1
      <3>2. cursor' = at'
        BY <2>1
      <3> QED BY <1>3, <1>6, <2>2, <3>1, <3>2 DEF Walking
    <2>4. MenuTypes'
      <3>1. Len(menus') = Len(menus) /\ at + 1 \in 0..Len(menus)
        BY <1>3, <1>6, <1>7
      <3>2. path' \in Seq(1..Len(menus')) /\ cursor' \in 0..Len(menus')
        BY <1>6, <2>1, <3>1
      <3> QED BY <1>3, <1>6, <3>1, <3>2 DEF MenuTypes
    <2> QED BY <1>1, <1>2, <1>3, <1>6, <2>1, <2>3, <2>4
            DEF MenuInv, CycleGenuine, BeforeMenus, AfterParents, AfterWalk, AfterSiblings,
                AfterOptions, AfterReferences, MenuReasons
  <1>8. CASE ~(at < n)
    <2>1. cursor' = cursor /\ stage' = "siblings"
      BY <1>3, <1>8 DEF NextWalk, Go
    <2>2. \A i \in 1..n : Rooted(par, n, i)
      <3> SUFFICES ASSUME NEW i \in 1..n PROVE Rooted(par, n, i)
        OBVIOUS
      <3>1. at = n
        BY <1>3, <1>4, <1>8
      <3>2. i = at \/ i \in 1..(at - 1)
        BY <1>3, <3>1
      <3> QED BY <1>4, <1>5, <3>1, <3>2
    <2>3. HierarchyWell(project)
      BY <1>2, <1>3, <2>2, RootedHierarchy
    <2>4. MenuTypes'
      <3>1. path' \in Seq(1..Len(menus'))
        BY <1>6
      <3> QED BY <1>3, <1>6, <2>1, <3>1 DEF MenuTypes
    <2> QED BY <1>1, <1>2, <1>3, <1>6, <2>1, <2>3, <2>4
            DEF MenuInv, CycleGenuine, BeforeMenus, AfterParents, AfterWalk, AfterSiblings,
                AfterOptions, AfterReferences, MenuReasons
  <1> QED BY <1>7, <1>8

LEMMA MenuSiblings ==
  ASSUME LinkInv, MenuInv, CheckSiblings
  PROVE  MenuInv'
  <1>1. /\ stage = "siblings" /\ outcome = "running"
    BY CompilingFacts DEF CheckSiblings, Compiling
  <1>2. PICK p, ms, par, n : p = project /\ ms = menus /\ par = parent /\ n = Len(p.menus)
    OBVIOUS
  <1>3. ParentsRight(p, ms, par)
    BY <1>1, <1>2 DEF MenuInv, AfterParents, AfterWalk
  <1>4. SiblingsWell(p) <=>
            ~\E i, j \in DOMAIN ms : i # j /\ par[i] = par[j] /\ ms[i].order = ms[j].order
    BY ONLY <1>2, <1>3, SiblingFacts
  <1>5. CASE SiblingsWell(p)
    <2>1. /\ stage' = "options" /\ project' = project /\ symbols' = symbols /\ outcome' = outcome
          /\ UNCHANGED menuVars
      BY <1>2, <1>4, <1>5 DEF CheckSiblings, Go, linkTables
    <2> QED BY <1>1, <1>2, <1>5, <2>1, MenuKept
            DEF AfterWalk, AfterSiblings, AfterOptions, AfterReferences
  <1>6. CASE ~SiblingsWell(p)
    <2>1. Reject("sibling order")
      BY <1>2, <1>4, <1>6 DEF CheckSiblings
    <2>2. ~MenusWell(project)
      BY <1>2, <1>6 DEF MenusWell
    <2> QED BY <2>1, <2>2, MenuRefused DEF Reject, Refuse
  <1> QED BY <1>5, <1>6

LEMMA MenuOptions ==
  ASSUME LinkInv, MenuInv, CheckOptionMenus
  PROVE  MenuInv'
  <1>1. /\ stage = "options" /\ outcome = "running" /\ project \in Projects
        /\ menus = ById(project.menus) /\ SiblingsWell(project)
    BY CompilingFacts DEF CheckOptionMenus, Compiling, MenuInv, AfterParents, AfterWalk, AfterSiblings
  <1>2. ASSUME NEW s \in Range(project.symbols)
        PROVE  s.menu \in Ids(project.menus) \cup {Missing} <=>
                  ~(s.menu # Missing /\ FindMenu(s.menu) = Missing)
    <2>1. s.menu \in Nat
      <3>1. PICK seq : seq = project.symbols /\ seq \in Seq(SymbolNode)
        BY <1>1, ProjectFacts
      <3>2. s \in SymbolNode
        BY <3>1 DEF Range
      <3> QED BY <3>2 DEF SymbolNode
    <2>2. PICK id : id = s.menu /\ id \in Nat
      BY <2>1
    <2>3. BinarySearch(ById(project.menus), id) = Missing <=> id \notin Ids(project.menus)
      BY <1>1, <2>2, MenuFacts
    <2> QED BY <1>1, <2>2, <2>3 DEF FindMenu
  <1>3. OptionsWell(project) <=>
            ~\E s \in Range(project.symbols) : s.menu # Missing /\ FindMenu(s.menu) = Missing
    BY <1>2 DEF OptionsWell
  <1>4. CASE OptionsWell(project)
    <2>1. /\ stage' = "references" /\ project' = project /\ symbols' = symbols /\ outcome' = outcome
          /\ UNCHANGED menuVars /\ at' = 1
      BY <1>3, <1>4 DEF CheckOptionMenus, Go, linkTables
    <2> QED BY <1>1, <1>4, <2>1, MenuKept
            DEF AfterWalk, AfterSiblings, AfterOptions, AfterReferences
  <1>5. CASE ~OptionsWell(project)
    <2>1. Reject("missing menu")
      BY <1>3, <1>5 DEF CheckOptionMenus
    <2>2. ~MenusWell(project)
      BY <1>5 DEF MenusWell
    <2> QED BY <2>1, <2>2, MenuRefused DEF Reject, Refuse
  <1> QED BY <1>4, <1>5

\* The references of a menu are refused exactly when they are not well formed.
LEMMA ReferenceFacts ==
  ASSUME project \in Projects, symbols = ById(project.symbols), NEW m \in MenuNode,
         NEW error, error = FirstError([k \in DOMAIN m.references |-> ReferenceError(m, k)])
  PROVE  /\ error = "none" <=> ReferencesWell(project, m)
         /\ error \in {"none", "writable reference", "missing option", "duplicate reference"}
         /\ error = "none" => \A k \in DOMAIN m.references :
                                 FindSymbol(m.references[k].option) \in 1..Len(symbols)
  <1>1. PICK l, n, errors : /\ l = m.references /\ n = Len(l)
                            /\ errors = [k \in DOMAIN l |-> ReferenceError(m, k)]
    OBVIOUS
  <1>2. /\ n \in Nat /\ DOMAIN l = 1..n
        /\ \A k \in 1..n : l[k].option \in Nat
    <2>1. PICK D : D = [option : Nat, read_only : BOOLEAN]
      OBVIOUS
    <2>2. l \in Seq(D)
      BY <1>1, <2>1 DEF MenuNode
    <2>3. n \in Nat /\ DOMAIN l = 1..n /\ \A k \in 1..n : l[k] \in D
      BY <1>1, <2>2
    <2> QED BY <2>1, <2>3
  <1>3. /\ error = "none" <=> \A i \in 1..n : errors[i] = "none"
        /\ error # "none" => \E i \in 1..n : errors[i] = error
    <2>1. n \in Nat /\ DOMAIN errors = 1..n /\ error = FirstError(errors)
      BY <1>1, <1>2
    <2> QED BY ONLY <2>1, FirstErrorFacts
  <1>4. \A k \in 1..n : errors[k] = ReferenceError(m, k)
    BY <1>1, <1>2
  <1>5. \A k \in 1..n : /\ FindSymbol(l[k].option) = Missing <=> l[k].option \notin Ids(project.symbols)
                        /\ FindSymbol(l[k].option) # Missing =>
                              FindSymbol(l[k].option) \in 1..Len(symbols)
    <2> SUFFICES ASSUME NEW k \in 1..n
                 PROVE  /\ FindSymbol(l[k].option) = Missing <=> l[k].option \notin Ids(project.symbols)
                        /\ FindSymbol(l[k].option) # Missing =>
                              FindSymbol(l[k].option) \in 1..Len(symbols)
      OBVIOUS
    <2>1. PICK id, found : id = l[k].option /\ id \in Nat /\ found = FindSymbol(id)
      BY <1>2
    <2>2. /\ found = Missing <=> id \notin Ids(project.symbols)
          /\ found # Missing => found \in 1..Len(project.symbols)
          /\ Len(project.symbols) = Len(symbols)
      BY <2>1, SymbolFacts DEF FindSymbol
    <2> QED BY <2>1, <2>2
  <1>6. \A k \in 1..n : errors[k] \in {"none", "writable reference", "missing option",
                                       "duplicate reference"}
    BY <1>4 DEF ReferenceError
  <1>7. ReferencesWell(project, m) <=>
           \A j, k \in 1..n : /\ l[k].read_only /\ l[k].option \in Ids(project.symbols)
                              /\ l[j].option = l[k].option => j = k
    BY <1>1, <1>2 DEF ReferencesWell
  <1>8. \A k \in 1..n : errors[k] = "none" <=>
           /\ l[k].read_only /\ l[k].option \in Ids(project.symbols)
           /\ \A j \in 1..(k - 1) : l[j].option # l[k].option
    <2> SUFFICES ASSUME NEW k \in 1..n
                 PROVE  ReferenceError(m, k) = "none" <=>
                           /\ l[k].read_only /\ l[k].option \in Ids(project.symbols)
                           /\ \A j \in 1..(k - 1) : l[j].option # l[k].option
      BY <1>4
    <2> QED BY <1>1, <1>5 DEF ReferenceError
  <1>9. error = "none" <=> ReferencesWell(project, m)
    <2>1. ASSUME ReferencesWell(project, m), NEW k \in 1..n PROVE errors[k] = "none"
      <3>1. \A j \in 1..(k - 1) : j \in 1..n /\ j # k
        BY <1>2
      <3> QED BY <1>7, <1>8, <2>1, <3>1
    <2>2. ASSUME \A k \in 1..n : errors[k] = "none" PROVE ReferencesWell(project, m)
      <3>1. ASSUME NEW j \in 1..n, NEW k \in 1..n, l[j].option = l[k].option PROVE j = k
        <4>1. j < k \/ k < j \/ j = k
          OBVIOUS
        <4>2. j < k => j \in 1..(k - 1)
          OBVIOUS
        <4>3. k < j => k \in 1..(j - 1)
          OBVIOUS
        <4> QED BY <1>8, <2>2, <3>1, <4>1, <4>2, <4>3
      <3> QED BY <1>7, <1>8, <2>2, <3>1
    <2> QED BY <1>3, <2>1, <2>2
  <1>10. error \in {"none", "writable reference", "missing option", "duplicate reference"}
    BY <1>3, <1>6
  <1>11. error = "none" => \A k \in 1..n : FindSymbol(l[k].option) \in 1..Len(symbols)
    <2>1. \A k \in 1..n : errors[k] = "none" => FindSymbol(l[k].option) # Missing
      BY <1>5, <1>8
    <2> QED BY <1>3, <1>5, <2>1
  <1> QED BY <1>1, <1>2, <1>9, <1>10, <1>11

LEMMA MenuReferences ==
  ASSUME LinkInv, MenuInv, CompileReferences
  PROVE  MenuInv'
  <1>1. /\ stage = "references" /\ outcome = "running" /\ project \in Projects
        /\ symbols = ById(project.symbols) /\ at \in Nat \ {0} /\ at <= Len(project.menus)
        /\ menus = ById(project.menus) /\ MenuTypes
        /\ \A i \in 1..(at - 1) : ReferencesWell(project, project.menus[i])
    BY CompilingFacts DEF CompileReferences, Compiling, MenuInv, AfterParents, AfterWalk,
                          AfterSiblings, AfterOptions
  <1>2. PICK m, l, error :
            /\ m = project.menus[at] /\ l = m.references
            /\ error = FirstError([k \in DOMAIN m.references |-> ReferenceError(m, k)])
    OBVIOUS
  <1>3. /\ m \in MenuNode /\ m \in Range(project.menus) /\ m.id \in Nat
        /\ Len(menus) = Len(project.menus) /\ Len(menus) \in Nat
    <2>1. PICK seq : seq = project.menus /\ seq \in Seq(MenuNode)
      BY <1>1, ProjectFacts
    <2>2. at \in DOMAIN seq /\ seq[at] \in MenuNode
      BY <1>1, <2>1
    <2>3. m \in MenuNode /\ m \in Range(seq)
      BY <1>2, <2>1, <2>2 DEF Range
    <2>4. Len(menus) = Len(project.menus) /\ Len(project.menus) \in Nat
      BY <1>1, MenuFacts
    <2> QED BY <2>1, <2>3, <2>4, NodeIds
  <1>4. /\ error = "none" <=> ReferencesWell(project, m)
        /\ error \in {"none", "writable reference", "missing option", "duplicate reference"}
        /\ error = "none" => \A k \in DOMAIN m.references :
                                 FindSymbol(m.references[k].option) \in 1..Len(symbols)
    BY <1>1, <1>2, <1>3, ReferenceFacts
  <1>5. CASE error # "none"
    <2>1. Reject(error)
      BY <1>2, <1>5 DEF CompileReferences
    <2>2. ~MenusWell(project)
      BY <1>3, <1>4, <1>5 DEF MenusWell
    <2> QED BY <1>4, <2>1, <2>2, MenuRefused DEF Reject, Refuse
  <1>6. CASE error = "none"
    <2>1. PICK new : new = [k \in DOMAIN m.references |->
                          [menu |-> FindMenu(m.id), symbol |-> FindSymbol(m.references[k].option)]]
      OBVIOUS
    <2>2. /\ references' = references \o new /\ at' = at + 1 /\ stage' = stage /\ outcome' = outcome
          /\ project' = project /\ symbols' = symbols /\ menus' = menus /\ parent' = parent
          /\ cursor' = cursor /\ path' = path
      BY <1>2, <1>6, <2>1 DEF CompileReferences, Advance, linkTables
    <2>3. FindMenu(m.id) \in 1..Len(menus)
      <3>1. PICK id : id = m.id /\ id \in Nat /\ id \in Ids(project.menus)
        BY <1>3 DEF Ids
      <3>2. /\ BinarySearch(ById(project.menus), id) # Missing
            /\ BinarySearch(ById(project.menus), id) \in 1..Len(project.menus)
        BY <1>1, <3>1, MenuFacts
      <3> QED BY <1>1, <1>3, <3>1, <3>2 DEF FindMenu
    <2>4. PICK A, B, C : A = 1..Len(menus) /\ B = 1..Len(symbols) /\ C = [menu : A, symbol : B]
      OBVIOUS
    <2>5. new \in Seq(C)
      <3>1. PICK n : n = Len(l) /\ n \in Nat /\ DOMAIN l = 1..n
        <4>1. l \in Seq([option : Nat, read_only : BOOLEAN])
          BY <1>2, <1>3 DEF MenuNode
        <4> QED BY <4>1
      <3>2. \A k \in 1..n : FindSymbol(m.references[k].option) \in B
        BY <1>2, <1>4, <1>6, <2>4, <3>1
      <3>3. new = [k \in 1..n |-> [menu |-> FindMenu(m.id), symbol |-> FindSymbol(m.references[k].option)]]
        BY <1>2, <2>1, <3>1
      <3>4. new \in [1..n -> C]
        BY <2>3, <2>4, <3>2, <3>3
      <3> QED BY <3>1, <3>4
    <2>6. references' \in Seq(C)
      <3>1. references \in Seq(C)
        BY <1>1, <2>4 DEF MenuTypes
      <3> QED BY <2>2, <2>5, <3>1
    <2>7. MenuTypes'
      BY <1>1, <2>2, <2>4, <2>6 DEF MenuTypes
    <2>8. \A i \in 1..at : ReferencesWell(project, project.menus[i])
      <3> SUFFICES ASSUME NEW i \in 1..at PROVE ReferencesWell(project, project.menus[i])
        OBVIOUS
      <3>1. i = at \/ i \in 1..(at - 1)
        BY <1>1
      <3> QED BY <1>1, <1>2, <1>4, <1>6, <3>1
    <2>9. at' - 1 = at
      BY <1>1, <2>2
    <2> QED BY <1>1, <2>2, <2>7, <2>8, <2>9
            DEF MenuInv, CycleGenuine, BeforeMenus, AfterParents, AfterWalk, AfterSiblings,
                AfterOptions, AfterReferences, MenuReasons
  <1> QED BY <1>5, <1>6

LEMMA MenuBeginChoices ==
  ASSUME LinkInv, MenuInv, BeginChoices
  PROVE  MenuInv'
  <1>1. /\ stage = "references" /\ outcome = "running" /\ project \in Projects
        /\ at \in Nat \ {0} /\ at > Len(project.menus)
        /\ at - 1 <= Len(project.menus)
        /\ \A i \in 1..(at - 1) : ReferencesWell(project, project.menus[i])
        /\ HierarchyWell(project) /\ SiblingsWell(project) /\ OptionsWell(project)
    BY CompilingFacts DEF BeginChoices, Compiling, MenuInv, AfterParents, AfterWalk,
                          AfterSiblings, AfterOptions
  <1>2. \A m \in Range(project.menus) : ReferencesWell(project, m)
    <2>1. PICK seq : seq = project.menus /\ seq \in Seq(MenuNode)
      BY <1>1, ProjectFacts
    <2>2. DOMAIN seq = 1..(at - 1)
      BY <1>1, <2>1
    <2> QED BY <1>1, <2>1, <2>2 DEF Range
  <1>3. MenusWell(project)
    BY <1>1, <1>2 DEF MenusWell
  <1>4. /\ stage' = "choices" /\ project' = project /\ symbols' = symbols /\ outcome' = outcome
        /\ UNCHANGED menuVars
    BY DEF BeginChoices, Go, linkTables
  <1> QED BY <1>1, <1>3, <1>4, MenuKept
          DEF AfterWalk, AfterSiblings, AfterOptions, AfterReferences

\* Choices and constraints leave the menus alone.
LEMMA MenuUntouched ==
  ASSUME LinkInv, MenuInv, stage \in AfterReferences, project' = project, symbols' = symbols,
         UNCHANGED menuVars,
         \/ stage' \in AfterReferences /\ outcome' = "running"
         \/ stage' = "done" /\ outcome' \notin MenuReasons
  PROVE  MenuInv'
  <1>1. MenusWell(project) /\ outcome = "running"
    BY CompilingFacts DEF MenuInv, AfterReferences, Compiling
  <1>2. CASE stage' \in AfterReferences /\ outcome' = "running"
    BY <1>1, <1>2, MenuKept DEF MenusWell, AfterWalk, AfterSiblings, AfterOptions, AfterReferences
  <1>3. CASE stage' = "done" /\ outcome' \notin MenuReasons
    <2>1. MenuTypes'
      BY DEF MenuInv, MenuTypes, menuVars
    <2>2. CycleGenuine'
      BY <1>3 DEF CycleGenuine, MenuReasons
    <2> QED BY <1>1, <1>3, <2>1, <2>2
            DEF MenuInv, BeforeMenus, AfterParents, AfterWalk, AfterSiblings,
                AfterOptions, AfterReferences
  <1> QED BY <1>2, <1>3

-----------------------------------------------------------------------------
(* Choices.                                                                *)

\* The first error is one of the errors.
LEMMA FirstErrorRange ==
  ASSUME NEW R, NEW s \in Seq(R)
  PROVE  /\ FirstError(s) = "none" <=> \A e \in Range(s) : e = "none"
         /\ FirstError(s) # "none" => FirstError(s) \in Range(s)
  <1>1. PICK n : n = Len(s) /\ n \in Nat /\ DOMAIN s = 1..n
    OBVIOUS
  <1>2. /\ FirstError(s) = "none" <=> \A i \in 1..n : s[i] = "none"
        /\ FirstError(s) # "none" =>
               \E i \in 1..n : /\ s[i] = FirstError(s) /\ \A j \in 1..(i - 1) : s[j] = "none"
    BY ONLY <1>1, FirstErrorFacts
  <1>3. Range(s) = {s[i] : i \in 1..n}
    BY <1>1 DEF Range
  <1> QED BY <1>2, <1>3

\* A lookup finds the symbol of an id, or there is none.
Finds(id, found) ==
    \/ found = Missing /\ \A s \in Range(project.symbols) : s.id # id
    \/ /\ found # Missing /\ found \in 1..Len(symbols)
       /\ symbols[found] \in Range(project.symbols) /\ symbols[found] \in SymbolNode
       /\ \A s \in Range(project.symbols) : s.id = id <=> s = symbols[found]

LEMMA FindSymbolFacts ==
  ASSUME project \in Projects, symbols = ById(project.symbols), NEW id \in Nat
  PROVE  Finds(id, FindSymbol(id))
  <1>1. PICK found, n, table :
            found = FindSymbol(id) /\ n = Len(project.symbols) /\ table = symbols
    OBVIOUS
  <1>2. /\ n \in Nat /\ DOMAIN table = 1..n /\ Len(table) = n
        /\ \A i \in 1..n : table[i] \in SymbolNode /\ table[i].id \in Nat
        /\ \A i, j \in 1..n : i < j <=> table[i].id < table[j].id
        /\ Range(table) = Range(project.symbols)
    BY <1>1, SymbolFacts
  <1>3. /\ found = Missing <=> id \notin Ids(project.symbols)
        /\ found # Missing => found \in 1..n /\ table[found].id = id
    BY <1>1, SymbolFacts DEF FindSymbol
  <1>4. Range(table) = {table[i] : i \in 1..n}
    BY <1>2 DEF Range
  <1>5. CASE found = Missing
    BY <1>1, <1>3, <1>5 DEF Finds, Ids
  <1>6. CASE found # Missing
    <2>1. found \in 1..n /\ table[found].id = id
      BY <1>3, <1>6
    <2>2. ASSUME NEW s \in Range(project.symbols), s.id = id PROVE s = table[found]
      <3>1. PICK i \in 1..n : s = table[i]
        BY <1>2, <1>4
      <3>2. ~(i < found) /\ ~(found < i)
        BY <1>2, <2>1, <2>2, <3>1
      <3> QED BY <2>1, <3>1, <3>2
    <2>3. table[found] \in Range(project.symbols) /\ table[found] \in SymbolNode
      BY <1>2, <1>4, <2>1
    <2> QED BY <1>1, <1>2, <1>6, <2>1, <2>2, <2>3 DEF Finds
  <1> QED BY <1>5, <1>6

\* The members of a choice that has no error are of one type and one writer.
OneKind(c) ==
    \E domain \in Domain :
        \A k \in DOMAIN c.members : \E s \in Range(project.symbols) :
            s.id = c.members[k] /\ s.type = c.member_type /\ s.domain = domain
OneWinner(c) ==
    \A d, e \in Range(c.defaults) :
        /\ d.member \in Range(c.members)
        /\ d.priority = e.priority /\ d.when = e.when => d.member = e.member

LEMMA MemberErrorFacts ==
  ASSUME project \in Projects, symbols = ById(project.symbols), NEW c \in ChoiceNode
  PROVE  /\ OneKind(c) <=> \A k \in DOMAIN c.members : MemberError(c, k) = "none"
         /\ \A k \in DOMAIN c.members :
               /\ MemberError(c, k) \in {"none", "nested choice", "missing member", "member type",
                                         "member domain"}
               /\ MemberError(c, k) = "none" => FindSymbol(c.members[k]) \in 1..Len(symbols)
  <1>1. PICK l, n : l = c.members /\ n = Len(l)
    OBVIOUS
  <1>2. l \in Seq(Nat) /\ n \in Nat /\ n > 0 /\ DOMAIN l = 1..n /\ 1 \in 1..n /\ \A k \in 1..n : l[k] \in Nat
    <2>1. l \in Seq(Nat) /\ l # <<>>
      BY <1>1 DEF ChoiceNode
    <2> QED BY <1>1, <2>1
  <1>3. \A k \in 1..n : Finds(l[k], FindSymbol(l[k]))
    BY <1>2, FindSymbolFacts
  <1>4. PICK f : f = [k \in 1..n |-> FindSymbol(l[k])]
    OBVIOUS
  <1>5. \A k \in 1..n : FindSymbol(l[k]) = f[k] /\ Finds(l[k], f[k])
    BY <1>3, <1>4
  <1>6. \A k \in 1..n : MemberError(c, k) =
            IF f[k] = Missing
            THEN IF \E d \in Range(project.choices) : d.id = l[k] THEN "nested choice"
                 ELSE "missing member"
            ELSE IF symbols[f[k]].type # c.member_type THEN "member type"
            ELSE IF f[1] # Missing /\ symbols[f[k]].domain # symbols[f[1]].domain
                 THEN "member domain"
            ELSE "none"
    BY <1>1, <1>2, <1>5 DEF MemberError
  <1>7. \A k \in 1..n : MemberError(c, k) = "none" <=>
            /\ f[k] # Missing /\ symbols[f[k]].type = c.member_type
            /\ f[1] # Missing => symbols[f[k]].domain = symbols[f[1]].domain
    BY <1>6
  <1>8. \A k \in 1..n : /\ MemberError(c, k) \in {"none", "nested choice", "missing member", "member type",
                                                  "member domain"}
                        /\ MemberError(c, k) = "none" => f[k] \in 1..Len(symbols)
    <2>1. \A k \in 1..n : f[k] # Missing => f[k] \in 1..Len(symbols)
      BY <1>5 DEF Finds
    <2>2. \A k \in 1..n : MemberError(c, k) = "none" => f[k] # Missing
      BY <1>7
    <2>3. \A k \in 1..n : MemberError(c, k) \in {"none", "nested choice", "missing member",
                                                  "member type", "member domain"}
      BY <1>6
    <2> QED BY <2>1, <2>2, <2>3
  <1>9. ASSUME OneKind(c), NEW k \in 1..n PROVE MemberError(c, k) = "none"
    <2>1. PICK domain : \A i \in 1..n : \E s \in Range(project.symbols) :
                           s.id = l[i] /\ s.type = c.member_type /\ s.domain = domain
      BY <1>1, <1>2, <1>9 DEF OneKind
    <2>2. \A i \in 1..n : /\ f[i] # Missing /\ symbols[f[i]].type = c.member_type
                          /\ symbols[f[i]].domain = domain
      <3> SUFFICES ASSUME NEW i \in 1..n
                   PROVE  /\ f[i] # Missing /\ symbols[f[i]].type = c.member_type
                          /\ symbols[f[i]].domain = domain
        OBVIOUS
      <3>1. PICK s \in Range(project.symbols) :
                s.id = l[i] /\ s.type = c.member_type /\ s.domain = domain
        BY <2>1
      <3>2. f[i] # Missing /\ s = symbols[f[i]]
        BY <1>5, <3>1 DEF Finds
      <3> QED BY <3>1, <3>2
    <2> QED BY <1>2, <1>7, <2>2
  <1>10. ASSUME \A k \in 1..n : MemberError(c, k) = "none" PROVE OneKind(c)
    <2>1. f[1] # Missing
      BY <1>2, <1>7, <1>10
    <2>2. PICK domain : domain = symbols[f[1]].domain
      OBVIOUS
    <2>3. domain \in Domain
      <3>1. symbols[f[1]] \in SymbolNode
        BY <1>2, <1>5, <2>1 DEF Finds
      <3> QED BY <2>2, <3>1 DEF SymbolNode
    <2>4. \A k \in 1..n : \E s \in Range(project.symbols) :
             s.id = l[k] /\ s.type = c.member_type /\ s.domain = domain
      <3> SUFFICES ASSUME NEW k \in 1..n
                   PROVE  \E s \in Range(project.symbols) :
                             s.id = l[k] /\ s.type = c.member_type /\ s.domain = domain
        OBVIOUS
      <3>1. /\ f[k] # Missing /\ symbols[f[k]].type = c.member_type
            /\ symbols[f[k]].domain = domain
        BY <1>7, <1>10, <2>1, <2>2
      <3>2. symbols[f[k]] \in Range(project.symbols) /\ symbols[f[k]].id = l[k]
        BY <1>5, <3>1 DEF Finds
      <3> QED BY <3>1, <3>2
    <2> QED BY <1>1, <1>2, <2>3, <2>4 DEF OneKind
  <1> QED BY <1>1, <1>2, <1>5, <1>8, <1>9, <1>10

LEMMA DefaultErrorFacts ==
  ASSUME project \in Projects, Linked, NEW c, c \in Range(project.choices), c \in ChoiceNode
  PROVE  /\ OneWinner(c) <=> \A k \in DOMAIN c.defaults : ChoiceDefaultError(c, k) = "none"
         /\ \A k \in DOMAIN c.defaults :
               ChoiceDefaultError(c, k) \in {"none", "default member", "default tie"}
  <1>1. PICK l, n : l = c.defaults /\ n = Len(l)
    OBVIOUS
  <1>2. n \in Nat /\ DOMAIN l = 1..n
    <2>1. l \in Seq([member : Nat, priority : Int, when : Written])
      BY <1>1 DEF ChoiceNode
    <2> QED BY <1>1, <2>1
  <1>3. \A k \in 1..n : FindExpression("choice_default_when", c.id, k - 1) # NoExpression
    BY <1>1, <1>2, ChoiceFound
  <1>4. \A k \in 1..n : ChoiceDefaultError(c, k) =
            IF l[k].member \notin Range(c.members) THEN "default member"
            ELSE IF \E j \in 1..(k - 1) : /\ l[j].priority = l[k].priority
                                          /\ l[j].member # l[k].member
                                          /\ l[j].when = l[k].when
                 THEN "default tie"
            ELSE "none"
    BY <1>1, <1>3 DEF ChoiceDefaultError
  <1>5. \A k \in 1..n : ChoiceDefaultError(c, k) = "none" <=>
            /\ l[k].member \in Range(c.members)
            /\ \A j \in 1..(k - 1) : l[j].priority = l[k].priority /\ l[j].when = l[k].when =>
                                        l[j].member = l[k].member
    BY <1>4
  <1>6. OneWinner(c) <=>
            \A j, k \in 1..n : /\ l[j].member \in Range(c.members)
                               /\ l[j].priority = l[k].priority /\ l[j].when = l[k].when =>
                                     l[j].member = l[k].member
    <2>1. Range(l) = {l[k] : k \in 1..n}
      BY <1>2 DEF Range
    <2> QED BY <1>1, <2>1 DEF OneWinner
  <1>7. ASSUME OneWinner(c), NEW k \in 1..n PROVE ChoiceDefaultError(c, k) = "none"
    <2>1. \A j \in 1..(k - 1) : j \in 1..n
      BY <1>2
    <2> QED BY <1>5, <1>6, <1>7, <2>1
  <1>8. ASSUME \A k \in 1..n : ChoiceDefaultError(c, k) = "none" PROVE OneWinner(c)
    <2>1. ASSUME NEW j \in 1..n, NEW k \in 1..n, l[j].priority = l[k].priority, l[j].when = l[k].when
          PROVE  l[j].member = l[k].member
      <3>1. j < k => j \in 1..(k - 1)
        OBVIOUS
      <3>2. k < j => k \in 1..(j - 1)
        OBVIOUS
      <3>3. j < k \/ k < j \/ j = k
        OBVIOUS
      <3> QED BY <1>5, <1>8, <2>1, <3>1, <3>2, <3>3
    <2> QED BY <1>5, <1>6, <1>8, <2>1
  <1>9. \A k \in 1..n : ChoiceDefaultError(c, k) \in {"none", "default member", "default tie"}
    BY <1>4
  <1> QED BY <1>1, <1>2, <1>7, <1>8, <1>9

\* Why CompileChoice refuses c.
ChoiceError(c) ==
    FirstError(<<IF c.members = <<>> THEN "cardinality" ELSE "none">> \o
               [k \in DOMAIN c.members |-> MemberError(c, k)] \o
               <<ChoiceExpressionError(c)>> \o
               [k \in DOMAIN c.defaults |-> ChoiceDefaultError(c, k)])

\* A choice is refused exactly when it is not well formed.
LEMMA ChoiceErrorFacts ==
  ASSUME project \in Projects, Linked, NEW c, c \in Range(project.choices),
         NEW error, error = ChoiceError(c)
  PROVE  /\ error = "none" <=> ChoiceWell(project, c)
         /\ error \in {"none"} \cup ChoiceReasons
         /\ error = "none" => \A k \in DOMAIN c.members : FindSymbol(c.members[k]) \in 1..Len(symbols)
  <1>1. c \in ChoiceNode
    <2>1. PICK seq : seq = project.choices /\ seq \in Seq(ChoiceNode)
      BY ProjectFacts
    <2> QED BY <2>1 DEF Range
  <1>2. symbols = ById(project.symbols)
    BY DEF Linked
  <1>3. PICK R : R = {"none"} \cup ChoiceReasons
    OBVIOUS
  <1>4. PICK a, b, x, d : /\ a = <<IF c.members = <<>> THEN "cardinality" ELSE "none">>
                          /\ b = [k \in DOMAIN c.members |-> MemberError(c, k)]
                          /\ x = <<ChoiceExpressionError(c)>>
                          /\ d = [k \in DOMAIN c.defaults |-> ChoiceDefaultError(c, k)]
    OBVIOUS
  <1>5. error = FirstError(((a \o b) \o x) \o d)
    BY <1>4 DEF ChoiceError
  <1>6. a \in Seq(R) /\ Range(a) = {"none"}
    <2>1. c.members # <<>>
      BY <1>1 DEF ChoiceNode
    <2>2. a = <<"none">>
      BY <1>4, <2>1
    <2> QED BY <1>3, <2>2 DEF Range
  <1>7. x \in Seq(R) /\ Range(x) = {"none"}
    <2>1. ChoiceExpressionError(c) = "none"
      BY ChoiceFound DEF ChoiceExpressionError
    <2>2. x = <<"none">>
      BY <1>4, <2>1
    <2> QED BY <1>3, <2>2 DEF Range
  <1>8. /\ b \in Seq(R)
        /\ (\A e \in Range(b) : e = "none") <=> OneKind(c)
        /\ OneKind(c) => \A k \in DOMAIN c.members : FindSymbol(c.members[k]) \in 1..Len(symbols)
    <2>1. PICK n : n \in Nat /\ DOMAIN c.members = 1..n
      <3>1. PICK l : l = c.members /\ l \in Seq(Nat)
        BY <1>1 DEF ChoiceNode
      <3> QED BY <3>1
    <2>2. /\ OneKind(c) <=> \A k \in 1..n : MemberError(c, k) = "none"
          /\ \A k \in 1..n :
               /\ MemberError(c, k) \in {"none", "nested choice", "missing member", "member type",
                                         "member domain"}
               /\ MemberError(c, k) = "none" => FindSymbol(c.members[k]) \in 1..Len(symbols)
      BY <1>1, <1>2, <2>1, MemberErrorFacts
    <2>3. b = [k \in 1..n |-> MemberError(c, k)]
      BY <1>4, <2>1
    <2>4. b \in [1..n -> R]
      BY <1>3, <2>2, <2>3 DEF ChoiceReasons
    <2>5. Range(b) = {MemberError(c, k) : k \in 1..n}
      BY <2>3 DEF Range
    <2>6. (\A e \in Range(b) : e = "none") <=> \A k \in 1..n : MemberError(c, k) = "none"
      BY <2>5
    <2>7. b \in Seq(R)
      BY ONLY <2>1, <2>4
    <2>8. OneKind(c) => \A k \in 1..n : FindSymbol(c.members[k]) \in 1..Len(symbols)
      BY <2>2
    <2> QED BY <2>1, <2>2, <2>6, <2>7, <2>8, Zenon
  <1>9. d \in Seq(R) /\ ((\A e \in Range(d) : e = "none") <=> OneWinner(c))
    <2>1. PICK n : n \in Nat /\ DOMAIN c.defaults = 1..n
      <3>1. PICK l : l = c.defaults /\ l \in Seq([member : Nat, priority : Int, when : Written])
        BY <1>1 DEF ChoiceNode
      <3> QED BY <3>1
    <2>2. /\ OneWinner(c) <=> \A k \in 1..n : ChoiceDefaultError(c, k) = "none"
          /\ \A k \in 1..n : ChoiceDefaultError(c, k) \in {"none", "default member", "default tie"}
      BY <1>1, <2>1, DefaultErrorFacts
    <2>3. d = [k \in 1..n |-> ChoiceDefaultError(c, k)]
      BY <1>4, <2>1
    <2>4. d \in [1..n -> R]
      BY <1>3, <2>2, <2>3 DEF ChoiceReasons
    <2>5. Range(d) = {ChoiceDefaultError(c, k) : k \in 1..n}
      BY <2>3 DEF Range
    <2>6. (\A e \in Range(d) : e = "none") <=> \A k \in 1..n : ChoiceDefaultError(c, k) = "none"
      BY <2>5
    <2>7. d \in Seq(R)
      BY ONLY <2>1, <2>4
    <2> QED BY <2>1, <2>2, <2>6, <2>7, Zenon
  <1>10. PICK ab, abx, all : ab = a \o b /\ abx = ab \o x /\ all = abx \o d
    OBVIOUS
  <1>11. ab \in Seq(R) /\ Range(ab) = Range(a) \cup Range(b)
    BY <1>6, <1>8, <1>10, RangeConcat
  <1>12. abx \in Seq(R) /\ Range(abx) = Range(ab) \cup Range(x)
    <2>1. ab \in Seq(R) /\ x \in Seq(R)
      BY <1>7, <1>11
    <2>2. ab \o x \in Seq(R) /\ Range(ab \o x) = Range(ab) \cup Range(x)
      BY ONLY <2>1, RangeConcat
    <2> QED BY <1>10, <2>2, Zenon
  <1>13. all \in Seq(R) /\ Range(all) = Range(abx) \cup Range(d)
    <2>1. abx \in Seq(R) /\ d \in Seq(R)
      BY <1>9, <1>12
    <2>2. abx \o d \in Seq(R) /\ Range(abx \o d) = Range(abx) \cup Range(d)
      BY ONLY <2>1, RangeConcat
    <2> QED BY <1>10, <2>2, Zenon
  <1>14. /\ FirstError(all) = "none" <=> \A e \in Range(all) : e = "none"
         /\ FirstError(all) # "none" => FirstError(all) \in Range(all)
    BY <1>13, FirstErrorRange
  <1>15. FirstError(all) = "none" <=> OneKind(c) /\ OneWinner(c)
    BY <1>6, <1>7, <1>8, <1>9, <1>11, <1>12, <1>13, <1>14
  <1>16. ChoiceWell(project, c) <=> OneKind(c) /\ OneWinner(c)
    BY DEF ChoiceWell, OneKind, OneWinner
  <1>17. \A e \in Range(all) : e \in R
    BY <1>13 DEF Range
  <1> QED BY <1>3, <1>5, <1>8, <1>10, <1>14, <1>15, <1>16, <1>17

-----------------------------------------------------------------------------
(* What each step leaves alone, and where it may end.                      *)

\* To one of the stages, or refused for one of the reasons.
Moves(next, reasons) ==
    /\ project' = project /\ at' \in Nat \ {0} /\ UNCHANGED ruleVars
    /\ \/ stage' \in next /\ outcome' = "running"
       \/ stage' = "done" /\ outcome' \in reasons

LEMMA RejectMoves ==
  ASSUME LinkInv, NEW reason, Reject(reason), NEW next, NEW reasons, reason \in reasons
  PROVE  Moves(next, reasons) /\ UNCHANGED linkTables
  <1>1. at \in Nat \ {0}
    BY DEF LinkInv
  <1> QED BY <1>1 DEF Reject, Refuse, Moves, linkTables

LEMMA LinkMoves ==
  ASSUME LinkInv, Link
  PROVE  Moves({"expressions", "linked"}, LinkReasons)
  <1>1. /\ stage \in {"symbols", "expressions"} /\ outcome = "running" /\ project \in Projects
        /\ at \in Nat \ {0} /\ UNCHANGED ruleVars
    BY DEF Link, LinkNext, SortSymbols, AppendExpression, BuildIndex, LinkInv, Compiling
  <1>2. CASE SortSymbols
    <2>1. project' = project /\ stage' = "expressions" /\ outcome' = outcome /\ at' = 1
      BY <1>1, <1>2, NoSymbolError DEF SortSymbols, Go
    <2> QED BY <1>1, <2>1 DEF Moves
  <1>3. CASE AppendExpression
    <2>1. PICK s : s = Sources[at]
      OBVIOUS
    <2>2. /\ project' = project /\ at' \in Nat \ {0}
          /\ \/ stage' = stage /\ outcome' = outcome /\ stage = "expressions"
             \/ s.text # NoText /\ stage' = "done" /\ outcome' = LinkError(s) /\ LinkError(s) # "none"
      BY <1>1, <1>3, <2>1 DEF AppendExpression, Refuse, Advance
    <2>3. s.text # NoText => LinkError(s) \in {"none", "expression", "result type", "self reference"}
      <3>1. symbols = ById(project.symbols) /\ at <= Len(Sources)
        BY <1>3 DEF AppendExpression, LinkInv, Linking
      <3>2. Sources \in Seq(Sourced)
        BY <1>1, <3>1, SourcesFacts
      <3>3. s \in Sourced
        BY <1>1, <2>1, <3>1, <3>2
      <3> QED BY <1>1, <3>1, <3>3, LinkErrorFacts
    <2> QED BY <1>1, <2>2, <2>3 DEF Moves, LinkReasons
  <1>4. CASE BuildIndex
    BY <1>1, <1>4 DEF BuildIndex, Go, Moves
  <1> QED BY <1>2, <1>3, <1>4 DEF Link, LinkNext

LEMMA CollectMoves ==
  ASSUME LinkInv, CollectMenus
  PROVE  Moves({"parents"}, {}) /\ UNCHANGED linkTables
  BY CompilingFacts DEF CollectMenus, Go, Compiling, Moves, linkTables

LEMMA ResolveMoves ==
  ASSUME LinkInv, MenuInv, ResolveParent
  PROVE  Moves({"parents"}, MenuReasons) /\ UNCHANGED linkTables
  <1>1. /\ stage = "parents" /\ outcome = "running" /\ project \in Projects /\ Linked
        /\ at \in Nat \ {0} /\ at <= Len(menus) /\ menus = ById(project.menus)
    BY CompilingFacts DEF ResolveParent, Compiling, MenuInv
  <1>2. PICK m, sorted, n : m = menus[at] /\ sorted = ById(project.menus) /\ n = Len(project.menus)
    OBVIOUS
  <1>3. m \in Range(project.menus)
    <2>1. Len(sorted) = n /\ DOMAIN sorted = 1..n /\ Range(sorted) = Range(project.menus)
      BY <1>1, <1>2, MenuFacts
    <2>2. at \in DOMAIN sorted /\ m = sorted[at]
      BY <1>1, <1>2, <2>1
    <2> QED BY <2>1, <2>2 DEF Range
  <1>4. ~(m.visible_if # NoText /\ FindExpression("menu_visible_if", m.id, 0) = NoExpression)
    BY <1>1, <1>3, MenuFound
  <1>5. \/ Reject("missing parent")
        \/ Advance /\ UNCHANGED <<linkTables, menus, cursor, path, references, reported, ruleVars>>
    BY <1>2, <1>4, Zenon DEF ResolveParent
  <1>6. "missing parent" \in MenuReasons
    BY DEF MenuReasons
  <1>7. CASE Reject("missing parent")
    BY <1>6, <1>7, RejectMoves
  <1>8. CASE Advance /\ UNCHANGED <<linkTables, menus, cursor, path, references, reported, ruleVars>>
    BY <1>1, <1>8 DEF Advance, Moves, linkTables
  <1> QED BY <1>5, <1>7, <1>8

LEMMA WalkMoves ==
  ASSUME LinkInv, MenuInv, BeginWalks \/ WalkUp \/ NextWalk
  PROVE  Moves({"walk", "siblings"}, MenuReasons) /\ UNCHANGED linkTables
  <1>1. outcome = "running" /\ at \in Nat \ {0}
    BY CompilingFacts DEF BeginWalks, WalkUp, NextWalk, Compiling
  <1>2. CASE BeginWalks
    BY <1>1, <1>2 DEF BeginWalks, Go, Moves, linkTables
  <1>3. CASE NextWalk
    BY <1>1, <1>3 DEF NextWalk, Go, Advance, Moves, linkTables
  <1>4. CASE WalkUp
    <2>1. stage = "walk" /\ cursor # Missing
      BY <1>4 DEF WalkUp
    <2>2. ~(\E i \in DOMAIN path : path[i] = cursor) => Len(path) # Len(menus)
      <3>1. PICK n, par, way, L, here :
                /\ n = Len(project.menus) /\ par = parent /\ way = path /\ L = Len(path)
                /\ here = cursor
        OBVIOUS
      <3>2. Wander(par, n, way, L, here) /\ here # Missing /\ Len(menus) = n /\ way \in Seq(1..n)
        BY <2>1, <3>1, WalkFacts
      <3>3. DOMAIN way = 1..L
        BY <3>1, <3>2
      <3>4. L = n => \E i \in 1..L : way[i] = here
        BY <3>2, PathFull DEF Missing
      <3> QED BY <3>1, <3>2, <3>3, <3>4
    <2> QED BY <1>1, <1>4, <2>1, <2>2 DEF WalkUp, Reject, Refuse, Moves, linkTables, MenuReasons
  <1> QED BY <1>2, <1>3, <1>4

LEMMA CheckMoves ==
  ASSUME LinkInv, CheckSiblings \/ CheckOptionMenus
  PROVE  Moves({"options", "references"}, MenuReasons) /\ UNCHANGED linkTables
  <1>1. outcome = "running" /\ at \in Nat \ {0}
    BY CompilingFacts DEF CheckSiblings, CheckOptionMenus, Compiling
  <1>2. \/ Reject("sibling order") \/ Reject("missing menu")
        \/ /\ Go("options") \/ Go("references")
           /\ UNCHANGED <<linkTables, outcome, menuVars, ruleVars>>
    BY Zenon DEF CheckSiblings, CheckOptionMenus
  <1>3. "sibling order" \in MenuReasons /\ "missing menu" \in MenuReasons
    BY DEF MenuReasons
  <1>4. CASE Reject("sibling order")
    BY <1>3, <1>4, RejectMoves
  <1>5. CASE Reject("missing menu")
    BY <1>3, <1>5, RejectMoves
  <1>6. CASE /\ Go("options") \/ Go("references")
             /\ UNCHANGED <<linkTables, outcome, menuVars, ruleVars>>
    BY <1>1, <1>6 DEF Go, Moves, linkTables
  <1> QED BY <1>2, <1>4, <1>5, <1>6

LEMMA ReferenceMoves ==
  ASSUME LinkInv, CompileReferences
  PROVE  Moves({"references"}, MenuReasons) /\ UNCHANGED linkTables
  <1>1. /\ stage = "references" /\ outcome = "running" /\ project \in Projects
        /\ symbols = ById(project.symbols) /\ at \in Nat \ {0} /\ at <= Len(project.menus)
    BY CompilingFacts DEF CompileReferences, Compiling
  <1>2. PICK m, error :
            /\ m = project.menus[at]
            /\ error = FirstError([k \in DOMAIN m.references |-> ReferenceError(m, k)])
    OBVIOUS
  <1>3. m \in MenuNode
    <2>1. PICK seq : seq = project.menus /\ seq \in Seq(MenuNode)
      BY <1>1, ProjectFacts
    <2> QED BY <1>1, <1>2, <2>1
  <1>4. error \in {"none", "writable reference", "missing option", "duplicate reference"}
    BY <1>1, <1>2, <1>3, ReferenceFacts
  <1>5. CASE error = "none"
    BY <1>1, <1>2, <1>5 DEF CompileReferences, Advance, Moves, linkTables
  <1>6. CASE error # "none"
    <2>1. Reject(error)
      BY <1>2, <1>6 DEF CompileReferences
    <2>2. error \in MenuReasons
      BY <1>4, <1>6 DEF MenuReasons
    <2> QED BY <2>1, <2>2, RejectMoves
  <1> QED BY <1>5, <1>6

LEMMA BeginChoicesMoves ==
  ASSUME LinkInv, BeginChoices
  PROVE  Moves({"choices"}, {}) /\ UNCHANGED linkTables /\ at' = 1
  BY CompilingFacts DEF BeginChoices, Go, Compiling, Moves, linkTables

\* Before the choices nothing is compiled of the rules.
LEMMA RulesBefore ==
  ASSUME LinkInv, ChoiceInv, ConstraintInv, stage \notin AfterReferences \cup {"done"},
         \/ /\ Moves({"expressions", "linked", "parents", "walk", "siblings", "options",
                      "references"}, LinkReasons \cup MenuReasons)
         \/ Moves({"choices"}, {}) /\ at' = 1
  PROVE  ChoiceInv' /\ ConstraintInv'
  <1>1. choices' = <<>> /\ constraints' = <<>> /\ graphs' = graphs /\ project' = project
    BY DEF ChoiceInv, ConstraintInv, AfterReferences, Moves, ruleVars
  <1>2. /\ stage' # "constraints" /\ outcome' # "ok" /\ outcome' # "empty message"
        /\ outcome' \notin ChoiceReasons
        /\ stage' = "choices" => at' = 1
    BY DEF Moves, LinkReasons, MenuReasons, ChoiceReasons
  <1>3. ChoiceInv'
    <2>0. Len(project.choices) \in Nat
      <3>1. PICK seq : seq = project.choices /\ seq \in Seq(ChoiceNode)
        BY ProjectFacts DEF LinkInv
      <3> QED BY <3>1
    <2>1. choices' \in Seq(Range(choices')) /\ \A c \in Range(choices') : c.members \in Seq(1..Len(symbols'))
      BY <1>1 DEF Range
    <2>2. stage' = "choices" => ChoicesRight(at - 1)'
      <3> SUFFICES ASSUME stage' = "choices" PROVE ChoicesRight(at - 1)'
        OBVIOUS
      <3>1. at' - 1 = 0
        <4>1. at' = 1
          BY <1>2
        <4>2. 1 - 1 = 0
          OBVIOUS
        <4> QED BY <4>1, <4>2
      <3>2. Len(choices') = 0
        BY <1>1
      <3>3. Len(project'.choices) = Len(project.choices)
        BY <1>1
      <3>4. 0 <= Len(project'.choices)
        BY ONLY <2>0, <3>3
      <3> QED BY <3>1, <3>2, <3>4 DEF ChoicesRight
    <2> QED BY <1>1, <1>2, <2>1, <2>2 DEF ChoiceInv
  <1>4. ConstraintInv'
    BY <1>1, <1>2 DEF ConstraintInv, PairingIsRight, GraphsAreComplete
  <1> QED BY <1>3, <1>4

LEMMA Half ==
  ASSUME NEW base \in Nat, NEW n \in Nat
  PROVE  n <= (base + 2 * n) \div 2 /\ (base + 2 * n) \div 2 \in Nat
  OBVIOUS

\* As Moves, by a step that only adds to the rules.
RuleMoves(next, reasons) ==
    /\ UNCHANGED <<linkTables, menuVars>> /\ at' \in Nat \ {0}
    /\ \/ stage' \in next /\ outcome' = "running"
       \/ stage' = "done" /\ outcome' \in reasons

LEMMA ChoiceStep ==
  ASSUME LinkInv, ChoiceInv, ConstraintInv, CompileChoice
  PROVE  ChoiceInv' /\ ConstraintInv' /\ RuleMoves({"choices"}, ChoiceReasons)
  <1>1. /\ stage = "choices" /\ outcome = "running" /\ project \in Projects /\ Linked
        /\ at \in Nat \ {0} /\ at <= Len(project.choices) /\ ChoicesRight(at - 1)
        /\ choices \in Seq(Range(choices)) /\ constraints = <<>>
        /\ \A c \in Range(choices) : c.members \in Seq(1..Len(symbols))
    BY CompilingFacts DEF CompileChoice, Compiling, ChoiceInv, ConstraintInv
  <1>2. PICK sorted, c, error : sorted = SortedChoices /\ c = sorted[at] /\ error = ChoiceError(c)
    OBVIOUS
  <1>3. c \in Range(project.choices)
    <2>1. PICK seq : seq = project.choices /\ seq \in Seq(ChoiceNode) /\ Distinct(seq)
      BY <1>1, ProjectFacts
    <2>2. \A x \in ChoiceNode : x.id \in Nat
      BY NodeIds
    <2>3. DOMAIN ById(seq) = 1..Len(seq) /\ Range(ById(seq)) = Range(seq)
      BY <2>1, <2>2, ByIdFacts
    <2>4. sorted = ById(seq)
      BY <1>2, <2>1 DEF SortedChoices
    <2>5. sorted[at] \in Range(sorted)
      BY <1>1, <2>1, <2>3, <2>4 DEF Range
    <2> QED BY <1>2, <2>1, <2>3, <2>4, <2>5
  <1>4. /\ error = "none" <=> ChoiceWell(project, c)
        /\ error \in {"none"} \cup ChoiceReasons
        /\ error = "none" => \A k \in DOMAIN c.members : FindSymbol(c.members[k]) \in 1..Len(symbols)
    BY <1>1, <1>2, <1>3, ChoiceErrorFacts
  <1>5. CASE error # "none"
    <2>1. Reject(error)
      BY <1>2, <1>5 DEF CompileChoice, ChoiceError
    <2>2. /\ stage' = "done" /\ outcome' = error /\ choices' = choices /\ constraints' = constraints
          /\ graphs' = graphs /\ project' = project /\ symbols' = symbols
          /\ at' = at /\ UNCHANGED <<linkTables, menuVars>>
      BY <2>1 DEF Reject, Refuse, ruleVars, linkTables
    <2>3. outcome' \in ChoiceReasons /\ outcome' # "ok" /\ outcome' # "empty message"
      BY <1>4, <1>5, <2>2 DEF ChoiceReasons
    <2>4. ChoiceInv'
      BY <1>1, <1>3, <1>4, <1>5, <2>2, <2>3 DEF ChoiceInv
    <2>5. ConstraintInv'
      BY <2>2, <2>3 DEF ConstraintInv, PairingIsRight, GraphsAreComplete
    <2> QED BY <1>1, <2>2, <2>3, <2>4, <2>5 DEF RuleMoves
  <1>6. CASE error = "none"
    <2>1. PICK x : x = [source |-> c,
                        members |-> [k \in DOMAIN c.members |-> FindSymbol(c.members[k])],
                        default_when |-> [k \in DOMAIN c.defaults |->
                            FindExpression("choice_default_when", c.id, k - 1)]]
      OBVIOUS
    <2>2. /\ choices' = Append(choices, x) /\ at' = at + 1 /\ stage' = stage /\ outcome' = outcome
          /\ constraints' = constraints /\ graphs' = graphs /\ project' = project /\ symbols' = symbols
          /\ UNCHANGED <<linkTables, menuVars>>
      BY <1>2, <1>6, <2>1 DEF CompileChoice, ChoiceError, Advance, linkTables
    <2>3. PICK n, t : n = Len(choices) /\ t = choices'
      OBVIOUS
    <2>4. /\ n \in Nat /\ Len(t) = n + 1 /\ t[n + 1] = x /\ \A i \in 1..n : t[i] = choices[i]
          /\ Range(t) = Range(choices) \cup {x} /\ t \in Seq(Range(t))
      <3>1. PICK s : s = choices
        OBVIOUS
      <3>2. s \in Seq(Range(s)) /\ t = Append(s, x) /\ n = Len(s)
        BY <1>1, <2>2, <2>3, <3>1
      <3>3. /\ n \in Nat /\ Len(t) = n + 1 /\ t[n + 1] = x /\ \A i \in 1..n : t[i] = s[i]
            /\ Range(t) = Range(s) \cup {x} /\ t \in Seq(Range(t))
        <4>1. Appends(s, x, t, n)
          BY <3>2, AppendRange
        <4> QED BY <4>1 DEF Appends
      <3> QED BY <3>1, <3>3
    <2>5. x.members \in Seq(1..Len(symbols))
      <3>1. PICK m : m \in Nat /\ DOMAIN c.members = 1..m
        <4>1. PICK seq : seq = project.choices /\ seq \in Seq(ChoiceNode)
          BY <1>1, ProjectFacts
        <4>2. c \in ChoiceNode
          BY <1>3, <4>1 DEF Range
        <4>3. PICK l : l = c.members /\ l \in Seq(Nat)
          BY <4>2 DEF ChoiceNode
        <4> QED BY <4>3
      <3>2. x.members = [k \in 1..m |-> FindSymbol(c.members[k])]
        BY <2>1, <3>1
      <3>3. \A k \in 1..m : FindSymbol(c.members[k]) \in 1..Len(symbols)
        BY <1>4, <1>6, <3>1
      <3> QED BY <3>1, <3>2, <3>3
    <2>6. ChoiceRight(x, c)
      <3>1. x.source = c
        BY <2>1
      <3>2. ASSUME NEW k \in DOMAIN c.defaults PROVE x.default_when[k].text = c.defaults[k].when
        <4>1. x.default_when[k] = FindExpression("choice_default_when", c.id, k - 1)
          BY <2>1
        <4> QED BY <1>1, <1>3, <4>1, ChoiceFound
      <3> QED BY <3>1, <3>2 DEF ChoiceRight
    <2>7. n = at - 1 /\ n + 1 = at
      BY <1>1, <2>3 DEF ChoicesRight
    <2>8. \A i \in 1..at : ChoiceRight(t[i], sorted[i]) /\ ChoiceWell(project, sorted[i])
      <3> SUFFICES ASSUME NEW i \in 1..at
                   PROVE  ChoiceRight(t[i], sorted[i]) /\ ChoiceWell(project, sorted[i])
        OBVIOUS
      <3>1. CASE i = at
        <4>1. t[i] = x /\ sorted[i] = c
          BY <1>2, <2>4, <2>7, <3>1
        <4> QED BY <1>4, <1>6, <2>6, <4>1
      <3>2. CASE i # at
        <4>1. i \in 1..n /\ n = at - 1
          BY <1>1, <2>7, <3>2
        <4>2. t[i] = choices[i]
          BY <2>4, <4>1
        <4>3. ChoiceRight(choices[i], sorted[i]) /\ ChoiceWell(project, sorted[i])
          BY <1>1, <1>2, <4>1 DEF ChoicesRight
        <4> QED BY <4>2, <4>3
      <3> QED BY <3>1, <3>2
    <2>9. SortedChoices' = sorted
      BY <1>2, <2>2 DEF SortedChoices
    <2>10. ChoicesRight(at - 1)'
      <3>1. at' - 1 = at
        BY <1>1, <2>2
      <3>2. Len(choices') = at /\ at <= Len(project'.choices)
        BY <1>1, <2>2, <2>3, <2>4, <2>7
      <3>3. \A i \in 1..at : ChoiceRight(choices'[i], SortedChoices'[i])
        BY <2>3, <2>8, <2>9
      <3>4. \A i \in 1..at : ChoiceWell(project', SortedChoices'[i])
        BY <2>2, <2>8, <2>9
      <3> QED BY <3>1, <3>2, <3>3, <3>4 DEF ChoicesRight
    <2>11. ChoiceInv'
      <3>1. \A d \in Range(choices') : d.members \in Seq(1..Len(symbols'))
        BY <1>1, <2>2, <2>3, <2>4, <2>5
      <3> QED BY <1>1, <2>2, <2>3, <2>4, <2>10, <3>1 DEF ChoiceInv, ChoiceReasons, AfterReferences
    <2>12. ConstraintInv'
      BY <1>1, <2>2 DEF ConstraintInv, PairingIsRight, GraphsAreComplete
    <2>13. at' \in Nat \ {0}
      BY <1>1, <2>2
    <2> QED BY <1>1, <2>2, <2>11, <2>12, <2>13 DEF RuleMoves
  <1> QED BY <1>5, <1>6

LEMMA BeginConstraintsStep ==
  ASSUME LinkInv, ChoiceInv, ConstraintInv, BeginConstraints
  PROVE  ChoiceInv' /\ ConstraintInv' /\ RuleMoves({"constraints"}, {})
  <1>1. /\ stage = "choices" /\ outcome = "running" /\ project \in Projects /\ Linked
        /\ at \in Nat \ {0} /\ at > Len(project.choices) /\ ChoicesRight(at - 1)
        /\ choices \in Seq(Range(choices)) /\ constraints = <<>>
        /\ \A c \in Range(choices) : c.members \in Seq(1..Len(symbols))
    BY CompilingFacts DEF BeginConstraints, Compiling, ChoiceInv, ConstraintInv
  <1>2. ~(Len(project.constraints) > Len(expressions) \div 2)
    <2>1. PICK base \in Nat : Len(expressions) = base + 2 * Len(project.constraints)
      BY <1>1 DEF Linked, PairsAt
    <2>2. PICK n : n = Len(project.constraints) /\ n \in Nat
      <3>1. PICK seq : seq = project.constraints /\ seq \in Seq(ConstraintNode)
        BY <1>1, ProjectFacts
      <3> QED BY <3>1
    <2>3. PICK m, q : m = Len(expressions) /\ q = m \div 2
      OBVIOUS
    <2>4. m = base + 2 * n /\ m \in Nat
      BY <2>1, <2>2, <2>3
    <2>5. n <= q /\ q \in Nat
      BY <2>2, <2>3, <2>4, Half
    <2> QED BY <2>2, <2>3, <2>5
  <1>3. /\ stage' = "constraints" /\ at' = 1 /\ outcome' = outcome /\ choices' = choices
        /\ constraints' = constraints /\ graphs' = graphs /\ project' = project /\ symbols' = symbols
        /\ UNCHANGED <<linkTables, menuVars>>
    BY <1>2 DEF BeginConstraints, Go, linkTables, ruleVars
  <1>4. PICK n : n = Len(project.choices) /\ n \in Nat
    <2>1. PICK seq : seq = project.choices /\ seq \in Seq(ChoiceNode)
      BY <1>1, ProjectFacts
    <2> QED BY <2>1
  <1>5. at - 1 = n
    <2>1. at - 1 <= n
      BY <1>1, <1>4 DEF ChoicesRight
    <2> QED BY <1>1, <1>4, <2>1
  <1>6. ChoicesRight(n)
    BY <1>1, <1>5
  <1>7. SortedChoices' = SortedChoices
    BY <1>3 DEF SortedChoices
  <1>8. ChoicesRight(Len(project.choices))'
    BY <1>3, <1>4, <1>6, <1>7 DEF ChoicesRight
  <1>9. ChoiceInv'
    BY <1>1, <1>3, <1>8 DEF ChoiceInv, ChoiceReasons, AfterReferences
  <1>10. ConstraintInv'
    <2>1. at' - 1 = 0 /\ 0 <= Len(project.constraints)
      <3>1. PICK seq : seq = project.constraints /\ seq \in Seq(ConstraintNode)
        BY <1>1, ProjectFacts
      <3> QED BY <1>3, <3>1
    <2>2. constraints' = <<>> /\ Len(constraints') = 0 /\ constraints' \in Seq(Range(constraints'))
      BY <1>1, <1>3
    <2> QED BY <1>1, <1>3, <2>1, <2>2 DEF ConstraintInv, PairingIsRight, GraphsAreComplete
  <1> QED BY <1>1, <1>3, <1>9, <1>10 DEF RuleMoves

-----------------------------------------------------------------------------
(* Constraints.                                                            *)

LEMMA ConstraintStep ==
  ASSUME LinkInv, ChoiceInv, ConstraintInv, CompileConstraint
  PROVE  ChoiceInv' /\ ConstraintInv' /\ RuleMoves({"constraints"}, {"empty message"})
  <1>1. /\ stage = "constraints" /\ outcome = "running" /\ project \in Projects /\ Linked
        /\ at \in Nat \ {0} /\ at <= Len(project.constraints)
        /\ choices \in Seq(Range(choices)) /\ ChoicesRight(Len(project.choices))
        /\ \A c \in Range(choices) : c.members \in Seq(1..Len(symbols))
        /\ constraints \in Seq(Range(constraints)) /\ Len(constraints) = at - 1
        /\ \A i \in 1..(at - 1) : /\ ConstraintRight(constraints[i], project.constraints[i])
                                  /\ project.constraints[i].message
    BY CompilingFacts DEF CompileConstraint, Compiling, ChoiceInv, ConstraintInv
  <1>2. PICK n, es : n = Len(project.constraints) /\ es = expressions
    OBVIOUS
  <1>3. n \in Nat /\ at \in 1..n /\ project.constraints[at] \in Range(project.constraints)
    <2>1. PICK seq : seq = project.constraints /\ seq \in Seq(ConstraintNode)
      BY <1>1, ProjectFacts
    <2>2. n = Len(seq) /\ n \in Nat /\ DOMAIN seq = 1..n
      BY <1>2, <2>1
    <2>3. at \in 1..n
      BY <1>1, <1>2, <2>2
    <2> QED BY <2>1, <2>2, <2>3 DEF Range
  <1>4. PICK base \in Nat : PairsAt(base)
    BY <1>1 DEF Linked
  <1>5. Len(es) - 2 * n = base
    <2>1. Len(es) = base + 2 * n
      BY <1>2, <1>4 DEF PairsAt
    <2>2. PICK m : m = 2 * n /\ m \in Nat
      BY <1>3
    <2> QED BY <2>1, <2>2
  <1>6. PICK c, when, require : /\ c = project.constraints[at]
                                /\ when = es[base + 2 * at - 1] /\ require = es[base + 2 * at]
    OBVIOUS
  <1>7. /\ HasKey(when, "constraint_when", c.id) /\ when.text = c.when
        /\ HasKey(require, "constraint_require", c.id) /\ require.text = c.require
    BY <1>2, <1>3, <1>4, <1>6 DEF PairsAt
  <1>8. SortedChoices' = SortedChoices \/ project' # project
    BY DEF SortedChoices
  <1>9. CASE ~c.message
    <2>1. Reject("empty message")
      BY <1>6, <1>9 DEF CompileConstraint
    <2>2. /\ stage' = "done" /\ outcome' = "empty message" /\ choices' = choices
          /\ constraints' = constraints /\ graphs' = graphs /\ project' = project /\ symbols' = symbols
          /\ at' = at /\ UNCHANGED <<linkTables, menuVars>>
      BY <2>1 DEF Reject, Refuse, ruleVars, linkTables
    <2>3. ChoiceInv'
      BY <1>1, <2>2 DEF ChoiceInv, ChoiceReasons
    <2>4. ConstraintInv'
      BY <1>3, <1>6, <1>9, <2>2 DEF ConstraintInv, PairingIsRight, GraphsAreComplete
    <2> QED BY <1>1, <2>2, <2>3, <2>4 DEF RuleMoves
  <1>10. CASE c.message
    <2>1. PICK x : x = [source |-> c, when |-> when, require |-> require]
      OBVIOUS
    <2>2. /\ constraints' = Append(constraints, x) /\ at' = at + 1 /\ stage' = stage
          /\ outcome' = outcome /\ choices' = choices /\ graphs' = graphs /\ project' = project
          /\ symbols' = symbols /\ UNCHANGED <<linkTables, menuVars>>
      <3>1. PICK l : l = Len(expressions) - 2 * Len(project.constraints)
        OBVIOUS
      <3>2. l = base /\ when = expressions[l + 2 * at - 1] /\ require = expressions[l + 2 * at]
        BY <1>2, <1>5, <1>6, <3>1
      <3>3. ~(\/ when.role # "constraint_when" \/ require.role # "constraint_require"
              \/ when.owner # c.id \/ require.owner # c.id)
        BY <1>7 DEF HasKey
      <3>4. /\ constraints' = Append(constraints, x) /\ Advance
            /\ UNCHANGED <<linkTables, menuVars, choices, graphs>>
        BY <1>6, <1>10, <2>1, <3>1, <3>2, <3>3 DEF CompileConstraint
      <3> QED BY <3>4 DEF Advance, linkTables
    <2>3. PICK m, t : m = Len(constraints) /\ t = constraints'
      OBVIOUS
    <2>4. Appends(constraints, x, t, m)
      BY <1>1, <2>2, <2>3, AppendRange
    <2>5. m = at - 1 /\ m + 1 = at
      BY <1>1, <2>3
    <2>6. \A i \in 1..at : /\ ConstraintRight(t[i], project.constraints[i])
                           /\ project.constraints[i].message
      <3> SUFFICES ASSUME NEW i \in 1..at
                   PROVE  /\ ConstraintRight(t[i], project.constraints[i])
                          /\ project.constraints[i].message
        OBVIOUS
      <3>1. CASE i = at
        <4>1. t[i] = x /\ project.constraints[i] = c
          BY <1>6, <2>4, <2>5, <3>1 DEF Appends
        <4>2. ConstraintRight(x, c)
          BY <1>7, <2>1 DEF ConstraintRight
        <4> QED BY <1>10, <4>1, <4>2
      <3>2. CASE i # at
        <4>1. i \in 1..m /\ i \in 1..(at - 1)
          BY <1>1, <2>5, <3>2
        <4>2. t[i] = constraints[i]
          BY <2>4, <4>1 DEF Appends
        <4> QED BY <1>1, <4>1, <4>2
      <3> QED BY <3>1, <3>2
    <2>7. at' - 1 = at /\ at' \in Nat \ {0}
      BY <1>1, <2>2
    <2>8. /\ constraints' \in Seq(Range(constraints')) /\ Len(constraints') = at
          /\ at <= Len(project'.constraints)
      BY <1>1, <2>2, <2>3, <2>4, <2>5 DEF Appends
    <2>9. ConstraintInv'
      <3>1. \A i \in 1..(at' - 1) : /\ ConstraintRight(constraints'[i], project'.constraints[i])
                                    /\ project'.constraints[i].message
        BY <2>2, <2>3, <2>6, <2>7
      <3> QED BY <1>1, <2>2, <2>7, <2>8, <3>1 DEF ConstraintInv, PairingIsRight, GraphsAreComplete
    <2>10. ChoiceInv'
      <3>1. ChoicesRight(Len(project.choices))'
        BY <1>1, <1>8, <2>2 DEF ChoicesRight
      <3> QED BY <1>1, <2>2, <3>1 DEF ChoiceInv, ChoiceReasons, AfterReferences
    <2> QED BY <1>1, <2>2, <2>7, <2>9, <2>10 DEF RuleMoves
  <1> QED BY <1>9, <1>10

\* All constraints, sorted.
SortedRight(t, s, n) ==
    /\ Len(t) = n /\ DOMAIN t = 1..n /\ Range(t) = Range(s)
    /\ \A x \in Range(t) : x.when.text = x.source.when /\ x.require.text = x.source.require
    /\ \A i, j \in 1..n : i < j => t[i].source.id < t[j].source.id

LEMMA SortedConstraints ==
  ASSUME project \in Projects, NEW n, n = Len(project.constraints), NEW s, s \in Seq(Range(s)),
         Len(s) = n, \A i \in 1..n : ConstraintRight(s[i], project.constraints[i])
  PROVE  SortedRight(Sorted(s, {p \in Range(s) \X Range(s) : p[1].source.id < p[2].source.id}), s, n)
  <1>1. PICK seq : seq = project.constraints /\ seq \in Seq(ConstraintNode) /\ Distinct(seq)
    BY ProjectFacts
  <1>2. n \in Nat /\ DOMAIN seq = 1..n /\ \A i \in 1..n : seq[i].id \in Nat
    BY <1>1, NodeIds
  <1>3. PICK S, before : S = Range(s) /\ before = {p \in S \X S : p[1].source.id < p[2].source.id}
    OBVIOUS
  <1>4. s \in [1..n -> S] /\ S = {s[i] : i \in 1..n}
    <2>1. s \in Seq(S) /\ Len(s) = n
      BY <1>3
    <2>2. s \in [1..n -> S] /\ DOMAIN s = 1..n
      BY ONLY <1>2, <2>1
    <2> QED BY <1>3, <2>2 DEF Range
  <1>5. \A i \in 1..n : /\ s[i].source = seq[i] /\ s[i].source.id \in Nat
                        /\ s[i].when.text = s[i].source.when /\ s[i].require.text = s[i].source.require
    BY <1>1, <1>2 DEF ConstraintRight
  <1>6. \A i, j \in 1..n : s[i].source.id = s[j].source.id => i = j
    BY <1>1, <1>2, <1>5 DEF Distinct
  <1>7. \A x, y \in S : /\ x.source.id \in Nat /\ y.source.id \in Nat
                        /\ <<x, y>> \in before <=> x.source.id < y.source.id
                        /\ x.source.id = y.source.id => x = y
    <2> SUFFICES ASSUME NEW x \in S, NEW y \in S
                 PROVE  /\ x.source.id \in Nat /\ y.source.id \in Nat
                        /\ <<x, y>> \in before <=> x.source.id < y.source.id
                        /\ x.source.id = y.source.id => x = y
      OBVIOUS
    <2>1. PICK i \in 1..n, j \in 1..n : x = s[i] /\ y = s[j]
      BY <1>4
    <2> QED BY <1>3, <1>5, <1>6, <2>1
  <1>8. IsOrder(before, S)
    <2>1. \A x \in S : <<x, x>> \notin before
      BY <1>7
    <2>2. \A x, y \in S : x # y => <<x, y>> \in before \/ <<y, x>> \in before
      BY <1>7
    <2>3. \A x, y, z \in S : <<x, y>> \in before /\ <<y, z>> \in before => <<x, z>> \in before
      <3> SUFFICES ASSUME NEW x \in S, NEW y \in S, NEW z \in S,
                          <<x, y>> \in before, <<y, z>> \in before
                   PROVE  <<x, z>> \in before
        OBVIOUS
      <3>1. PICK a, b, c : a = x.source.id /\ b = y.source.id /\ c = z.source.id
        OBVIOUS
      <3>2. a \in Nat /\ b \in Nat /\ c \in Nat /\ a < b /\ b < c
        BY <1>7, <3>1
      <3>3. a < c
        BY <3>2
      <3> QED BY <1>7, <3>1, <3>3
    <2> QED BY <2>1, <2>2, <2>3 DEF IsOrder
  <1>9. \A i, j \in 1..n : s[i] = s[j] => i = j
    BY <1>6
  <1>10. PICK t : t = Sorted(s, before)
    OBVIOUS
  <1>11. /\ t \in [1..n -> S] /\ Range(t) = S
         /\ \A i, j \in 1..n : i < j <=> <<t[i], t[j]>> \in before
    <2>1. /\ Sorted(s, before) \in [1..n -> S] /\ Range(Sorted(s, before)) = S
          /\ \A i, j \in 1..n :
                i < j <=> <<Sorted(s, before)[i], Sorted(s, before)[j]>> \in before
      <3>1. n \in Nat /\ s \in [1..n -> S] /\ S = Range(s)
        BY <1>2, <1>3, <1>4
      <3> QED BY ONLY <3>1, <1>8, <1>9, SortedFacts
    <2> QED BY <1>10, <2>1
  <1>12. t \in [1..n -> S] /\ Range(t) = S /\ DOMAIN t = 1..n /\ Len(t) = n
    BY ONLY <1>2, <1>11
  <1>13. \A i, j \in 1..n : i < j => t[i].source.id < t[j].source.id
    <2>1. \A i, j \in 1..n : i < j => <<t[i], t[j]>> \in before
      BY <1>11
    <2>2. \A i \in 1..n : t[i] \in S
      BY <1>12
    <2> QED BY <1>7, <2>1, <2>2
  <1>14. \A x \in S : x.when.text = x.source.when /\ x.require.text = x.source.require
    BY <1>4, <1>5
  <1>15. SortedRight(t, s, n)
    BY <1>3, <1>12, <1>13, <1>14 DEF SortedRight
  <1> QED BY <1>3, <1>10, <1>15

-----------------------------------------------------------------------------
(* The graphs.                                                             *)

\* sums has the lengths of the first lists.
Sums(sums, seqs, n) ==
    /\ n \in Nat /\ DOMAIN seqs = 1..n
    /\ sums \in [0..n -> Nat] /\ sums[0] = 0 /\ sums[n] = Len(FlattenSeq(seqs))
    /\ \A i \in 1..n : sums[i] = sums[i - 1] + Len(seqs[i])

LEMMA FlattenSums ==
  ASSUME NEW S, NEW seqs \in Seq(Seq(S))
  PROVE  \E sums : Sums(sums, seqs, Len(seqs))
  <1>1. PICK n, f : n = Len(seqs) /\ n \in Nat /\ DOMAIN seqs = 1..n /\ FlattenSteps(f, seqs, S)
    BY FlattenPrefixes
  <1>2. /\ f[0] = <<>> /\ f[n] = FlattenSeq(seqs) /\ \A i \in 0..n : f[i] \in Seq(S)
        /\ \A i \in 1..n : f[i] = f[i - 1] \o seqs[i]
    BY <1>1 DEF FlattenSteps
  <1>3. PICK sums : sums = [i \in 0..n |-> Len(f[i])]
    OBVIOUS
  <1>4. sums \in [0..n -> Nat]
    BY <1>2, <1>3
  <1>5. sums[0] = 0 /\ sums[n] = Len(FlattenSeq(seqs))
    <2>1. 0 \in 0..n /\ n \in 0..n
      BY <1>1
    <2>2. sums[0] = Len(f[0]) /\ sums[n] = Len(f[n])
      BY <1>3, <2>1
    <2> QED BY <1>2, <2>2
  <1>6. ASSUME NEW i \in 1..n PROVE sums[i] = sums[i - 1] + Len(seqs[i])
    <2>1. i \in 0..n /\ i - 1 \in 0..n
      BY <1>1
    <2>2. sums[i] = Len(f[i]) /\ sums[i - 1] = Len(f[i - 1])
      BY <1>3, <2>1
    <2>3. f[i] = f[i - 1] \o seqs[i]
      BY <1>2
    <2>4. f[i - 1] \in Seq(S) /\ seqs[i] \in Seq(S)
      BY <1>1, <1>2, <2>1
    <2>5. Len(f[i - 1] \o seqs[i]) = Len(f[i - 1]) + Len(seqs[i])
      BY ONLY <2>4, ConcatLength
    <2> QED BY <2>2, <2>3, <2>5
  <1>7. Sums(sums, seqs, n)
    BY <1>1, <1>4, <1>5, <1>6 DEF Sums
  <1> QED BY <1>1, <1>7

LEMMA AddSums ==
  ASSUME NEW a \in Nat, NEW b \in Nat, NEW c \in Nat, NEW d \in Nat,
         NEW e \in Nat, NEW f \in Nat, NEW g \in Nat, NEW h \in Nat
  PROVE  (a + e) + (b + f) + (c + g) + (d + h) = (a + b + c + d) + (e + f + g + h)
  OBVIOUS

\* The entries of r are shared out among a, b, c and d.
Shared(r, a, b, c, d, n) ==
    \A i \in 1..n : /\ Len(a[i]) + Len(b[i]) + Len(c[i]) + Len(d[i]) = Len(r[i])
                    /\ Len(a[i]) \in Nat /\ Len(b[i]) \in Nat /\ Len(c[i]) \in Nat
                    /\ Len(d[i]) \in Nat
AllSums(R, A4, B4, C4, D4, r, a, b, c, d, n) ==
    Sums(R, r, n) /\ Sums(A4, a, n) /\ Sums(B4, b, n) /\ Sums(C4, c, n) /\ Sums(D4, d, n)

\* Lists that are shared out among four are as long as these together.
LEMMA SharedOut ==
  ASSUME NEW n \in Nat, NEW r, NEW a, NEW b, NEW c, NEW d,
         NEW R, NEW A4, NEW B4, NEW C4, NEW D4,
         AllSums(R, A4, B4, C4, D4, r, a, b, c, d, n), Shared(r, a, b, c, d, n)
  PROVE  A4[n] + B4[n] + C4[n] + D4[n] = R[n]
  <1> USE DEF AllSums
  <1> DEFINE Good == {m \in Nat : m <= n => A4[m] + B4[m] + C4[m] + D4[m] = R[m]}
  <1>1. 0 \in Good
    BY DEF Sums
  <1>2. ASSUME NEW m \in Nat, m \in Good PROVE m + 1 \in Good
    <2> SUFFICES ASSUME m + 1 <= n
                 PROVE  A4[m + 1] + B4[m + 1] + C4[m + 1] + D4[m + 1] = R[m + 1]
      OBVIOUS
    <2>1. PICK k \in 1..n : k = m + 1
      OBVIOUS
    <2>2. k - 1 = m /\ m \in 0..n /\ m <= n
      BY <2>1
    <2>3. /\ A4[k] = A4[m] + Len(a[k]) /\ B4[k] = B4[m] + Len(b[k]) /\ C4[k] = C4[m] + Len(c[k])
          /\ D4[k] = D4[m] + Len(d[k]) /\ R[k] = R[m] + Len(r[k])
      BY <2>2 DEF Sums
    <2>4. A4[m] \in Nat /\ B4[m] \in Nat /\ C4[m] \in Nat /\ D4[m] \in Nat /\ R[m] \in Nat
      BY <2>2 DEF Sums
    <2>5. A4[m] + B4[m] + C4[m] + D4[m] = R[m]
      BY <1>2, <2>2
    <2>6. /\ Len(a[k]) + Len(b[k]) + Len(c[k]) + Len(d[k]) = Len(r[k])
          /\ Len(a[k]) \in Nat /\ Len(b[k]) \in Nat /\ Len(c[k]) \in Nat /\ Len(d[k]) \in Nat
      BY DEF Shared
    <2>7. A4[k] + B4[k] + C4[k] + D4[k] = R[k]
      <3>1. A4[k] + B4[k] + C4[k] + D4[k] =
               (A4[m] + B4[m] + C4[m] + D4[m]) + (Len(a[k]) + Len(b[k]) + Len(c[k]) + Len(d[k]))
        <4>1. PICK w, x, y, z, e, f, g, h :
                  /\ w = A4[m] /\ x = B4[m] /\ y = C4[m] /\ z = D4[m]
                  /\ e = Len(a[k]) /\ f = Len(b[k]) /\ g = Len(c[k]) /\ h = Len(d[k])
          OBVIOUS
        <4>2. /\ w \in Nat /\ x \in Nat /\ y \in Nat /\ z \in Nat
              /\ e \in Nat /\ f \in Nat /\ g \in Nat /\ h \in Nat
          BY ONLY <2>4, <2>6, <4>1
        <4>3. A4[k] = w + e /\ B4[k] = x + f /\ C4[k] = y + g /\ D4[k] = z + h
          BY ONLY <2>3, <4>1
        <4>4. (w + e) + (x + f) + (y + g) + (z + h) = (w + x + y + z) + (e + f + g + h)
          BY ONLY <4>2, AddSums
        <4> QED BY ONLY <4>1, <4>3, <4>4
      <3> QED BY ONLY <2>3, <2>5, <2>6, <3>1
    <2> QED BY <2>1, <2>7
  <1>3. Nat \subseteq Good
    <2> HIDE DEF Good
    <2> QED BY <1>1, <1>2, Induction
  <1> QED BY <1>3

\* Every role has a graph.
LEMMA GraphOfRole ==
  ASSUME NEW role \in Range(Roles)
  PROVE  GraphOf(role) \in GraphKind
  <1>1. PICK i \in 1..11 : role = Roles[i]
    BY DEF Range, Roles
  <1>2. role \in {"computed", "available_if", "visible_if", "default_when", "suggestion_when",
                  "menu_visible_if", "choice_available_if", "choice_visible_if",
                  "choice_default_when", "constraint_when", "constraint_require"}
    BY <1>1 DEF Roles
  <1> QED BY <1>2 DEF GraphOf, GraphKind

\* Each reference of an expression is an edge of one graph.
LEMMA EdgesCounted ==
  ASSUME NEW e \in Entry
  PROVE  /\ Edges(e) \in Seq(Nat \X Nat) /\ e.text.refs \in Seq(Nat)
         /\ Len(Edges(e)) = Len(e.text.refs) /\ Len(e.text.refs) \in Nat
         /\ GraphOf(e.role) \in GraphKind
  <1>1. e.role \in Range(Roles) /\ e.owner \in Nat /\ e.text \in Text
    BY DEF Entry
  <1>2. PICK refs, own : refs = e.text.refs /\ own = e.owner
    OBVIOUS
  <1>3. refs \in Seq(Nat)
    <2>1. NoText.refs = <<>>
      BY DEF NoText
    <2>2. \A t \in Written : t.refs \in Seq(Nat)
      BY DEF Written
    <2>3. <<>> \in Seq(Nat)
      OBVIOUS
    <2> QED BY <1>1, <1>2, <2>1, <2>2, <2>3 DEF Text
  <1>4. PICK n : n = Len(refs) /\ n \in Nat /\ DOMAIN refs = 1..n /\ \A k \in 1..n : refs[k] \in Nat
    BY <1>3
  <1>5. Edges(e) = [k \in 1..n |-> <<own, refs[k]>>]
    BY <1>2, <1>4 DEF Edges
  <1>6. \A k \in 1..n : <<own, refs[k]>> \in Nat \X Nat
    BY <1>1, <1>2, <1>4
  <1>7. Edges(e) \in Seq(Nat \X Nat) /\ Len(Edges(e)) = n
    BY <1>4, <1>5, <1>6
  <1> QED BY <1>1, <1>2, <1>3, <1>4, <1>7, GraphOfRole

\* What an expression gives to graph g.
EdgesIn(e, g) == IF GraphOf(e.role) = g THEN Edges(e) ELSE <<>>
EdgeLists(es, g) == [i \in DOMAIN es |-> EdgesIn(es[i], g)]

LEMMA EdgeListsFacts ==
  ASSUME NEW es \in Seq(Entry), NEW g
  PROVE  /\ EdgeLists(es, g) \in Seq(Seq(Nat \X Nat)) /\ Len(EdgeLists(es, g)) = Len(es)
         /\ DOMAIN EdgeLists(es, g) = DOMAIN es
         /\ FlattenSeq(EdgeLists(es, g)) \in Seq(Nat \X Nat)
  <1>1. PICK n : n = Len(es) /\ n \in Nat /\ DOMAIN es = 1..n /\ \A i \in 1..n : es[i] \in Entry
    OBVIOUS
  <1>2. PICK T : T = Seq(Nat \X Nat)
    OBVIOUS
  <1>3. \A i \in 1..n : EdgesIn(es[i], g) \in T
    <2>1. <<>> \in T
      BY <1>2
    <2>2. \A i \in 1..n : Edges(es[i]) \in T
      BY <1>1, <1>2, EdgesCounted
    <2> QED BY <2>1, <2>2 DEF EdgesIn
  <1>4. PICK s : s = EdgeLists(es, g)
    OBVIOUS
  <1>5. s = [i \in 1..n |-> EdgesIn(es[i], g)]
    BY <1>1, <1>4 DEF EdgeLists
  <1>6. s \in Seq(T) /\ Len(s) = n /\ DOMAIN s = 1..n
    BY ONLY <1>1, <1>3, <1>5
  <1>7. s \in Seq(Seq(Nat \X Nat))
    BY <1>2, <1>6
  <1>8. FlattenSeq(s) \in Seq(Nat \X Nat)
    BY <1>7, FlattenRange
  <1> QED BY <1>1, <1>4, <1>6, <1>7, <1>8

LEMMA EdgeCount ==
  ASSUME NEW es \in Seq(Entry)
  PROVE  LET Count(g) == Len(FlattenSeq(EdgeLists(es, g)))
         IN  Count("evaluation") + Count("visibility") + Count("choice") + Count("constraint") =
                Len(FlattenSeq([i \in DOMAIN es |-> es[i].text.refs]))
  <1>1. PICK n : n = Len(es) /\ n \in Nat /\ DOMAIN es = 1..n /\ \A i \in 1..n : es[i] \in Entry
    OBVIOUS
  <1>2. PICK a, b, c, d, r :
            /\ a = EdgeLists(es, "evaluation") /\ b = EdgeLists(es, "visibility")
            /\ c = EdgeLists(es, "choice") /\ d = EdgeLists(es, "constraint")
            /\ r = [i \in DOMAIN es |-> es[i].text.refs]
    OBVIOUS
  <1>3. /\ a \in Seq(Seq(Nat \X Nat)) /\ b \in Seq(Seq(Nat \X Nat)) /\ c \in Seq(Seq(Nat \X Nat))
        /\ d \in Seq(Seq(Nat \X Nat))
        /\ Len(a) = n /\ Len(b) = n /\ Len(c) = n /\ Len(d) = n
    BY <1>1, <1>2, EdgeListsFacts
  <1>4. r \in Seq(Seq(Nat)) /\ Len(r) = n
    <2>1. PICK T : T = Seq(Nat)
      OBVIOUS
    <2>2. \A i \in 1..n : es[i].text.refs \in T
      BY <1>1, <2>1, EdgesCounted
    <2>3. r \in Seq(T) /\ Len(r) = n
      BY ONLY <1>1, <1>2, <2>2
    <2> QED BY <2>1, <2>3
  <1>5. PICK A4, B4, C4, D4, R4 :
            /\ Sums(A4, a, n) /\ Sums(B4, b, n) /\ Sums(C4, c, n) /\ Sums(D4, d, n) /\ Sums(R4, r, n)
    <2>1. (\E s : Sums(s, a, n)) /\ (\E s : Sums(s, b, n))
      BY <1>3, FlattenSums
    <2>2. (\E s : Sums(s, c, n)) /\ (\E s : Sums(s, d, n))
      BY <1>3, FlattenSums
    <2>3. \E s : Sums(s, r, n)
      BY <1>4, FlattenSums
    <2> QED BY <2>1, <2>2, <2>3
  <1>6. ASSUME NEW i \in 1..n
        PROVE  /\ Len(a[i]) + Len(b[i]) + Len(c[i]) + Len(d[i]) = Len(r[i])
               /\ Len(a[i]) \in Nat /\ Len(b[i]) \in Nat /\ Len(c[i]) \in Nat /\ Len(d[i]) \in Nat
    <2>1. PICK e, g, m : e = es[i] /\ g = GraphOf(e.role) /\ m = Len(e.text.refs)
      OBVIOUS
    <2>2. m \in Nat /\ Len(Edges(e)) = m /\ g \in GraphKind
      BY <1>1, <2>1, EdgesCounted
    <2>3. /\ a[i] = EdgesIn(e, "evaluation") /\ b[i] = EdgesIn(e, "visibility")
          /\ c[i] = EdgesIn(e, "choice") /\ d[i] = EdgesIn(e, "constraint") /\ Len(r[i]) = m
      BY <1>1, <1>2, <2>1 DEF EdgeLists
    <2>4. Len(<<>>) = 0
      OBVIOUS
    <2>5. /\ Len(a[i]) = IF g = "evaluation" THEN m ELSE 0
          /\ Len(b[i]) = IF g = "visibility" THEN m ELSE 0
          /\ Len(c[i]) = IF g = "choice" THEN m ELSE 0
          /\ Len(d[i]) = IF g = "constraint" THEN m ELSE 0
      BY <2>1, <2>2, <2>3, <2>4 DEF EdgesIn
    <2> QED BY <2>2, <2>3, <2>5 DEF GraphKind
  <1>7. A4[n] + B4[n] + C4[n] + D4[n] = R4[n]
    <2>1. Shared(r, a, b, c, d, n)
      BY <1>6 DEF Shared
    <2>2. AllSums(R4, A4, B4, C4, D4, r, a, b, c, d, n)
      BY <1>5 DEF AllSums
    <2> QED BY ONLY <1>1, <2>1, <2>2, SharedOut
  <1>8. /\ A4[n] = Len(FlattenSeq(a)) /\ B4[n] = Len(FlattenSeq(b)) /\ C4[n] = Len(FlattenSeq(c))
        /\ D4[n] = Len(FlattenSeq(d)) /\ R4[n] = Len(FlattenSeq(r))
    BY <1>5 DEF Sums
  <1> QED BY <1>2, <1>7, <1>8

\* The members of the choices as edges.
LEMMA MemberEdgesList ==
  ASSUME NEW N \in Nat, choices \in Seq(Range(choices)),
         \A c \in Range(choices) : c.members \in Seq(1..N)
  PROVE  \E T : MemberEdges \in Seq(T)
  <1>1. PICK cs, n : cs = choices /\ n = Len(cs)
    OBVIOUS
  <1>2. cs \in Seq(Range(cs)) /\ n \in Nat /\ DOMAIN cs = 1..n
    <2>1. PICK R : R = Range(cs)
      OBVIOUS
    <2>2. cs \in Seq(R)
      BY <1>1, <2>1
    <2> QED BY ONLY <1>1, <2>1, <2>2
  <1>3. \A i \in 1..n : cs[i].members \in Seq(1..N)
    BY <1>1, <1>2 DEF Range
  <1>4. PICK A0, B0, T : /\ A0 = {cs[i].source.id : i \in 1..n} /\ B0 = {symbols[j].id : j \in 1..N}
                        /\ T = A0 \X B0
    OBVIOUS
  <1>5. PICK U : U = Seq(T)
    OBVIOUS
  <1>6. ASSUME NEW i \in 1..n
        PROVE  [k \in DOMAIN cs[i].members |-> <<cs[i].source.id, symbols[cs[i].members[k]].id>>] \in U
    <2>1. PICK ms, m, own : ms = cs[i].members /\ m = Len(ms) /\ own = cs[i].source.id
      OBVIOUS
    <2>2. ms \in Seq(1..N)
      BY <1>3, <2>1
    <2>3. m \in Nat /\ DOMAIN ms = 1..m /\ \A k \in 1..m : ms[k] \in 1..N
      BY <2>1, <2>2
    <2>4. \A k \in 1..m : <<own, symbols[ms[k]].id>> \in T
      <3>1. own \in A0 /\ \A k \in 1..m : symbols[ms[k]].id \in B0
        BY <1>4, <2>1, <2>3
      <3> QED BY <1>4, <3>1
    <2>5. [k \in 1..m |-> <<own, symbols[ms[k]].id>>] \in Seq(T)
      BY <2>3, <2>4
    <2> QED BY <1>5, <2>1, <2>3, <2>5
  <1>7. PICK lists : lists = [i \in DOMAIN choices |->
            [k \in DOMAIN choices[i].members |->
                <<choices[i].source.id, symbols[choices[i].members[k]].id>>]]
    OBVIOUS
  <1>8. lists \in Seq(U)
    <2>1. \A i \in 1..n : lists[i] \in U
      BY <1>1, <1>2, <1>6, <1>7
    <2>2. DOMAIN lists = 1..n /\ lists = [i \in 1..n |-> lists[i]]
      BY <1>1, <1>2, <1>7
    <2> QED BY ONLY <1>2, <2>1, <2>2
  <1>9. lists \in Seq(Seq(T))
    BY <1>5, <1>8
  <1>10. MemberEdges = FlattenSeq(lists)
    BY <1>7, Zenon DEF MemberEdges
  <1> QED BY <1>9, <1>10, FlattenRange

LEMMA AddMembers ==
  ASSUME NEW a \in Nat, NEW b \in Nat, NEW c \in Nat, NEW d \in Nat, NEW m \in Nat, NEW r,
         a + b + c + d = r
  PROVE  a + b + (c + m) + d = r + m
  OBVIOUS

\* The lists joined by the last step.
Joined(gs) ==
    gs = [g \in GraphKind |-> ExpressionEdges(g) \o (IF g = "choice" THEN MemberEdges ELSE <<>>)]

\* Every edge is counted.
LEMMA GraphCount ==
  ASSUME NEW N \in Nat, choices \in Seq(Range(choices)),
         \A c \in Range(choices) : c.members \in Seq(1..N), expressions \in Seq(Entry),
         NEW gs, Joined(gs)
  PROVE  Len(gs["evaluation"]) + Len(gs["visibility"]) + Len(gs["choice"]) + Len(gs["constraint"]) =
            Len(FlattenSeq([i \in DOMAIN expressions |-> expressions[i].text.refs])) +
            Len(MemberEdges)
  <1>1. PICK T, ms : ms = MemberEdges /\ ms \in Seq(T)
    BY MemberEdgesList
  <1>2. PICK es : es = expressions /\ es \in Seq(Entry)
    OBVIOUS
  <1>3. PICK a, b, c, d, r :
            /\ a = FlattenSeq(EdgeLists(es, "evaluation")) /\ b = FlattenSeq(EdgeLists(es, "visibility"))
            /\ c = FlattenSeq(EdgeLists(es, "choice")) /\ d = FlattenSeq(EdgeLists(es, "constraint"))
            /\ r = Len(FlattenSeq([i \in DOMAIN es |-> es[i].text.refs]))
    OBVIOUS
  <1>4. /\ a \in Seq(Nat \X Nat) /\ b \in Seq(Nat \X Nat) /\ c \in Seq(Nat \X Nat)
        /\ d \in Seq(Nat \X Nat)
    BY <1>2, <1>3, EdgeListsFacts
  <1>5. Len(a) + Len(b) + Len(c) + Len(d) = r
    BY <1>2, <1>3, EdgeCount
  <1>6. ASSUME NEW g PROVE ExpressionEdges(g) = FlattenSeq(EdgeLists(es, g))
    <2>1. EdgeLists(es, g) = [i \in DOMAIN expressions |->
              IF GraphOf(expressions[i].role) = g THEN Edges(expressions[i]) ELSE <<>>]
      BY <1>2 DEF EdgeLists, EdgesIn
    <2> QED BY <2>1, Zenon DEF ExpressionEdges
  <1>7. /\ gs["evaluation"] = a \o <<>> /\ gs["visibility"] = b \o <<>> /\ gs["choice"] = c \o ms
        /\ gs["constraint"] = d \o <<>>
    <2>1. /\ "evaluation" \in GraphKind /\ "visibility" \in GraphKind /\ "choice" \in GraphKind
          /\ "constraint" \in GraphKind
      BY DEF GraphKind
    <2>2. "choice" # "evaluation" /\ "choice" # "visibility" /\ "choice" # "constraint"
      OBVIOUS
    <2>3. \A g \in GraphKind : g # "choice" => gs[g] = ExpressionEdges(g) \o <<>>
      BY Zenon DEF Joined
    <2>4. gs["choice"] = ExpressionEdges("choice") \o MemberEdges
      BY <2>1, Zenon DEF Joined
    <2>5. /\ gs["evaluation"] = ExpressionEdges("evaluation") \o <<>>
          /\ gs["visibility"] = ExpressionEdges("visibility") \o <<>>
          /\ gs["constraint"] = ExpressionEdges("constraint") \o <<>>
      BY <2>1, <2>2, <2>3
    <2>6. /\ ExpressionEdges("evaluation") = a /\ ExpressionEdges("visibility") = b
          /\ ExpressionEdges("choice") = c /\ ExpressionEdges("constraint") = d
      BY <1>3, <1>6
    <2> QED BY ONLY <1>1, <2>4, <2>5, <2>6, Zenon
  <1>8. /\ Len(a) \in Nat /\ Len(b) \in Nat /\ Len(c) \in Nat /\ Len(d) \in Nat /\ Len(ms) \in Nat
    BY <1>1, <1>4
  <1>9. Len(a \o <<>>) = Len(a) /\ Len(b \o <<>>) = Len(b) /\ Len(d \o <<>>) = Len(d)
    BY ONLY <1>4
  <1>10. Len(c \o ms) = Len(c) + Len(ms)
    BY ONLY <1>1, <1>4
  <1>11. PICK k, l, m, n, o : k = Len(a) /\ l = Len(b) /\ m = Len(c) /\ n = Len(d) /\ o = Len(ms)
    OBVIOUS
  <1>12. k + l + (m + o) + n = r + o
    BY ONLY <1>5, <1>8, <1>11, AddMembers
  <1>13. /\ Len(gs["evaluation"]) = k /\ Len(gs["visibility"]) = l /\ Len(gs["choice"]) = m + o
         /\ Len(gs["constraint"]) = n
    BY ONLY <1>7, <1>9, <1>10, <1>11
  <1>14. Len(MemberEdges) = o /\ r = Len(FlattenSeq([i \in DOMAIN expressions |-> expressions[i].text.refs]))
    BY <1>1, <1>2, <1>3, <1>11
  <1> QED BY ONLY <1>12, <1>13, <1>14

LEMMA BuildGraphsStep ==
  ASSUME LinkInv, ChoiceInv, ConstraintInv, BuildGraphs
  PROVE  ChoiceInv' /\ ConstraintInv' /\ RuleMoves({}, {"ok"})
  <1>1. /\ stage = "constraints" /\ outcome = "running" /\ project \in Projects /\ Linked
        /\ at \in Nat \ {0} /\ at > Len(project.constraints)
        /\ choices \in Seq(Range(choices)) /\ ChoicesRight(Len(project.choices))
        /\ \A c \in Range(choices) : c.members \in Seq(1..Len(symbols))
        /\ constraints \in Seq(Range(constraints)) /\ Len(constraints) = at - 1
        /\ at - 1 <= Len(project.constraints)
        /\ \A i \in 1..(at - 1) : /\ ConstraintRight(constraints[i], project.constraints[i])
                                  /\ project.constraints[i].message
    BY CompilingFacts DEF BuildGraphs, Compiling, ChoiceInv, ConstraintInv
  <1>2. PICK n : n = Len(project.constraints) /\ n \in Nat /\ DOMAIN project.constraints = 1..n
    <2>1. PICK seq : seq = project.constraints /\ seq \in Seq(ConstraintNode)
      BY <1>1, ProjectFacts
    <2> QED BY <2>1
  <1>3. at - 1 = n
    BY <1>1, <1>2
  <1>4. PICK t : t = Sorted(constraints, {p \in Range(constraints) \X Range(constraints) :
                                            p[1].source.id < p[2].source.id})
    OBVIOUS
  <1>5. SortedRight(t, constraints, n)
    <2>1. PICK s : s = constraints
      OBVIOUS
    <2>2. s \in Seq(Range(s)) /\ Len(s) = n
          /\ \A i \in 1..n : ConstraintRight(s[i], project.constraints[i])
      BY <1>1, <1>3, <2>1
    <2>3. SortedRight(Sorted(s, {p \in Range(s) \X Range(s) : p[1].source.id < p[2].source.id}), s, n)
      BY <1>1, <1>2, <2>2, SortedConstraints
    <2> QED BY <1>4, <2>1, <2>3
  <1>6. /\ constraints' = t /\ Joined(graphs') /\ stage' = "done" /\ outcome' = "ok"
        /\ at' = 1 /\ UNCHANGED <<linkTables, menuVars, choices>>
    BY <1>4, Zenon DEF BuildGraphs, Go, Joined
  <1>7. project' = project /\ symbols' = symbols /\ expressions' = expressions /\ choices' = choices
    BY <1>6 DEF linkTables
  <1>8. SortedChoices' = SortedChoices /\ MemberEdges' = MemberEdges
    BY <1>7 DEF SortedChoices, MemberEdges
  <1>9. ChoiceInv'
    <2>1. ChoicesRight(Len(project.choices))'
      BY <1>1, <1>7, <1>8 DEF ChoicesRight
    <2> QED BY <1>1, <1>6, <1>7, <2>1 DEF ChoiceInv, ChoiceReasons
  <1>10. GraphsAreComplete'
    <2>1. Len(symbols) \in Nat
      BY <1>1, SymbolFacts DEF Linked
    <2>2. expressions \in Seq(Entry)
      BY <1>1 DEF Linked, Indexed
    <2>3. PICK gs : gs = graphs'
      OBVIOUS
    <2>4. Len(gs["evaluation"]) + Len(gs["visibility"]) + Len(gs["choice"]) + Len(gs["constraint"]) =
             Len(FlattenSeq([i \in DOMAIN expressions |-> expressions[i].text.refs])) +
             Len(MemberEdges)
      BY <1>1, <1>6, <2>1, <2>2, <2>3, GraphCount
    <2> QED BY <1>7, <1>8, <2>3, <2>4 DEF GraphsAreComplete
  <1>11. PairingIsRight'
    <2>1. Len(choices) = Len(project.choices) /\ Len(t) = n /\ DOMAIN t = 1..n
      BY <1>1, <1>5 DEF ChoicesRight, SortedRight
    <2>2. ASSUME NEW c \in Range(choices), NEW k \in DOMAIN c.source.defaults
          PROVE  c.default_when[k].text = c.source.defaults[k].when
      <3>1. PICK m : m = Len(choices) /\ m = Len(project.choices)
        BY <2>1
      <3>2. DOMAIN choices = 1..m
        <4>1. PICK s, R : s = choices /\ R = Range(choices)
          OBVIOUS
        <4>2. s \in Seq(R)
          BY <1>1, <4>1
        <4>3. DOMAIN s = 1..Len(s)
          BY ONLY <4>2
        <4> QED BY ONLY <3>1, <4>1, <4>3
      <3>3. PICK i \in 1..m : c = choices[i]
        BY <3>2, <2>2 DEF Range
      <3>4. ChoiceRight(c, SortedChoices[i])
        BY <1>1, <3>1, <3>3 DEF ChoicesRight
      <3> QED BY <2>2, <3>4 DEF ChoiceRight
    <2>3. /\ \A c \in Range(t) : c.when.text = c.source.when /\ c.require.text = c.source.require
          /\ \A i, j \in DOMAIN t : i < j => t[i].source.id < t[j].source.id
      BY <1>5, <2>1 DEF SortedRight
    <2> QED BY <1>2, <1>6, <1>7, <2>1, <2>2, <2>3 DEF PairingIsRight
  <1>12. \A c \in Range(project.constraints) : c.message
    BY <1>1, <1>2, <1>3 DEF Range
  <1>13. ConstraintInv'
    BY <1>6, <1>7, <1>10, <1>11, <1>12 DEF ConstraintInv
  <1> QED BY <1>6, <1>9, <1>13 DEF RuleMoves

\* A step that only adds to the rules.
LEMMA RulesStep ==
  ASSUME LinkInv, MenuInv, stage \in AfterReferences, NEW next, NEW reasons,
         next \subseteq AfterReferences,
         reasons \subseteq ChoiceReasons \cup {"ok", "empty message"},
         RuleMoves(next, reasons), ChoiceInv', ConstraintInv'
  PROVE  CompileInv'
  <1>1. /\ UNCHANGED linkTables /\ UNCHANGED menuVars /\ at' \in Nat \ {0}
        /\ project' = project /\ symbols' = symbols
    BY DEF RuleMoves, linkTables
  <1>2. \/ stage' \in AfterReferences /\ outcome' = "running"
        \/ stage' = "done" /\ outcome' \in ChoiceReasons \cup {"ok", "empty message"}
    BY DEF RuleMoves
  <1>3. \A o \in ChoiceReasons \cup {"ok", "empty message"} :
           o # "running" /\ o \notin LinkReasons /\ o \notin MenuReasons
    BY DEF ChoiceReasons, LinkReasons, MenuReasons
  <1>4. AfterReferences \subseteq Compiling
    BY DEF AfterReferences, Compiling
  <1>5. LinkInv'
    BY <1>1, <1>2, <1>3, <1>4, LinkStable
  <1>6. MenuInv'
    BY <1>1, <1>2, <1>3, MenuUntouched
  <1>7. outcome' \in Outcomes
    BY <1>2 DEF Outcomes
  <1> QED BY <1>5, <1>6, <1>7 DEF CompileInv

\* A step of the menus.
LEMMA MenusStep ==
  ASSUME LinkInv, ChoiceInv, ConstraintInv, stage \in Compiling \ AfterReferences,
         UNCHANGED linkTables, MenuInv',
         \/ Moves({"parents", "walk", "siblings", "options", "references"}, MenuReasons)
         \/ Moves({"choices"}, {}) /\ at' = 1
  PROVE  CompileInv'
  <1>1. /\ at' \in Nat \ {0}
        /\ \/ stage' \in {"parents", "walk", "siblings", "options", "references", "choices"}
              /\ outcome' = "running"
           \/ stage' = "done" /\ outcome' \in MenuReasons
    BY DEF Moves
  <1>2. \A o \in MenuReasons : o # "running" /\ o \notin LinkReasons
    BY DEF MenuReasons, LinkReasons
  <1>3. {"parents", "walk", "siblings", "options", "references", "choices"} \subseteq Compiling
    BY DEF Compiling
  <1>4. LinkInv'
    BY <1>1, <1>2, <1>3, LinkStable
  <1>5. outcome' \in Outcomes
    BY <1>1 DEF Outcomes
  <1>6. \/ Moves({"expressions", "linked", "parents", "walk", "siblings", "options", "references"},
                 LinkReasons \cup MenuReasons)
        \/ Moves({"choices"}, {}) /\ at' = 1
    BY DEF Moves
  <1>7. stage \notin AfterReferences \cup {"done"}
    BY DEF Compiling
  <1>8. ChoiceInv' /\ ConstraintInv'
    BY <1>6, <1>7, RulesBefore
  <1> QED BY <1>4, <1>5, <1>8 DEF CompileInv

LEMMA CompileInitInv ==
  ASSUME CompileInit
  PROVE  CompileInv
  <1>1. /\ stage = "symbols" /\ outcome = "running" /\ choices = <<>> /\ constraints = <<>>
    BY DEF CompileInit, LinkInit
  <1>2. ChoiceInv
    BY <1>1 DEF ChoiceInv, AfterReferences, ChoiceReasons, Range
  <1>3. ConstraintInv
    BY <1>1 DEF ConstraintInv, PairingIsRight, GraphsAreComplete
  <1>4. outcome \in Outcomes
    BY <1>1 DEF Outcomes
  <1> QED BY <1>2, <1>3, <1>4, LinkInitInv, MenuInitInv DEF CompileInv

LEMMA LinkStep ==
  ASSUME CompileInv, Link
  PROVE  CompileInv'
  <1>1. LinkInv /\ MenuInv /\ ChoiceInv /\ ConstraintInv
    BY DEF CompileInv
  <1>2. LinkInv' /\ MenuInv'
    <2>1. LinkNext
      BY DEF Link
    <2>2. LinkInv'
      BY <1>1, <2>1, LinkStepInv
    <2> QED BY <1>1, <2>2, MenuLink
  <1>3. Moves({"expressions", "linked"}, LinkReasons)
    BY <1>1, LinkMoves
  <1>4. Moves({"expressions", "linked", "parents", "walk", "siblings", "options", "references"},
              LinkReasons \cup MenuReasons)
    BY <1>3 DEF Moves
  <1>5. stage \notin AfterReferences \cup {"done"}
    BY DEF Link, LinkNext, SortSymbols, AppendExpression, BuildIndex, AfterReferences
  <1>6. ChoiceInv' /\ ConstraintInv'
    BY <1>1, <1>4, <1>5, RulesBefore
  <1>7. outcome' \in Outcomes
    BY <1>3 DEF Moves, Outcomes
  <1> QED BY <1>2, <1>6, <1>7 DEF CompileInv

LEMMA MenuActionsStep ==
  ASSUME CompileInv,
         \/ CollectMenus \/ ResolveParent \/ BeginWalks \/ WalkUp \/ NextWalk
         \/ CheckSiblings \/ CheckOptionMenus \/ CompileReferences \/ BeginChoices
  PROVE  CompileInv'
  <1>1. LinkInv /\ MenuInv /\ ChoiceInv /\ ConstraintInv
    BY DEF CompileInv
  <1>2. stage \in Compiling \ AfterReferences
    BY DEF CollectMenus, ResolveParent, BeginWalks, WalkUp, NextWalk, CheckSiblings,
           CheckOptionMenus, CompileReferences, BeginChoices, Compiling, AfterReferences
  <1>3. MenuInv'
    <2>1. CASE CollectMenus
      BY <1>1, <2>1, MenuCollect
    <2>2. CASE ResolveParent
      BY <1>1, <2>2, MenuResolve
    <2>3. CASE BeginWalks
      BY <1>1, <2>3, MenuBeginWalks
    <2>4. CASE WalkUp
      BY <1>1, <2>4, MenuWalkUp
    <2>5. CASE NextWalk
      BY <1>1, <2>5, MenuNextWalk
    <2>6. CASE CheckSiblings
      BY <1>1, <2>6, MenuSiblings
    <2>7. CASE CheckOptionMenus
      BY <1>1, <2>7, MenuOptions
    <2>8. CASE CompileReferences
      BY <1>1, <2>8, MenuReferences
    <2>9. CASE BeginChoices
      BY <1>1, <2>9, MenuBeginChoices
    <2> QED BY <2>1, <2>2, <2>3, <2>4, <2>5, <2>6, <2>7, <2>8, <2>9
  <1>4. /\ UNCHANGED linkTables
        /\ \/ Moves({"parents"}, {}) \/ Moves({"parents"}, MenuReasons)
           \/ Moves({"walk", "siblings"}, MenuReasons) \/ Moves({"options", "references"}, MenuReasons)
           \/ Moves({"references"}, MenuReasons)
           \/ Moves({"choices"}, {}) /\ at' = 1
    <2>1. CASE CollectMenus
      BY <1>1, <2>1, CollectMoves
    <2>2. CASE ResolveParent
      BY <1>1, <2>2, ResolveMoves
    <2>3. CASE BeginWalks \/ WalkUp \/ NextWalk
      BY <1>1, <2>3, WalkMoves
    <2>4. CASE CheckSiblings \/ CheckOptionMenus
      BY <1>1, <2>4, CheckMoves
    <2>5. CASE CompileReferences
      BY <1>1, <2>5, ReferenceMoves
    <2>6. CASE BeginChoices
      BY <1>1, <2>6, BeginChoicesMoves
    <2> QED BY <2>1, <2>2, <2>3, <2>4, <2>5, <2>6
  <1>5. \/ Moves({"parents", "walk", "siblings", "options", "references"}, MenuReasons)
        \/ Moves({"choices"}, {}) /\ at' = 1
    BY <1>4 DEF Moves
  <1> QED BY <1>1, <1>2, <1>3, <1>4, <1>5, MenusStep

LEMMA RuleActionsStep ==
  ASSUME CompileInv, CompileChoice \/ BeginConstraints \/ CompileConstraint \/ BuildGraphs
  PROVE  CompileInv'
  <1>1. LinkInv /\ MenuInv /\ ChoiceInv /\ ConstraintInv
    BY DEF CompileInv
  <1>2. stage \in AfterReferences
    BY DEF CompileChoice, BeginConstraints, CompileConstraint, BuildGraphs, AfterReferences
  <1>3. /\ {"choices"} \subseteq AfterReferences /\ {"constraints"} \subseteq AfterReferences
        /\ {} \subseteq AfterReferences /\ {} \subseteq ChoiceReasons \cup {"ok", "empty message"}
        /\ {"empty message"} \subseteq ChoiceReasons \cup {"ok", "empty message"}
        /\ {"ok"} \subseteq ChoiceReasons \cup {"ok", "empty message"}
        /\ ChoiceReasons \subseteq ChoiceReasons \cup {"ok", "empty message"}
    BY DEF AfterReferences
  <1>4. CASE CompileChoice
    <2>1. ChoiceInv' /\ ConstraintInv' /\ RuleMoves({"choices"}, ChoiceReasons)
      BY <1>1, <1>4, ChoiceStep
    <2> QED BY <1>1, <1>2, <1>3, <2>1, RulesStep
  <1>5. CASE BeginConstraints
    <2>1. PICK next, reasons : next = {"constraints"} /\ reasons = {}
      OBVIOUS
    <2>2. /\ ChoiceInv' /\ ConstraintInv' /\ RuleMoves(next, reasons)
          /\ next \subseteq AfterReferences /\ reasons \subseteq ChoiceReasons \cup {"ok", "empty message"}
      BY <1>1, <1>3, <1>5, <2>1, BeginConstraintsStep
    <2> QED BY ONLY <1>1, <1>2, <2>2, RulesStep
  <1>6. CASE CompileConstraint
    <2>1. PICK next, reasons : next = {"constraints"} /\ reasons = {"empty message"}
      OBVIOUS
    <2>2. /\ ChoiceInv' /\ ConstraintInv' /\ RuleMoves(next, reasons)
          /\ next \subseteq AfterReferences /\ reasons \subseteq ChoiceReasons \cup {"ok", "empty message"}
      BY <1>1, <1>3, <1>6, <2>1, ConstraintStep
    <2> QED BY ONLY <1>1, <1>2, <2>2, RulesStep
  <1>7. CASE BuildGraphs
    <2>1. PICK next, reasons : next = {} /\ reasons = {"ok"}
      OBVIOUS
    <2>2. /\ ChoiceInv' /\ ConstraintInv' /\ RuleMoves(next, reasons)
          /\ next \subseteq AfterReferences /\ reasons \subseteq ChoiceReasons \cup {"ok", "empty message"}
      BY <1>1, <1>3, <1>7, <2>1, BuildGraphsStep
    <2> QED BY ONLY <1>1, <1>2, <2>2, RulesStep
  <1> QED BY <1>4, <1>5, <1>6, <1>7

LEMMA CompileStep ==
  ASSUME CompileInv, [CompileNext]_compileVars
  PROVE  CompileInv'
  <1>1. CASE Link
    BY <1>1, LinkStep
  <1>2. CASE \/ CollectMenus \/ ResolveParent \/ BeginWalks \/ WalkUp \/ NextWalk
             \/ CheckSiblings \/ CheckOptionMenus \/ CompileReferences \/ BeginChoices
    BY <1>2, MenuActionsStep
  <1>3. CASE CompileChoice \/ BeginConstraints \/ CompileConstraint \/ BuildGraphs
    BY <1>3, RuleActionsStep
  <1>4. CASE UNCHANGED compileVars
    <2>1. /\ UNCHANGED linkVars /\ UNCHANGED menuVars /\ UNCHANGED ruleVars
      BY <1>4 DEF compileVars
    <2>2. /\ project' = project /\ stage' = stage /\ at' = at /\ symbols' = symbols
          /\ expressions' = expressions /\ index' = index /\ outcome' = outcome
          /\ choices' = choices /\ constraints' = constraints /\ graphs' = graphs
          /\ menus' = menus /\ parent' = parent /\ cursor' = cursor /\ path' = path
          /\ references' = references /\ reported' = reported
      BY <2>1 DEF linkVars, menuVars, ruleVars
    <2>3. LinkInv'
      BY <2>2 DEF CompileInv, LinkInv, Linking, Sources, Linked, Indexed, PairsAt
    <2>4. MenuInv'
      <3>1. MenuInv /\ CycleGenuine
        BY DEF CompileInv, MenuInv
      <3>2. MenuTypes' = MenuTypes
        BY <2>2 DEF MenuTypes
      <3>3. NoMenus' = NoMenus
        BY <2>2 DEF NoMenus
      <3>4. Resolving' = Resolving
        BY <2>2 DEF Resolving
      <3>5. Walking' = Walking
        BY <2>2 DEF Walking
      <3>6. CycleGenuine' = CycleGenuine
        BY <2>2 DEF CycleGenuine
      <3> QED BY <2>2, <3>1, <3>2, <3>3, <3>4, <3>5, <3>6, Zenon DEF MenuInv
    <2>5. ChoiceInv'
      BY <2>2 DEF CompileInv, ChoiceInv, ChoicesRight, SortedChoices
    <2>6. ConstraintInv'
      BY <2>2 DEF CompileInv, ConstraintInv, PairingIsRight, GraphsAreComplete, MemberEdges
    <2> QED BY <2>2, <2>3, <2>4, <2>5, <2>6 DEF CompileInv
  <1> QED BY <1>1, <1>2, <1>3, <1>4 DEF CompileNext

\* What the inductive invariant says of the four properties.
LEMMA InvWalk ==
  ASSUME CompileInv
  PROVE  WalkIsRight
  <1>1. /\ stage \in {"symbols", "expressions", "linked", "parents", "walk", "siblings",
                      "options", "references", "choices", "constraints", "done"}
        /\ at \in Nat \ {0}
    BY DEF CompileInv, LinkInv, Compiling
  <1>2. MenuTypes /\ CycleGenuine /\ \A c \in Range(choices) : c.members \in Seq(1..Len(symbols))
    BY DEF CompileInv, MenuInv, ChoiceInv
  <1>3. CompileTypeOK
    BY <1>1, <1>2 DEF CompileTypeOK, MenuTypes
  <1>4. NoInternalError
    BY DEF CompileInv, Outcomes, NoInternalError, LinkReasons, MenuReasons, ChoiceReasons
  <1> QED BY <1>2, <1>3, <1>4 DEF WalkIsRight, CompileInvariant

LEMMA InvExpressions ==
  ASSUME CompileInv
  PROVE  ExpressionsFound
  <1>1. PairingIsRight
    BY DEF CompileInv, ConstraintInv
  <1>2. stage = "parents" => Indexed
    BY CompilingFacts DEF CompileInv, Compiling, Linked
  <1>3. LookupsAgree
    BY <1>2, LookupsAgreeWhenLinked DEF LookupsAgree
  <1> QED BY <1>1, <1>3 DEF ExpressionsFound

LEMMA InvVerdict ==
  ASSUME CompileInv
  PROVE  VerdictIsExact
  <1> SUFFICES ASSUME stage = "done"
               PROVE  outcome = "ok" <=> /\ LinksWell(project) /\ MenusWell(project)
                                         /\ \A c \in Range(project.choices) : ChoiceWell(project, c)
                                         /\ \A c \in Range(project.constraints) : c.message
    BY DEF VerdictIsExact
  <1>1. CASE outcome = "ok"
    <2>1. project \in Projects /\ LinksWell(project) /\ MenusWell(project)
      BY <1>1 DEF CompileInv, LinkInv, Linked, MenuInv
    <2>2. \A c \in Range(project.constraints) : c.message
      BY <1>1 DEF CompileInv, ConstraintInv
    <2>3. \A c \in Range(project.choices) : ChoiceWell(project, c)
      <3>1. PICK seq, n : seq = project.choices /\ n = Len(seq) /\ seq \in Seq(ChoiceNode) /\ Distinct(seq)
        BY <2>1, ProjectFacts
      <3>2. /\ DOMAIN ById(seq) = 1..n /\ Range(ById(seq)) = Range(seq)
        <4>1. \A x \in ChoiceNode : x.id \in Nat
          BY NodeIds
        <4> QED BY <3>1, <4>1, ByIdFacts
      <3>3. PICK p : p = project
        OBVIOUS
      <3>4. \A i \in 1..n : ChoiceWell(p, SortedChoices[i])
        BY <1>1, <3>1, <3>3 DEF CompileInv, ChoiceInv, ChoicesRight
      <3>5. SortedChoices = ById(seq)
        BY <3>1 DEF SortedChoices
      <3>6. ASSUME NEW c \in Range(seq) PROVE ChoiceWell(p, c)
        <4>1. PICK s : s = ById(seq)
          OBVIOUS
        <4>2. c \in Range(s) /\ DOMAIN s = 1..n
          BY <3>2, <3>6, <4>1
        <4>3. PICK i \in 1..n : c = s[i]
          BY <4>2 DEF Range
        <4> QED BY <3>4, <3>5, <4>1, <4>3
      <3> QED BY <3>1, <3>3, <3>6
    <2> QED BY <1>1, <2>1, <2>2, <2>3
  <1>2. CASE outcome # "ok"
    <2>1. outcome # "running"
      BY DEF CompileInv, LinkInv
    <2>2. outcome \in {"empty message"} \cup LinkReasons \cup MenuReasons \cup ChoiceReasons
      BY <1>2, <2>1 DEF CompileInv, Outcomes
    <2>3. outcome \in LinkReasons => ~LinksWell(project)
      BY DEF CompileInv, LinkInv
    <2>4. outcome \in MenuReasons => ~MenusWell(project)
      BY DEF CompileInv, MenuInv
    <2>5. outcome \in ChoiceReasons => \E c \in Range(project.choices) : ~ChoiceWell(project, c)
      BY DEF CompileInv, ChoiceInv
    <2>6. outcome = "empty message" => \E c \in Range(project.constraints) : ~c.message
      BY DEF CompileInv, ConstraintInv
    <2> QED BY <1>2, <2>2, <2>3, <2>4, <2>5, <2>6
  <1> QED BY <1>1, <1>2

LEMMA CompileInvHolds == CompileSpec => []CompileInv
  <1>1. CompileInit => CompileInv
    BY CompileInitInv
  <1>2. CompileInv /\ [CompileNext]_compileVars => CompileInv'
    BY CompileStep
  <1> QED BY <1>1, <1>2, PTL DEF CompileSpec

\* The menu walk stays in its array and its tables and takes no internal error
\* return, and the menus of a cycle it reports are one cycle.
THEOREM WalkIsRightHolds == CompileSpec => []WalkIsRight
  <1>1. CompileInv => WalkIsRight
    BY InvWalk
  <1> QED BY <1>1, CompileInvHolds, PTL

\* Compiled choices and constraints have their own conditions, and the two
\* lookups of a linked expression agree.
THEOREM ExpressionsFoundHolds == CompileSpec => []ExpressionsFound
  <1>1. CompileInv => ExpressionsFound
    BY InvExpressions
  <1> QED BY <1>1, CompileInvHolds, PTL

\* The compiler accepts the acceptable projects and no others.
THEOREM VerdictIsExactHolds == CompileSpec => []VerdictIsExact
  <1>1. CompileInv => VerdictIsExact
    BY InvVerdict
  <1> QED BY <1>1, CompileInvHolds, PTL

\* Each reference of a linked expression and each member of a choice is an edge
\* of one graph.
THEOREM GraphsAreCompleteHolds == CompileSpec => []GraphsAreComplete
  <1>1. CompileInv => GraphsAreComplete
    BY DEF CompileInv, ConstraintInv
  <1> QED BY <1>1, CompileInvHolds, PTL
=============================================================================
