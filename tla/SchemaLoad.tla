----------------------------- MODULE SchemaLoad -----------------------------
(***************************************************************************)
(* confit_v2_schema_load_project_with_allocator of schema/v2/loader.c: the *)
(* project file, the files it imports, the files those import, and the     *)
(* identifiers they declare.                                               *)
(*                                                                         *)
(* The recursion of parse_import_document and visit_import is a stack of   *)
(* frames.  Parsing a TOML file and one declaration in it are verdicts.    *)
(***************************************************************************)
EXTENDS Naturals, Sequences, FiniteSets

CONSTANTS
    File,       \* canonical files under the config root
    Path,       \* logical paths import statements may hold
    Canonical,  \* [Path -> File], or why a path does not name one
    MaxDepth,   \* CONFIT_V2_MAX_IMPORT_DEPTH, 128 in the code
    Inputs      \* what is on disk, see Init

PathError == {"invalid_path", "missing_file", "outside_root"}
Kind == {"option", "menu", "choice", "constraint"}

\* Files are values of their own: neither an error nor the tag of Statements.
ASSUME FileAssumption ==
    IsFiniteSet(File) /\ File \cap PathError = {} /\ "project.toml" \notin File
ASSUME CanonicalAssumption == Canonical \in [Path -> File \cup PathError]
ASSUME DepthAssumption == MaxDepth \in Nat \ {0}
\* What a TOML document can hold, nothing on whether it makes sense.
ASSUME InputsAssumption ==
    Inputs \subseteq [root : Seq(Path), imports : [File -> Seq(Path)],
                      declares : [File -> Seq([kind : Kind, id : STRING,
                                               defect : {"none", "head", "body"}])],
                      readable : [File -> BOOLEAN], project : BOOLEAN]

VARIABLES
    input,     \* the files
    phase,     \* "project", "visit" or "done"
    main,      \* index of the loop over project->imports
    imports,   \* project->imports: file and state
    frames,    \* the documents being parsed, innermost last
    declared,  \* what the files declared so far, with the file
    status

vars == <<input, phase, main, imports, frames, declared, status>>

\* An input: whether project.toml is well formed apart from its imports, root,
\* its import statements, and for each file whether it parses as a version 2
\* document, its import statements and its declarations [kind, id, defect] in the
\* order options, menus, choices, constraints.  A defect in the head (unknown
\* field, malformed id, missing field) is found before the id is registered, one
\* in the body after.
Init ==
    /\ input \in Inputs
    /\ phase = "project"
    /\ main = 1
    /\ imports = <<>>
    /\ frames = <<>>
    /\ declared = <<>>
    /\ status = "running"

Fail(reason) ==
    /\ status' = reason
    /\ phase' = "done"
    /\ UNCHANGED <<input, main, imports, frames, declared>>

Top == frames[Len(frames)]
AtTop(step) == phase = "visit" /\ frames # <<>> /\ Top.step = step

\* Mutant of AppendError: only the files being parsed are looked at.
AppendErrorActive(path) ==
    IF Canonical[path] \in PathError THEN Canonical[path]
    ELSE IF \E i \in DOMAIN imports :
               imports[i].file = Canonical[path] /\ imports[i].state = "visiting"
         THEN "import_cycle"
    ELSE "none"

\* Mutant of AppendError: every repetition is called a cycle.
AppendErrorCycle(path) ==
    IF Canonical[path] \in PathError THEN Canonical[path]
    ELSE IF \E i \in DOMAIN imports : imports[i].file = Canonical[path]
         THEN "import_cycle"
    ELSE "none"

\* confit_v2_append_import: why the statement is refused.
AppendError(path) ==
    IF Canonical[path] \in PathError THEN Canonical[path]
    ELSE LET same == {i \in DOMAIN imports : imports[i].file = Canonical[path]}
         IN IF same = {} THEN "none"
            ELSE IF \E i \in same : imports[i].state = "visiting" THEN "import_cycle"
            ELSE "duplicate_import"

Import(path, state) == [path |-> path, file |-> Canonical[path], state |-> state]
Frame(index) == [index |-> index, step |-> "open", next |-> 1]

RefuseProject == phase = "project" /\ ~input.project /\ Fail("project")

\* parse_project_document: the statements are declared, not followed.
DeclareRoot ==
    /\ phase = "project"
    /\ input.project
    /\ main <= Len(input.root)
    /\ LET path == input.root[main]
       IN IF AppendError(path) # "none" THEN Fail(AppendError(path))
          ELSE /\ imports' = Append(imports, Import(path, "declared"))
               /\ main' = main + 1
               /\ UNCHANGED <<input, phase, frames, declared, status>>

BeginVisits ==
    /\ phase = "project"
    /\ input.project
    /\ main > Len(input.root)
    /\ phase' = "visit"
    /\ main' = 1
    /\ UNCHANGED <<input, imports, frames, declared, status>>

\* The loop over project->imports, which grows meanwhile: nested imports get
\* here again, complete by then.
MainLoop ==
    /\ phase = "visit"
    /\ frames = <<>>
    /\ main <= Len(imports)
    /\ main' = main + 1
    /\ IF imports[main].state = "complete" THEN UNCHANGED <<imports, frames>>
       ELSE /\ imports' = [imports EXCEPT ![main].state = "visiting"]
            /\ frames' = <<Frame(main)>>
    /\ UNCHANGED <<input, phase, declared, status>>

\* confit_v2_toml_parse_file and the checks of the root table.
OpenDocument ==
    /\ AtTop("open")
    /\ IF ~input.readable[imports[Top.index].file] THEN Fail("document")
       ELSE /\ frames' = [frames EXCEPT ![Len(frames)].step = "imports"]
            /\ UNCHANGED <<input, phase, main, imports, declared, status>>

TopFile == imports[Top.index].file

\* Mutant of FollowImport: one level too many.
FollowImportDeep ==
    /\ AtTop("imports")
    /\ Top.next <= Len(input.imports[TopFile])
    /\ LET path == input.imports[TopFile][Top.next]
       IN IF AppendError(path) # "none" THEN Fail(AppendError(path))
          ELSE IF Len(frames) > MaxDepth THEN Fail("depth")
          ELSE /\ imports' = Append(imports, Import(path, "visiting"))
               /\ frames' = Append([frames EXCEPT ![Len(frames)].next = @ + 1],
                                   Frame(Len(imports) + 1))
               /\ UNCHANGED <<input, phase, main, declared, status>>

\* One statement of an imported document: append_import, then visit_import at
\* the next depth.
FollowImport ==
    /\ AtTop("imports")
    /\ Top.next <= Len(input.imports[TopFile])
    /\ LET path == input.imports[TopFile][Top.next]
       IN IF AppendError(path) # "none" THEN Fail(AppendError(path))
          ELSE IF Len(frames) + 1 > MaxDepth THEN Fail("depth")
          ELSE /\ imports' = Append(imports, Import(path, "visiting"))
               /\ frames' = Append([frames EXCEPT ![Len(frames)].next = @ + 1],
                                   Frame(Len(imports) + 1))
               /\ UNCHANGED <<input, phase, main, declared, status>>

BeginDeclarations ==
    /\ AtTop("imports")
    /\ Top.next > Len(input.imports[TopFile])
    /\ frames' = [frames EXCEPT ![Len(frames)].step = "declarations",
                                ![Len(frames)].next = 1]
    /\ UNCHANGED <<input, phase, main, imports, declared, status>>

\* Mutant of Registered: only the declarations of the same file are compared.
RegisteredInFile(d) ==
    \E i \in DOMAIN declared :
        declared[i].kind = d.kind /\ declared[i].id = d.id /\ declared[i].file = TopFile

\* confit_v2_register_identifier: one table per kind, for the whole project.
Registered(d) == \E i \in DOMAIN declared : declared[i].kind = d.kind /\ declared[i].id = d.id

\* The next declaration is of this kind: checks of its head, the identifier, the
\* fields.
Parse(kind) ==
    /\ AtTop("declarations")
    /\ Top.next <= Len(input.declares[TopFile])
    /\ LET d == input.declares[TopFile][Top.next]
       IN /\ d.kind = kind
          /\ IF d.defect = "head" THEN Fail("declaration")
             ELSE IF Registered(d) THEN Fail("duplicate_definition")
             ELSE IF d.defect = "body" THEN Fail("declaration")
             ELSE /\ declared' = Append(declared, [kind |-> kind, id |-> d.id, file |-> TopFile])
                  /\ frames' = [frames EXCEPT ![Len(frames)].next = @ + 1]
                  /\ UNCHANGED <<input, phase, main, imports, status>>

ParseSymbol == Parse("option")
ParseMenu == Parse("menu")
ParseChoice == Parse("choice")
ParseConstraint == Parse("constraint")

CloseDocument ==
    /\ AtTop("declarations")
    /\ Top.next > Len(input.declares[TopFile])
    /\ imports' = [imports EXCEPT ![Top.index].state = "complete"]
    /\ frames' = SubSeq(frames, 1, Len(frames) - 1)
    /\ UNCHANGED <<input, phase, main, declared, status>>

\* *out_project = project.
Publish ==
    /\ phase = "visit"
    /\ frames = <<>>
    /\ main > Len(imports)
    /\ phase' = "done"
    /\ status' = "ok"
    /\ UNCHANGED <<input, main, imports, frames, declared>>

Next ==
    \/ RefuseProject \/ DeclareRoot \/ BeginVisits \/ MainLoop \/ OpenDocument
    \/ FollowImport \/ BeginDeclarations \/ ParseSymbol \/ ParseMenu \/ ParseChoice
    \/ ParseConstraint \/ CloseDocument \/ Publish

Spec == Init /\ [][Next]_vars
FairSpec == Spec /\ WF_vars(Next)
-----------------------------------------------------------------------------
ImportRecord == [path : Path, file : File, state : {"declared", "visiting", "complete"}]
FrameRecord == [index : DOMAIN imports, step : {"open", "imports", "declarations"},
                next : Nat \ {0}]
Declaration == [kind : Kind, id : STRING, file : File]

\* The values the variables range over; frames refer to imports.
TypeOK ==
    /\ phase \in {"project", "visit", "done"}
    /\ main \in Nat \ {0}
    /\ imports \in Seq(ImportRecord)
    /\ frames \in Seq(FrameRecord)
    /\ declared \in Seq(Declaration)
    /\ status \in PathError \cup {"running", "ok", "project", "document", "depth",
                                  "import_cycle", "duplicate_import",
                                  "duplicate_definition", "declaration"}

\* The parse recursion never nests deeper than the limit, whatever the files
\* import: the guard of the C stack.
DepthBounded == Len(frames) <= MaxDepth

\* The stack is the set of imports in state visiting, each once, and each
\* document on it was imported by the statement the one below is at.
StackIsVisiting ==
    /\ {frames[d].index : d \in DOMAIN frames} =
          {i \in DOMAIN imports : imports[i].state = "visiting"}
    /\ \A d, e \in DOMAIN frames : frames[d].index = frames[e].index => d = e
    /\ \A d \in 2..Len(frames) :
          LET below == frames[d - 1]
          IN /\ below.step = "imports"
             /\ Canonical[input.imports[imports[below.index].file][below.next - 1]] =
                   imports[frames[d].index].file

\* The state of the recursion: frames in range, bounded, and those in progress.
LoadInvariant == TypeOK /\ DepthBounded /\ StackIsVisiting

-----------------------------------------------------------------------------
\* What the files say, apart from the order in which they are read.

Targets(paths) == {Canonical[paths[i]] : i \in DOMAIN paths} \ PathError

\* Files at the end of a chain of n more statements from the files of first.
ChainFrom(first) ==
    LET C[n \in Nat] == IF n = 0 THEN first
                        ELSE UNION {Targets(input.imports[f]) : f \in C[n - 1]}
    IN C

\* Files at the end of a chain of n + 1 statements from project.toml.
Chain == ChainFrom(Targets(input.root))

Reached == UNION {Chain[n] : n \in 0..Cardinality(File)}

\* The import statements of the project: where they stand and what they say.
Statements ==
    {<<"project.toml", i, input.root[i]>> : i \in DOMAIN input.root} \cup
    UNION {{<<f, i, input.imports[f][i]>> : i \in DOMAIN input.imports[f]} : f \in Reached}

Declarations ==
    UNION {{<<f, i, input.declares[f][i]>> : i \in DOMAIN input.declares[f]} : f \in Reached}

ImportedOnce ==
    \A s, t \in Statements : Canonical[s[3]] = Canonical[t[3]] => s = t

DeclaredOnce ==
    \A c, d \in Declarations : c[3].kind = d[3].kind /\ c[3].id = d[3].id => c = d

\* A project the documentation calls valid.
WellFormed ==
    /\ input.project
    /\ \A s \in Statements : Canonical[s[3]] \in File
    /\ ImportedOnce
    /\ Chain[MaxDepth] = {}
    /\ \A f \in Reached : input.readable[f]
    /\ \A d \in Declarations : d[3].defect = "none"
    /\ DeclaredOnce

\* Loading succeeds for the well-formed projects and for no other: a tree of
\* imports within the depth, each file named by one statement under whatever
\* spelling, each identifier defined once across all files.
VerdictIsRight == phase = "done" => (status = "ok" <=> WellFormed)

\* A loaded project holds every reachable file exactly once, all of them parsed
\* to the end, and exactly their declarations: nothing is skipped because it was
\* met before and nothing is read twice.
LoadIsExact ==
    status = "ok" =>
        /\ {imports[i].file : i \in DOMAIN imports} = Reached
        /\ \A i \in DOMAIN imports : imports[i].state = "complete"
        /\ Len(imports) = Cardinality(Reached)
        /\ {<<declared[i].file, declared[i].kind, declared[i].id>> : i \in DOMAIN declared} =
              {<<d[1], d[3].kind, d[3].id>> : d \in Declarations}
        /\ Len(declared) = Cardinality(Declarations)

\* An error names the defect there is: a reported cycle is a file that imports
\* itself over some chain, a duplicate is named by two statements, an exceeded
\* depth is a chain that long.
ErrorIsGenuine ==
    /\ status = "import_cycle" =>
          \E f \in Reached : \E n \in 0..Cardinality(File) :
              f \in ChainFrom(Targets(input.imports[f]))[n]
    /\ status = "duplicate_import" => ~ImportedOnce
    /\ status = "depth" => Chain[MaxDepth] # {}
    /\ status = "duplicate_definition" => ~DeclaredOnce

\* The declarations of a file come after those of every file it imports, so that
\* declaration order follows imports and not the order of statements elsewhere.
ImportsFirst ==
    \A i, j \in DOMAIN declared :
        declared[j].file \in Targets(input.imports[declared[i].file]) => j < i

\* confit_v2_schema_load_project leaves the reachable files and their declarations,
\* each once, imports before importers.
LoadIsOrdered == LoadIsExact /\ ImportsFirst

=============================================================================
