----------------------------- MODULE MCCommands -----------------------------
(***************************************************************************)
(* Commands for TLC: one process edits two profiles and initialises,       *)
(* another generates and migrates at the same time.                        *)
(***************************************************************************)
EXTENDS Commands

MCNames == {"a", "b"}
MCIds == <<"x", "y">>
MCRequires == {<<"x", "y">>}

New(n, b, force) == [cmd |-> "new", profile |-> n, base |-> b, force |-> force]
Set(n, o, v) == [cmd |-> "set", profile |-> n, option |-> o, value |-> v]
Unset(n, o) == [cmd |-> "unset", profile |-> n, option |-> o]
Validate(n) == [cmd |-> "validate", profile |-> n]
Gen(n, artifacts, force, dry) ==
    [cmd |-> "gen", profile |-> n, artifacts |-> artifacts, force |-> force, dry |-> dry]
InitProject(force, dry) == [cmd |-> "init", force |-> force, dry |-> dry]
Migrate(child, exists, inside) ==
    [cmd |-> "migrate", dry |-> FALSE,
     out |-> [child |-> child, exists |-> exists, inside |-> inside]]

Header == {"header", "reports"}
Modules == {"qstar", "build-selection"}
EditJobs == {New("b", "a", FALSE), New("a", "b", TRUE), Set("a", "x", "0"),
             Unset("a", "y"), Validate("b"), InitProject(FALSE, FALSE), InitProject(TRUE, FALSE)}
OutputJobs == {Gen("a", Header, FALSE, FALSE), Gen("b", Modules, TRUE, FALSE),
               Gen("a", Header, FALSE, TRUE),
               Migrate(FALSE, FALSE, FALSE), Migrate(FALSE, TRUE, TRUE)}

MCProcs == {"editor", "builder"}
MCMaxJobs == [p \in MCProcs |-> IF p = "editor" THEN 2 ELSE 1]
MCJobs == [p \in MCProcs |-> IF p = "editor" THEN EditJobs ELSE OutputJobs]

At(artifact, path) == [artifact |-> artifact, path |-> path]
\* One build selection, named as the QStar module is or otherwise.
Gen1(selection) ==
    <<At("header", "config.h"), At("reports", "config.inputs.json"),
      At("qstar", "config/config.qsm"), At("build-selection", selection)>>
MCOutputs == [c \in Commands |->
    CASE c = "gen1"    -> {Gen1("config/config.qsm"), Gen1("board/board.qsm")}
      [] c = "gen2"    -> {<<At("header", "config.h"), At("reports", "config.changes.json")>>}
      [] c = "init"    -> {<<At("minimal", "project.toml"), At("minimal", "a")>>}
      [] c = "inside"  -> {<<At("candidate", "new/options.toml")>>}
      [] c = "outside" -> {<<At("candidate", "candidate/options.toml")>>}]

V(o, v) == <<o, v>>
MCDefaults == [t \in {"minimal"} |-> Profile("a", None, <<V("y", "1")>>)]

Old(f) == Text([file |-> f, of |-> "old"])
Tree(a, b, others) ==
    [f \in Path |-> CASE f = "a" -> a [] f = "b" -> b [] f \in others -> Old(f)
                      [] OTHER -> Absent]
\* A base and a derived profile; an option listed twice and an input manifest
\* of an earlier gen; a profile in the file of another; an empty directory.
MCTrees == {
    Tree(Profile("a", None, <<V("y", "1"), V("x", "1")>>),
         Profile("b", "a", <<V("x", "0")>>), {"project.toml"}),
    Tree(Profile("a", None, <<V("x", "0"), V("x", "1"), V("y", "1")>>),
         Absent, {"config.inputs.json"}),
    Tree(Absent, Profile("a", None, <<>>), {}),
    Tree(Absent, Absent, {})}
MCVersions == {1, 2}
=============================================================================
