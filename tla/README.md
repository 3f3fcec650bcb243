# A TLA+ verification project for Confit

Confit is a configuration system: a schema of typed options, TOML profiles and
targets that give them values, a resolver, generators that write headers and
build fragments, and a terminal editor. This directory holds TLA+ modules that
model its core, the TLC configurations that check them, and TLAPS proofs.
Paths below are relative to the repository; `src/` is its source directory.

## 1. Inventory

### The flow

    project.toml + imports --loader--> project --linker--> linked project
      --choice/constraint compiler--> compiled structure
      --ledger (schema defaults, target files, profile files, transaction, user)--> winners
      --evaluation (order, values, availability, choices)--> evaluation
      --constraint validation--> snapshot --generators--> artifact files
                                   ^                          |
      profile editor (TUI) --edits-'      host file layer <---+--- profile save

Confit is a single-threaded program. What is hard in it is not parallelism
inside a process but: recursion over user-made graphs (dependencies, base
profiles, imports), phases that silently read "unset" when run in the wrong
order, precedence rules encoded in sort keys, files that several processes and
the user's text editor touch, multi-step saves, and crashes between them.

### Components, their state and what makes them correct

| Component | State | Operations | Correct when |
|---|---|---|---|
| v2 loader (`schema/v2/loader.c`, `validate.c`, `model/v2/model.c`) | project tables, import stack | load, import (depth limit 128), validate | each file once, no import cycle, ids unique |
| v2 linker (`schema/v2/linker.c`) | linked expressions, index | link, find, validate_write | every reference resolved and typed, one owner per option |
| v2 expressions (`expression/v2/`) | syntax tree, typed tree | lex, parse, typecheck, evaluate | total on typed input, unset propagates as an error except where the language says otherwise |
| v2 input catalogs (`resolver/v2/input_loader.c`) | documents of profiles and targets | load, find, build chain | chain = ancestry of the leaf, cycles refused |
| v2 ledger (`resolver/v2/plan.c`) | entries, winners, target selection | build, query | exactly the documented precedence, no tie |
| v2 evaluation (`resolver/v2/evaluate.c`) | visit states, order, values, states, choices | build | values are a fixpoint, nothing repaired silently, failure publishes nothing |
| v2 constraints (`constraint/v2/`) | compiled choices and constraints, graphs | compile, validate, explain | every violated constraint reported |
| v2 snapshot, incremental (`resolver/v2/snapshot.c`, `incremental.c`) | frozen values, hashes, reverse index | freeze, reconcile | equals a full resolve; affected set covers every change |
| v2 artifacts (`generator/v2/`, `generator/dispatch.c`) | none beyond the output files | generate, write set | each file whole; unchanged files untouched |
| host layer (`host/`) | the file system | read, write, atomic write, list, paths | readers see whole files |
| v2 profile editor (`tui/model_adapter_v2.c`) | transaction, snapshot, menu position | edit, save, exit, search, filter | nothing lost or written without validation |
| v1 schema (`schema/schema.c`, `core/model.c`) | option, profile, target and template tables, audit | load line by line, finish tables, check links | what loads can be resolved; a refusal names a defect there is |
| v1 graph, resolver (`graph/graph.c`, `resolver/resolver.c`) | edges, colours, profile stack, resolved slots | build, find cycles, resolve | the layers in their order; a broken rule is reported, an intact one is not |
| v1 editors (`tui/profile_editor.c`, `schema_editor.c`) | loaded project, edit list, menu, view, search | edit, filter, search, save, reload | edits always resolve, unsaved edits are known, the view is of the current project |
| v1 generators (`generator/`) | none | format | text |
| migration, compat (`migration/`, `compat/`) | suites, reports, candidate files | parse, check, migrate | every rule judged on the options it names; the first failure reported |
| CLI (`cli/`) | none | commands | load, resolve, validate precede every write |

Interactions are calls, except for two kinds of shared state: the files (re-read
by every preview and by every save, written by the atomic write, by users and by
other processes) and the diagnostic record of the last error.

`PROJECT.json` lists the hazards at their lines.

## 2. Modules

| Module | Models | Notes |
|---|---|---|
| `SchemaLoad` | `confit_v2_schema_load_project_with_allocator` | import recursion as frames; one action per statement, document and declaration |
| `Linker` | `confit_v2_schema_link_project` | symbol table, linked expressions, expression index |
| `Structure` | the structure compiler of `constraint/v2/` and the menu validation of `schema/v2/validate.c` | EXTENDS `Linker`: linking is its first phase |
| `TopoSort` | `confit_v2_evaluation_topological_order`, `_visit`, `_cycle_diagnostic` | recursion as explicit frames; one action per outcome of a loop iteration |
| `TopoAbstract` | what the evaluation expects of the ordering | refined by `TopoSort` |
| `Evaluation` | `confit_v2_evaluation_build` | EXTENDS `TopoSort`: the search is its first phase |
| `Snapshot` | `confit_v2_snapshot_resolve`, constraint validation, `confit_v2_snapshot_reconcile_edit` | EXTENDS `Evaluation`, which runs once for each resolve |
| `Ledger` | `confit_v2_assignment_ledger_build` and the input catalogs | one action per file parsed, base followed, source appended |
| `HostFile` | `confit_host_write_text_file_if_changed_atomic` | inodes and directory entries; processes, failures, crashes |
| `AtomicFile` | what callers expect of that write | refined by `HostFile` with one writer |
| `ProfileSession` | the editing session of the v2 profile editor | writes the file in one step, as `AtomicFile` allows |
| `V1Schema` | `confit_schema_load_project_with_audit` | one action per line, table end and link check |
| `V1Resolver` | `confit_graph_build`, `_validate`, `confit_resolver_resolve` | EXTENDS `V1Schema`: the load is its first phase |
| `Compat` | the `compat` command in both schema versions | dispatch, then the suite of assertions or of constraints |
| `Commands` | the commands that write: `profile`, `gen`, `init`, `migrate` | processes on one tree; one action per load, open, write, replace |
| `V1Editor` | a session of the schema-1 profile editor | one action per key, a save is write and reload |
| `MC*` | instances for TLC | constants only |
| `ResolveProofs` | theorems about `TopoSort`, `Evaluation` and `Snapshot` | TLAPS |
| `SchemaProofs` | theorems about `SchemaLoad`, and about `Linker` and `Structure` | TLAPS |
| `LedgerProofs`, `ProfileSessionProofs`, `HostFileProofs`, `CommandsProofs` | theorems about the module of that name; `CommandsProofs` also about `Compat` | TLAPS |
| `V1Proofs` | theorems about `V1Editor`, `V1Schema` and `V1Resolver` | TLAPS |
| `InductionLemmas` | induction over numbers and lists, walks along a function | cited by the proofs |

### SchemaLoad

An input is what is on disk: `project.toml`'s import statements and, per file,
whether it parses, its statements and its declarations. A logical path maps to a
canonical file or to the reason it does not name one, so two spellings of one
file are told apart only where the code tells them apart. A declaration is
checked head, identifier, body, in that order, as each `parse_*` function does;
what is inside head and body is a verdict (`defect`). The main loop runs over a
table that grows under it and meets nested imports again when they are complete.
`MaxDepth` stands for `CONFIT_V2_MAX_IMPORT_DEPTH` (128).

### Linker and Structure

Ids are numbers, so that `strcmp` is `<`. Options, menus, choices and
constraints have id spaces of their own and may share ids, as in the loader's
identifier tables. An expression is its type, whether it is well formed and its
references in order; lexing, parsing and typing are that verdict. `qsort` with a
comparison that never calls two entries equal is `Sorted`: entry i has i - 1 entries before it.
`BinarySearch` is the search of a table by id (`FindSymbol`, `FindMenu`) and `FindExpression`
the indexed lookup, a `LowerBound` and a scan; `ScanExpression` is the
linear lookup of the constraint validation. The compiler pairs a constraint
with its two expressions by position, counted from the end of the linked
table: `PairingIsRight` says that the pairs are the right ones after all sorting.
The walk that looks for menu cycles runs in steps, over an array of fixed
length.

### TopoSort

`visit_state`, `path`, `incoming` and `out_order` are the C arrays; `cursor[d]`
is the local `dependency_index` of the call at depth `d`. Arrays keep stale
slots after a return, so the diagnostic could print them; `CycleGenuine` says it
does not. `VisitRoot`/`SkipRoot` are the outer loop, `Descend`, `SkipFinished`,
`ReportCycle` the three outcomes of an iteration, `Finish` the end of the loop
with its overflow check, `Complete` the final count check. Allocation failure
is not modelled anywhere in this project.

### Evaluation

A project is a sequence of linked expressions with role, owner and occurrence,
a declaration per symbol, choices, and the winning requests. Dependencies are
built as the code builds them (only roles that affect values; sorted; duplicates
kept). An expression is one operator over references: enough to produce every
ordering, unset and short-circuit case. The type checker restricts the inputs,
as it does in the program: `ProjectsAssumption` says every enumerated project is
well typed. Failure goes through `Fail`, which frees everything, as `goto fail`
does. Error reasons stand for the diagnostics.

### Snapshot

The composition of the resolver: evaluation, constraint validation, freezing;
then edits, each of which searches the reverse index of the published snapshot
and resolves again from a fresh evaluation with one request replaced. A project
has, beyond that of `Evaluation`, constraints, suggestions, menus and the edits a
user may ask for. The reverse index is built from the reference graphs by owner
id, and a choice or menu may carry the id of an option. A suggestion is only its
condition: an unset one fails the validation. The order in which the search
visits dependents is not that of the code (the result is sorted). Source
positions and hashes are left out; of the provenance, the edges between
different subjects are kept.

### Ledger

An input is the content of the profile and target directories and the options of
the call. Parsing a TOML value and validating it against type, range and
candidates is one verdict (`Invalid`). `Stride` stands for 1000000 and `SizeMax`
for `SIZE_MAX`; the declaration order is computed modulo `SizeMax + 1` with the
code's guards before it. `qsort` is not stable: the winner is defined only up to
equal keys, and `NoImpossibleError` says that only equal entries have them.
`InputsAssumption` bounds the files of a directory by `SIZE_MAX / 1000000`: the code's guard
`document_index > SIZE_MAX / 1000000` lets one more document through, and the orders
of that one may wrap.

### HostFile

A text is two chunks, so that a write can be seen half done. `fopen("wb")`
truncates whatever the temporary name refers to; a process that opened the file
keeps its inode across a rename. Every call can fail, including a write that had
effect and then reports failure. Windows' `MoveFileEx` has the same shape and is
not modelled apart.

### ProfileSession

The resolver is abstracted to two operators: `Valid`, whether a full resolve with
constraint and artifact validation accepts the requested values, and `Editable`,
which options the resulting snapshot lets the user edit. They are CONSTANTS, so
the proofs hold for every resolver. `save` is three steps because the file is
read twice: by the preview and by `load_profile_document`. `ExternalWrite` is any
other program and may happen at any point. Edits the preview refuses change
nothing and are stuttering steps. A bool is toggled by the editor; the model lets
the user pick any value, which allows more behaviours. The files a profile
builds on (base profiles, targets, schema) are taken as fixed during a session, and
the Cancel answer of the exit dialog changes nothing.

### V1Schema and V1Resolver

An input is a directory of documents and a request (profile, target,
overrides). A document is a sequence of lines, each a header or a key with its
texts; splitting characters into lines is left out, what a text means under each
option type is not: integers are read modulo `2^Width`, with the C casts.
`local` holds what the state structs of a document have seen, so that fields may
come in any order and the checks of `finish_option`, `finish_profile` and the
others run at the end of a table. Options are read first, then templates,
profiles and targets, each against what was read before. `V1Resolver` goes on with the
loaded project: edges per option, the recursive cycle search as a stack of
frames, the profile stack, then defaults, bases from the farthest, target, selected profile
and user overrides, one value a step, and the dependency checks.

### Compat

Names are sequences of segments; `0` stands for the two underscores that join an
alias to an option id, so `Internal` can give two options one name as
`alias__id` can. `Dispatch` is the choice between the version-1 checker, which
reads assertions line by line from a directory, and the version-2 checker,
which evaluates constraints over all snapshots. How the projects resolve is a
verdict and a set of values here. `qsort` promises no order of equal elements: `IdOrders`
and `SortedBindings` are all the orders that its comparison allows. `FindBinding` is the
binary search of `find_binding`, its loop unrolled as often as there are bindings.
`ReportIsExplained` says a report is ok exactly if no rule is broken in the source, that every
reference that was read exists, and that no option outside the traces of a result can change it.
In version 2 it says so of suites without a captured reference, one that names no option and is
spelled like the joined name of another project's (`MCCompatCapture.cfg`).

### Commands

Processes run one command after another on one tree. Schema-1 writes truncate
and then write (`confit_host_write_text_file`), version-2 `gen` and `migrate` replace each
file (`HostFile`). Any call may fail, and a process may be killed
between any two. The schema is reduced to options that are 0 or 1 and a
`Requires` relation: enough for an edit that no longer resolves. Whether a tree
loads, what a profile resolves to and what `gen` found are read when the code
reads them and used later.

Which files a command writes is not fixed. `Outputs` gives every kind of command a set of lists, from
which `Start` takes one: for version-1 `gen` one list for each set of build selections a project may define
(`selection/*.toml` names the file), for `init` one for each template. A list may name a path twice, as a
build selection called `config` does, and one of the files of a template is a profile
(`config/profiles/default.toml`, its content in `Defaults`), so an `init` writes what the profile commands
read. The code learns whether a file exists by reading it and takes any failed read for
absent; `Preflight` and `ProfileNew` therefore stop at an existing file or go on, and `missed` records
the files they took for absent.

Nothing in the code stops two processes from writing one file: the file is looked at, and later
opened. What a command promises of a file it can only promise while no other process has a
command that writes it; `Alone` says so in terms of the commands the processes may run at all
(`Targets`), so that other processes still edit other files, generate, fail and die in between.

### V1Editor

The state of `ConfitTuiState` that decides anything: loaded project, edit list,
resolved values, dirty flag, menu, flat mode, filters, search and view. A
session is interleaved with `Changes`, what other programs write: another schema
or a removed base. A save writes (and may tear) the profile, then reloads; a
reload may fail. `Directory` is where the loader reads and `config/p` where
the editor writes; in the nested layout they agree. Text is reduced to which
options it matches. Status lines, the inspector and drawing are left out.

### Properties made of parts

Where several statements are about one result they are checked as one
conjunction with named parts, each defined and explained in its module: `EvaluationIsRight`
(fixpoint, nothing recovered, choices, defaults), `EditsAreExplained`,
`SelectionIsRight` (chains and target), `WalkIsRight`, `LoadIsOrdered`,
`LoadIsFinal`, `ReportIsExplained`.

## 3. What the runs check

| Run | Bounds | Result |
|---|---|---|
| `schema_load` | 3 files, 4 good and 3 bad spellings, up to 2 statements per document; up to 2 declarations in two files, of every kind; depth 2 | all properties hold |
| `structure` | 2 options in both orders, up to 3 menus with every parent, 2 choices, 2 constraints, one sound or defective expression in every role | all properties hold |
| `resolve` | 3 options: declarations of every kind at every option; one choice of 2 or 3 members under every cardinality; up to 2 constraints; every pair of edits (`MaxEdits`) | all properties hold |
| `evaluation_ambiguity` | 3 conditional defaults, 2 priorities | **violated**: see finding 1 |
| `ledger` | 3 profiles, every base graph including unknown names, value, unset or nothing in two of them; every document of up to 2 values and 2 unsets over 5 ids, valid or not; up to 2 overrides of one kind with 1 of the other; one document longer than the stride; 2 targets and all ways to name one | all properties hold |
| `host_file` | 1 process, 4 calls, 2 texts, 3 inodes, crashes anywhere | hold |
| `profile_session` | 2 dependent options, 2 values, any number of foreign writes, edits, saves and sessions | hold |
| `v1_resolve` | option tables with their fields in several orders and defects; 3 profiles whose bases form chains, cycles and dangling names, 2 targets, alias and canonical ids; up to two dependency edges of any kind over 3 options, or three of one kind; 4-bit integers (`Width`) | all properties hold |
| `compat` | version-1 directories of two documents from pieces of text; version-2 suites of two constraints over two projects; aliases whose joined names collide; every mixture of versions; 3-bit integers | all properties hold |
| `commands` | 2 processes, one with 2 commands of `profile` and `init` and one with a `gen` or `migrate` (`MaxJobs`); 2 profiles, 2 options, one template with a profile, two sets of build selections; 4 trees: a base and a derived profile in a project, a repeated option beside an old manifest, a profile in the file of another, an empty directory; both versions | all properties hold |
| `v1_editor` | 3 schemas, 4 disks, one foreign change (`MaxChanges`), 2 saves (`MaxSaves`), a search text, typed numbers in and out of range | all properties hold |
| `v1_editor_flat` | the same without foreign changes, one save | **violated**: finding 2 |

Why the bounds are enough. A dependency cycle needs one, two or three nodes, and
with three nodes a search meets finished, active and fresh targets, stale buffer
slots and a second root. Three profiles give chains with a middle element,
cycles that do and do not include the leaf, and dangling bases. Four calls give
a crash, a leftover, a failure and a success in one behaviour. Named bounds:
`MaxDepth`, `NodeCount`, `Stride`, `SizeMax`, `MaxCalls`, `MaxEdits`, `Width`, `MaxJobs`,
`MaxChanges`, `MaxSaves`. Bounds appear in guards
only in `HostFile` (`MaxCalls`), `Snapshot` (`MaxEdits`), `Commands` (`MaxJobs`) and `V1Editor`
(`MaxChanges`, `MaxSaves`). Two saves let a second one start from what the first left, or
from a failed reload; one foreign change suffices for a schema with other rows, or a
project that no longer loads, at any moment of a session. Three jobs let a command meet what two
others left or are doing. The run of the editor types no tag and no category: the filters by text
and by changed values restrict the view in the same way.
In the run of `resolve` the search of `TopoSort` meets the graphs of the enumerated projects; what
it does on any graph is proved.

Deadlock checking is off where the modelled call ends (`SchemaLoad`, `Structure`, `TopoSort`, `Evaluation`,
`Snapshot` after its last edit, `Ledger`, `HostFile` after its last call, `V1Resolver`, `Commands` after its last job,
`V1Editor` after leaving); `ProfileSession` never stops, and `Compat` stutters when done.

Fairness. A C function runs until it returns: weak fairness of the next-state
relation of `SchemaLoad`, `Structure`, `TopoSort`, `Evaluation`, `Ledger`, `V1Resolver`, `Compat`, of the steps of
a running command in `Commands` (not of starting one, nor of a kill), and of the steps of `save`
in `ProfileSession`; in `Snapshot` of every step but the edits. `HostFile` assumes none. The property that
needs it is `ResolveEnds`; the others are safety. Nothing is
assumed of users, other programs or the
scheduler between processes.

## 4. Findings

1. The selection of conditional defaults (and of choice defaults) raises the
   ambiguity error while scanning: two true entries of equal low priority with
   different values fail although a later true entry has a higher priority.
   `docs/resolution-v2.md:103-110` says that only the highest priority counts and
   that declaration order does not.
2. The schema-1 profile editor always writes `config/profiles/<name>.toml`, while the
   loader reads the root when `project.toml` is there (`schema.c:1340`). In
   such a project a save is reported as "saved and reloaded; full validation ok", and the
   reload has dropped the edits. `docs/cli-tui.md:296` says that the reload makes screen and
   file agree.

### Further counterexamples

Eight more configurations are kept beside the runs. Each checks one statement
that the code does not keep; `tlc -config X.cfg M` shows the trace.

- `MCHostFileShared.cfg` (`MCHostFile`, `FileIsWhole`): writers of one path share the
  temporary name `path.confit-tmp`; one process can rename the file another is
  still writing. `docs/artifacts-v2.md:323` promises an atomic replace.
- `MCProfileSessionRace.cfg` (`MCProfileSession`, `OnlyEditedChange`): a profile save
  overwrites what another program wrote between the save's read and its replace,
  although `docs/tui-v2.md:80` says that only edited ids change.
- `MCProfileSessionExit.cfg` (`MCProfileSession`, `EditsLostOnlyByChoice`): a failed save
  ends the session after Esc or `q`, and keeps it after `:quit`; `docs/tui-v2.md:43`
  calls them the same flow.
- `MCSnapshotSharedId.cfg` (`MCSnapshot`, `AffectedCoversChanges`): the reverse index decides
  by id alone whether an edge belongs to an option or to a choice. A choice with
  the id of an option is never in the affected set, although
  `docs/resolution-v2.md:331` says the closure includes choices.
- `MCV1RangeOverflow.cfg` (`MCV1Resolver`, `RangeIsKept`): decimal literals are accumulated
  without an overflow check, so one past the width of the type wraps into the
  range instead of being refused; `docs/schema-v1.md:90` gives the range.
- `MCCommandsUnreadable.cfg` (`MCCommands`, `UnforcedRefuses`): `confit_cli_path_has_file`
  (`main.c:1367`) reads a file to learn whether it exists, and every failed read counts as absent: a
  file without read permission, an I/O error, too many open files. `profile new`, `init` and version-1
  `gen` then truncate the file without `--force`, although `docs/cli-contract.md:98` says that `--force`
  is what permits overwriting. `UnforcedKeeps`, which holds, allows exactly this exception.
- `MCCommandsOutput.cfg` (`MCCommands`, `EveryArtifactIsThere`): version-1 `gen` writes the module of
  each build selection under the name the project gives it, after `config/config.qsm` (`main.c:3434`).
  A selection may have the output `config` (`schema.c:824`, `:2792`); the same `gen` then replaces the QStar
  module by the selection's and reports success, although `docs/cli-contract.md:97` says that each group
  emits its files. `GenIsConsistent`, which holds, speaks of the last artifact of each path.
- `MCCompatCapture.cfg` (`MCCompat`, `ReferencesExist`): the version-2 checker joins alias and
  option id with two underscores and rewrites `::` to them (`compat/v2/compat.c:950`, `:1011`),
  and aliases and ids may contain underscores. With projects `a` and `a__b`, the reference
  `a::b__c` to an option that `a` does not have reads option `c` of `a__b`, and a report is made
  from it; `docs/compat-v2.md:76` says that alias and option id must exist when the expression is
  linked. The proof of `ReportIsExplained` led to it: the step from the binding found to the
  option named does not go through without excluding it.

## 5. What is proved

`ResolveProofs`, of `TopoSort`, for every `NodeCount` in Nat and every set of dependency lists:
types, buffer bound, unreachable internal errors, genuineness of a reported
cycle, correctness of the order and of the verdict, and the refinement of
`TopoAbstract`. The inductive invariant is `SearchInvariant` with `TypeOK`:
the frames are a path of distinct symbols in state 1, linked by the dependency
each loop is at, everything before it finished (`PathIsStack`); finished symbols
are exactly the ordered ones, each after its dependencies (`FinishedAreOrdered`);
roots behind the loop index are finished (`RootsBehind`); and what the three
verdicts mean (`Verdict`). None of the safety properties is inductive alone: the
buffer bound needs the path to consist of distinct nodes, which needs the visit
states. The bound itself follows from the cardinality theorems of the library
(`DistinctFit`). The invariant is checked by TLC too.

`ProfileSessionProofs`, for every set of options and values, every `Lower`,
`Valid` and `Editable`: types, `TransactionKept`, and the action properties
`SavedAsShown` and `SaveIsSparse`. The strengthening `SaveInvariant` records what
each step of a save may still rely on: the full snapshot is valid, and while
nobody else wrote the file it is the overlay of the edits on the file, and the
loaded document is the file. The lemma `BuiltResolves` is the heart: resolving
the written document alone equals resolving the old one under the edits.

`HostFileProofs`, for one writer (`OneWriter`: any two processes are the same; a
process started after another died is the same one to the model), every set of
texts, any number of calls, failures and crashes: types, `FileIsWhole`, the action
property `ResultIsTrue` and the refinement of `AtomicFile`. `WriterInvariant` says
that the published and the temporary inode differ and that the writer's file is
the temporary one and holds what was written so far; it is what two writers
break (`MCHostFileShared.cfg`). The lemma `PublishOrQuiet` reduces every step to the rename
or to one a reader of the path cannot see.

`SchemaProofs`, of `SchemaLoad`, for every finite set of files, every set of spellings, every import graph and
every depth limit: `LoadInvariant`, `VerdictIsRight`, `LoadIsOrdered` and `ErrorIsGenuine`. The
verdict says something of a whole graph, the loader sees one statement at a time; the
invariant therefore relates the two. The frames are a chain of real imports from the project
file (`Links`, `StackChains`), so that a refused depth is a chain that long and a refused import
a cycle; what was opened was readable; every statement behind a loop index is a registered
import that is complete (`ImportsComplete`); and the registry holds exactly the declarations
behind the indexes, each once (`Registry`). The other direction (a load without error had
nothing wrong) uses that a completed file has all its imports completed, so the completed
set contains everything reachable.

`SchemaProofs`, of `Linker` and `Structure`, for every project the loader may hand over:
`WalkIsRight`, `ExpressionsFound`, `VerdictIsExact` and `GraphsAreComplete`. `CompileInv` has a part for each
phase. `LinkInv`: between two expressions the table holds those of the sources so far, at increasing places
(`Gathered`), and each was well formed; afterwards every source that is there stands in the table with its
role, owner and occurrence (`Stands`), occurrences of one role and owner count up from 0 (`Counted`), and
the pairs of the constraints are the last entries (`PairsAt`). The index is a sort of the table by a strict
total order (`SortedFacts`, `ExpressionOrder`); the entries of one role and owner are therefore one block of it, which
begins at the lower bound (`IndexBlock`, `LowerBoundFacts`), and both lookups find the occurrence they count to
(`LookupFacts`). So no lookup of the compiler fails and the internal errors are unreachable. `MenuInv`: the walk is a
path of different menus, each the parent of the one before (`Walking`). A path as long as the table would have
all the menus on it (`PathFull`), so the next is found on it before the array is full; a menu found
on it lies on a loop (`CycleReported`, `LoopIsAbove`), and a walk that ends shows every
menu on it to be rooted (`PathRooted`, `RootedIsWell`). `ChoiceInv` and `ConstraintInv`: the rules before the
loop index are acceptable and compiled with their own expressions; a refusal names one that is not acceptable.
That member and default checks accept exactly the choices of `ChoiceWell` is `ChoiceErrorFacts`. The count of the edges
follows because every role belongs to one graph (`GraphOfRole`, `EdgeCount`).

`ResolveProofs`, of `Evaluation` and `Snapshot`, for every number of symbols and every linked and well-typed project:
`EvaluationIsRight` for one evaluation, and for any sequence of resolves and edits
(`Snapshot`) `SearchInvariant`, `CycleGenuine`, `EvaluationIsRight` and `SnapshotIsFull`. The invariant says
which loop has settled what: after step `at` of the value loop the first `at` symbols of the
order have the value the rules yield. It is inductive only because a value depends on
earlier symbols of the order alone. That rests on `OrderIsTopological` and on the lemma that
an expression reads nothing but the references the linker listed (`EvalReads`). `EvalType` says that
a well-typed expression yields a value of its type or one of the evaluator's errors, and nothing else.

Of an accepted edit the same module proves `EditsAreExplained` (`EditsHold`) for projects in which no
choice has the id of an option (`ApartProjects`, which the projects of `MCSnapshot.cfg` satisfy and
those of `MCSnapshotSharedId.cfg`, where the property fails, do not). The search ends with a set
closed under the reverse index (`Searching`, `Closed`); an expression of an option, choice or
constraint outside of the set reads only options outside of it (`OptionOutside`, `ChoiceOutside`,
`ConstraintOutside`); so, by induction along the order of evaluation, both resolves give each option outside
the same value (`ValuesAgree`), and then the same availability, selections and outcomes
(`FrozenAgrees`). For the provenance, a constraint whose recorded reads keep their values keeps its result,
short circuits included (`ConstraintReads`).

`LedgerProofs`, for every schema, every content of the profile and target directories, every list
of edits and overrides: `WinnerIsRight`, `OwnersOnly`, `SelectionIsRight` and `NoImpossibleError`.
`LedgerInvariant` says stage by stage what the build has: the catalogs are the files read so far, with
distinct names and only requests that are allowed (`Catalogs`); the walk is a prefix of the ancestry
of the leaf without a repetition (`Walked`); a chain is the whole ancestry (`ChainRight`); the
entries are exactly those of the sources added, with their orders (`EntriesFollow`); the winner
of an option is an entry none comes after (`Marked`); an error of a chain has its cause in the files
(`Excused`). A cycle is genuine because an ancestry that comes back to a name never leaves the
known names (`AncestryRepeats`), and the catalog is never too short for a chain because the
documents walked are distinct (`ChainIsShort`). The orders of a chain compare by document
first because no document has more than `Stride` requests (`PlaceLess`), and do not wrap
(`PlaceFits`); so a key determines its entry (`KeyDetermines`) and the last entry is the one of
the nearest document (`ChainedWins`).

`V1Proofs`, of `V1Editor`, for every set of schemas, disk contents and changes by others, every number of
edits and saves: `EditsResolve`, `UnsavedIsDirty`, `ViewIsCurrent`, `NextReaches` and the action
property `SaveKeepsScreen`. `EditorInvariant` adds the types of the files, that the loaded
project resolves, that the list of edits is one per option, and `DiskFollows`: while nobody else
wrote, the disk is the loaded project, and between the two halves of a save it holds the saved
profile. The lemma `SavedResolvesSame` is the heart: the written list, in which an option may occur
twice, resolves to what the old one under the edits does. `ViewFacts` and `BestMatchFacts`
give what the menu and search loops compute.

`V1Proofs`, of `V1Schema` and `V1Resolver`, for every project, request and width of an integer:
`LoadIsFinal`, `ResolvedIsRight`, `VerdictIsGenuine` and `GraphVerdict`. `VerdictInv` has a part for each phase.
`LoadInv` follows the loader line by line: whatever of the project has been read is well formed and known
(`ProjectInv`), the default of every option but the one whose table is open fits its declaration
(`DefaultsAccepted`), and a part is empty until it is read and validated once it has been (`PartsInOrder`). It is not
enough that a default was checked when its table ended: that the options do not change after, while profiles and
targets are read against them, is what makes the load final. `SearchInv` is the search for cycles:
the frames are a path of nodes being visited, of which the edges before the next one lead to finished
nodes (`FramesLooked`), and every non-empty set of finished nodes has one no edge of which stays in it
(`LeftIsAcyclic`). So an edge to a node on the path closes a cycle (`CycleRejected`) and an end without one finds all
nodes finished (`NoCycleFound`); a cycle is a set of options each of which leads to another of the set.
`ConfigInv` says that between any two of the assignments of the five loops the config is what the layers from the current
position on down give (`Content`); an assignment overlays one entry (`Overlaid`), a finished layer is
where the next begins (`NextLayer`), and at position 0 it is the specified `MergedConfig` (`Whole`). A refusal stays
right because nothing changes after it (`Messages` names its cause part by part).

`CommandsProofs`, for every set of processes, every set of commands each of them may run, any number
of them and every tree: `SavedAsAsked`, `SavedProfileResolves`, `GenIsConsistent` and the action
property `UnforcedKeeps`. Each of them compares a file after the last step of a command with what the
command saw many steps before, while others ran; none is inductive. `CommandInvariant` follows a command
label by label (`Local`): what was read of the profiles is still what the files hold (`Reading`), the
profile in memory is the one read with the change applied (`Validating`), the text to be stored is a
sorting of it that resolves (`Storing`, `Stored`), a gen keeps the values of the one view it loaded
(`Resolved`), a file that is written and will not be written again holds its text (`Done`), and a file still
to be written does not exist, was taken for absent, or is one that the command made (`Ahead`). Each conjunct about a file is claimed only for a process alone with it, which
is what makes it stable: `OthersKeep` shows once that a step of one process, which changes at most the
file it is writing, keeps all that holds of another; then each action keeps the facts of its own
process. Besides that the proof needs what the operators compute: a sort by id keeps the entries and,
without a repetition, the value of every option (`SortedFacts`, `SameOwn`); the chain of bases is unique,
so equal files resolve alike (`ChainFacts`, `SameResolves`); and a torn profile is still a profile file
(`TornFacts`).

`CommandsProofs`, of `Compat`, for every directory of documents, every suite, any number of projects
of any versions, and every order that the sorts allow: `SuiteIsSource`, `DiagnosticIsFirst` and
`ReportIsExplained`. The invariant `CompatInv` relates the reader, which sees one line, to the source read as a
whole. Up to the next line the suite has one assertion for each `[[assert]]` header behind it, at the place that counts the
headers up to it, with the last values of the lines behind it that belong to its table, and the
table kind says whether the next line still belongs to the last of them (`DirectoryRead`); a header, a
field and the end of a document each keep this (`ReadHeaderLine`, `ReadFieldLine`, `ReadEnd`). For version 2 every result
is the state of its constraint under the values that its references name, with these options among
the traces (`Judged`). That rests on the search: `FoundBinding` shows that the loop ends within as many turns as
there are bindings and finds nothing but the name looked for; every option is bound, since a
list of distinct options as long as their number has all of them (`EveryOptionIsBound`); so a reference that is
found and not captured is bound to its own option (`ReferenceIsResolved`), and the evaluator, with its short
circuit, computes what holds (`EvaluateIsRight`). That nothing outside of the traces matters follows
for any change of a value (`JudgedIsExplained`).

`InductionLemmas` has what those proofs need of recursive functions: induction and the least
element over a set of naturals (from the well-foundedness of the library), recursion up to a
bound or along a descent (`Descent`), lengths of lists of distinct elements, places of joined lists, and walks
along a function (`Wander`, `PathFull`, `CycleReported`). The induction theorems of the library take an
operator and cannot be instantiated; over a set they can be stated and used.

Assumptions of the proofs, all evaluated by TLC: types of constants (`NodeCountAssumption`,
`GraphsAssumption`, `MarkerAssumption`, `LowerAssumption`, `EditableAssumption`, `InodeAssumption`,
`TextAssumption`, `FileAssumption`, `CanonicalAssumption`, `DepthAssumption`, `InputsAssumption`,
`PageStepAssumption`, `StrideAssumption`, `SymbolsAssumption` and the `InputsAssumption` of `Ledger` with its
bound on the number of files, `NamesAssumption`, `RequiresAssumption`, `JobsAssumption`), and what an earlier phase of the program has checked:

- `ProjectsAssumption` of `Linker`: the loader gives every entity an id that is new in its space
  (`loader.c:703-722`), an option one in the namespace of the project (`loader.c:945-950`), a choice its
  members (`loader.c:1392-1490`), and each entry of a list of conditions its expression (`loader.c:751-757`,
  `824-827`, `1350-1353`, `1541-1544`);
- `ProjectsAssumption` of `Evaluation`: an evaluation starts from a linked project, in which every expression was
  typed (`typecheck.c`), every condition a declaration names was linked
  (`linker.c:345-448`) and every default of a choice is a member (`choice.c:141-148`);
- `SchemasAssumption`: options have a category and a default (`schema.c`), a dependency joins two
  different declared options (`graph.c:204-215`);
- `DisksAssumption`: a profile file that parses is a list of values;
- `TreesAssumption`: a file of the profile directory that says it is a profile is one; any other content is allowed;
- `InputsAssumption` of `V1Schema`: documents and lines are lists, every imported name has an entry among the
  files, perhaps an unreadable one, and overrides are values;
- `InputsAssumption` of `Compat`: lists are lists, expressions parse and have as many operands as their
  operator, and a boolean of a resolved version-2 project is `y`, `n` or unset;
- `OutputsAssumption`: the files of each kind of command are lists of artifacts with paths, which may repeat and may
  be profiles; `DefaultsAssumption`: what a template has for a profile path is a profile (`main.c:319`, `383`, `438`).

Only model-checked: liveness (`ResolveEnds`),
which is out of the prover's reach. Every invariant and action property of a passing run is
stated by a theorem. Of the proved properties, the type invariants,
`BufferBound`, `NoInternalError`, `OrderIsTopological`, the refinement of `TopoAbstract` and
`VerdictIsRight` of `TopoSort`, and `NoImpossibleError` of `Ledger` are left to the proofs; the inductive `SearchInvariant` that
implies those of `TopoSort` is checked.

## 6. Not modelled, and the plan

Left out for good: text formatting and escaping (generators, reports, explain),
terminal drawing and key decoding, the TOML adapter and the
vendored parser, memory exhaustion, the commands that only print.

Not yet modelled:

1. the schema editor (`tui/schema_editor.c`): its edits of the option tables and its save;
2. menus, search and filter of the version-2 editor, as `V1Editor` has them for version 1;
3. the full expression language with integer widths, and the parser's precedence
   climbing against a reference grammar;
4. how `migrate` rewrites one option, and the promise that it leaves its source alone;
5. the fields of a declaration in the version-2 loader.

Known and outside the properties: the temporary file is not synced before the rename;
the source hash of a snapshot leaves out choice members and availability; the version-2 editor
keeps the schema of its start while it re-reads profiles; `profile set` addresses the first entry of
a repeated option and re-resolves the edited profile only, not those derived from it; two
profile commands on one file lose an update; `migrate` compares an output directory that
does not exist yet by its spelling; a `project.toml` that does not parse makes the version-1 loader
look in `config/`.
