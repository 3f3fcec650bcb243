------------------------------ MODULE Commands ------------------------------
(***************************************************************************)
(* The commands of cli/main.c and cli/v2_workflow.c that write files:      *)
(* profile new, set, unset (and validate, which only reads), init, gen in  *)
(* both schema versions, and migrate of migration/v1_to_v2.c.              *)
(*                                                                         *)
(* Processes run one command after the other on one tree of files.  The    *)
(* version 1 commands write with confit_host_write_text_file, which        *)
(* truncates the file before it writes it; gen of version 2 and migrate    *)
(* replace each file atomically (module HostFile).  Any call may fail and a *)
(* process may die between any two; a file that exists and cannot be read  *)
(* is taken for absent where the code asks whether it exists.              *)
(*                                                                         *)
(* A profile is its name, its base and its values in file order; the file  *)
(* of a profile n is named n.toml.  The schema is reduced to options that  *)
(* are 0 or 1, where Requires lists pairs such that the first, when 1,     *)
(* requires the second; whether project.toml, the option files and the     *)
(* targets load is left open.  Loading and resolving in full are in        *)
(* V1Schema and V1Resolver.                                                *)
(***************************************************************************)
EXTENDS Integers, Sequences, FiniteSets, SequencesExt

CONSTANTS
    Procs,     \* processes
    Jobs,      \* the commands each process may run
    MaxJobs,   \* bound: commands per process
    Names,     \* profile names, also the files n.toml
    Ids,       \* the options, in the order of their ids
    Requires,
    Outputs,   \* the lists of files that each kind of command may write
    Defaults,  \* the profile in each template of init
    Trees,     \* contents of the tree at the start
    Versions   \* schema versions a project may have

None == "(null)"
Options == Range(Ids)
Absent == [k |-> "absent"]
Empty == [k |-> "empty"]
Profile(n, b, v) == [k |-> "profile", name |-> n, base |-> b, values |-> v]
Text(d) == [k |-> "text", of |-> d]

Commands == {"init", "gen1", "gen2", "inside", "outside"}

\* A file to be written: the artifact it is, or the template it is of, and
\* where it goes.  gen of version 1 has one list for each set of build
\* selections a project may define, init one for each template.  A path may
\* be listed twice: a build selection may be named as another artifact is.
Paths(list) == {file.path : file \in Range(list)}
Lists == UNION {Outputs[c] : c \in Commands}
Path == Names \cup UNION {Paths(list) : list \in Lists}

\* A file that says it is a profile is one.
Profiles ==
    [k : {"profile"}, name : Names, base : Names \cup {None},
     values : Seq(Options \X {"0", "1"})]
ProfileFile(content) == content.k = "profile" => content \in Profiles

ASSUME OutputsAssumption ==
    /\ DOMAIN Outputs = Commands
    /\ \A list \in Lists : list \in Seq([artifact : STRING, path : STRING])
ASSUME DefaultsAssumption ==
    \A list \in Outputs["init"] : \A file \in Range(list) :
        file.path \in Names => Defaults[file.artifact] \in Profiles
\* None stands for a null pointer, which is no name.
ASSUME NamesAssumption == IsFiniteSet(Names) /\ None \notin Names
ASSUME RequiresAssumption == Requires \subseteq Options \X Options

\* The commands as their argument parsers leave them.  Only new takes a base
\* and --force, only gen selects artifacts; a set or unset may name an option
\* that does not exist.
ProfileJobs ==
    [cmd : {"new"}, profile : Names, base : Names \cup {None}, force : BOOLEAN]
    \cup [cmd : {"set"}, profile : Names, option : STRING, value : {"0", "1"}]
    \cup [cmd : {"unset"}, profile : Names, option : STRING]
    \cup [cmd : {"validate"}, profile : Names]
GenJobs ==
    [cmd : {"gen"}, profile : Names,
     artifacts : SUBSET {"header", "reports", "cmake", "qstar", "build-selection"} \ {{}},
     force : BOOLEAN, dry : BOOLEAN]
InitJobs == [cmd : {"init"}, force : BOOLEAN, dry : BOOLEAN]
MigrateJobs ==
    [cmd : {"migrate"}, dry : {FALSE},
     out : [child : BOOLEAN, exists : BOOLEAN, inside : BOOLEAN]]

ASSUME JobsAssumption ==
    \A p \in Procs : \A j \in Jobs[p] :
        \/ j \in ProfileJobs \/ j \in GenJobs \/ j \in InitJobs \/ j \in MigrateJobs

ASSUME TreesAssumption ==
    \A t \in Trees : DOMAIN t = Path /\ \A n \in Names : ProfileFile(t[n])

VARIABLES
    fs,       \* the tree: [Path -> content]
    pc,       \* where each process is, "idle" between commands
    job,      \* the command it runs or ran last
    version,  \* schema_version of project.toml as that command found it
    wanted,   \* the files that command writes, in order
    count,    \* commands it has started
    unread,   \* files of the directory listed and not read yet
    seen,     \* the profile files as the loader read them
    project,  \* the profiles in memory, by name
    inputs,   \* the profile files as collect_input_files read them
    config,   \* the resolved values
    missed,   \* files that existed and were taken for absent
    todo,     \* files still to be written: [path, text]
    result    \* of the last command: "none", "ok", "refused", "failed", "crashed"

vars == <<fs, pc, job, version, wanted, count, unread, seen, project, inputs, config,
          missed, todo, result>>

\* What a command has fixed when it starts.
command == <<job, version, wanted, count>>

-----------------------------------------------------------------------------
\* What the loader and the resolver make of the profile files.

NoFiles == [n \in Names |-> Absent]
Present(files) == {n \in Names : files[n] # Absent}

\* finish_profile and validate_profile_links; an empty file has no name.
Loadable(files) ==
    /\ \A n \in Present(files) : files[n].k = "profile"
    /\ \A m, n \in Present(files) : m # n => files[m].name # files[n].name
    /\ \A n \in Present(files) :
        files[n].base # None =>
            /\ files[n].base # files[n].name
            /\ \E m \in Present(files) : files[m].name = files[n].base

View(files) ==
    [n \in {files[m].name : m \in Present(files)} |->
        files[CHOOSE m \in Present(files) : files[m].name = n]]

Lines == {s \in BoundedSeq(Names, Cardinality(Names)) : s # <<>> /\ IsInjective(s)}

\* The value a profile gives an option itself: the last entry wins.
Own(profile, o) ==
    LET at == {i \in DOMAIN profile.values : profile.values[i][1] = o} IN
    IF at = {} THEN None
    ELSE profile.values[CHOOSE i \in at : \A j \in at : j <= i][2]

\* A profile, its base, the base of that one and so on; a cycle of bases has
\* no such chain.
Chains(view, n) ==
    {s \in Lines :
        /\ s[1] = n
        /\ \A i \in 1..(Len(s) - 1) : view[s[i]].base = s[i + 1]
        /\ view[Last(s)].base = None}

\* The nearest profile of the chain that gives the option a value.
Effective(view, n) ==
    LET chain == CHOOSE s \in Chains(view, n) : TRUE IN
    [o \in Options |->
        LET by == {i \in DOMAIN chain : Own(view[chain[i]], o) # None} IN
        IF by = {} THEN "0"
        ELSE Own(view[chain[CHOOSE i \in by : \A j \in by : i <= j]], o)]

\* confit_resolver_resolve: no cycle of bases, every dependency satisfied.
Resolves(view, n) ==
    /\ n \in DOMAIN view
    /\ Chains(view, n) # {}
    /\ LET values == Effective(view, n) IN
       \A r \in Requires : values[r[1]] = "1" => values[r[2]] = "1"
-----------------------------------------------------------------------------
\* Running and ending a command.

Init ==
    /\ fs \in Trees
    /\ pc = [p \in Procs |-> "idle"]
    /\ job = [p \in Procs |-> [cmd |-> "none"]]
    /\ version = [p \in Procs |-> 1]
    /\ wanted = [p \in Procs |-> <<>>]
    /\ count = [p \in Procs |-> 0]
    /\ unread = [p \in Procs |-> {}]
    /\ seen = [p \in Procs |-> NoFiles]
    /\ project = [p \in Procs |-> <<>>]
    /\ inputs = [p \in Procs |-> NoFiles]
    /\ config = [p \in Procs |-> [o \in Options |-> "0"]]
    /\ missed = [p \in Procs |-> {}]
    /\ todo = [p \in Procs |-> <<>>]
    /\ result = [p \in Procs |-> "none"]

Goto(p, label) == pc' = [pc EXCEPT ![p] = label] /\ UNCHANGED result

End(p, r) ==
    /\ pc' = [pc EXCEPT ![p] = "idle"]
    /\ result' = [result EXCEPT ![p] = r]

ProfileCommand(j) == j.cmd \in {"new", "set", "unset", "validate"}
Generating(j) == j.cmd = "gen"

\* The artifacts --artifact selects, in the order they are written.
Selected(list, artifacts) ==
    LET upTo[i \in 0..Len(list)] ==
            IF i = 0 THEN <<>>
            ELSE IF list[i].artifact \in artifacts THEN Append(upTo[i - 1], list[i])
            ELSE upTo[i - 1]
    IN  upTo[Len(list)]

\* What a command may be there to write: the selected artifacts, the files of
\* a template, the candidate, or nothing but a profile.
Wanted(j, v) ==
    CASE j.cmd = "gen" /\ v = 1 -> {Selected(list, j.artifacts) : list \in Outputs["gen1"]}
      [] j.cmd = "gen" /\ v # 1 -> Outputs["gen2"]
      [] j.cmd = "init"         -> Outputs["init"]
      [] j.cmd = "migrate"      -> Outputs[IF j.out.inside THEN "inside" ELSE "outside"]
      [] OTHER                  -> {<<>>}

\* The table of commands, and confit_cli_v2_try_run for gen and migrate.  The
\* version and the build selections of the project are any: init or an editor
\* may have rewritten the schema since the last command.
Start(p) ==
    /\ pc[p] = "idle" /\ count[p] < MaxJobs[p]
    /\ \E j \in Jobs[p], v \in Versions :
        /\ job' = [job EXCEPT ![p] = j]
        /\ version' = [version EXCEPT ![p] = v]
        /\ \E list \in Wanted(j, v) : wanted' = [wanted EXCEPT ![p] = list]
        /\ pc' = [pc EXCEPT ![p] = CASE j.cmd = "init"    -> "check"
                                     [] j.cmd = "migrate" -> "where"
                                     [] OTHER             -> "load"]
    /\ count' = [count EXCEPT ![p] = @ + 1]
    /\ missed' = [missed EXCEPT ![p] = {}]
    /\ result' = [result EXCEPT ![p] = "none"]
    /\ UNCHANGED <<fs, unread, seen, project, inputs, config, todo>>

\* The profile directory is listed and its files are read one by one: for
\* the load and, by gen of version 1, a second time for the input manifest.
\* The order of the names is left open.
List(p) ==
    /\ pc[p] \in {"load", "inputs"}
    /\ unread' = [unread EXCEPT ![p] = Present(fs)]
    /\ pc' = [pc EXCEPT ![p] = IF pc[p] = "load" THEN "read" ELSE "reread"]
    /\ seen' = IF pc[p] = "load" THEN [seen EXCEPT ![p] = NoFiles] ELSE seen
    /\ inputs' = IF pc[p] = "inputs" THEN [inputs EXCEPT ![p] = NoFiles] ELSE inputs
    /\ UNCHANGED <<fs, command, project, config, missed, todo, result>>

Read(p) ==
    /\ pc[p] \in {"read", "reread"}
    /\ \E n \in unread[p] :
        /\ unread' = [unread EXCEPT ![p] = @ \ {n}]
        /\ seen' = IF pc[p] = "read" THEN [seen EXCEPT ![p][n] = fs[n]] ELSE seen
        /\ inputs' = IF pc[p] = "reread" THEN [inputs EXCEPT ![p][n] = fs[n]] ELSE inputs
    /\ UNCHANGED <<fs, command, pc, project, config, missed, todo, result>>

\* The end of confit_cli_load_project_graph, or of the load of a version 2
\* project.  Only gen has a version 2 form.  Whatever the profiles, the load
\* may fail on a file it cannot read or on the schema, which init may be
\* writing.
Loaded(p) ==
    /\ pc[p] = "read" /\ unread[p] = {}
    /\ \/ /\ Loadable(seen[p]) /\ (version[p] = 1 \/ Generating(job[p]))
          /\ Goto(p, CASE ProfileCommand(job[p]) -> "edit"
                      [] Generating(job[p])     -> "resolve"
                      [] OTHER                  -> "generate")
       \/ End(p, "refused")
    /\ project' = [project EXCEPT ![p] = IF Loadable(seen[p]) THEN View(seen[p]) ELSE <<>>]
    /\ UNCHANGED <<fs, command, unread, seen, inputs, config, missed, todo>>
-----------------------------------------------------------------------------
\* Profile commands.

\* build_profile_toml sorts the values by id; entries of one id come out of
\* qsort in any order.
Sorted(values) ==
    LET Rank(o) == CHOOSE r \in DOMAIN Ids : Ids[r] = o
        InOrder(f) == \A i \in 1..(Len(values) - 1) :
                        Rank(values[f[i]][1]) <= Rank(values[f[i + 1]][1])
        Orders == {f \in Bijection(DOMAIN values, DOMAIN values) : InOrder(f)}
    IN  {[i \in DOMAIN values |-> values[f[i]]] : f \in Orders}

ProfilePath(profile) == profile.name

\* The profiles in memory with one of them added or replaced.
With(view, profile) ==
    [n \in DOMAIN view \cup {profile.name} |-> IF n = profile.name THEN profile ELSE view[n]]

Edited(p, profile) ==
    /\ project' = [project EXCEPT ![p] = With(@, profile)]
    /\ Goto(p, "validate")

\* Mutant of EditResolves: a profile is saved as soon as it is edited.
EditResolvesAnyway(p) == project[p] # <<>>

EditResolves(p) == Resolves(project[p], job[p].profile)

\* The common end of new, set and unset: resolve, then build the text.
ValidateResolve(p) ==
    /\ pc[p] = "validate"
    /\ LET profile == project[p][job[p].profile] IN
       IF EditResolves(p)
       THEN /\ \E v \in Sorted(profile.values) :
                todo' = [todo EXCEPT ![p] = <<[path |-> ProfilePath(profile),
                                               text |-> [profile EXCEPT !.values = v]]>>]
            /\ Goto(p, "open")
       ELSE End(p, "refused") /\ UNCHANGED todo
    /\ UNCHANGED <<fs, command, unread, seen, project, inputs, config, missed>>

\* A profile of the name is replaced only by force, and a file of the name
\* too, unless the attempt to read it fails.
ProfileNew(p) ==
    /\ pc[p] = "edit" /\ job[p].cmd = "new"
    /\ LET n == job[p].profile
           b == job[p].base
           allowed == /\ b # n
                      /\ b # None => b \in DOMAIN project[p]
                      /\ n \in DOMAIN project[p] => job[p].force
           there == fs[n] # Absent /\ ~job[p].force
       IN  \/ /\ allowed
              /\ missed' = [missed EXCEPT ![p] = IF there THEN {n} ELSE {}]
              /\ Edited(p, Profile(n, b, <<>>))
           \/ /\ ~allowed \/ there
              /\ End(p, "refused")
              /\ UNCHANGED <<project, missed>>
    /\ UNCHANGED <<fs, command, unread, seen, inputs, config, todo>>

ValueIndex(profile, o) ==
    LET at == {i \in DOMAIN profile.values : profile.values[i][1] = o} IN
    IF at = {} THEN 0 ELSE CHOOSE i \in at : \A j \in at : i <= j

\* Mutant of SetValue: the new value is one more entry.
SetValueAgain(profile, o, v) == [profile EXCEPT !.values = Append(@, <<o, v>>)]

\* The first entry of the option is replaced, or one is added.
SetValue(profile, o, v) ==
    IF ValueIndex(profile, o) = 0
    THEN [profile EXCEPT !.values = Append(@, <<o, v>>)]
    ELSE [profile EXCEPT !.values[ValueIndex(profile, o)] = <<o, v>>]

ProfileSet(p) ==
    /\ pc[p] = "edit" /\ job[p].cmd = "set"
    /\ LET n == job[p].profile
           known == n \in DOMAIN project[p] /\ job[p].option \in Options
       IN  \/ known /\ Edited(p, SetValue(project[p][n], job[p].option, job[p].value))
           \/ ~known /\ End(p, "refused") /\ UNCHANGED project
    /\ UNCHANGED <<fs, command, unread, seen, inputs, config, missed, todo>>

UnsetValue(profile, o) ==
    [profile EXCEPT !.values = RemoveAt(@, ValueIndex(profile, o))]

ProfileUnset(p) ==
    /\ pc[p] = "edit" /\ job[p].cmd = "unset"
    /\ LET n == job[p].profile
           set == n \in DOMAIN project[p] /\ ValueIndex(project[p][n], job[p].option) # 0
       IN  \/ set /\ Edited(p, UnsetValue(project[p][n], job[p].option))
           \/ ~set /\ End(p, "refused") /\ UNCHANGED project
    /\ UNCHANGED <<fs, command, unread, seen, inputs, config, missed, todo>>

ProfileValidate(p) ==
    /\ pc[p] = "edit" /\ job[p].cmd = "validate"
    /\ End(p, IF Resolves(project[p], job[p].profile) THEN "ok" ELSE "refused")
    /\ UNCHANGED <<fs, command, unread, seen, project, inputs, config, missed, todo>>
-----------------------------------------------------------------------------
\* gen, init and migrate.

\* gen resolves; version 1 then reads its input files once more.
ResolveGen(p) ==
    /\ pc[p] = "resolve"
    /\ IF Resolves(project[p], job[p].profile)
       THEN /\ config' = [config EXCEPT ![p] = Effective(project[p], job[p].profile)]
            /\ Goto(p, IF version[p] = 1 THEN "inputs" ELSE "generate")
       ELSE End(p, "refused") /\ UNCHANGED config
    /\ UNCHANGED <<fs, command, unread, seen, project, inputs, missed, todo>>

CollectedInputs(p) ==
    /\ pc[p] = "reread" /\ unread[p] = {}
    /\ Goto(p, "check") \/ End(p, "failed")
    /\ UNCHANGED <<fs, command, unread, seen, project, inputs, config, missed, todo>>

\* What goes into one file; the input manifest of version 1 is made from the
\* files read for it, the other artifacts from the resolved values.
Artifact(p, file) ==
    [path |-> file.path,
     text |-> CASE job[p].cmd = "gen" ->
                    Text([file |-> file,
                          of   |-> IF version[p] = 1 /\ file.path = "config.inputs.json"
                                   THEN inputs[p]
                                   ELSE config[p]])
                [] job[p].cmd = "init" /\ file.path \in Names -> Defaults[file.artifact]
                [] OTHER -> Text([file |-> file, of |-> job[p].cmd])]

Texts(p) == [i \in DOMAIN wanted[p] |-> Artifact(p, wanted[p][i])]

\* Mutant of Looked: only the first file is looked at.
LookedFirst(p) == {1} \cap DOMAIN wanted[p]

Looked(p) == DOMAIN wanted[p]

\* The files that exist among those the preflight looks at, and whether it
\* stops at one.
Exists(p) == {wanted[p][i].path : i \in {k \in Looked(p) : fs[wanted[p][k].path] # Absent}}
Guards(p) == ~job[p].force /\ ~(Generating(job[p]) /\ job[p].dry)

\* confit_cli_gen_preflight, which a dry run skips, and init_preflight: a
\* file that exists stops the command, unless the attempt to read it fails.
Preflight(p) ==
    /\ pc[p] = "check"
    /\ \/ /\ Guards(p) /\ Exists(p) # {}
          /\ End(p, "refused")
          /\ UNCHANGED missed
       \/ /\ missed' = [missed EXCEPT ![p] = IF Guards(p) THEN Exists(p) ELSE {}]
          /\ Goto(p, "generate")
    /\ UNCHANGED <<fs, command, unread, seen, project, inputs, config, todo>>

\* The output root of migrate: child of the source by its spelling, already
\* existing, inside the source in fact.  The second comparison is made on
\* canonical paths, which only an existing directory has.
Where(p) ==
    /\ pc[p] = "where"
    /\ LET out == job[p].out IN
       IF out.child \/ (out.exists /\ out.inside) THEN End(p, "refused") ELSE Goto(p, "load")
    /\ UNCHANGED <<fs, command, unread, seen, project, inputs, config, missed, todo>>

Generate(p) ==
    /\ pc[p] = "generate"
    /\ \/ /\ job[p].dry /\ job[p].cmd # "migrate"
          /\ End(p, "ok")
          /\ UNCHANGED todo
       \/ /\ job[p].dry => job[p].cmd = "migrate"
          /\ todo' = [todo EXCEPT ![p] = Texts(p)]
          /\ Goto(p, "open")
    /\ UNCHANGED <<fs, command, unread, seen, project, inputs, config, missed>>
-----------------------------------------------------------------------------
\* Writing.

Atomic(p) == job[p].cmd = "migrate" \/ (Generating(job[p]) /\ version[p] # 1)

\* What is left of a text when the process or a call fails while it is
\* written: nothing that loads, or a profile without its last lines.
Torn(text) ==
    {Empty} \cup
    (IF text.k = "profile"
     THEN {[text EXCEPT !.values = SubSeq(@, 1, i)] : i \in 0..(Len(text.values) - 1)}
          \cup {[text EXCEPT !.base = None, !.values = <<>>]}
     ELSE {})

File(p) == Head(todo[p])

\* mkdir and fopen(path, "wb").
Open(p) ==
    /\ pc[p] = "open" /\ todo[p] # <<>> /\ ~Atomic(p)
    /\ \/ /\ fs' = [fs EXCEPT ![File(p).path] = Empty]
          /\ Goto(p, "write")
          /\ UNCHANGED todo
       \/ /\ End(p, "failed")
          /\ todo' = [todo EXCEPT ![p] = <<>>]
          /\ UNCHANGED fs
    /\ UNCHANGED <<command, unread, seen, project, inputs, config, missed>>

\* Mutant of Write: a short write counts as a written file.
WriteShort(p) ==
    /\ pc[p] = "write"
    /\ \E text \in {File(p).text} \cup Torn(File(p).text) :
        fs' = [fs EXCEPT ![File(p).path] = text]
    /\ Goto(p, "open")
    /\ todo' = [todo EXCEPT ![p] = Tail(@)]
    /\ UNCHANGED <<command, unread, seen, project, inputs, config, missed>>

\* fwrite and fclose.
Write(p) ==
    /\ pc[p] = "write"
    /\ \/ /\ fs' = [fs EXCEPT ![File(p).path] = File(p).text]
          /\ Goto(p, "open")
          /\ todo' = [todo EXCEPT ![p] = Tail(@)]
       \/ /\ \E text \in Torn(File(p).text) : fs' = [fs EXCEPT ![File(p).path] = text]
          /\ End(p, "failed")
          /\ todo' = [todo EXCEPT ![p] = <<>>]
    /\ UNCHANGED <<command, unread, seen, project, inputs, config, missed>>

\* confit_host_write_text_file_if_changed_atomic.
Replace(p) ==
    /\ pc[p] = "open" /\ todo[p] # <<>> /\ Atomic(p)
    /\ \/ /\ fs' = [fs EXCEPT ![File(p).path] = File(p).text]
          /\ todo' = [todo EXCEPT ![p] = Tail(@)]
          /\ UNCHANGED <<pc, result>>
       \/ /\ End(p, "failed")
          /\ todo' = [todo EXCEPT ![p] = <<>>]
          /\ UNCHANGED fs
    /\ UNCHANGED <<command, unread, seen, project, inputs, config, missed>>

Finish(p) ==
    /\ pc[p] = "open" /\ todo[p] = <<>>
    /\ End(p, "ok")
    /\ UNCHANGED <<fs, command, unread, seen, project, inputs, config, missed, todo>>

\* A process dies; a file it has open keeps what reached the disk.
Crash(p) ==
    /\ pc[p] # "idle"
    /\ IF pc[p] = "write"
       THEN \E text \in Torn(File(p).text) : fs' = [fs EXCEPT ![File(p).path] = text]
       ELSE UNCHANGED fs
    /\ End(p, "crashed")
    /\ todo' = [todo EXCEPT ![p] = <<>>]
    /\ UNCHANGED <<command, unread, seen, project, inputs, config, missed>>

Step(p) ==
    \/ List(p) \/ Read(p) \/ Loaded(p)
    \/ ProfileNew(p) \/ ProfileSet(p) \/ ProfileUnset(p) \/ ProfileValidate(p)
    \/ ValidateResolve(p)
    \/ ResolveGen(p) \/ CollectedInputs(p) \/ Preflight(p) \/ Where(p) \/ Generate(p)
    \/ Open(p) \/ Write(p) \/ Replace(p) \/ Finish(p)

Next == \E p \in Procs : Start(p) \/ Step(p) \/ Crash(p)

\* A command that runs keeps running; whether another is started, and
\* whether a process dies, is not up to the program.  This is weak fairness
\* of Step(p), which is enabled exactly while p is not idle.
KeepsRunning(p) == []<>(pc[p] = "idle") \/ []<><<Step(p)>>_vars

Spec == Init /\ [][Next]_vars /\ \A p \in Procs : KeepsRunning(p)
-----------------------------------------------------------------------------
\* Properties.

Edits(p) == job[p].cmd \in {"new", "set", "unset"}
Succeeded(p) == pc[p] = "idle" /\ result[p] = "ok"

\* The files a command may write, whatever the project and its version.
Targets(j) ==
    IF j.cmd \in {"new", "set", "unset"} THEN {j.profile}
    ELSE UNION {Paths(list) : list \in UNION {Wanted(j, v) : v \in Versions}}

\* No other process has a command that writes one of these files.
Alone(p, files) == \A q \in Procs \ {p} : \A j \in Jobs[q] : Targets(j) \cap files = {}

\* Each profile is in the file of its name.
InPlace(files) == \A n \in Present(files) : files[n].name = n

Repeats(profile) ==
    \E i, j \in DOMAIN profile.values : i # j /\ profile.values[i][1] = profile.values[j][1]

\* A profile command that reports success stored the profile it read with
\* exactly the change asked for: one option set or unset, or no values and
\* the given base, whatever the order the file had its values in, as long as
\* no other process writes profiles.
SavedAsAsked ==
    \A p \in Procs : Succeeded(p) /\ Edits(p) /\ Alone(p, Names) /\ InPlace(seen[p]) =>
        LET n == job[p].profile
            j == job[p]
            old == seen[p][n]
            now == fs[n]
        IN  /\ now.k = "profile" /\ now.name = n
            /\ now.base = IF j.cmd = "new" THEN j.base ELSE old.base
            /\ (j.cmd = "new" \/ ~Repeats(old)) =>
                \A o \in Options :
                    Own(now, o) = CASE j.cmd = "new"                  -> None
                                    [] j.cmd = "set" /\ o = j.option   -> j.value
                                    [] j.cmd = "unset" /\ o = j.option -> None
                                    [] OTHER                          -> Own(old, o)

\* After a profile command that reports success the project still loads and
\* the profile resolves, as read back from the files: what was checked in
\* memory before the write is what the next command finds.  A profile that
\* lists an option twice is left out: sorting may turn its entries round and
\* another value be the last.
SavedProfileResolves ==
    \A p \in Procs : Succeeded(p) /\ Edits(p) /\ Alone(p, Names) /\ InPlace(seen[p]) =>
        LET files == [n \in Names |-> fs[n]] IN
        /\ Loadable(files)
        /\ ~Repeats(files[job[p].profile]) => Resolves(View(files), job[p].profile)

\* The last file of a list at its path.
Final(list, i) == \A k \in DOMAIN list : k > i => list[k].path # list[i].path

\* A gen that reports success leaves at every path the artifact it was to
\* write there last, whole and made from one and the same set of resolved
\* values, although profiles are edited while it runs; only the input manifest
\* of version 1 is made from the files as they were when it read them again.
\* No other process writes the same artifacts.
GenIsConsistent ==
    \A p \in Procs :
        /\ Succeeded(p) /\ Generating(job[p]) /\ ~job[p].dry
        /\ Alone(p, Paths(wanted[p]))
        => /\ Resolves(View(seen[p]), job[p].profile)
           /\ config[p] = Effective(View(seen[p]), job[p].profile)
           /\ \A i \in DOMAIN wanted[p] :
                Final(wanted[p], i) =>
                    fs[wanted[p][i].path] = Artifact(p, wanted[p][i]).text

\* docs/cli-contract.md:97: every group of artifacts asked for is emitted.
\* The code lets a build selection be named config, and its module then
\* replaces the config/config.qsm that the same gen wrote before it.
EveryArtifactIsThere ==
    \A p \in Procs :
        /\ Succeeded(p) /\ Generating(job[p]) /\ ~job[p].dry
        /\ Alone(p, Paths(wanted[p]))
        => \A i \in DOMAIN wanted[p] : fs[wanted[p][i].path] = Artifact(p, wanted[p][i]).text

\* The files of its list that a command has already written.
Already(p) == {wanted[p][i].path : i \in 1..(Len(wanted[p]) - Len(todo[p]))}

WritesTo(p, f) == pc[p] \in {"open", "write"} /\ todo[p] # <<>> /\ File(p).path = f

\* A file may be changed when it is not there yet, when the command made it,
\* or when the command replaces what is there by its nature or by --force.
\* Two processes that write the same file are left out: the file is looked at
\* before it is opened.
MayChange(p, f) ==
    \/ ~Alone(p, {f})
    \/ fs[f] = Absent
    \/ pc[p] = "write" /\ fs[f] = Empty
    \/ f \in Already(p)
    \/ Atomic(p)
    \/ job[p].cmd \in {"set", "unset"}
    \/ job[p].force

\* Without --force profile new, init and gen of version 1 overwrite no file
\* but one that was there when they looked and could not be read: every file
\* is looked at, and before the first is opened, through the load, the
\* resolve and the writes in between.  A process whose command ended or never
\* opened a file writes none.
UnforcedKeeps ==
    [][\A f \in Path : fs'[f] # fs[f] =>
        \E p \in Procs : WritesTo(p, f) /\ (MayChange(p, f) \/ f \in missed[p])]_vars

\* docs/cli-contract.md:98: --force is what permits overwriting an existing
\* output file.  The code takes a file it fails to read for absent and
\* truncates it.
UnforcedRefuses ==
    [][\A f \in Path : fs'[f] # fs[f] =>
        \E p \in Procs : WritesTo(p, f) /\ MayChange(p, f)]_vars

=============
