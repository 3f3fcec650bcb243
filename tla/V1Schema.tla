------------------------------ MODULE V1Schema ------------------------------
(***************************************************************************)
(* confit_schema_load_project_with_audit of schema/schema.c: a version 1   *)
(* project is read line by line, options first, then selection templates,  *)
(* profiles and targets, each against the options read so far.             *)
(*                                                                         *)
(* A line is a key with the texts of its value; tokenizing is left out, but*)
(* what a text means under each option type is not.  Integers have Width   *)
(* bits, 64 in the code.                                                   *)
(***************************************************************************)
EXTENDS Integers, Sequences, FiniteSets, SequencesExt

CONSTANTS
    Inputs,        \* families of inputs, see ResolveInit
    Width,         \* bits of an integer
    ValidIds,      \* ids confit_schema_validate_option_id accepts
    ProjectIds,    \* ids in the namespace of the project
    CategoryDepth, \* depth of each category path, 0 when malformed
    OutputNames    \* names confit_schema_validate_output_name accepts

ASSUME WidthAssumption == Width \in Nat \ {0, 1}
ASSUME IdsAssumption == ProjectIds \subseteq ValidIds

VARIABLES
    input,    \* the files below the project root
    stage,    \* the part of the load that runs
    file,     \* index of the document being read
    line,     \* index of its next line, 0 before it is opened
    table,    \* table_kind
    local,    \* what the state structs of a document have seen
    tree,     \* the ConfitProject under construction
    audit,    \* warnings of the ConfitSchemaAudit
    error     \* the diagnostic: part of the work and message

loadVars == <<input, stage, file, line, table, local, tree, audit, error>>

Null == "(null)"
Str(s) == [q |-> "str", n |-> 0, s |-> s]
Num(n) == [q |-> "num", n |-> n, s |-> ""]
Truth(n) == [q |-> "bool", n |-> n, s |-> ""]
Junk == [q |-> "junk", n |-> 0, s |-> ""]

\* A line of a document: a table header, which may name a member (an option, a
\* section of a template), or a key with its texts.
Header(name, isMember) ==
    [key |-> "[]", texts |-> <<Str(name)>>, quoted |-> FALSE, member |-> isMember]
Entry(key, texts) == [key |-> key, texts |-> texts, quoted |-> FALSE, member |-> FALSE]
Assign(id, text) == [key |-> id, texts |-> <<text>>, quoted |-> TRUE, member |-> FALSE]

-----------------------------------------------------------------------------
\* Values and what a text means under a type.

MakeValue(kind, n, s) == [kind |-> kind, n |-> n, s |-> s]
Empty == MakeValue("empty", 0, "")
Bad == MakeValue("bad", 0, "")

\* A value has a number or a text, as its kind says.
IsValue(v) ==
    IF v.kind \in {"string", "enum", "path"} THEN v = MakeValue(v.kind, 0, v.s)
    ELSE v.kind \in {"bool", "int", "uint", "float", "empty"} /\ v = MakeValue(v.kind, v.n, "")

\* What is below the project root: every document is a list of lines, every line
\* has a list of texts, and files has an entry, perhaps one that is not ok, for
\* each name that is imported.  The overrides are values already.
IsDocument(doc) ==
    /\ doc.lines \in Seq(ToSet(doc.lines))
    /\ \A l \in ToSet(doc.lines) : l.texts \in Seq(ToSet(l.texts))
IsInput(in) ==
    /\ in = [place |-> in.place, project |-> in.project, files |-> in.files,
             selections |-> in.selections, profiles |-> in.profiles, targets |-> in.targets,
             internal |-> in.internal, request |-> in.request]
    /\ \A list \in {in.selections, in.profiles, in.targets} :
          list \in Seq(ToSet(list)) /\ \A doc \in ToSet(list) : IsDocument(doc)
    /\ \A doc \in {in.project.root, in.project.config} :
          /\ IsDocument(doc)
          /\ \A l \in ToSet(doc.lines) : l.key = "imports" =>
                \A i \in DOMAIN l.texts : l.texts[i].s \in DOMAIN in.files
    /\ \A name \in DOMAIN in.files : IsDocument(in.files[name])
    /\ in.request.user \in Seq(ToSet(in.request.user))
    /\ \A v \in ToSet(in.request.user) : IsValue(v.value)

ASSUME InputsAssumption == \A family \in Inputs : \A in \in family : IsInput(in)

KindOf == [bool |-> "bool", int |-> "int", uint |-> "uint", hex |-> "uint",
           string |-> "string", enum |-> "enum", float |-> "float",
           path |-> "path"]
Types == DOMAIN KindOf
Numeric == {"int", "uint", "hex", "float"}

\* Decimal digits are accumulated in a uint64_t without a check.
ParseUint(t) == IF t.q = "num" /\ t.n >= 0 THEN MakeValue("uint", t.n % 2^Width, "") ELSE Bad

\* The magnitude of a signed text is read the same way and then cast; negating
\* the least value gives it again.
Signed(m) == IF m >= 2^(Width - 1) THEN m - 2^Width ELSE m
ParseInt(t) ==
    IF t.q # "num" THEN Bad
    ELSE IF t.n >= 0 THEN MakeValue("int", Signed(t.n % 2^Width), "")
    ELSE MakeValue("int", Signed((-Signed((-t.n) % 2^Width)) % 2^Width), "")

\* Hexadecimal digits behind 0x, or what parse_uint takes.
ParseHexUint(t) == IF t.q = "hex" THEN MakeValue("uint", t.n % 2^Width, "") ELSE ParseUint(t)

ParseFloat(t) == IF t.q = "num" THEN MakeValue("float", t.n, "") ELSE Bad
ParseBoolToken(t) == IF t.q = "bool" THEN MakeValue("bool", t.n, "") ELSE Bad
ParseQuoted(kind, t) == IF t.q = "str" THEN MakeValue(kind, 0, t.s) ELSE Bad

\* The switch over the type shared by defaults, profile and target values.
ParseAs(type, t) ==
    CASE type = "bool" -> ParseBoolToken(t)
      [] type = "int" -> ParseInt(t)
      [] type = "uint" -> ParseUint(t)
      [] type = "hex" -> ParseHexUint(t)
      [] type = "float" -> ParseFloat(t)
      [] type \in {"string", "enum", "path"} -> ParseQuoted(KindOf[type], t)
      [] OTHER -> Bad

\* confit_option_validate_range: a range is judged only where there is a value,
\* and never fits an option that is not numeric.
RangeAccepts(o, v) ==
    o.range # <<>> /\ v.kind # "empty" =>
        /\ o.type \in Numeric
        /\ {v.kind, o.range[1].kind, o.range[2].kind} = {KindOf[o.type]}
        /\ o.range[1].n <= v.n
        /\ v.n <= o.range[2].n

\* confit_option_validate_default for an option with v as its default.
Accepts(o, v) ==
    /\ o.type \in Types
    /\ v.kind \in {"empty", KindOf[o.type]}
    /\ v.kind = "enum" /\ o.choices # <<>> => v.s \in ToSet(o.choices)
    /\ RangeAccepts(o, v)

-----------------------------------------------------------------------------
\* The project.

NewOption(id) ==
    [id |-> id, type |-> "invalid", default |-> Empty, range |-> <<>>,
     choices |-> <<>>, deps |-> <<>>, aliases |-> <<>>, visible |-> FALSE,
     category |-> Null, owner |-> Null, since |-> Null, stability |-> Null,
     deprecated |-> FALSE, replacedBy |-> Null,
     emit |-> {"header", "cmake", "qstar", "report", "selection"}]

NewProfile == [name |-> Null, base |-> Null, target |-> Null, values |-> <<>>]
NewTarget == [name |-> Null, arch |-> Null, board |-> Null, level |-> Null,
              values |-> <<>>]
NewSelection == [output |-> Null, sections |-> <<>>]

EmptyProject == [name |-> Null, version |-> 0, imports |-> <<>>, options |-> <<>>,
                 selections |-> <<>>, profiles |-> <<>>, targets |-> <<>>]

OptionIds == {o.id : o \in ToSet(tree.options)}

\* Searches take the first member that fits.
First(places) == CHOOSE i \in places : \A j \in places : i <= j
FindOption(id) ==
    tree.options[First({i \in DOMAIN tree.options : tree.options[i].id = id})]

\* How often an alias is declared, and the id a value key stands for: the id
\* itself, the one option that has it as a deprecated alias, or None.
AliasOwners(id) ==
    UNION {{<<i, j>> : j \in {k \in DOMAIN tree.options[i].aliases :
                                 tree.options[i].aliases[k] = id}} : i \in DOMAIN tree.options}
Canonical(id) ==
    IF id \in OptionIds THEN id
    ELSE IF Cardinality(AliasOwners(id)) # 1 THEN Null
    ELSE tree.options[(CHOOSE p \in AliasOwners(id) : TRUE)[1]].id

-----------------------------------------------------------------------------
\* The documents each part of the load reads, in order.

Docs ==
    CASE stage = "project" -> <<input.project[input.place]>>
      [] stage = "options" -> [i \in DOMAIN tree.imports |->
                                input.files[tree.imports[i]]]
      [] stage = "selections" -> input.selections
      [] stage = "profiles" -> input.profiles
      [] stage = "targets" -> input.targets
      [] OTHER -> <<>>

\* What follows each part.
Follows == [project |-> "options", options |-> "stability", selections |-> "profiles",
            profiles |-> "targets", targets |-> "links"]

Field == Docs[file].lines[line]
Text == Field.texts[1]
IsString == Len(Field.texts) = 1 /\ Text.q = "str"
IsStrings == \A i \in DOMAIN Field.texts : Field.texts[i].q = "str"
Strings == [i \in DOMAIN Field.texts |-> Field.texts[i].s]
IsVersion(n) == Len(Field.texts) = 1 /\ ParseUint(Text) = MakeValue("uint", n, "")
IsHeader == Field.key = "[]"
Extension == Field.key = "x_note"

\* Every error frees the project; nothing is published.
Fail(message) ==
    /\ error' = [at |-> stage, what |-> message]
    /\ stage' = "failed"
    /\ tree' = EmptyProject
    /\ UNCHANGED <<input, file, line, table, local, audit>>

AtLine == line \in 1..Len(Docs[file].lines)
Reading(part) == stage = part /\ file <= Len(Docs) /\ line > 0
NextLine == line' = line + 1 /\ UNCHANGED <<input, stage, file, audit, error>>

NoError == [at |-> Null, what |-> Null]

FreshLocal == [sawType |-> FALSE, sawVersion |-> FALSE, name |-> Null, base |-> Null,
               target |-> Null, arch |-> Null, board |-> Null, level |-> Null]

-----------------------------------------------------------------------------
\* confit_schema_find_config_root: a project.toml that cannot be read or parsed
\* at the root sends the load to its config directory.
FindConfigRoot ==
    /\ stage = "root"
    /\ input' = [input EXCEPT !.place = IF input.project.root.ok THEN "root" ELSE "config"]
    /\ stage' = "project"
    /\ UNCHANGED <<file, line, table, local, tree, audit, error>>

\* A document is loaded; the loaders of templates, profiles and targets append
\* an empty element to the project at once.
Open ==
    /\ stage \in DOMAIN Follows
    /\ file <= Len(Docs)
    /\ line = 0
    /\ \/ /\ ~Docs[file].ok
          /\ Fail("parse error")
       \/ /\ Docs[file].ok
          /\ line' = 1
          /\ table' = "none"
          /\ local' = FreshLocal
          /\ tree' =
                CASE stage = "selections" ->
                        [tree EXCEPT !.selections = Append(@, NewSelection)]
                  [] stage = "profiles" -> [tree EXCEPT !.profiles = Append(@, NewProfile)]
                  [] stage = "targets" -> [tree EXCEPT !.targets = Append(@, NewTarget)]
                  [] OTHER -> tree
          /\ UNCHANGED <<input, stage, file, audit, error>>

\* The next document of the part, or the next part.
CloseInto(newProject) ==
    /\ tree' = newProject
    /\ file' = file + 1
    /\ line' = 0
    /\ UNCHANGED <<input, stage, table, local, audit, error>>

EndPart ==
    /\ stage \in DOMAIN Follows
    /\ file = Len(Docs) + 1
    /\ stage' = Follows[stage]
    /\ file' = 1
    /\ UNCHANGED <<input, line, table, local, tree, audit, error>>

-----------------------------------------------------------------------------
\* confit_schema_parse_project_file

ProjectFieldOk ==
    \/ Extension
    \/ Field.key \in {"name", "version"} /\ IsString
    \/ Field.key = "schema_version" /\ IsVersion(1)
    \/ Field.key = "imports" /\ IsStrings

WithProjectField ==
    CASE Field.key = "name" -> [tree EXCEPT !.name = Text.s]
      [] Field.key = "schema_version" -> [tree EXCEPT !.version = 1]
      [] Field.key = "imports" -> [tree EXCEPT !.imports = @ \o Strings]
      [] OTHER -> tree

ProjectLine ==
    /\ Reading("project") /\ AtLine
    /\ \/ /\ IsHeader
          /\ table' = IF Text.s = "project" THEN "project" ELSE "none"
          /\ NextLine /\ UNCHANGED <<local, tree>>
       \/ /\ ~IsHeader /\ table # "project"
          /\ Fail("expected project table")
       \/ /\ ~IsHeader /\ table = "project" /\ ~ProjectFieldOk
          /\ Fail("invalid project field")
       \/ /\ ~IsHeader /\ table = "project" /\ ProjectFieldOk
          /\ tree' = WithProjectField
          /\ NextLine /\ UNCHANGED <<table, local>>

CloseProject ==
    /\ Reading("project") /\ ~AtLine
    /\ IF tree.name = Null \/ tree.version # 1
       THEN Fail("project name and schema_version are required")
       ELSE CloseInto(tree)

-----------------------------------------------------------------------------
\* confit_schema_parse_option_file

DependencyKinds == {"requires", "conflicts", "recommends", "forces", "visible_if"}
Outputs == {"header", "cmake", "qstar", "report", "selection"}

\* confit_schema_parse_range: two texts of a numeric type, in any order.
RangeParses(o) ==
    /\ Len(Field.texts) = 2
    /\ o.type \in Numeric
    /\ \A i \in 1..2 : ParseAs(o.type, Field.texts[i]) # Bad

\* confit_schema_parse_option_value, the conditions.  The type is the one the
\* table has named so far; a key may be repeated.
OptionFieldOk(o) ==
    \/ Extension
    \/ /\ Field.key = "emit"
       /\ IsStrings /\ Strings # <<>>
       /\ ToSet(Strings) \subseteq Outputs
       /\ IsInjective(Strings)
    \/ Field.key \in DependencyKinds \cup {"tags", "deprecated_aliases"} /\ IsStrings
    \/ Field.key = "type" /\ IsString /\ Text.s \in Types
    \/ Field.key = "default" /\ ParseAs(o.type, Text) # Bad
    \/ Field.key = "range" /\ RangeParses(o)
    \/ Field.key = "choices" /\ o.type = "enum" /\ IsStrings
    \/ Field.key = "category" /\ IsString /\ (Text.s # "" => CategoryDepth[Text.s] > 0)
    \/ Field.key \in {"prompt", "help", "owner", "since", "stability", "replaced_by"}
          /\ IsString
    \/ Field.key = "deprecated" /\ Text.q = "bool"

\* The metadata setters of core/model.c; an empty prompt hides the option.
WithMetadata(o) ==
    CASE Field.key = "emit" -> [o EXCEPT !.emit = ToSet(Strings)]
      [] Field.key = "deprecated_aliases" -> [o EXCEPT !.aliases = @ \o Strings]
      [] Field.key = "prompt" -> [o EXCEPT !.visible = Text.s # ""]
      [] Field.key = "category" ->
            [o EXCEPT !.category = IF Text.s = "" THEN Null ELSE Text.s]
      [] Field.key = "owner" -> [o EXCEPT !.owner = Text.s]
      [] Field.key = "since" -> [o EXCEPT !.since = Text.s]
      [] Field.key = "stability" -> [o EXCEPT !.stability = Text.s]
      [] Field.key = "deprecated" -> [o EXCEPT !.deprecated = Text.n = 1]
      [] Field.key = "replaced_by" -> [o EXCEPT !.replacedBy = Text.s]
      [] OTHER -> o

\* confit_schema_parse_option_value, the assignments.
WithOptionField(o) ==
    CASE Field.key \in DependencyKinds ->
            [o EXCEPT !.deps = @ \o [i \in DOMAIN Strings |->
                                        [kind |-> Field.key, id |-> Strings[i]]]]
      [] Field.key = "type" -> [o EXCEPT !.type = Text.s]
      [] Field.key = "default" -> [o EXCEPT !.default = ParseAs(o.type, Text)]
      [] Field.key = "range" -> [o EXCEPT !.range = [i \in 1..2 |->
                                                ParseAs(o.type, Field.texts[i])]]
      [] Field.key = "choices" -> [o EXCEPT !.choices = @ \o Strings]
      [] OTHER -> WithMetadata(o)

\* Mutant of OptionFinished: the default is judged where it stands only.
OptionFinishedTyped == table = "option" => local.sawType

\* confit_schema_finish_option, for the option of the table that ends.
OptionFinished ==
    table = "option" => /\ local.sawType
                        /\ Accepts(Last(tree.options), Last(tree.options).default)

OptionTable ==
    /\ Reading("options") /\ AtLine /\ IsHeader
    /\ \/ /\ ~OptionFinished
          /\ Fail("option without type or with an invalid default")
       \/ /\ OptionFinished /\ Field.member /\ Text.s \notin ValidIds
          /\ Fail("invalid option id")
       \/ /\ OptionFinished /\ Field.member /\ Text.s \in ValidIds \cap OptionIds
          /\ Fail("duplicate option id")
       \/ /\ OptionFinished /\ Field.member /\ Text.s \in ValidIds \ OptionIds
          /\ tree' = [tree EXCEPT !.options = Append(@, NewOption(Text.s))]
          /\ table' = "option"
          /\ local' = FreshLocal
          /\ NextLine
       \/ /\ OptionFinished /\ ~Field.member
          /\ table' = "none"
          /\ NextLine /\ UNCHANGED <<local, tree>>

OptionLine ==
    /\ Reading("options") /\ AtLine /\ ~IsHeader
    /\ \/ /\ table # "option"
          /\ Fail("expected option table")
       \/ /\ table = "option" /\ ~OptionFieldOk(Last(tree.options))
          /\ Fail("invalid option field")
       \/ /\ table = "option" /\ OptionFieldOk(Last(tree.options))
          /\ tree' = [tree EXCEPT !.options[Len(tree.options)] = WithOptionField(@)]
          /\ local' = [local EXCEPT !.sawType = @ \/ Field.key = "type"]
          /\ NextLine /\ UNCHANGED table

CloseOptions ==
    /\ Reading("options") /\ ~AtLine
    /\ IF OptionFinished THEN CloseInto(tree)
                         ELSE Fail("option without type or with an invalid default")

-----------------------------------------------------------------------------
\* confit_schema_validate_option_stability, one option at a time (file is the
\* index), then the deprecated aliases.

Stabilities == {"experimental", "stable", "deprecated", "internal"}

StabilityOk(o) ==
    /\ o.id \in ProjectIds
    /\ o.stability \in Stabilities \cup {Null}
    /\ o.deprecated => o.stability \in {"deprecated", Null}
    /\ o.replacedBy # Null => o.replacedBy \in OptionIds \ {o.id}

\* confit_schema_validate_category_path and confit_schema_warn_missing_metadata
Warnings(o) ==
    LET Warn(what, cond) == IF cond THEN <<<<o.id, what>>>> ELSE <<>>
    IN  Warn("depth", o.category # Null /\ CategoryDepth[o.category] > 3)
        \o Warn("owner", o.owner = Null) \o Warn("since", o.since = Null)
        \o Warn("stability", o.stability = Null)

ValidateOption ==
    /\ stage = "stability" /\ file <= Len(tree.options)
    /\ \/ /\ ~StabilityOk(tree.options[file])
          /\ Fail("invalid option metadata")
       \/ /\ StabilityOk(tree.options[file])
          /\ audit' = audit \o Warnings(tree.options[file])
          /\ file' = file + 1
          /\ UNCHANGED <<input, stage, line, table, local, tree, error>>

AliasOk(i, j) ==
    LET alias == tree.options[i].aliases[j]
    IN  /\ alias \in ValidIds \ OptionIds
        /\ AliasOwners(alias) = {<<i, j>>}

ValidateAliases ==
    /\ stage = "stability" /\ file = Len(tree.options) + 1
    /\ IF \A i \in DOMAIN tree.options :
              \A j \in DOMAIN tree.options[i].aliases : AliasOk(i, j)
       THEN /\ stage' = "selections"
            /\ file' = 1
            /\ UNCHANGED <<input, line, table, local, tree, audit, error>>
       ELSE Fail("invalid deprecated alias")

-----------------------------------------------------------------------------
\* confit_schema_parse_selection_file.  A section is its name and its fields.

Selection == Last(tree.selections)
SectionNames == {Selection.sections[i].name : i \in DOMAIN Selection.sections}
SelectionOutputs == {tree.selections[i].output :
                        i \in 1..(Len(tree.selections) - 1)}

SelectionRootOk ==
    \/ Extension
    \/ Field.key = "schema" /\ IsString /\ Text.s = "template-v1"
    \/ Field.key = "output" /\ IsString /\ Text.s \in OutputNames \ SelectionOutputs

SectionFieldOk ==
    \/ Extension
    \/ /\ \A f \in ToSet(Last(Selection.sections).fields) : f.name # Field.key
       /\ IsString
       /\ Text.s \in ValidIds \cap OptionIds
       /\ "selection" \in FindOption(Text.s).emit

WithSelection(s) == [tree EXCEPT !.selections[Len(tree.selections)] = s]

SelectionTable ==
    /\ Reading("selections") /\ AtLine /\ IsHeader
    /\ \/ /\ Text.s = "selection"
          /\ table' = "selection"
          /\ UNCHANGED tree /\ NextLine /\ UNCHANGED local
       \/ /\ Text.s # "selection"
          /\ ~Field.member \/ Text.s \in SectionNames
          /\ Fail("unknown, invalid or duplicate selection section")
       \/ /\ Text.s # "selection" /\ Field.member /\ Text.s \notin SectionNames
          /\ tree' = WithSelection([Selection EXCEPT !.sections =
                                    Append(@, [name |-> Text.s, fields |-> <<>>])])
          /\ table' = "section"
          /\ NextLine /\ UNCHANGED local

SelectionLine ==
    /\ Reading("selections") /\ AtLine /\ ~IsHeader
    /\ \/ /\ \/ table = "none"
             \/ table = "selection" /\ ~SelectionRootOk
             \/ table = "section" /\ ~SectionFieldOk
          /\ Fail("invalid selection field")
       \/ /\ table = "selection" /\ SelectionRootOk
          /\ tree' = IF Field.key = "output"
                        THEN WithSelection([Selection EXCEPT !.output = Text.s])
                        ELSE tree
          /\ local' = [local EXCEPT !.sawVersion = @ \/ Field.key = "schema"]
          /\ NextLine /\ UNCHANGED table
       \/ /\ table = "section" /\ SectionFieldOk
          /\ tree' = IF Extension THEN tree
                        ELSE WithSelection([Selection EXCEPT
                                !.sections[Len(Selection.sections)].fields =
                                    Append(@, [name |-> Field.key, id |-> Text.s])])
          /\ NextLine /\ UNCHANGED <<table, local>>

CloseSelection ==
    /\ Reading("selections") /\ ~AtLine
    /\ IF /\ local.sawVersion /\ Selection.output # Null
          /\ Selection.sections # <<>>
          /\ \A i \in DOMAIN Selection.sections : Selection.sections[i].fields # <<>>
       THEN CloseInto(tree)
       ELSE Fail("incomplete selection template")

-----------------------------------------------------------------------------
\* confit_schema_parse_profile_file and confit_schema_parse_target_file.  Both
\* keep values in the order of the file, repeated keys and aliases included.

\* confit_schema_parse_value_key, _resolve_value_option and _parse_value_for_option:
\* a value line is refused, or yields a value under the id of its option.
ValueOk ==
    /\ Field.quoted
    /\ Canonical(Field.key) # Null
    /\ LET o == FindOption(Canonical(Field.key))
       IN  /\ ParseAs(o.type, Text) # Bad
           /\ Accepts(o, ParseAs(o.type, Text))

NewValue ==
    [id |-> Canonical(Field.key),
     value |-> ParseAs(FindOption(Canonical(Field.key)).type, Text)]

AliasWarning == IF Field.key \in OptionIds THEN <<>> ELSE <<<<Field.key, "alias">>>>

AppendValue(newProject) ==
    /\ tree' = newProject
    /\ audit' = audit \o AliasWarning
    /\ line' = line + 1
    /\ UNCHANGED <<input, stage, file, table, local, error>>

ProfileTables == {"profile", "values"}
ProfileFieldOk ==
    \/ Extension
    \/ Field.key = "schema_version" /\ IsVersion(1)
    \/ Field.key \in {"name", "base", "target"} /\ IsString

TargetTables == {"target", "claim", "values"}
TargetFieldOk ==
    \/ Extension
    \/ table = "claim" /\ Field.key = "level" /\ IsString
    \/ table = "target" /\ Field.key = "schema_version" /\ IsVersion(1)
    \/ table = "target" /\ Field.key \in {"name", "arch", "board"} /\ IsString

\* A field of the [profile], [target] or [target.claim] table.
WithLocalField ==
    CASE Field.key = "schema_version" -> [local EXCEPT !.sawVersion = TRUE]
      [] Field.key \in {"name", "base", "target", "arch", "board", "level"} ->
            [local EXCEPT ![Field.key] = Text.s]
      [] OTHER -> local

MemberTable(part, tables) ==
    /\ Reading(part) /\ AtLine /\ IsHeader
    /\ \/ /\ Text.s \notin tables
          /\ Fail("unknown table")
       \/ /\ Text.s \in tables
          /\ table' = Text.s
          /\ NextLine /\ UNCHANGED <<local, tree>>

MemberLine(part, fieldOk, newProject) ==
    /\ Reading(part) /\ AtLine /\ ~IsHeader
    /\ \/ /\ \/ table = "none"
             \/ table = "values" /\ ~ValueOk
             \/ table \notin {"none", "values"} /\ ~fieldOk
          /\ Fail("invalid field or value")
       \/ /\ table = "values" /\ ValueOk
          /\ AppendValue(newProject)
       \/ /\ table \notin {"none", "values"} /\ fieldOk
          /\ local' = WithLocalField
          /\ NextLine /\ UNCHANGED <<table, tree>>

ProfileTable == MemberTable("profiles", ProfileTables)
ProfileLine ==
    MemberLine("profiles", ProfileFieldOk,
        [tree EXCEPT !.profiles[Len(tree.profiles)].values = Append(@, NewValue)])

TargetTable == MemberTable("targets", TargetTables)
TargetLine ==
    MemberLine("targets", TargetFieldOk,
        [tree EXCEPT !.targets[Len(tree.targets)].values = Append(@, NewValue)])

Names(members) == {members[i].name : i \in DOMAIN members}

\* confit_schema_finish_profile: the member being finished has no name yet, so it
\* cannot be its own duplicate.
CloseProfile ==
    /\ Reading("profiles") /\ ~AtLine
    /\ IF /\ local.name # Null /\ local.sawVersion
          /\ local.name \notin Names(tree.profiles)
       THEN CloseInto([tree EXCEPT !.profiles[Len(tree.profiles)] =
                [@ EXCEPT !.name = local.name, !.base = local.base,
                          !.target = local.target]])
       ELSE Fail("profile name missing or duplicate")

\* confit_schema_finish_target
CloseTarget ==
    /\ Reading("targets") /\ ~AtLine
    /\ IF /\ local.name # Null /\ local.sawVersion
          /\ local.name \notin Names(tree.targets)
       THEN CloseInto([tree EXCEPT !.targets[Len(tree.targets)] =
                [@ EXCEPT !.name = local.name, !.arch = local.arch,
                          !.board = local.board, !.level = local.level]])
       ELSE Fail("target name missing or duplicate")

\* confit_schema_validate_profile_links: a profile may not base itself, but longer
\* base cycles are left to the resolver.
LinkOk(p) ==
    /\ p.base # Null => p.base # p.name /\ p.base \in Names(tree.profiles)
    /\ p.target # Null => p.target \in Names(tree.targets)

ValidateLinks ==
    /\ stage = "links"
    /\ IF \A i \in DOMAIN tree.profiles : LinkOk(tree.profiles[i])
       THEN /\ stage' = "loaded"
            /\ UNCHANGED <<input, file, line, table, local, tree, audit, error>>
       ELSE Fail("unknown base profile or target")

-----------------------------------------------------------------------------
LoadInit ==
    /\ \E family \in Inputs : input \in family
    /\ stage = "root"
    /\ file = 1
    /\ line = 0
    /\ table = "none"
    /\ local = FreshLocal
    /\ tree = EmptyProject
    /\ audit = <<>>
    /\ error = NoError

LoadNext ==
    \/ FindConfigRoot \/ Open \/ EndPart
    \/ ProjectLine \/ CloseProject
    \/ OptionTable \/ OptionLine \/ CloseOptions
    \/ ValidateOption \/ ValidateAliases
    \/ SelectionTable \/ SelectionLine \/ CloseSelection
    \/ ProfileTable \/ ProfileLine \/ CloseProfile
    \/ TargetTable \/ TargetLine \/ CloseTarget
    \/ ValidateLinks
=============================================================================
