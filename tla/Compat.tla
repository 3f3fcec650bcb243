------------------------------- MODULE Compat -------------------------------
(***************************************************************************)
(* The compat command: dispatch on the schema versions of the two projects *)
(* (cli/v2_workflow.c), then either the version 1 checker of               *)
(* compat/compat.c, which reads assertions line by line from a directory,  *)
(* or the version 2 checker of compat/v2/compat.c, which evaluates the     *)
(* constraints of one suite over the snapshots of all projects.            *)
(*                                                                         *)
(* Resolving the projects is the business of other modules: a project is   *)
(* its version, whether it resolves, and the values it resolves to.  Names *)
(* are sequences of segments; 0 stands for the two underscores that join   *)
(* an alias to an option id.                                               *)
(***************************************************************************)
EXTENDS Integers, Sequences, FiniteSets, SequencesExt

CONSTANTS
    Inputs,   \* families of inputs, records with the fields
              \*   projects  sequence of [alias, version, loads, values]
              \*   files     documents of the version 1 directory
              \*   suite     the version 2 suite
    Width     \* bits of an integer, 64 in the code

ASSUME WidthAssumption == Width \in Nat \ {0, 1}

Missing == "(null)"
Bad == "bad"
Unset == "unset"

\* The operands of the expressions, which stand for those of the language.
Arity == [true |-> 0, defined |-> 1, ref |-> 1, not |-> 1, and |-> 2]

IsSequence(s) == Len(s) \in Nat /\ s = [k \in 1..Len(s) |-> s[k]]
IsExpression(e) ==
    /\ e.op \in DOMAIN Arity
    /\ IsSequence(e.args) /\ Len(e.args) = Arity[e.op]
    /\ \A k \in DOMAIN e.args : e.args[k].alias \in Seq(Nat) /\ e.args[k].id \in Seq(Nat)

\* What TOML and the resolvers hand over: lists of tables, expressions that
\* parse, and booleans that are y or n where they are set.
ASSUME InputsAssumption ==
    \A family \in Inputs : \A i \in family :
        /\ IsSequence(i.projects) /\ i.projects # <<>>
        /\ \A p \in DOMAIN i.projects :
            i.projects[p].version = 2 =>
                /\ DOMAIN i.projects[p] = {"alias", "version", "loads", "values"}
                /\ i.projects[p].alias \in Seq(Nat)
                /\ IsFiniteSet(DOMAIN i.projects[p].values)
                /\ \A o \in DOMAIN i.projects[p].values :
                    /\ o \in Seq(Nat)
                    /\ i.projects[p].values[o].type = "bool" =>
                            i.projects[p].values[o].value \in {"y", "n", Unset}
        /\ IsSequence(i.files) /\ \A f \in DOMAIN i.files : IsSequence(i.files[f])
        /\ IsSequence(i.suite.constraints)
        /\ \A k \in DOMAIN i.suite.constraints :
            LET c == i.suite.constraints[k] IN
            /\ c.id \in Nat /\ c.message \in BOOLEAN
            /\ \A part \in {c.when, c.require, c.forbid} :
                IsSequence(part) /\ Len(part) \in 0..1 /\ \A x \in Range(part) : IsExpression(x)

VARIABLES
    input,
    stage,          \* "dispatch", "parse", "check", "load", "bind", "evaluate", "done"
    file, line,  \* the line of the directory that is read next
    table,       \* table_kind
    suite,       \* assertions or constraints, in the order they are checked
    bindings,    \* version 2: the options of all projects under joined names
    results,     \* one for each assertion or constraint done
    verdict,     \* ConfitStatus of the command, "none" while it runs
    diagnostic   \* what the user is told: a reason and an index of suite

compatVars == <<input, stage, file, line, table, suite, bindings, results, verdict, diagnostic>>

NoDiagnostic == [reason |-> "none", at |-> 0]

Stop(status, reason) ==
    /\ stage' = "done"
    /\ verdict' = status
    /\ diagnostic' = [reason |-> reason, at |-> 0]

CompatInit ==
    /\ \E family \in Inputs : input \in family
    /\ stage = "dispatch"
    /\ file = 1 /\ line = 1
    /\ table = "none"
    /\ suite = <<>> /\ bindings = <<>> /\ results = <<>>
    /\ verdict = "none" /\ diagnostic = NoDiagnostic

SchemaVersions == {input.projects[p].version : p \in DOMAIN input.projects}

\* confit_cli_v2_try_run and the loads that both handlers start with.  A
\* version that cannot be read (0) counts as not being version 2.
Dispatch ==
    /\ stage = "dispatch"
    /\ \/ /\ 2 \in SchemaVersions /\ SchemaVersions # {2}
          /\ Stop("schema", "mixed")
       \/ /\ 2 \notin SchemaVersions \/ SchemaVersions = {2}
          /\ \E p \in DOMAIN input.projects : ~input.projects[p].loads
          /\ Stop("refused", "project")
       \/ /\ 2 \notin SchemaVersions \/ SchemaVersions = {2}
          /\ \A p \in DOMAIN input.projects : input.projects[p].loads
          /\ stage' = IF SchemaVersions = {2} THEN "load" ELSE "parse"
          /\ UNCHANGED <<verdict, diagnostic>>
    /\ UNCHANGED <<input, file, line, table, suite, bindings, results>>

-----------------------------------------------------------------------------
\* Version 1: reading the directory.

\* A literal is [form, negative, digits]; "word" is any other text.  The
\* digits are added up modulo 2^64 and negated as a signed integer.
Signed(n) == IF n >= 2^(Width - 1) THEN n - 2^Width ELSE n

ParseScalar(literal) ==
    LET n == literal.digits % 2^Width IN
    CASE literal.form = "bool"   -> [kind |-> "bool", v |-> literal.digits]
      [] literal.form = "quoted" -> [kind |-> "string", v |-> literal.digits]
      [] literal.form = "number" -> IF literal.negative
                                    THEN [kind |-> "int", v |-> Signed((2^Width - n) % 2^Width)]
                                    ELSE [kind |-> "uint", v |-> n]
      [] OTHER                   -> [kind |-> Bad, v |-> 0]

\* An inline table that is not { option = ..., equals = ... } has option Bad.
ParseCondition(text) ==
    LET value == ParseScalar(text.equals) IN
    [option |-> IF value.kind = Bad THEN Bad ELSE text.option, equals |-> value]

NoCondition == [option |-> Missing, equals |-> [kind |-> "empty", v |-> 0]]

NewAssertion ==
    [when |-> NoCondition, action |-> "requires", condition |-> NoCondition,
     message |-> Missing]

Document == input.files[file]
AtLine == stage = "parse" /\ file <= Len(input.files) /\ line <= Len(Document)
TheLine == Document[line]

NextLine == line' = line + 1 /\ UNCHANGED <<stage, verdict, diagnostic>>

\* Mutant of OpenTable: a [compat] table between assertions is not noticed.
OpenTableKeeping ==
    /\ AtLine /\ TheLine.t = "header"
    /\ NextLine
    /\ suite' = IF TheLine.key = "assert" THEN Append(suite, NewAssertion) ELSE suite
    /\ table' = IF table = "assert" THEN table ELSE TheLine.key
    /\ UNCHANGED <<input, file, bindings, results>>

OpenTable ==
    /\ AtLine /\ TheLine.t = "header"
    /\ \/ /\ TheLine.key \in {"compat", "assert"}
          /\ NextLine
          /\ table' = TheLine.key
          /\ suite' = IF TheLine.key = "assert" THEN Append(suite, NewAssertion) ELSE suite
       \/ /\ TheLine.key \notin {"compat", "assert"}
          /\ Stop("schema", "table")
          /\ UNCHANGED <<line, table, suite>>
    /\ UNCHANGED <<input, file, bindings, results>>

Known(key) ==
    \/ table = "compat" /\ key = "name"
    \/ table = "assert" /\ key \in {"when", "requires", "forbids", "message"}

\* What a line of an assertion makes of it.  A later requires or forbids
\* replaces the earlier one.
SetField(a, l) ==
    CASE l.key = "when"    -> [a EXCEPT !.when = ParseCondition(l.value)]
      [] l.key = "message" -> [a EXCEPT !.message = l.value]
      [] OTHER             -> [when |-> a.when, action |-> l.key,
                               condition |-> ParseCondition(l.value), message |-> a.message]

FieldIsBad(l) ==
    IF l.key \in {"name", "message"} THEN l.value = Bad
    ELSE ParseCondition(l.value).option = Bad

Field ==
    /\ AtLine /\ TheLine.t = "field"
    /\ \/ /\ Known(TheLine.key) /\ ~FieldIsBad(TheLine)
          /\ NextLine
          /\ suite' = IF table = "assert"
                      THEN [suite EXCEPT ![Len(suite)] = SetField(@, TheLine)]
                      ELSE suite
       \/ /\ Known(TheLine.key) => FieldIsBad(TheLine)
          /\ Stop("schema", "field")
          /\ UNCHANGED <<line, suite>>
    /\ UNCHANGED <<input, file, table, bindings, results>>

EndDocument ==
    /\ stage = "parse" /\ file <= Len(input.files) /\ line > Len(Document)
    /\ file' = file + 1 /\ line' = 1
    /\ table' = "none"
    /\ UNCHANGED <<input, stage, suite, bindings, results, verdict, diagnostic>>

Incomplete(a) == Missing \in {a.when.option, a.condition.option, a.message}

ValidateSuite ==
    /\ stage = "parse" /\ file > Len(input.files)
    /\ \/ /\ \E i \in DOMAIN suite : Incomplete(suite[i])
          /\ Stop("schema", "incomplete")
       \/ /\ \A i \in DOMAIN suite : ~Incomplete(suite[i])
          /\ stage' = "check"
          /\ UNCHANGED <<verdict, diagnostic>>
    /\ UNCHANGED <<input, file, line, table, suite, bindings, results>>
-----------------------------------------------------------------------------
\* Version 1: checking the assertions.

\* The first project that has the option.
Holders(o) == {p \in DOMAIN input.projects : o \in DOMAIN input.projects[p].values}
Holder(o) == CHOOSE p \in Holders(o) : \A q \in Holders(o) : p <= q
FindResolvedValue(o) == input.projects[Holder(o)].values[o]

\* Texts compare across kinds; a float equals nothing, not even itself, and
\* a literal without a sign is unsigned, so an int option never equals it.
ValuesEqual(a, b) ==
    LET texts == {"string", "enum", "path"} IN
    /\ a.kind = b.kind \/ {a.kind, b.kind} \subseteq texts
    /\ a.kind # "float"
    /\ a.v = b.v

\* Mutant of EvaluateCondition: an option nobody has counts as not matching.
EvaluateConditionLoosely(c) ==
    IF Holders(c.option) = {} THEN "no"
    ELSE IF ValuesEqual(FindResolvedValue(c.option), c.equals) THEN "yes" ELSE "no"

EvaluateCondition(c) ==
    IF Holders(c.option) = {} THEN "unknown"
    ELSE IF ValuesEqual(FindResolvedValue(c.option), c.equals) THEN "yes" ELSE "no"

Outcome(a) ==
    LET when == EvaluateCondition(a.when)
        condition == EvaluateCondition(a.condition)
    IN  CASE when = "unknown"      -> [state |-> "fail", reason |-> "unknown option"]
          [] when = "no"           -> [state |-> "skipped", reason |-> "none"]
          [] when = "yes" /\ condition = "unknown" ->
                [state |-> "fail", reason |-> "unknown option"]
          [] OTHER -> [state  |-> IF (condition = "yes") = (a.action = "requires")
                                  THEN "pass" ELSE "fail",
                       reason |-> "message"]

\* Mutant of CheckAssertion: the last failure is reported instead.
CheckAssertionLast ==
    /\ stage = "check" /\ Len(results) < Len(suite)
    /\ LET i == Len(results) + 1
           outcome == Outcome(suite[i])
       IN  /\ results' = Append(results, outcome)
           /\ diagnostic' = IF outcome.state = "fail"
                            THEN [reason |-> outcome.reason, at |-> i] ELSE diagnostic
    /\ UNCHANGED <<input, stage, file, line, table, suite, bindings, verdict>>

\* One turn of the loop of confit_compat_check_report; a failing assertion
\* does not stop it, and only the first one is reported.
CheckAssertion ==
    /\ stage = "check" /\ Len(results) < Len(suite)
    /\ LET i == Len(results) + 1
           outcome == Outcome(suite[i])
       IN  /\ results' = Append(results, outcome)
           /\ diagnostic' = IF outcome.state = "fail" /\ diagnostic = NoDiagnostic
                            THEN [reason |-> outcome.reason, at |-> i] ELSE diagnostic
    /\ UNCHANGED <<input, stage, file, line, table, suite, bindings, verdict>>

FinishCheck ==
    /\ stage = "check" /\ Len(results) = Len(suite)
    /\ stage' = "done"
    /\ verdict' = IF \E i \in DOMAIN results : results[i].state = "fail"
                  THEN "compatibility" ELSE "ok"
    /\ UNCHANGED <<input, file, line, table, suite, bindings, results, diagnostic>>
-----------------------------------------------------------------------------
\* Version 2: loading a suite.

\* strcmp on names.
Precedes(s, t) ==
    LET common == {i \in 1..Len(s) : i <= Len(t) /\ s[i] # t[i]} IN
    IF common = {} THEN Len(s) < Len(t)
    ELSE LET i == CHOOSE k \in common : \A j \in common : k <= j IN s[i] < t[i]

\* A constraint of the source: id 0 when it is empty or missing, message when
\* there is one, and at most one expression in each of when, require, forbid.
\* There must be exactly one action.
ConstraintIsBad(c) ==
    \/ c.id = 0 \/ ~c.message
    \/ Len(c.require) = Len(c.forbid)

ParseConstraint(c) ==
    [id |-> c.id,
     when |-> IF c.when = <<>> THEN [op |-> "true", args |-> <<>>] ELSE c.when[1],
     action |-> IF c.require # <<>> THEN "require" ELSE "forbid",
     condition |-> (c.require \o c.forbid)[1]]

SuiteIsBad(s) ==
    \/ ~s.header
    \/ \E i \in DOMAIN s.aliases : s.aliases[i] = <<>>
    \/ s.aliases = <<>> \/ s.constraints = <<>>
    \/ \E i \in DOMAIN s.constraints : ConstraintIsBad(s.constraints[i])
    \/ \E i, j \in DOMAIN s.constraints :
            i # j /\ s.constraints[i].id = s.constraints[j].id

\* qsort: any order of the constraints with increasing ids.
IdOrders(constraints) ==
    {order \in [1..Len(constraints) -> 1..Len(constraints)] :
        /\ IsInjective(order)
        /\ \A i, j \in DOMAIN order :
            i < j => constraints[order[i]].id <= constraints[order[j]].id}

LoadFile ==
    /\ stage = "load"
    /\ \/ /\ SuiteIsBad(input.suite)
          /\ Stop("schema", "suite")
          /\ UNCHANGED suite
       \/ /\ ~SuiteIsBad(input.suite)
          /\ stage' = "bind"
          /\ \E order \in IdOrders(input.suite.constraints) :
                suite' = [k \in 1..Len(input.suite.constraints) |->
                            ParseConstraint(input.suite.constraints[order[k]])]
          /\ UNCHANGED <<verdict, diagnostic>>
    /\ UNCHANGED <<input, file, line, table, bindings, results>>

\* The name an option has in the shared environment, and what rewriting
\* alias::id in an expression gives.
Internal(alias, id) == alias \o <<0>> \o id

\* confit_v2_compat_build_bindings: sorted by internal id with qsort; equal ids
\* come in any order.
OptionBindings ==
    UNION {{[internal |-> Internal(input.projects[p].alias, o), project |-> p, option |-> o] :
                o \in DOMAIN input.projects[p].values} : p \in DOMAIN input.projects}
SortedBindings ==
    {b \in [1..Cardinality(OptionBindings) -> OptionBindings] :
        /\ IsInjective(b)
        /\ \A i, j \in DOMAIN b : i < j => ~Precedes(b[j].internal, b[i].internal)}

FindProject(alias) ==
    {p \in DOMAIN input.projects :
        /\ input.projects[p].alias = alias
        /\ \A q \in 1..(p - 1) : input.projects[q].alias # alias}

\* confit_v2_compat_validate_projects; the identity a caller may demand of a
\* snapshot is not demanded by the command and is left out.
ValidateProjects ==
    /\ stage = "bind"
    /\ LET aliases == input.suite.aliases
           right == /\ Len(input.projects) = Len(aliases)
                    /\ \A i \in DOMAIN aliases : FindProject(aliases[i]) # {}
                    /\ \A p, q \in DOMAIN input.projects :
                            p # q => input.projects[p].alias # input.projects[q].alias
       IN  \/ /\ right
              /\ stage' = "evaluate" /\ bindings' \in SortedBindings
              /\ UNCHANGED <<verdict, diagnostic>>
           \/ /\ ~right
              /\ Stop("schema", "alias") /\ UNCHANGED bindings
    /\ UNCHANGED <<input, file, line, table, suite, results>>
-----------------------------------------------------------------------------
\* Version 2: evaluating the constraints over all projects.

\* confit_v2_compat_find_binding, a binary search; 0 when there is none.  The
\* loop has ended after as many turns as there are bindings.
Middle(low, high) == low + (high - low) \div 2
Narrow(id, bounds) ==
    LET middle == Middle(bounds[1], bounds[2])
        b == bindings[middle + 1].internal
    IN  IF bounds[1] >= bounds[2] \/ b = id THEN bounds
        ELSE IF Precedes(b, id) THEN <<middle + 1, bounds[2]>>
        ELSE <<bounds[1], middle>>
FindBinding(id) ==
    LET n == Len(bindings)
        bounds[turn \in 0..n] ==
            IF turn = 0 THEN <<0, n>> ELSE Narrow(id, bounds[turn - 1])
    IN  IF bounds[n][1] < bounds[n][2] THEN Middle(bounds[n][1], bounds[n][2]) + 1 ELSE 0

Reference(r) == Internal(r.alias, r.id)
ValueOf(b) == input.projects[b.project].values[b.option]

\* The type checker refuses an environment with two equal ids, an unknown
\* reference and an operand that is not boolean.
WellTyped(e) ==
    /\ \A i, j \in DOMAIN bindings :
            i # j => bindings[i].internal # bindings[j].internal
    /\ \A k \in DOMAIN e.args :
            LET b == FindBinding(Reference(e.args[k])) IN
            b # 0 /\ (e.op # "defined" => ValueOf(bindings[b]).type = "bool")

Operand(e, k) ==
    ValueOf(bindings[FindBinding(Reference(e.args[k]))]).value

\* && does not look at its right operand when the left one is false.
Evaluate(e) ==
    LET arg(k) == Operand(e, k) IN
    CASE e.op = "true"    -> "y"
      [] e.op = "defined" -> IF arg(1) = Unset THEN "n" ELSE "y"
      [] e.op = "ref"     -> IF arg(1) = Unset THEN Bad ELSE arg(1)
      [] e.op = "not"     -> IF arg(1) = Unset THEN Bad ELSE IF arg(1) = "y" THEN "n" ELSE "y"
      [] e.op = "and"     -> IF arg(1) = Unset THEN Bad
                             ELSE IF arg(1) = "n" THEN "n"
                             ELSE IF arg(2) = Unset THEN Bad ELSE arg(2)

\* The traces an expression adds to a result, in both operands of &&.
CollectReferences(e) ==
    {<<bindings[b].project, bindings[b].option>> :
        b \in {FindBinding(Reference(e.args[k])) : k \in DOMAIN e.args}}

EvaluateExpression(e) ==
    IF WellTyped(e) THEN Evaluate(e) ELSE Bad

\* One turn of the loop of confit_v2_compat_check.  An error ends the check
\* and frees the report.
EvaluateConstraint ==
    /\ stage = "evaluate" /\ Len(results) < Len(suite)
    /\ LET c == suite[Len(results) + 1]
           when == EvaluateExpression(c.when)
           condition == EvaluateExpression(c.condition)
           whenTraces == CollectReferences(c.when)
           traces == whenTraces \cup CollectReferences(c.condition)
       IN  \/ /\ when = "n"
              /\ results' = Append(results, [state |-> "skipped", traces |-> whenTraces])
              /\ UNCHANGED <<stage, verdict, diagnostic>>
           \/ /\ when = "y" /\ condition # Bad
              /\ results' = Append(results,
                    [state  |-> IF (condition = "y") = (c.action = "require") THEN "pass" ELSE "fail",
                     traces |-> traces])
              /\ UNCHANGED <<stage, verdict, diagnostic>>
           \/ /\ when = Bad \/ (when = "y" /\ condition = Bad)
              /\ Stop("schema", "expression")
              /\ results' = <<>>
    /\ UNCHANGED <<input, file, line, table, suite, bindings>>

\* The report is complete: the first failure in id order is the diagnostic.
FinishEvaluation ==
    /\ stage = "evaluate" /\ Len(results) = Len(suite)
    /\ LET failed == {i \in DOMAIN results : results[i].state = "fail"} IN
       IF failed = {} THEN Stop("ok", "none")
       ELSE /\ stage' = "done"
            /\ verdict' = "compatibility"
            /\ diagnostic' = [reason |-> "message",
                              at |-> CHOOSE i \in failed : \A j \in failed : i <= j]
    /\ UNCHANGED <<input, file, line, table, suite, bindings, results>>

Finished == stage = "done" /\ UNCHANGED compatVars

CompatNext ==
    \/ Dispatch
    \/ OpenTable \/ Field \/ EndDocument \/ ValidateSuite
    \/ CheckAssertion \/ FinishCheck
    \/ LoadFile \/ ValidateProjects \/ EvaluateConstraint \/ FinishEvaluation
    \/ Finished

CompatSpec == CompatInit /\ [][CompatNext]_compatVars /\ WF_compatVars(CompatNext)
-----------------------------------------------------------------------------
\* Properties.

Published == stage = "done" /\ verdict \in {"ok", "compatibility"}
IsV1 == 2 \notin SchemaVersions

\* The source read as a whole: an [[assert]] header, and the lines of its
\* table, which ends at the next header of any kind or with the document.
AssertHeaders ==
    UNION {{f} \X {k \in DOMAIN input.files[f] :
                     input.files[f][k].t = "header" /\ input.files[f][k].key = "assert"} :
           f \in DOMAIN input.files}
LinesOf(h, keys) ==
    {k \in (h[2] + 1)..Len(input.files[h[1]]) :
        /\ input.files[h[1]][k].t = "field" /\ input.files[h[1]][k].key \in keys
        /\ \A j \in (h[2] + 1)..k : input.files[h[1]][j].t # "header"}
LastOf(h, keys) ==
    input.files[h[1]][CHOOSE k \in LinesOf(h, keys) : \A j \in LinesOf(h, keys) : j <= k]
Ordinal(h) ==
    Cardinality({g \in AssertHeaders : g[1] < h[1] \/ (g[1] = h[1] /\ g[2] <= h[2])})

\* confit_compat_parse_file: when the directory was read, the suite has one
\* assertion for each [[assert]] table, in order, with the last value of each
\* field of that table and of no other, however the tables are interleaved.
SuiteIsSource ==
    (IsV1 /\ stage = "check") =>
        /\ Len(suite) = Cardinality(AssertHeaders)
        /\ \A h \in AssertHeaders :
            LET a == suite[Ordinal(h)]
                action == LastOf(h, {"requires", "forbids"})
            IN  /\ a.when = ParseCondition(LastOf(h, {"when"}).value)
                /\ a.action = action.key
                /\ a.condition = ParseCondition(action.value)
                /\ a.message = LastOf(h, {"message"}).value

\* Whether the resolved values break an assertion of the source.
Matches(c) ==
    \E p \in DOMAIN input.projects :
        /\ c.option \in DOMAIN input.projects[p].values
        /\ \A q \in 1..(p - 1) : c.option \notin DOMAIN input.projects[q].values
        /\ ValuesEqual(input.projects[p].values[c.option], c.equals)
Nobody(c) == \A p \in DOMAIN input.projects : c.option \notin DOMAIN input.projects[p].values
BreaksAssertion(h) ==
    LET when == ParseCondition(LastOf(h, {"when"}).value)
        rule == LastOf(h, {"requires", "forbids"})
        condition == ParseCondition(rule.value)
    IN  \/ Nobody(when)
        \/ Matches(when) /\ (Nobody(condition) \/ (rule.key = "requires") # Matches(condition))

\* A reference to an option of the project that has its alias, and one to no
\* such option that is spelled like an option of another project.
HasOption(r) ==
    \E p \in DOMAIN input.projects :
        input.projects[p].alias = r.alias /\ r.id \in DOMAIN input.projects[p].values
Captured(r) ==
    /\ ~HasOption(r)
    /\ \E p \in DOMAIN input.projects :
        \E o \in DOMAIN input.projects[p].values :
            Internal(input.projects[p].alias, o) = Reference(r)
\* The references of a constraint, and those its result was computed from.
References(c) == Range(c.when.args) \cup Range(c.condition.args)
ReferencesRead(i) ==
    IF results[i].state = "skipped" THEN Range(suite[i].when.args) ELSE References(suite[i])

\* docs/compat-v2.md says that the alias and the option id of a reference must
\* exist when expressions are linked: no report is made of a suite that reads
\* an option which the project of that alias does not have.
ReferencesExist ==
    (Published /\ ~IsV1) => \A i \in DOMAIN results : \A r \in ReferencesRead(i) : HasOption(r)

\* The state of a constraint, with references read as an alias and an id and
\* never through joined names.
Named(projects, r) ==
    projects[CHOOSE p \in DOMAIN projects : projects[p].alias = r.alias].values[r.id].value
HoldsIn(projects, e) ==
    LET arg(k) == Named(projects, e.args[k]) IN
    CASE e.op = "true"    -> TRUE
      [] e.op = "defined" -> arg(1) # Unset
      [] e.op = "ref"     -> arg(1) = "y"
      [] e.op = "not"     -> arg(1) = "n"
      [] e.op = "and"     -> arg(1) = "y" /\ arg(2) = "y"
StateIn(projects, c) ==
    IF ~HoldsIn(projects, c.when) THEN "skipped"
    ELSE IF HoldsIn(projects, c.condition) = (c.action = "require") THEN "pass" ELSE "fail"

\* confit_compat_check_report and confit_v2_compat_check: a report says ok
\* exactly if no rule of the source is broken by the values its references
\* name; a rule about an option nobody has is never passed over in silence.
ReportIsRight ==
    Published =>
        (verdict = "ok") =
            IF IsV1 THEN \A h \in AssertHeaders : ~BreaksAssertion(h)
            ELSE \A i \in DOMAIN input.suite.constraints :
                    StateIn(input.projects, ParseConstraint(input.suite.constraints[i])) # "fail"

\* The exit with a compatibility error names the first broken rule, in the
\* order of the files for version 1 and of the ids for version 2.
DiagnosticIsFirst ==
    (stage = "done" /\ verdict = "compatibility") =>
        /\ diagnostic.at \in DOMAIN results
        /\ results[diagnostic.at].state = "fail"
        /\ \A i \in 1..(diagnostic.at - 1) :
                /\ results[i].state # "fail"
                /\ ~IsV1 => suite[i].id < suite[diagnostic.at].id

\* confit_v2_compat_collect_references: the traces of a result explain it. No
\* change of an option that is not among them changes its state.
TracesExplain ==
    (Published /\ ~IsV1) =>
        \A i \in DOMAIN results, p \in DOMAIN input.projects :
            \A o \in DOMAIN input.projects[p].values :
                (/\ <<p, o>> \notin results[i].traces
                 /\ input.projects[p].values[o].type = "bool") =>
                    \A v \in {"y", "n", Unset} :
                        LET altered == [input.projects EXCEPT ![p].values[o].value = v]
                        IN  StateIn(altered, suite[i]) = results[i].state

\* The results of a report are those of its assertions, and its traces name what
\* each of them depends on.  In version 2 this needs that no reference is
\* captured; then every reference that is read exists.
ReportIsExplained ==
    (IsV1 \/ \A i \in DOMAIN suite : \A r \in References(suite[i]) : ~Captured(r)) =>
        ReportIsRight /\ TracesExplain /\ ReferencesExist

=============================================================================
