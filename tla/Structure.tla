----------------------------- MODULE Structure ------------------------------
(***************************************************************************)
(* confit_v2_compile_structure (schema/v2/validate.c, constraint/v2/       *)
(* choice.c and graph.c) over a project the linker accepted: the menu      *)
(* tree, the menus of options, menu references, choices, constraints and   *)
(* the four reference graphs.                                              *)
(*                                                                         *)
(* Pointers to compiled menus and to symbols are indices of the sorted     *)
(* tables.                                                                 *)
(***************************************************************************)
EXTENDS Linker

VARIABLES
    menus,        \* compiled->menus: sorted sources
    parent,       \* [index of a menu -> index of its parent, or Missing]
    cursor,       \* the walk to the root: where it is ...
    path,         \* ... and where it was
    references,   \* compiled->menu_references: menu index and symbol index
    choices,      \* compiled->choices: source, members, default_when
    constraints,  \* compiled->constraints: source, when, require
    graphs,       \* [graph -> sequence of <<owner, option>>]
    reported      \* the cycle in the diagnostic

menuVars == <<menus, parent, cursor, path, references, reported>>
ruleVars == <<choices, constraints, graphs>>
linkTables == <<project, symbols, expressions, index>>
compileVars == <<linkVars, menuVars, ruleVars>>

GraphKind == {"evaluation", "visibility", "choice", "constraint"}

CompileInit ==
    /\ LinkInit
    /\ menus = <<>>
    /\ parent = <<>>
    /\ cursor = Missing
    /\ path = <<>>
    /\ references = <<>>
    /\ choices = <<>>
    /\ constraints = <<>>
    /\ graphs = [g \in GraphKind |-> <<>>]
    /\ reported = <<>>

Link == LinkNext /\ UNCHANGED <<menuVars, ruleVars>>

\* Every failure frees the compiled structure.
Reject(reason) == Refuse(reason) /\ UNCHANGED <<menuVars, ruleVars>>

\* confit_v2_compiled_structure_find_menu.
FindMenu(id) == BinarySearch(menus, id)

CollectMenus ==
    /\ stage = "linked"
    /\ menus' = ById(project.menus)
    /\ parent' = [i \in DOMAIN project.menus |-> Missing]
    /\ Go("parents")
    /\ UNCHANGED <<linkTables, outcome, cursor, path, references, reported, ruleVars>>

ResolveParent ==
    /\ stage = "parents"
    /\ at <= Len(menus)
    /\ IF /\ menus[at].visible_if # NoText
          /\ FindExpression("menu_visible_if", menus[at].id, 0) = NoExpression
       THEN Reject("internal")
       ELSE IF menus[at].parent # Missing /\ FindMenu(menus[at].parent) = Missing
       THEN Reject("missing parent")
       ELSE /\ parent' = [parent EXCEPT ![at] = FindMenu(menus[at].parent)]
            /\ Advance
            /\ UNCHANGED <<linkTables, menus, cursor, path, references, reported, ruleVars>>

BeginWalks ==
    /\ stage = "parents"
    /\ at > Len(menus)
    /\ Go("walk")
    /\ cursor' = IF menus = <<>> THEN Missing ELSE 1
    /\ UNCHANGED <<linkTables, outcome, menus, parent, path, references, reported, ruleVars>>

\* Mutant of WalkUp: the array is one slot short.
WalkUpShort ==
    /\ stage = "walk"
    /\ cursor # Missing
    /\ IF Len(path) + 1 = Len(menus) THEN Reject("internal")
       ELSE IF \E i \in DOMAIN path : path[i] = cursor
       THEN /\ LET first == CHOOSE i \in DOMAIN path : path[i] = cursor
               IN reported' = SubSeq(path, first, Len(path))
            /\ Refuse("menu cycle")
            /\ UNCHANGED <<menus, parent, cursor, path, references, ruleVars>>
       ELSE /\ path' = Append(path, cursor)
            /\ cursor' = parent[cursor]
            /\ UNCHANGED <<linkTables, stage, at, outcome, menus, parent, references, reported,
                           ruleVars>>

\* One iteration of the walk from a menu to its root.
WalkUp ==
    /\ stage = "walk"
    /\ cursor # Missing
    /\ IF \E i \in DOMAIN path : path[i] = cursor
       THEN /\ LET first == CHOOSE i \in DOMAIN path : path[i] = cursor
               IN reported' = SubSeq(path, first, Len(path))
            /\ Refuse("menu cycle")
            /\ UNCHANGED <<menus, parent, cursor, path, references, ruleVars>>
       ELSE IF Len(path) = Len(menus) THEN Reject("internal")
       ELSE /\ path' = Append(path, cursor)
            /\ cursor' = parent[cursor]
            /\ UNCHANGED <<linkTables, stage, at, outcome, menus, parent, references, reported,
                           ruleVars>>

\* The root is reached: the next menu, with a new array, or the sibling check.
NextWalk ==
    /\ stage = "walk"
    /\ cursor = Missing
    /\ path' = <<>>
    /\ IF at < Len(menus) THEN cursor' = at + 1 /\ Advance
       ELSE UNCHANGED <<cursor, outcome>> /\ Go("siblings")
    /\ UNCHANGED <<linkTables, menus, parent, references, reported, ruleVars>>

CheckSiblings ==
    /\ stage = "siblings"
    /\ IF \E i, j \in DOMAIN menus :
             i # j /\ parent[i] = parent[j] /\ menus[i].order = menus[j].order
       THEN Reject("sibling order")
       ELSE Go("options") /\ UNCHANGED <<linkTables, outcome, menuVars, ruleVars>>

CheckOptionMenus ==
    /\ stage = "options"
    /\ IF \E s \in Range(project.symbols) : s.menu # Missing /\ FindMenu(s.menu) = Missing
       THEN Reject("missing menu")
       ELSE Go("references") /\ UNCHANGED <<linkTables, outcome, menuVars, ruleVars>>

ReferenceError(m, k) ==
    IF ~m.references[k].read_only THEN "writable reference"
    ELSE IF FindSymbol(m.references[k].option) = Missing THEN "missing option"
    ELSE IF \E j \in 1..(k - 1) : m.references[j].option = m.references[k].option
         THEN "duplicate reference"
    ELSE "none"

\* confit_v2_compile_menu_references, one menu at a time, as declared.
CompileReferences ==
    /\ stage = "references"
    /\ at <= Len(project.menus)
    /\ LET m == project.menus[at]
           error == FirstError([k \in DOMAIN m.references |-> ReferenceError(m, k)])
       IN IF error # "none" THEN Reject(error)
          ELSE /\ references' = references \o
                      [k \in DOMAIN m.references |->
                          [menu |-> FindMenu(m.id), symbol |-> FindSymbol(m.references[k].option)]]
               /\ Advance
               /\ UNCHANGED <<linkTables, menus, parent, cursor, path, reported, ruleVars>>

BeginChoices ==
    /\ stage = "references"
    /\ at > Len(project.menus)
    /\ Go("choices")
    /\ UNCHANGED <<linkTables, outcome, menuVars, ruleVars>>

SortedChoices == ById(project.choices)

MemberError(c, k) ==
    LET member == FindSymbol(c.members[k])
        first == FindSymbol(c.members[1])
    IN IF member = Missing
       THEN IF \E d \in Range(project.choices) : d.id = c.members[k] THEN "nested choice"
            ELSE "missing member"
       ELSE IF symbols[member].type # c.member_type THEN "member type"
       ELSE IF first # Missing /\ symbols[member].domain # symbols[first].domain
            THEN "member domain"
       ELSE "none"

ChoiceExpressionError(c) ==
    IF \/ c.available_if # NoText /\ FindExpression("choice_available_if", c.id, 0) = NoExpression
       \/ c.visible_if # NoText /\ FindExpression("choice_visible_if", c.id, 0) = NoExpression
    THEN "internal" ELSE "none"

\* Mutant of ChoiceDefaultError: ties are not looked for.
ChoiceDefaultErrorTied(c, k) ==
    IF c.defaults[k].member \notin Range(c.members) THEN "default member"
    ELSE IF FindExpression("choice_default_when", c.id, k - 1) = NoExpression THEN "internal"
    ELSE "none"

ChoiceDefaultError(c, k) ==
    LET d == c.defaults[k]
    IN IF d.member \notin Range(c.members) THEN "default member"
       ELSE IF FindExpression("choice_default_when", c.id, k - 1) = NoExpression THEN "internal"
       ELSE IF \E j \in 1..(k - 1) :
                  /\ c.defaults[j].priority = d.priority
                  /\ c.defaults[j].member # d.member
                  /\ c.defaults[j].when = d.when
            THEN "default tie"
       ELSE "none"

\* confit_v2_compile_one_choice.
CompileChoice ==
    /\ stage = "choices"
    /\ at <= Len(project.choices)
    /\ LET c == SortedChoices[at]
           error == FirstError(<<IF c.members = <<>> THEN "cardinality" ELSE "none">> \o
                               [k \in DOMAIN c.members |-> MemberError(c, k)] \o
                               <<ChoiceExpressionError(c)>> \o
                               [k \in DOMAIN c.defaults |-> ChoiceDefaultError(c, k)])
       IN IF error # "none" THEN Reject(error)
          ELSE /\ choices' = Append(choices,
                      [source |-> c,
                       members |-> [k \in DOMAIN c.members |-> FindSymbol(c.members[k])],
                       default_when |-> [k \in DOMAIN c.defaults |->
                           FindExpression("choice_default_when", c.id, k - 1)]])
               /\ Advance
               /\ UNCHANGED <<linkTables, menuVars, constraints, graphs>>

BeginConstraints ==
    /\ stage = "choices"
    /\ at > Len(project.choices)
    /\ IF Len(project.constraints) > Len(expressions) \div 2 THEN Reject("internal")
       ELSE Go("constraints") /\ UNCHANGED <<linkTables, outcome, menuVars, ruleVars>>

\* confit_v2_compile_constraints: the pairs are the last expressions linked.
CompileConstraint ==
    /\ stage = "constraints"
    /\ at <= Len(project.constraints)
    /\ LET c == project.constraints[at]
           base == Len(expressions) - 2 * Len(project.constraints)
           when == expressions[base + 2 * at - 1]
           require == expressions[base + 2 * at]
       IN IF ~c.message THEN Reject("empty message")
          ELSE IF \/ when.role # "constraint_when" \/ require.role # "constraint_require"
                  \/ when.owner # c.id \/ require.owner # c.id
               THEN Reject("internal")
          ELSE /\ constraints' = Append(constraints,
                                        [source |-> c, when |-> when, require |-> require])
               /\ Advance
               /\ UNCHANGED <<linkTables, menuVars, choices, graphs>>

GraphOf(role) ==
    CASE role \in {"computed", "available_if", "default_when", "suggestion_when",
                   "choice_available_if"} -> "evaluation"
      [] role \in {"visible_if", "menu_visible_if", "choice_visible_if"} -> "visibility"
      [] role = "choice_default_when" -> "choice"
      [] role \in {"constraint_when", "constraint_require"} -> "constraint"

Edges(e) == [k \in DOMAIN e.text.refs |-> <<e.owner, e.text.refs[k]>>]

\* Mutant of ExpressionEdges: one edge for each expression.
ExpressionEdgesFirst(g) ==
    FlattenSeq([i \in DOMAIN expressions |->
        IF GraphOf(expressions[i].role) = g /\ Edges(expressions[i]) # <<>>
        THEN <<Edges(expressions[i])[1]>> ELSE <<>>])

ExpressionEdges(g) ==
    FlattenSeq([i \in DOMAIN expressions |->
        IF GraphOf(expressions[i].role) = g THEN Edges(expressions[i]) ELSE <<>>])

MemberEdges ==
    FlattenSeq([i \in DOMAIN choices |->
        [k \in DOMAIN choices[i].members |->
            <<choices[i].source.id, symbols[choices[i].members[k]].id>>]])

\* Constraints are sorted and confit_v2_structure_build_graphs follows; then
\* *out_compiled = compiled.
BuildGraphs ==
    /\ stage = "constraints"
    /\ at > Len(project.constraints)
    /\ constraints' = Sorted(constraints, {p \in Range(constraints) \X Range(constraints) :
                                             p[1].source.id < p[2].source.id})
    /\ graphs' = [g \in GraphKind |->
           ExpressionEdges(g) \o (IF g = "choice" THEN MemberEdges ELSE <<>>)]
    /\ Go("done")
    /\ outcome' = "ok"
    /\ UNCHANGED <<linkTables, menuVars, choices>>

CompileNext ==
    \/ Link \/ CollectMenus \/ ResolveParent \/ BeginWalks \/ WalkUp \/ NextWalk
    \/ CheckSiblings \/ CheckOptionMenus \/ CompileReferences \/ BeginChoices
    \/ CompileChoice \/ BeginConstraints \/ CompileConstraint \/ BuildGraphs

CompileSpec == CompileInit /\ [][CompileNext]_compileVars
FairCompileSpec == CompileSpec /\ WF_compileVars(CompileNext)
-----------------------------------------------------------------------------
\* The values the variables range over, as far as a pointer can go wrong.
CompileTypeOK ==
    /\ stage \in {"symbols", "expressions", "linked", "parents", "walk", "siblings",
                  "options", "references", "choices", "constraints", "done"}
    /\ at \in Nat \ {0}
    /\ parent \in Seq(0..Len(menus))
    /\ path \in Seq(1..Len(menus))
    /\ cursor \in 0..Len(menus)
    /\ references \in Seq([menu : 1..Len(menus), symbol : 1..Len(symbols)])
    /\ \A c \in Range(choices) : c.members \in Seq(1..Len(symbols))

\* The errors the code calls internal do not happen for a project the loader
\* accepts: the array of the menu walk is long enough, no symbol is met twice or
\* is foreign, no choice is empty, and every expression looked for was linked.
NoInternalError ==
    outcome \notin {"internal", "namespace", "duplicate symbol", "missing reference",
                   "cardinality"}

\* Pointers and internal errors together.
CompileInvariant == CompileTypeOK /\ NoInternalError

\* The menus in a reported cycle are one cycle: distinct, each the child of the
\* next and the last the child of the first, without the menus that only lead
\* into it.
CycleGenuine ==
    outcome = "menu cycle" =>
        /\ reported # <<>>
        /\ \A i, j \in DOMAIN reported : reported[i] = reported[j] => i = j
        /\ \A i \in DOMAIN reported :
              parent[reported[i]] = reported[(i % Len(reported)) + 1]

\* The menu walk of confit_v2_validate_menus stays in its array, takes no internal
\* error return, and reports a cycle only where there is one.
WalkIsRight == CompileInvariant /\ CycleGenuine

\* The k-th condition of a choice and the two halves of a constraint are found
\* again after all the sorting: each compiled rule has its own texts, although
\* the compiler pairs them by position.
PairingIsRight ==
    outcome = "ok" =>
        /\ Len(choices) = Len(project.choices) /\ Len(constraints) = Len(project.constraints)
        /\ \A c \in Range(choices) : \A k \in DOMAIN c.source.defaults :
              c.default_when[k].text = c.source.defaults[k].when
        /\ \A c \in Range(constraints) :
              c.when.text = c.source.when /\ c.require.text = c.source.require
        /\ \A i, j \in DOMAIN constraints :
              i < j => constraints[i].source.id < constraints[j].source.id

\* Two lookups of the same expression, the indexed one of the linker and the scan
\* of the constraint validation, agree for every role, owner and occurrence, and
\* find the occurrence that was declared.
LookupsAgree ==
    stage = "parents" =>
        \A role \in Range(Roles), owner \in 1..3, occurrence \in 0..2 :
            LET found == FindExpression(role, owner, occurrence)
            IN /\ found = ScanExpression(role, owner, occurrence)
               /\ found # NoExpression => found.occurrence = occurrence

\* Every way an expression is looked up finds the one that was declared.
ExpressionsFound == PairingIsRight /\ LookupsAgree

-----------------------------------------------------------------------------
\* What makes a project acceptable, apart from the order of the checks.

Ids(seq) == {x.id : x \in Range(seq)}

LinksWell(p) ==
    LET sources == (UNION {Range(SymbolSources(s)) : s \in Range(p.symbols)}) \cup
                   {MenuSource(m) : m \in Range(p.menus)} \cup
                   (UNION {Range(ChoiceSources(c)) : c \in Range(p.choices)}) \cup
                   (UNION {Range(ConstraintSources(c)) : c \in Range(p.constraints)})
    IN /\ \A s \in Range(p.symbols) : s.owned
       /\ \A s \in sources : s.text # NoText =>
             /\ s.text.ok /\ s.text.type = s.type
             /\ Range(s.text.refs) \subseteq Ids(p.symbols) \ {s.self}

\* Menus reachable upwards; with a cycle the menu reaches itself.
Above(p, m) ==
    LET Up[n \in Nat] == IF n = 0 THEN {m.parent}
                         ELSE {a.parent : a \in {b \in Range(p.menus) : b.id \in Up[n - 1]}}
    IN UNION {Up[n] : n \in 0..Len(p.menus)}

HierarchyWell(p) ==
    \A m \in Range(p.menus) :
        m.parent \in Ids(p.menus) \cup {Missing} /\ m.id \notin Above(p, m)

SiblingsWell(p) ==
    \A m, n \in Range(p.menus) : m.parent = n.parent /\ m.order = n.order => m = n

OptionsWell(p) == \A s \in Range(p.symbols) : s.menu \in Ids(p.menus) \cup {Missing}

ReferencesWell(p, m) ==
    \A j, k \in DOMAIN m.references :
        /\ m.references[k].read_only
        /\ m.references[k].option \in Ids(p.symbols)
        /\ m.references[j].option = m.references[k].option => j = k

MenusWell(p) ==
    /\ HierarchyWell(p) /\ SiblingsWell(p) /\ OptionsWell(p)
    /\ \A m \in Range(p.menus) : ReferencesWell(p, m)

ChoiceWell(p, c) ==
    /\ \E domain \in Domain :
          \A k \in DOMAIN c.members : \E s \in Range(p.symbols) :
              s.id = c.members[k] /\ s.type = c.member_type /\ s.domain = domain
    /\ \A d, e \in Range(c.defaults) :
          /\ d.member \in Range(c.members)
          /\ d.priority = e.priority /\ d.when = e.when => d.member = e.member

\* Exactly the acceptable projects compile: a forest of menus with ordered
\* siblings, resolved references, choices over members of one type and writer.
VerdictIsExact ==
    stage = "done" =>
        (outcome = "ok" <=> /\ LinksWell(project) /\ MenusWell(project)
                            /\ \A c \in Range(project.choices) : ChoiceWell(project, c)
                            /\ \A c \in Range(project.constraints) : c.message)

\* Each reference of each expression, and each member of a choice, is an edge of
\* one graph, so no dependency is lost between linking and explaining.
GraphsAreComplete ==
    outcome = "ok" =>
        LET Count(g) == Len(graphs[g])
            refs == FlattenSeq([i \in DOMAIN expressions |-> expressions[i].text.refs])
        IN Count("evaluation") + Count("visibility") + Count("choice") + Count("constraint") =
              Len(refs) + Len(MemberEdges)

=============================================================================
