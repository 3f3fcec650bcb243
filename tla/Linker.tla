------------------------------- MODULE Linker -------------------------------
(***************************************************************************)
(* confit_v2_schema_link_project of schema/v2/linker.c: the symbols of a   *)
(* loaded project are sorted, every expression is parsed, typed and its    *)
(* references resolved, and an index is built over the expressions.        *)
(*                                                                         *)
(* Ids are numbers, so that strcmp is <; options, menus, choices and       *)
(* constraints have id spaces of their own and may share ids.  An          *)
(* expression is its type, whether it is well formed, and its references   *)
(* in order; two expressions are equal when their texts are.               *)
(***************************************************************************)
EXTENDS Integers, Functions, SequencesExt, FiniteSets

CONSTANT Projects  \* what the loader may hand over

\* The order of the roles is that of ConfitV2LinkedExpressionRole.
Roles == <<"computed", "available_if", "visible_if", "default_when", "suggestion_when",
           "menu_visible_if", "choice_available_if", "choice_visible_if",
           "choice_default_when", "constraint_when", "constraint_require">>
NoText == [type |-> "none", ok |-> FALSE, refs |-> <<>>]
NoExpression == [role |-> "none", owner |-> 0, occurrence |-> 0, source_order |-> 0, text |-> NoText]
Missing == 0

\* What the loader lets through: every id is new in its space, that of an option is
\* in the namespace of the project; every condition of a list is there; a choice
\* has members; names need not be declared.
Domain == {"schema", "profile", "target", "computed"}
ValueType == {"bool", "tristate", "int", "uint", "hex", "float", "string", "enum", "path",
              "string_list", "path_list", "enum_set"}
Written == [type : ValueType, ok : BOOLEAN, refs : Seq(Nat)]
Text == Written \cup {NoText}
SymbolNode == [id : Nat \ {0}, owned : {TRUE}, type : ValueType, domain : Domain, menu : Nat,
            computed : Text, available_if : Text, visible_if : Text, defaults : Seq(Written),
            suggestions : Seq(Written)]
MenuNode == [id : Nat \ {0}, parent : Nat, order : Int, visible_if : Text,
          references : Seq([option : Nat, read_only : BOOLEAN])]
ChoiceNode == [id : Nat \ {0}, member_type : ValueType, members : Seq(Nat) \ {<<>>},
            available_if : Text, visible_if : Text,
            defaults : Seq([member : Nat, priority : Int, when : Written])]
ConstraintNode == [id : Nat \ {0}, when : Written, require : Written, message : BOOLEAN]
Distinct(seq) == \A i, j \in DOMAIN seq : seq[i].id = seq[j].id => i = j

ASSUME ProjectsAssumption ==
    /\ Projects \subseteq [symbols : Seq(SymbolNode), menus : Seq(MenuNode), choices : Seq(ChoiceNode),
                            constraints : Seq(ConstraintNode)]
    /\ \A p \in Projects : /\ Distinct(p.symbols) /\ Distinct(p.menus)
                            /\ Distinct(p.choices) /\ Distinct(p.constraints)

VARIABLES
    project,      \* symbols, menus, choices, constraints, each in order of declaration
    stage,
    at,           \* index of the loop the stage is in
    symbols,      \* linked->symbols, sorted
    expressions,  \* linked->expressions
    index,        \* linked->expression_index
    outcome

linkVars == <<project, stage, at, symbols, expressions, index, outcome>>

\* A project: symbols have id, whether it is in the namespace of the project,
\* type, domain, menu and the expressions computed, available_if, visible_if,
\* defaults, suggestions; menus id, parent, order,
\* visible_if, references; choices id, member_type, members, available_if,
\* visible_if, defaults [member, priority, when]; constraints id, when, require
\* and whether they have a message.
LinkInit ==
    /\ project \in Projects
    /\ stage = "symbols"
    /\ at = 1
    /\ symbols = <<>>
    /\ expressions = <<>>
    /\ index = <<>>
    /\ outcome = "running"

Refuse(reason) ==
    /\ outcome' = reason
    /\ stage' = "done"
    /\ UNCHANGED <<project, at, symbols, expressions, index>>

Go(next) == stage' = next /\ at' = 1
Advance == at' = at + 1 /\ UNCHANGED <<stage, outcome>>

FirstError(errors) ==
    IF \A i \in DOMAIN errors : errors[i] = "none" THEN "none"
    ELSE errors[CHOOSE i \in DOMAIN errors :
                   errors[i] # "none" /\ \A j \in 1..(i - 1) : errors[j] = "none"]

\* qsort: entry i has i - 1 entries before it.  No two entries compare equal.
Sorted(seq, before) ==
    [i \in DOMAIN seq |-> CHOOSE x \in Range(seq) :
        Cardinality({y \in Range(seq) : <<y, x>> \in before}) = i - 1]
ById(seq) == Sorted(seq, {p \in Range(seq) \X Range(seq) : p[1].id < p[2].id})

\* The binary search of a table that is sorted by id.
BinarySearch(table, id) ==
    LET Search[r \in Nat \X Nat] ==
            LET low == r[1]
                high == r[2]
                middle == low + (high - low) \div 2
            IN IF low >= high THEN Missing
               ELSE IF table[middle + 1].id = id THEN middle + 1
               ELSE IF id < table[middle + 1].id THEN Search[<<low, middle>>]
               ELSE Search[<<middle + 1, high>>]
    IN Search[<<0, Len(table)>>]

\* The loader refused duplicates, which the linker looks for again.
SymbolError(sorted, i) ==
    IF ~sorted[i].owned THEN "namespace"
    ELSE IF i > 1 /\ sorted[i].id = sorted[i - 1].id THEN "duplicate symbol"
    ELSE "none"

\* qsort by id, then the checks and the bindings of the type checker.
SortSymbols ==
    /\ stage = "symbols"
    /\ LET sorted == ById(project.symbols)
           error == FirstError([i \in DOMAIN sorted |-> SymbolError(sorted, i)])
       IN IF error # "none" THEN Refuse(error)
          ELSE /\ symbols' = sorted
               /\ Go("expressions")
               /\ UNCHANGED <<project, expressions, index, outcome>>

\* confit_v2_link_find_symbol.
FindSymbol(id) == BinarySearch(symbols, id)

Source(role, owner, self, type, text, occurrence) ==
    [role |-> role, owner |-> owner, self |-> self, type |-> type, text |-> text,
     occurrence |-> occurrence]

\* confit_v2_link_symbol_expressions.
SymbolSources(s) ==
    <<Source("computed", s.id, s.id, s.type, s.computed, 0),
      Source("available_if", s.id, s.id, "bool", s.available_if, 0),
      Source("visible_if", s.id, s.id, "bool", s.visible_if, 0)>> \o
    [k \in DOMAIN s.defaults |-> Source("default_when", s.id, s.id, "bool", s.defaults[k], k - 1)] \o
    [k \in DOMAIN s.suggestions |->
        Source("suggestion_when", s.id, s.id, "bool", s.suggestions[k], k - 1)]

MenuSource(m) == Source("menu_visible_if", m.id, Missing, "bool", m.visible_if, 0)

ChoiceSources(c) ==
    <<Source("choice_available_if", c.id, Missing, "bool", c.available_if, 0),
      Source("choice_visible_if", c.id, Missing, "bool", c.visible_if, 0)>> \o
    [k \in DOMAIN c.defaults |->
        Source("choice_default_when", c.id, Missing, "bool", c.defaults[k].when, k - 1)]

ConstraintSources(c) ==
    <<Source("constraint_when", c.id, Missing, "bool", c.when, 0),
      Source("constraint_require", c.id, Missing, "bool", c.require, 0)>>

\* What the linker goes through, in its order.
Sources ==
    FlattenSeq([i \in DOMAIN symbols |-> SymbolSources(symbols[i])]) \o
    [i \in DOMAIN project.menus |-> MenuSource(project.menus[i])] \o
    FlattenSeq([i \in DOMAIN project.choices |-> ChoiceSources(project.choices[i])]) \o
    FlattenSeq([i \in DOMAIN project.constraints |-> ConstraintSources(project.constraints[i])])

\* The type checker refuses an expression that names no declared option.
TypeChecks(text) ==
    /\ text.ok
    /\ \A r \in Range(text.refs) : \E i \in DOMAIN symbols : symbols[i].id = r

\* confit_v2_link_append_expression: why an expression is refused.
LinkError(s) ==
    IF ~TypeChecks(s.text) THEN "expression"
    ELSE IF s.text.type # s.type THEN "result type"
    ELSE IF \E r \in Range(s.text.refs) : FindSymbol(r) = Missing THEN "missing reference"
    ELSE IF s.self \in Range(s.text.refs) THEN "self reference"
    ELSE "none"

AppendExpression ==
    /\ stage = "expressions"
    /\ at <= Len(Sources)
    /\ LET s == Sources[at]
       IN IF s.text = NoText THEN Advance /\ UNCHANGED <<project, symbols, expressions, index>>
          ELSE IF LinkError(s) # "none" THEN Refuse(LinkError(s))
          ELSE /\ expressions' = Append(expressions,
                      [role |-> s.role, owner |-> s.owner, occurrence |-> s.occurrence,
                       source_order |-> Len(expressions), text |-> s.text])
               /\ Advance
               /\ UNCHANGED <<project, symbols, index>>

RoleRank(role) == CHOOSE i \in DOMAIN Roles : Roles[i] = role

\* Mutant of ExpressionBefore: the latest occurrence first.
ExpressionBeforeReversed(e, f) ==
    \/ RoleRank(e.role) < RoleRank(f.role)
    \/ e.role = f.role /\ e.owner < f.owner
    \/ e.role = f.role /\ e.owner = f.owner /\ e.source_order > f.source_order

\* confit_v2_link_expression_compare.
ExpressionBefore(e, f) ==
    \/ RoleRank(e.role) < RoleRank(f.role)
    \/ e.role = f.role /\ e.owner < f.owner
    \/ e.role = f.role /\ e.owner = f.owner /\ e.source_order < f.source_order

BuildIndex ==
    /\ stage = "expressions"
    /\ at > Len(Sources)
    /\ index' = Sorted(expressions, {p \in Range(expressions) \X Range(expressions) :
                                    ExpressionBefore(p[1], p[2])})
    /\ Go("linked")
    /\ UNCHANGED <<project, symbols, expressions, outcome>>

LinkNext == SortSymbols \/ AppendExpression \/ BuildIndex
-----------------------------------------------------------------------------
\* The lower bound in a table of n entries: below holds the entries that compare
\* less, the first ones.
LowerBound(below, n) ==
    LET Bound[r \in Nat \X Nat] ==
            LET low == r[1]
                high == r[2]
                middle == low + (high - low) \div 2
            IN IF low >= high THEN low
               ELSE IF middle + 1 \in below THEN Bound[<<middle + 1, high>>]
               ELSE Bound[<<low, middle>>]
    IN Bound[<<0, n>>]

\* confit_v2_linked_project_find_expression: the lower bound of (role, owner),
\* then a scan.
FindExpression(role, owner, occurrence) ==
    LET below == {i \in DOMAIN index : \/ RoleRank(index[i].role) < RoleRank(role)
                                       \/ index[i].role = role /\ index[i].owner < owner}
        slot == LowerBound(below, Len(index)) + occurrence + 1
    IN IF /\ slot <= Len(index)
          /\ \A i \in (slot - occurrence)..slot : index[i].role = role /\ index[i].owner = owner
       THEN index[slot]
       ELSE NoExpression

\* confit_v2_constraint_find_expression of constraint/v2/validate.c: a scan of
\* the unsorted table that counts the occurrence down.
ScanExpression(role, owner, occurrence) ==
    LET matches == {i \in DOMAIN expressions :
                       expressions[i].role = role /\ expressions[i].owner = owner}
        found == {i \in matches : Cardinality({j \in matches : j < i}) = occurrence}
    IN IF found = {} THEN NoExpression ELSE expressions[CHOOSE i \in found : TRUE]
=============================================================================
