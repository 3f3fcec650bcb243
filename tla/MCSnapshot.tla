----------------------------- MODULE MCSnapshot -----------------------------
(***************************************************************************)
(* The projects of MCEvaluation, resolved once, and EditProjects: three    *)
(* options in a choice or out of it, linked by every role an expression    *)
(* can have, with one or two constraints, under all pairs of edits.        *)
(***************************************************************************)
EXTENDS Snapshot, MCEvaluation

Suggesting(declaration, j) ==
    [declaration EXCEPT !.symbol.suggestions = <<"y">>,
                        !.expressions = @ \o <<Expression("suggestion_when", 1, "ref", <<j>>)>>]

Dependent ==
    {Option("bool", "n", << >>),
     Computed("bool", "not", <<1>>),
     Conditional("bool", "y", "n", 1, 2),
     Option("bool", "n", <<Expression("available_if", 1, "enabled", <<1>>),
                           Expression("visible_if", 1, "enabled", <<3>>)>>),
     Suggesting(Option("bool", Unset, << >>), 1)}

Third ==
    {Option("bool", "y", <<Expression("visible_if", 1, "defined", <<2>>)>>),
     Computed("bool", "and", <<1, 2>>)}

Rule(c, op, args, op2, args2) ==
    Owned(<<Expression("constraint_when", 1, op, args),
            Expression("constraint_require", 1, op2, args2)>>, c)

Rules ==
    {[count |-> 0, linked |-> << >>],
     [count |-> 1, linked |-> Rule(1, "true", << >>, "or", <<2, 3>>)],
     [count |-> 2, linked |-> Rule(1, "enabled", <<1>>, "defined", <<2>>)
                              \o Rule(2, "defined", <<2>>, "ref", <<2>>)],
     [count |-> 2, linked |-> Rule(1, "ref", <<2>>, "true", << >>)
                              \o Rule(2, "ref", <<1>>, "not", <<3>>)]}

Pick(id, defaults) ==
    [id |-> id, members |-> <<2, 3>>, cardinality |-> "zero_or_one", defaults |-> defaults]

Choices(ids) ==
    {[choice |-> << >>, menu |-> << >>, linked |-> << >>]} \cup
    {[choice |-> <<Pick(id, <<[priority |-> 1, result |-> 2]>>)>>, menu |-> <<menu>>,
      linked |-> Owned(<<Expression("choice_default_when", 1, "ref", <<1>>),
                         Expression(role, 1, "enabled", <<1>>)>>, 1)
                 \o Owned(<<Expression("menu_visible_if", 1, "ref", <<1>>)>>, 1)] :
        id \in ids, menu \in {3, 12}, role \in {"choice_available_if", "choice_visible_if"}}

EditProjectsWith(ids) ==
    {[Project(<<Option("bool", first, << >>), second, third>>, choice.choice,
              choice.linked \o rules.linked, <<"none", "none", "none">>)
        EXCEPT !.constraint = rules.count,
               !.menu = choice.menu,
               !.edits = {[option |-> 1, value |-> v] : v \in {"n", "y", "unset"}} \cup
                         {[option |-> 2, value |-> v] :
                             v \in IF second.symbol.computed THEN {} ELSE {"n", "y"}}] :
        first \in {Unset, "n"}, second \in Dependent, third \in Third, rules \in Rules,
        choice \in Choices(ids)}

ResolveProjects == {ValueProjects, ChoiceProjects, EditProjectsWith({11})}

\* A choice that has the id of an option that is not one of its members.
SharedIdProjects == {EditProjectsWith({1})}
=============================================================================
