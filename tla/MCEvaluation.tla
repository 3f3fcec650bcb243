---------------------------- MODULE MCEvaluation ----------------------------
(***************************************************************************)
(* Small projects of three options.  ValueProjects mix every kind of       *)
(* declaration at every option, so that all small dependency graphs, with  *)
(* their cycles and unset references, occur; ChoiceProjects put the three  *)
(* options in one choice under every cardinality; DefaultProjects give the *)
(* first option every table of three conditional defaults.                 *)
(***************************************************************************)
EXTENDS Evaluation

Expression(role, occurrence, op, args) ==
    [role |-> role, occurrence |-> occurrence, op |-> op, args |-> args]

Owned(expressions, owner) ==
    [i \in DOMAIN expressions |->
        [role |-> expressions[i].role, occurrence |-> expressions[i].occurrence,
         op |-> expressions[i].op, args |-> expressions[i].args, owner |-> owner]]

Range(type) ==
    CASE type = "bool" -> {"n", "y"} [] type = "tristate" -> {"n", "m", "y"}
      [] type = "int" -> {"v"}

Symbol(type, default) ==
    [type |-> type, computed |-> FALSE, required |-> FALSE, default |-> default,
     range |-> Range(type), defaults |-> << >>, suggestions |-> << >>]

Declaration(symbol, expressions) == [symbol |-> symbol, expressions |-> expressions]

Option(type, default, expressions) == Declaration(Symbol(type, default), expressions)

Computed(type, op, args) ==
    Declaration([Symbol(type, Unset) EXCEPT !.computed = TRUE],
                <<Expression("computed", 1, op, args)>>)

Conditional(type, first, second, j, priority) ==
    Declaration(
        [Symbol(type, Unset) EXCEPT !.defaults = <<[priority |-> 1, result |-> first],
                                       [priority |-> priority, result |-> second]>>],
        <<Expression("default_when", 1, "ref", <<j>>),
          Expression("default_when", 2, "defined", <<(j % 3) + 1>>)>>)

\* An integer whose range excludes the value an expression or a conditional
\* default gives it.
OutOfRange(declaration) == [declaration EXCEPT !.symbol.range = {}]

Declarations ==
    {Option("bool", Unset, << >>), Option("bool", "y", << >>),
     Option("tristate", "m", << >>), Option("int", "v", << >>),
     Declaration([Symbol("bool", Unset) EXCEPT !.required = TRUE], << >>),
     Computed("bool", "if", <<1, 2, 3>>), Computed("int", "if", <<1, 2, 3>>),
     Computed("bool", "and", <<2, 3>>), Computed("bool", "or", <<1, 2>>),
     OutOfRange(Computed("int", "ref", <<3>>)),
     Option("bool", "y", <<Expression("available_if", 1, "builtin", <<3>>)>>),
     Option("tristate", "m", <<Expression("visible_if", 1, "module", <<3>>)>>)}
    \cup {Computed("bool", "not", <<j>>) : j \in Node}
    \cup {Conditional("bool", "y", "n", j, priority) : j \in Node, priority \in {1, 2}}
    \cup {Option("bool", "y", <<Expression("available_if", 1, "enabled", <<j>>)>>) : j \in Node}

Project(declaration, choice, expressions, request) ==
    [linked |-> Owned(declaration[1].expressions, 1)
                \o Owned(declaration[2].expressions, 2)
                \o Owned(declaration[3].expressions, 3)
                \o expressions,
     symbol |-> [n \in Node |-> declaration[n].symbol],
     choice |-> choice,
     request |-> request,
     constraint |-> 0, menu |-> << >>, edits |-> {}]

TypedDeclarations ==
    {declaration \in [Node -> Declarations] :
        WellTyped(Project(declaration, << >>, << >>, << >>))}

\* A computed option has no request: the ledger rejects every writer for it;
\* a requested value has the type of its option, and a required option is
\* never unset.
Requests(symbol) ==
    {"none"} \cup IF symbol.computed THEN {}
               ELSE (symbol.range \ {"m"}) \cup IF symbol.required THEN {} ELSE {"unset"}

ValueProjects ==
    {p \in {Project(declaration, << >>, << >>, <<request, "none", "none">>) :
                declaration \in TypedDeclarations,
                request \in {"none", "unset", "n", "y", "v"}} :
        p.request[1] \in Requests(p.symbol[1])}

Gate(j) == <<Expression("available_if", 1, "enabled", <<j>>)>>

ChoiceDefaults ==
    {<< >>,
     <<[priority |-> 1, result |-> 1]>>,
     <<[priority |-> 1, result |-> 2], [priority |-> 1, result |-> 1]>>,
     <<[priority |-> 1, result |-> 2], [priority |-> 2, result |-> 1]>>}

ChoiceExpressions(defaults, gate) ==
    Owned(SubSeq(<<Expression("choice_default_when", 1, "true", << >>),
                   Expression("choice_default_when", 2, "enabled", <<3>>)>>,
                 1, Len(defaults)), 1)
    \o gate

ChoiceGates ==
    {<< >>,
     Owned(<<Expression("choice_available_if", 1, "enabled", <<3>>)>>, 1),
     Owned(<<Expression("choice_visible_if", 1, "enabled", <<3>>)>>, 1)}

ChoiceProjects ==
    {Project(<<Option("tristate", "n", gate), Option("tristate", "n", << >>),
               Option("tristate", third, << >>)>>,
             <<[id |-> 11, members |-> members, cardinality |-> cardinality, defaults |-> defaults]>>,
             ChoiceExpressions(defaults, choiceGate), request) :
        gate \in {<< >>, Gate(3)},
        third \in {Unset, "n"},
        members \in {<<1, 2>>, <<1, 2, 3>>},
        cardinality \in {"exactly_one", "zero_or_one", "one_or_more"},
        defaults \in ChoiceDefaults,
        choiceGate \in ChoiceGates,
        request \in [Node -> {"none", "n", "m"}]}

Entry == [priority : {1, 2}, result : {"n", "y"}]

DefaultProjects ==
    {Project(<<Declaration([Symbol("bool", Unset) EXCEPT !.defaults = defaults],
                 <<Expression("default_when", 1, "true", << >>),
                   Expression("default_when", 2, "enabled", <<2>>),
                   Expression("default_when", 3, "enabled", <<3>>)>>),
               Option("bool", "n", << >>), Option("bool", "n", << >>)>>,
             << >>, << >>, request) :
        defaults \in [1..3 -> Entry],
        request \in [Node -> {"none", "y"}]}

AmbiguityProjects == {DefaultProjects}

NoGraphs == {}
=============================================================================
