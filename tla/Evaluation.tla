----------------------------- MODULE Evaluation -----------------------------
(***************************************************************************)
(* confit_v2_evaluation_build of resolver/v2/evaluate.c: from the winning  *)
(* requests of the assignment ledger to the effective value of every       *)
(* option, its availability and visibility, and the selection of every     *)
(* choice.  The topological search of TopoSort runs first, then one step   *)
(* for each iteration of the loops over symbols (in that order), options   *)
(* (in id order) and choices.  Whatever fails discards everything.         *)
(*                                                                         *)
(* Values: "n", "m", "y" stand for the boolean-like values (false is "n",  *)
(* true is "y"), "v" for a set value of any other type.  Expressions are   *)
(* one operator of the expression language applied to references, which    *)
(* is all that ordering, unset values and short circuits can tell apart;   *)
(* literals, arithmetic, lists and the string functions are left out.      *)
(***************************************************************************)
EXTENDS TopoSort, Integers, FiniteSets

Unset == "unset"
Error == "error"
Value == {"n", "m", "y", "v"}
Bound == Value \cup {Unset}

\* An operator of the expression language and how many references it takes.
Operator == {"true", "ref", "not", "and", "or", "if",
             "defined", "enabled", "builtin", "module"}

Arity(op) ==
    CASE op = "true" -> 0 [] op \in {"and", "or"} -> 2 [] op = "if" -> 3 [] OTHER -> 1

LinkedExpression ==
    [role : STRING, owner : Nat, occurrence : Nat, op : Operator, args : Seq(Node)]

\* The loader checks default against range, nobody checks the entries of
\* defaults.
SymbolRecord ==
    [type : STRING, computed : BOOLEAN, required : BOOLEAN, default : Bound,
     range : SUBSET Value, defaults : Seq([priority : Int, result : Value]),
     suggestions : Seq(Value)]

ChoiceRecord ==
    [id : Nat, members : Seq(Node), cardinality : STRING,
     defaults : Seq([priority : Int, result : Node])]

\* What the ledger says of an option: "none" when it has no entry or only the
\* schema default.
Request == Bound \cup {"none"}

\* A linked project together with the winning requests of a ledger.  constraint
\* is how many constraints there are, menu the ids of the menus, edits what a
\* user may ask for.
ProjectRecord ==
    [linked : Seq(LinkedExpression), symbol : [Node -> SymbolRecord],
     choice : Seq(ChoiceRecord), request : [Node -> Request],
     constraint : Nat, menu : Seq(Nat),
     edits : SUBSET [option : Node, value : Request]]

CONSTANT Projects  \* families of linked projects

VARIABLES
    project,
    phase,      \* "order", "values", "options", "choices", "published", "failed"
    at,         \* iteration of the loop the phase is in
    effective, origin,      \* ConfitV2EffectiveValue value and origin
    available, visible,
    selection,  \* ConfitV2ChoiceResolution of the choices done so far
    error       \* why the evaluation failed, "none" while it has not

evalvars == <<project, phase, at, effective, origin, available, visible,
              selection, error>>
allvars == <<vars, evalvars>>
-----------------------------------------------------------------------------
(* Expressions: expression/v2/evaluate.c on operands that are references.  *)

Truth(b) == IF b THEN "y" ELSE "n"

EvalReference(e, env) == env[e.args[1]]

EvalUnary(e, env) ==
    LET operand == env[e.args[1]] IN
    IF operand = Unset THEN Error ELSE Truth(operand = "n")

\* && and || evaluate their right operand only when the left does not decide.
EvalBinary(e, env) ==
    LET left == env[e.args[1]]
        right == env[e.args[2]]
    IN  IF left = Unset THEN Error
        ELSE IF e.op = "and" /\ left = "n" THEN "n"
        ELSE IF e.op = "or" /\ left # "n" THEN "y"
        ELSE IF right = Unset THEN Error
        ELSE Truth(right # "n")

\* Only the chosen branch is evaluated, and it may be unset.
EvalConditional(e, env) ==
    LET condition == env[e.args[1]] IN
    IF condition = Unset THEN Error
    ELSE IF condition # "n" THEN env[e.args[2]] ELSE env[e.args[3]]

EvalCall(e, env) ==
    LET argument == env[e.args[1]] IN
    IF e.op = "defined" THEN Truth(argument # Unset)
    ELSE IF argument = Unset THEN Error
    ELSE CASE e.op = "enabled" -> Truth(argument # "n")
           [] e.op = "builtin" -> Truth(argument = "y")
           [] e.op = "module"  -> Truth(argument = "m")

Eval(e, env) ==
    CASE e.op = "true"              -> "y"
      [] e.op = "ref"               -> EvalReference(e, env)
      [] e.op = "not"               -> EvalUnary(e, env)
      [] e.op \in {"and", "or"}     -> EvalBinary(e, env)
      [] e.op = "if"                -> EvalConditional(e, env)
      [] e.op \in {"defined", "enabled", "builtin", "module"} -> EvalCall(e, env)

\* The type checker of the linker (expression/v2/typecheck.c), which every
\* expression has passed before it is evaluated.
ExpressionType(p, e) ==
    LET type(k) == p.symbol[e.args[k]].type
        Require(condition, result) == IF condition THEN result ELSE Error
    IN  CASE e.op = "true"                 -> "bool"
          [] e.op = "ref"                  -> type(1)
          [] e.op = "not"                  -> Require(type(1) = "bool", "bool")
          [] e.op \in {"and", "or"}        -> Require({type(1), type(2)} = {"bool"}, "bool")
          [] e.op = "if"                   -> Require(type(1) = "bool" /\ type(2) = type(3),
                                                      type(2))
          [] e.op = "defined"              -> "bool"
          [] e.op = "enabled"              -> Require(type(1) \in {"bool", "tristate"}, "bool")
          [] e.op \in {"builtin", "module"} -> Require(type(1) = "tristate", "bool")

WellTyped(p) ==
    \A i \in DOMAIN p.linked :
        LET e == p.linked[i] IN
        ExpressionType(p, e) =
            IF e.role = "computed" THEN p.symbol[e.owner].type ELSE "bool"

-----------------------------------------------------------------------------
(* The graph: confit_v2_evaluation_build_nodes.                            *)

\* Mutant of RoleAffectsValue: conditional defaults are forgotten.
RoleAffectsValueOnly(role) == role \in {"computed", "available_if"}

RoleAffectsValue(role) == role \in {"computed", "available_if", "default_when"}

\* References that become dependencies of node n, as positions in linked.
References(p, n) ==
    {r \in UNION {{i} \X DOMAIN p.linked[i].args : i \in DOMAIN p.linked} :
        /\ RoleAffectsValue(p.linked[r[1]].role)
        /\ p.linked[r[1]].owner = n}

ReferenceTarget(p, r) == p.linked[r[1]].args[r[2]]

\* dependency_compare: by target, then by where the expression stands.
Before(p, q, r) ==
    \/ ReferenceTarget(p, q) < ReferenceTarget(p, r)
    \/ /\ ReferenceTarget(p, q) = ReferenceTarget(p, r)
       /\ q[1] < r[1] \/ (q[1] = r[1] /\ q[2] < r[2])

Rank(p, R, r) == Cardinality({q \in R : Before(p, q, r)})

BuildNodes(p) ==
    [n \in Node |->
        LET R == References(p, n) IN
        [i \in 1..Cardinality(R) |->
            ReferenceTarget(p, CHOOSE r \in R : Rank(p, R, r) = i - 1)]]
-----------------------------------------------------------------------------
(* One symbol.                                                             *)

HasExpression(p, role, owner, occurrence) ==
    \E i \in DOMAIN p.linked :
        /\ p.linked[i].role = role
        /\ p.linked[i].owner = owner
        /\ p.linked[i].occurrence = occurrence

FindExpression(p, role, owner, occurrence) ==
    p.linked[CHOOSE i \in DOMAIN p.linked :
                /\ p.linked[i].role = role
                /\ p.linked[i].owner = owner
                /\ p.linked[i].occurrence = occurrence]

\* What the linker makes sure of: every operator has its operands, and every
\* condition that the evaluation and the validation look up is linked.
LinkedFully(p) ==
    /\ \A i \in DOMAIN p.linked : Len(p.linked[i].args) = Arity(p.linked[i].op)
    /\ \A n \in Node :
          /\ p.symbol[n].computed => HasExpression(p, "computed", n, 1)
          /\ \A k \in DOMAIN p.symbol[n].defaults : HasExpression(p, "default_when", n, k)
          /\ \A k \in DOMAIN p.symbol[n].suggestions :
                HasExpression(p, "suggestion_when", n, k)
    /\ \A c \in DOMAIN p.choice : \A k \in DOMAIN p.choice[c].defaults :
          HasExpression(p, "choice_default_when", c, k)
    /\ \A c \in 1..p.constraint :
          /\ HasExpression(p, "constraint_when", c, 1)
          /\ HasExpression(p, "constraint_require", c, 1)

\* What the choice compiler makes sure of: a default is a member.
DefaultsAreMembers(p) ==
    \A c \in DOMAIN p.choice : \A k \in DOMAIN p.choice[c].defaults :
        \E m \in DOMAIN p.choice[c].members :
            p.choice[c].members[m] = p.choice[c].defaults[k].result

ASSUME ProjectsAssumption ==
    \A family \in Projects : \A p \in family :
        /\ p \in ProjectRecord /\ LinkedFully(p) /\ WellTyped(p)
        /\ DefaultsAreMembers(p)

\* The loop both default selections share: the first candidate, then every
\* later one of strictly higher priority; an equal priority with another
\* result is an error on the spot, an unset condition is one too.
SelectDefault(defaults, holds) ==
    LET step[i \in 0..Len(defaults)] ==
          IF i = 0 THEN [status |-> "ok", selected |-> 0]
          ELSE LET before == step[i - 1]
                   entry == defaults[i]
                   current == before.selected
               IN  IF before.status # "ok" THEN before
                   ELSE IF holds[i] = Error THEN [before EXCEPT !.status = "expression"]
                   ELSE IF holds[i] = Unset THEN [before EXCEPT !.status = "unset_condition"]
                   ELSE IF holds[i] = "n" THEN before
                   ELSE IF current = 0 \/ entry.priority > defaults[current].priority
                        THEN [before EXCEPT !.selected = i]
                   ELSE IF /\ entry.priority = defaults[current].priority
                           /\ entry.result # defaults[current].result
                        THEN [before EXCEPT !.status = "ambiguous"]
                   ELSE before
    IN  step[Len(defaults)]

DefaultHolds(p, n, env) ==
    [i \in DOMAIN p.symbol[n].defaults |->
        Eval(FindExpression(p, "default_when", n, i), env)]

Failed(reason) == [status |-> reason, value |-> Unset, origin |-> "none"]

\* set_value: what is out of the option's range fails, it is never adjusted.
SetValue(p, n, value, from) ==
    IF value \in p.symbol[n].range
    THEN [status |-> "ok", value |-> value, origin |-> from]
    ELSE Failed("range")

\* Mutant of ComputeSymbol: the status of the evaluator is ignored.
ComputeSymbolUnchecked(p, n, env) ==
    [status |-> "ok", value |-> Eval(FindExpression(p, "computed", n, 1), env),
     origin |-> "computed"]

ComputeSymbol(p, n, env) ==
    LET computed == Eval(FindExpression(p, "computed", n, 1), env) IN
    CASE computed = Error -> Failed("expression")
      [] computed = Unset -> Failed("computed_unset")
      [] OTHER            -> SetValue(p, n, computed, "computed")

InputSymbol(p, n, env) ==
    LET symbol == p.symbol[n]
        conditional == SelectDefault(symbol.defaults, DefaultHolds(p, n, env))
    IN  IF p.request[n] \in Value
        THEN SetValue(p, n, p.request[n], "requested")
        ELSE IF conditional.status # "ok" THEN Failed(conditional.status)
        ELSE IF conditional.selected # 0
        THEN SetValue(p, n, symbol.defaults[conditional.selected].result,
                      "conditional_default")
        ELSE IF symbol.default # Unset THEN SetValue(p, n, symbol.default, "default")
        ELSE IF symbol.required THEN Failed("required")
        ELSE [status |-> "ok", value |-> Unset, origin |-> "unset"]

SymbolResult(p, n, env) ==
    IF p.symbol[n].computed THEN ComputeSymbol(p, n, env)
                            ELSE InputSymbol(p, n, env)
-----------------------------------------------------------------------------
(* Availability, visibility, choices.                                      *)

\* boolean_condition: no expression means true, unset and errors fail.
Condition(p, role, owner, env) ==
    IF ~HasExpression(p, role, owner, 1) THEN "y"
    ELSE LET value == Eval(FindExpression(p, role, owner, 1), env) IN
         IF value \in {Unset, Error} THEN Error ELSE Truth(value # "n")

IsDisabled(value) == value \in {Unset, "n"}
IsSelected(value) == value \in {"m", "y"}

OptionState(p, n, env) ==
    LET usable == Condition(p, "available_if", n, env)
        shown == Condition(p, "visible_if", n, env)
    IN  [status |-> IF usable = "n" /\ ~IsDisabled(env[n]) THEN "unavailable"
                    ELSE IF Error \in {usable, shown} THEN "expression" ELSE "ok",
         available |-> usable = "y",
         visible |-> shown = "y"]

ChoiceHolds(p, c, env) ==
    [i \in DOMAIN p.choice[c].defaults |->
        Eval(FindExpression(p, "choice_default_when", c, i), env)]

\* Positions of the members that are available and selected.
EffectiveMembers(p, c, env, usable) ==
    {k \in DOMAIN p.choice[c].members :
        LET member == p.choice[c].members[k] IN
        usable[member] /\ IsSelected(env[member])}

First(positions) == CHOOSE k \in positions : \A j \in positions : k <= j

NoSelection(isAvailable, isVisible) ==
    [status |-> "ok", available |-> isAvailable, visible |-> isVisible,
     count |-> 0, selected |-> 0, origin |-> "none"]

OneChoice(p, c, env, usable) ==
    LET choice == p.choice[c]
        isAvailable == Condition(p, "choice_available_if", c, env)
        isVisible == Condition(p, "choice_visible_if", c, env)
        members == EffectiveMembers(p, c, env, usable)
        default == SelectDefault(choice.defaults, ChoiceHolds(p, c, env))
        member == choice.defaults[default.selected].result
        base == [NoSelection(TRUE, isVisible = "y") EXCEPT !.count = Cardinality(members)]
        selected ==
            IF members # {}
            THEN [base EXCEPT !.selected = choice.members[First(members)],
                              !.origin = "effective_member"]
            ELSE IF default.status # "ok" THEN [base EXCEPT !.status = default.status]
            ELSE IF default.selected = 0 THEN base
            ELSE IF ~usable[member] THEN [base EXCEPT !.status = "default_unavailable"]
            ELSE [base EXCEPT !.selected = member, !.origin = "choice_default"]
    IN  IF Error \in {isAvailable, isVisible}
        THEN [NoSelection(FALSE, FALSE) EXCEPT !.status = "expression"]
        ELSE IF isAvailable = "n" THEN NoSelection(FALSE, isVisible = "y")
        ELSE IF selected.status # "ok" THEN selected
        ELSE IF choice.cardinality \in {"exactly_one", "zero_or_one"} /\ selected.count > 1
        THEN [selected EXCEPT !.status = "too_many"]
        ELSE IF choice.cardinality \in {"exactly_one", "one_or_more"} /\ selected.selected = 0
        THEN [selected EXCEPT !.status = "no_selection"]
        ELSE selected
-----------------------------------------------------------------------------
EvalInit ==
    \E family \in Projects : \E p \in family :
        /\ project = p
        /\ InitWith(BuildNodes(p))
        /\ phase = "order"
        /\ at = 1
        /\ effective = [n \in Node |-> Unset]
        /\ origin = [n \in Node |-> "none"]
        /\ available = [n \in Node |-> FALSE]
        /\ visible = [n \in Node |-> FALSE]
        /\ selection = << >>
        /\ error = "none"

\* The label fail: everything built so far is freed and nothing is returned.
Fail(reason) ==
    /\ phase' = "failed"
    /\ error' = reason
    /\ effective' = [n \in Node |-> Unset]
    /\ origin' = [n \in Node |-> "none"]
    /\ available' = [n \in Node |-> FALSE]
    /\ visible' = [n \in Node |-> FALSE]
    /\ selection' = << >>
    /\ UNCHANGED <<project, at>>

EnterPhase(next) == phase' = next /\ at' = 1

Search ==
    /\ phase = "order"
    /\ Next
    /\ UNCHANGED evalvars

EndSearch ==
    /\ phase = "order"
    /\ status # "running"
    /\ IF status = "ok"
       THEN /\ EnterPhase("values")
            /\ UNCHANGED <<project, effective, origin, available, visible,
                           selection, error>>
       ELSE Fail(status)
    /\ UNCHANGED vars

EvaluateSymbol ==
    /\ phase = "values"
    /\ at <= NodeCount
    /\ LET n == order[at]
           result == SymbolResult(project, n, effective)
       IN  IF result.status = "ok"
           THEN /\ effective' = [effective EXCEPT ![n] = result.value]
                /\ origin' = [origin EXCEPT ![n] = result.origin]
                /\ at' = at + 1
                /\ UNCHANGED <<project, phase, available, visible, selection, error>>
           ELSE Fail(result.status)
    /\ UNCHANGED vars

EvaluateOption ==
    /\ phase = "options"
    /\ at <= NodeCount
    /\ LET state == OptionState(project, at, effective)
       IN  IF state.status = "ok"
           THEN /\ available' = [available EXCEPT ![at] = state.available]
                /\ visible' = [visible EXCEPT ![at] = state.visible]
                /\ at' = at + 1
                /\ UNCHANGED <<project, phase, effective, origin, selection, error>>
           ELSE Fail(state.status)
    /\ UNCHANGED vars

EvaluateChoice ==
    /\ phase = "choices"
    /\ at <= Len(project.choice)
    /\ LET result == OneChoice(project, at, effective, available)
       IN  IF result.status = "ok"
           THEN /\ selection' = Append(selection, result)
                /\ at' = at + 1
                /\ UNCHANGED <<project, phase, effective, origin, available, visible, error>>
           ELSE Fail(result.status)
    /\ UNCHANGED vars

EndPhase ==
    /\ \/ phase = "values" /\ at > NodeCount /\ EnterPhase("options")
       \/ phase = "options" /\ at > NodeCount /\ EnterPhase("choices")
       \/ phase = "choices" /\ at > Len(project.choice) /\ EnterPhase("published")
    /\ UNCHANGED <<vars, project, effective, origin, available, visible, selection, error>>

EvalNext ==
    \/ Search \/ EndSearch \/ EvaluateSymbol \/ EvaluateOption
    \/ EvaluateChoice \/ EndPhase

EvalSpec == EvalInit /\ [][EvalNext]_allvars /\ WF_allvars(EvalNext)
-----------------------------------------------------------------------------
\* The values the evaluation's variables range over; in particular an
\* evaluator error never becomes the value of an option.
EvalTypeOK ==
    /\ TypeOK
    /\ phase \in {"order", "values", "options", "choices", "published", "failed"}
    /\ at \in Nat
    /\ effective \in [Node -> Bound]
    /\ available \in [Node -> BOOLEAN]
    /\ visible \in [Node -> BOOLEAN]

\* Once every symbol has its value, each value is the one its declaration
\* yields in the final environment: no expression was evaluated before a
\* symbol it reads (bindings[] start as unset, so such a read would go
\* unnoticed), and the result does not depend on the order of evaluation.
ValuesAreFixpoint ==
    phase \in {"options", "choices", "published"} =>
        \A n \in Node :
            SymbolResult(project, n, effective) =
                [status |-> "ok", value |-> effective[n], origin |-> origin[n]]

\* "Error Recovery": a published evaluation keeps every requested value as it
\* was requested, and has no unavailable option with an enabled value and no
\* required option without one.
NothingRecovered ==
    phase = "published" =>
        \A n \in Node :
            /\ project.request[n] \in Value /\ ~project.symbol[n].computed
                  => effective[n] = project.request[n]
            /\ ~available[n] => effective[n] \in {"n", Unset}
            /\ project.symbol[n].required => effective[n] # Unset
            /\ effective[n] # Unset => effective[n] \in project.symbol[n].range

\* A published choice that is available satisfies its cardinality over the
\* final values: nobody but the members' own values counts as a selection,
\* except that a default may stand in when there is none, and a default is an
\* available member.
ChoicesAreSatisfied ==
    phase = "published" =>
        \A c \in DOMAIN project.choice :
            LET resolution == selection[c]
                chosen == {m \in {project.choice[c].members[k] :
                                    k \in DOMAIN project.choice[c].members} :
                              available[m] /\ effective[m] \in {"m", "y"}}
            IN  resolution.available =>
                  /\ project.choice[c].cardinality \in {"exactly_one", "zero_or_one"}
                        => Cardinality(chosen) <= 1
                  /\ project.choice[c].cardinality \in {"exactly_one", "one_or_more"}
                        => resolution.selected \in Node
                  /\ chosen # {} => resolution.selected \in chosen
                  /\ resolution.selected # 0 => available[resolution.selected]

\* The entries of a defaults table whose condition is true in the final values.
TrueDefaults(n) ==
    LET holds == DefaultHolds(project, n, effective) IN
    {i \in DOMAIN holds : holds[i] \notin {"n", Unset, Error}}

HighestDefaults(n) ==
    LET defaults == project.symbol[n].defaults IN
    {i \in TrueDefaults(n) : \A j \in TrueDefaults(n) :
                                defaults[j].priority <= defaults[i].priority}

\* A published conditional default has the highest priority of those that
\* hold, and agrees with every other one of that priority.
DefaultIsHighest ==
    phase = "published" =>
        \A n \in Node :
            origin[n] = "conditional_default" =>
                /\ HighestDefaults(n) # {}
                /\ \A i \in HighestDefaults(n) :
                      effective[n] = project.symbol[n].defaults[i].result

\* confit_v2_evaluation_build as a whole: what it publishes is a fixpoint of the
\* declarations in which nothing was repaired, every choice holds and every
\* conditional default is the one the priorities select.
EvaluationIsRight ==
    ValuesAreFixpoint /\ NothingRecovered /\ ChoicesAreSatisfied /\ DefaultIsHighest

\* docs/resolution-v2.md, Phase 4: "가장 높은 priority를 선택한다. 같은 최고
\* priority에서 값이 다르면 ambiguity error다." An evaluation that stops with an
\* ambiguous default has two true entries of the highest priority with
\* different values.
AmbiguityIsReal ==
    [][phase = "values" /\ error' = "ambiguous" =>
        LET n == order[at]
            defaults == project.symbol[n].defaults
        IN  \E i, j \in HighestDefaults(n) :
                defaults[i].result # defaults[j].result]_allvars
=============================================================================
