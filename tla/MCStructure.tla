---------------------------- MODULE MCStructure -----------------------------
(***************************************************************************)
(* Projects of two options, up to three menus, two choices and two         *)
(* constraints: every order of declaration with several conditions each,   *)
(* one defective expression in every role, every choice of up to two       *)
(* members, and every menu hierarchy of three menus.                       *)
(***************************************************************************)
EXTENDS Structure

Lists(S, n) == UNION {[1..len -> S] : len \in 0..n}
Orders(S) == {s \in Lists(S, 2) : \A i, j \in DOMAIN s : s[i] = s[j] => i = j}

Expression(refs) == [type |-> "bool", ok |-> TRUE, refs |-> refs]
OfOne == Expression(<<1>>)
OfTwo == Expression(<<2>>)
Both == Expression(<<1, 2>>)
Constant == Expression(<<>>)

Option(id) ==
    [id |-> id, owned |-> TRUE, type |-> "bool", domain |-> "profile", menu |-> Missing,
     computed |-> NoText, available_if |-> NoText, visible_if |-> NoText, defaults |-> <<>>,
     suggestions |-> <<>>]
Menu(id) == [id |-> id, parent |-> Missing, order |-> id, visible_if |-> NoText, references |-> <<>>]
Choice(id) ==
    [id |-> id, member_type |-> "bool", members |-> <<1, 2>>, available_if |-> NoText,
     visible_if |-> NoText, defaults |-> <<>>]
Constraint(id) == [id |-> id, when |-> Constant, require |-> Expression(<<id>>), message |-> TRUE]
Default(member, priority, when) == [member |-> member, priority |-> priority, when |-> when]

Project(symbols_, menus_, choices_, constraints_) ==
    [symbols |-> symbols_, menus |-> menus_, choices |-> choices_, constraints |-> constraints_]

\* Declaration orders and numbers of conditions.
OrderProjects ==
    {Project([i \in 1..2 |->
                 [Option(IF swap THEN 3 - i ELSE i) EXCEPT
                     !.defaults = IF (i = 1) # swap THEN first ELSE <<Constant>>,
                     !.suggestions = IF i = 1 THEN <<Constant>> ELSE <<>>]],
             <<[Menu(1) EXCEPT !.visible_if = Both]>>,
             [i \in DOMAIN cs |-> [Choice(cs[i]) EXCEPT !.available_if = Constant,
                                                        !.defaults = ds[cs[i]]]],
             [i \in DOMAIN rules |-> Constraint(rules[i])]) :
        swap \in BOOLEAN, first \in {<<>>, <<OfTwo, Constant>>, <<Constant, OfTwo>>},
        cs \in Orders({1, 2}), rules \in Orders({1, 2}),
        ds \in [{1, 2} -> {<<>>, <<Default(1, 0, OfOne), Default(2, 1, Both)>>}]}

Defects == {OfOne, OfTwo, Expression(<<1, 9>>), [OfTwo EXCEPT !.ok = FALSE],
            [OfTwo EXCEPT !.type = "int"]}

\* One expression in each role, sound or not.
DefectProjects ==
    {Project(<<[Option(1) EXCEPT !.computed = t, !.domain = "computed"], Option(2)>>, <<>>, <<>>, <<>>) : t \in Defects} \cup
    {Project(<<[Option(1) EXCEPT !.available_if = t], Option(2)>>, <<>>, <<>>, <<>>) : t \in Defects} \cup
    {Project(<<[Option(1) EXCEPT !.visible_if = t], Option(2)>>, <<>>, <<>>, <<>>) : t \in Defects} \cup
    {Project(<<[Option(1) EXCEPT !.defaults = <<Constant, t>>], Option(2)>>, <<>>, <<>>, <<>>) :
        t \in Defects} \cup
    {Project(<<Option(2), [Option(1) EXCEPT !.suggestions = <<t>>]>>, <<>>, <<>>, <<>>) :
        t \in Defects} \cup
    {Project(<<Option(1), Option(2)>>, <<[Menu(1) EXCEPT !.visible_if = t]>>,
             <<[Choice(1) EXCEPT !.available_if = u, !.visible_if = t]>>,
             <<[Constraint(1) EXCEPT !.when = u, !.require = t, !.message = m]>>) :
        t \in Defects, u \in Defects, m \in BOOLEAN}

Members == Orders({1, 2, 3, 9}) \ {<<>>}

ChoiceProjects ==
    {Project(<<[Option(1) EXCEPT !.type = type],
               [Option(2) EXCEPT !.domain = domain]>>, <<>>,
             <<[Choice(3) EXCEPT !.members = members, !.defaults = defaults]>>, <<>>) :
        type \in {"bool", "tristate"}, domain \in {"profile", "target"}, members \in Members,
        defaults \in {<<Default(1, 0, when), Default(m, p, Constant)>> :
                         when \in {Constant, Both}, m \in {1, 2}, p \in {0, 1}}}

MenuProjects ==
    {Project(<<Option(1), Option(2)>>,
             [i \in 1..3 |-> LET id == IF swap THEN 4 - i ELSE i
                             IN [Menu(id) EXCEPT !.parent = parents[id], !.order = orders[id]]],
             <<>>, <<>>) :
        parents \in [1..3 -> {0, 1, 2, 3, 9}], orders \in [1..3 -> {0, 1}], swap \in BOOLEAN} \cup
    {Project(<<Option(1), [Option(2) EXCEPT !.menu = menu]>>,
             <<Menu(2), [Menu(1) EXCEPT !.references = rs]>>, <<>>, <<>>) :
        menu \in {0, 1, 2, 9},
        rs \in Lists({[option |-> o, read_only |-> r] : o \in {1, 2, 9}, r \in BOOLEAN}, 2)}

AllProjects == OrderProjects \cup DefectProjects \cup ChoiceProjects \cup MenuProjects
=============================================================================
