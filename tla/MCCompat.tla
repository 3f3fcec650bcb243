------------------------------ MODULE MCCompat ------------------------------
(***************************************************************************)
(* Inputs for TLC: version 1 directories of two documents put together     *)
(* from pieces of text, version 2 suites of two constraints over two       *)
(* projects, aliases whose joined names collide, and projects of every     *)
(* mixture of versions.                                                    *)
(***************************************************************************)
EXTENDS Compat

MCWidth == 3

\* Version 1 documents.
Header(key) == [t |-> "header", key |-> key]
Line(key, value) == [t |-> "field", key |-> key, value |-> value]
Literal(form, negative, digits) == [form |-> form, negative |-> negative, digits |-> digits]
On == Literal("bool", FALSE, 1)
If(option, literal) == [option |-> option, equals |-> literal]
Assertion(when, key, condition) ==
    <<Header("assert"), Line("when", when), Line(key, condition), Line("message", "m")>>

Pieces == {
    Assertion(If("o", On), "requires", If("p", Literal("number", FALSE, 1))),
    Assertion(If("o", On), "forbids", If("p", Literal("number", TRUE, 1))),
    Assertion(If("p", Literal("number", FALSE, 9)), "forbids", If("x", On)),
    Assertion(If("q", Literal("quoted", FALSE, 0)), "forbids", If("o", On)),
    Assertion(If("o", On), "requires", If("p", On)) \o <<Line("forbids", If("o", On))>>,
    <<Line("message", "m")>>,
    <<Header("compat"), Line("name", "n")>>,
    <<Header("compat"), Line("message", "k")>>,
    <<Header("assert"), Line("when", If("o", On))>>,
    <<Header("assert"), Line("when", If("o", Literal("word", FALSE, 0)))>>,
    <<Header("other")>>}

Documents == {<<>>} \cup Pieces \cup {a \o b : a, b \in Pieces}
NoSuite == [header |-> FALSE, aliases |-> <<>>, constraints |-> <<>>]

V1Value(kind, v) == [kind |-> kind, v |-> v]
V1Project(alias, values) == [alias |-> alias, version |-> 1, loads |-> TRUE, values |-> values]
Parus1 == {V1Project(<<2>>, [o |-> V1Value("bool", b), p |-> P]) :
              b \in {0, 1}, P \in {V1Value("uint", 1), V1Value("int", -1), V1Value("int", 1)}}
Delos1 == {V1Project(<<1>>, [o |-> V1Value("bool", 1), q |-> Q]) :
              Q \in {V1Value("enum", 0), V1Value("float", 0)}}

V1Inputs == {[projects |-> <<a, b>>, files |-> <<d, e>>, suite |-> NoSuite] :
                a \in Parus1, b \in Delos1, d \in Documents, e \in {<<>>} \cup Pieces}

\* Version 2 suites.
Ref(alias, id) == [alias |-> alias, id |-> id]
Expr(op, args) == [op |-> op, args |-> args]
A == Ref(<<2>>, <<3>>)
B == Ref(<<1>>, <<3>>)
C == Ref(<<1>>, <<4>>)
Whens == {<<>>, <<Expr("defined", <<C>>)>>, <<Expr("not", <<A>>)>>,
          <<Expr("ref", <<Ref(<<1>>, <<9>>)>>)>>}
Conditions == {Expr("ref", <<B>>), Expr("and", <<A, B>>), Expr("and", <<B, A>>), Expr("ref", <<C>>)}
Constraint(id, when, require, forbid) ==
    [id |-> id, message |-> TRUE, when |-> when, require |-> require, forbid |-> forbid]
Firsts == {Constraint(2, w, <<c>>, <<>>) : w \in Whens, c \in Conditions}
Seconds == {Constraint(1, <<Expr("not", <<A>>)>>, <<>>, <<c>>) : c \in Conditions}
           \cup {Constraint(2, <<>>, <<Expr("ref", <<A>>)>>, <<>>),
                 Constraint(3, <<>>, <<Expr("ref", <<A>>)>>, <<Expr("ref", <<A>>)>>),
                 Constraint(0, <<>>, <<Expr("ref", <<A>>)>>, <<>>)}
Suites == {[header |-> TRUE, aliases |-> l, constraints |-> <<c, d>>] :
              l \in {<<<<1>>, <<2>>>>, <<<<1>>>>, <<<<>>, <<2>>>>}, c \in Firsts, d \in Seconds}

V2Value(type, v) == [type |-> type, value |-> v]
V2Project(alias, values) == [alias |-> alias, version |-> 2, loads |-> TRUE, values |-> values]
V2Values == {V2Value("bool", v) : v \in {"y", "n", Unset}}
V2Inputs ==
    {[projects |-> <<V2Project(<<2>>, [i \in {<<3>>} |-> a]),
                     V2Project(<<1>>, [i \in {<<3>>, <<4>>} |-> IF i = <<3>> THEN b ELSE c])>>,
      files |-> <<>>, suite |-> s] :
        a \in V2Values, b \in V2Values, c \in {V2Value("bool", Unset), V2Value("int", "y")},
        s \in Suites}

\* The option 2__3 of project 1 and the option 3 of project 1__2.
Colliding ==
    {[projects |-> <<V2Project(<<1>>, [i \in {<<2, 0, 3>>} |-> V2Value("bool", a)]),
                     V2Project(<<1, 0, 2>>, [i \in {<<3>>} |-> V2Value("bool", b)])>>,
      files |-> <<>>,
      suite |-> [header |-> TRUE, aliases |-> <<<<1>>, <<1, 0, 2>>>>,
                 constraints |-> <<Constraint(1, <<>>, <<Expr("ref", <<r>>)>>, <<>>)>>]] :
        a, b \in {"y", "n"}, r \in {Ref(<<1>>, <<2, 0, 3>>), Ref(<<1, 0, 2>>, <<3>>)}}

\* A reference to the option 2__3 that project 1 does not have.
Captures ==
    {[projects |-> <<V2Project(<<1>>, [i \in {<<4>>} |-> V2Value("bool", a)]),
                     V2Project(<<1, 0, 2>>, [i \in {<<3>>} |-> V2Value("bool", b)])>>,
      files |-> <<>>,
      suite |-> [header |-> TRUE, aliases |-> <<<<1>>, <<1, 0, 2>>>>,
                 constraints |-> <<Constraint(1, w, <<Expr("ref", <<Ref(<<1>>, <<2, 0, 3>>)>>)>>, <<>>)>>]] :
        a, b \in {"y", "n"}, w \in {<<>>, <<Expr("ref", <<Ref(<<1>>, <<4>>)>>)>>}}

\* Dispatch: any two versions, and projects that do not resolve.
OtherInputs ==
    {[projects |-> <<[alias |-> <<2>>, version |-> v, loads |-> l, values |-> <<>>],
                     [alias |-> <<1>>, version |-> w, loads |-> TRUE, values |-> <<>>]>>,
      files |-> <<>>, suite |-> NoSuite] : v, w \in 0..2, l \in BOOLEAN}

MCInputs == {V1Inputs, V2Inputs, Colliding, Captures, OtherInputs}
MCCaptures == {Captures}
=============================================================================
