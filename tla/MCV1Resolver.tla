---------------------------- MODULE MCV1Resolver ----------------------------
(***************************************************************************)
(* Version 1 projects of up to three options, in families that each vary   *)
(* one part of the files.                                                  *)
(***************************************************************************)
EXTENDS V1Resolver

Doc(lines) == [ok |-> TRUE, lines |-> lines]
Broken1 == [ok |-> FALSE, lines |-> <<>>]

Valid == {"p.a", "p.b", "p.i", "p.old", "q.x"}
InProject == Valid \ {"q.x"}
Depths == [x \in {"one", "four/deep", "/bad"} |->
              CASE x = "one" -> 1 [] x = "four/deep" -> 4 [] OTHER -> 0]
GoodOutputs == {"out", "out2"}

ProjectDoc == Doc(<<Header("project", FALSE), Entry("name", <<Str("p")>>),
                    Entry("schema_version", <<Num(1)>>),
                    Entry("imports", <<Str("f1"), Str("f2")>>)>>)

BoolOption(id, fields) ==
    <<Header(id, TRUE), Entry("type", <<Str("bool")>>),
      Entry("default", <<Truth(0)>>)>> \o fields

NoRequest == [profile |-> Null, target |-> Null, user |-> <<>>]

Input(f1, f2, selections, profiles, targets, request) ==
    [place |-> "root", project |-> [root |-> ProjectDoc, config |-> Broken1],
     files |-> [f1 |-> Doc(f1), f2 |-> Doc(f2)],
     selections |-> selections, profiles |-> profiles, targets |-> targets,
     internal |-> {"p.i"}, request |-> request]

SeqsUpTo(S, n) == UNION {[1..k -> S] : k \in 0..n}

\* Lines of one option in any order, and repeated.
OptionLines ==
    {Entry("type", <<Str(t)>>) : t \in {"int", "uint", "enum", "bool", "none"}}
    \cup {Entry("default", <<x>>) : x \in {Num(1), Num(-1), Str("x"), Truth(1), Junk}}
    \cup {Entry("range", <<Num(0), Num(2)>>), Entry("range", <<Num(2), Num(0)>>),
          Entry("choices", <<Str("y")>>), Entry("unknown", <<>>)}
OptionFamily ==
    {Input(<<Header("p.a", TRUE)>> \o ls, <<>>, <<>>, <<>>, <<>>, NoRequest) :
        ls \in SeqsUpTo(OptionLines, 3)}

\* The other types, and values under them, with integers at the end of their width.
TypedFamily ==
    {Input(<<Header("p.a", TRUE), Entry("type", <<Str(t)>>)>> \o r, <<>>, <<>>,
           <<Doc(<<Header("profile", FALSE), Entry("name", <<Str("one")>>),
                   Entry("schema_version", <<Num(1)>>), Header("values", FALSE),
                   Assign("p.a", x)>> \o y)>>, <<>>,
           [NoRequest EXCEPT !.profile = "one"]) :
        t \in Types, r \in {<<>>} \cup {<<Entry("range", <<Num(low), Num(2)>>)>> : low \in {-2, 0}},
        x \in {Num(-8), Num(2), Num(7), Num(18), Str("x"), Truth(0), [Num(1) EXCEPT !.q = "hex"]},
        y \in {<<>>, <<Entry("p.a", <<Num(1)>>)>>}}

\* Metadata of two options.
MetaLines ==
    {Entry("deprecated_aliases", <<Str(x)>>) : x \in {"p.old", "p.b", "no id"}}
    \cup {Entry("stability", <<Str(x)>>) : x \in {"stable", "deprecated", "odd"}}
    \cup {Entry("category", <<Str(x)>>) : x \in {"", "one", "four/deep", "/bad"}}
    \cup {Entry("replaced_by", <<Str(x)>>) : x \in {"p.a", "p.b"}}
    \cup {Entry("deprecated", <<Truth(1)>>), Entry("owner", <<Str("me")>>),
          Entry("since", <<Str("1")>>), Entry("emit", <<Str("header")>>),
          Entry("emit", <<>>), Entry("emit", <<Str("header"), Str("header")>>),
          Entry("x_note", <<Junk>>), Entry("help", <<Str("h")>>)}
MetaFamily ==
    {Input(BoolOption("p.a", ls), BoolOption(id, more), <<>>, <<>>, <<>>, NoRequest) :
        ls \in SeqsUpTo(MetaLines, 2), id \in {"p.b"},
        more \in {<<>>, <<Entry("deprecated_aliases", <<Str("p.old")>>)>>}}
    \cup {Input(BoolOption("p.a", <<>>), BoolOption(id, <<>>), <<>>, <<>>, <<>>, NoRequest) :
            id \in {"p.a", "q.x", "no id"}}

\* Selection templates.
SelectionLines ==
    {Header("selection", FALSE), Header("sec", TRUE), Header("odd", FALSE),
     Entry("schema", <<Str("template-v1")>>), Entry("output", <<Str("out")>>),
     Entry("output", <<Str("-")>>), Entry("f", <<Str("p.a")>>), Entry("f", <<Str("p.b")>>),
     Entry("f", <<Str("q.x")>>), Entry("x_note", <<>>)}
Template(output) ==
    <<Header("selection", FALSE), Entry("schema", <<Str("template-v1")>>),
      Entry("output", <<Str(output)>>), Header("sec", TRUE), Entry("f", <<Str("p.a")>>)>>
SelectionFamily ==
    {Input(BoolOption("p.a", <<>>),
           BoolOption("p.b", <<Entry("emit", <<Str("header")>>)>>),
           <<Doc(SubSeq(Template("out"), 1, k) \o ls), Doc(Template("out2"))>>,
           <<>>, <<>>, NoRequest) :
        k \in {0, 2, 3, 4, 5}, ls \in SeqsUpTo(SelectionLines, 2)}

\* Dependency graphs: up to two edges of any kind, or three of one kind.
Option3(deps) == \* deps: sequence of [from, kind, to]
    LET of(id) == LET mine == SelectSeq(deps, LAMBDA d : d.from = id)
                  IN  [i \in DOMAIN mine |-> Entry(mine[i].kind, <<Str(mine[i].to)>>)]
    IN  BoolOption("p.a", of("p.a") \o <<Entry("prompt", <<Str("A")>>)>>)
        \o BoolOption("p.b", of("p.b")) \o BoolOption("p.i", of("p.i"))
On(id) == [id |-> id, value |-> MakeValue("bool", 1, "")]
GraphFamily ==
    {Input(Option3(deps), <<>>, <<>>, <<>>, <<>>, [NoRequest EXCEPT !.user = u]) :
        u \in {<<On("p.a")>>},
        deps \in SeqsUpTo([from : {"p.a", "p.b", "p.i"}, kind : DependencyKinds,
                           to : {"p.a", "p.b", "p.i"}], 2)
                 \cup [1..3 -> [from : {"p.a", "p.b", "p.i"}, kind : {"requires"},
                                to : {"p.a", "p.b", "p.i"}]]}
    \cup {Input(Option3(<<[from |-> "p.a", kind |-> k, to |-> x]>>), <<>>, <<>>, <<>>, <<>>,
                [NoRequest EXCEPT !.user = u]) :
            k \in {"requires", "conflicts"}, x \in {"p.b", "p.old"},
            u \in SeqsUpTo({On("p.a"), On("p.b"), On("q.x"),
                            [id |-> "p.b", value |-> MakeValue("int", 1, "")]}, 2)}

\* Profiles, targets and requests.
ProfileDoc(name, base, target, values) ==
    Doc(<<Header("profile", FALSE), Entry("schema_version", <<Num(1)>>),
          Entry("name", <<Str(name)>>)>>
        \o (IF base = Null THEN <<>> ELSE <<Entry("base", <<Str(base)>>)>>)
        \o (IF target = Null THEN <<>> ELSE <<Entry("target", <<Str(target)>>)>>)
        \o <<Header("values", FALSE)>> \o values)
TargetDoc(name, values) ==
    Doc(<<Header("target", FALSE), Entry("schema_version", <<Num(1)>>),
          Entry("name", <<Str(name)>>), Entry("arch", <<Str("x")>>), Header("claim", FALSE),
          Entry("level", <<Str("l")>>), Header("values", FALSE)>> \o values)
NumOption(id, more) == <<Header(id, TRUE), Entry("type", <<Str("uint")>>)>> \o more
ChainFamily ==
    {Input(NumOption("p.a", <<Entry("deprecated_aliases", <<Str("p.old")>>)>>), <<>>, <<>>,
           <<ProfileDoc("one", b1, t1, v1),
             ProfileDoc("two", b2, t2, <<Assign("p.old", Num(2)), Assign("p.a", Num(3))>>),
             ProfileDoc("three", Null, "t1", v3)>>,
           <<TargetDoc("t1", <<Assign("p.a", Num(4))>>), TargetDoc("t2", <<Assign("p.a", Num(5))>>)>>,
           [profile |-> sel, target |-> t, user |-> <<>>]) :
        b1 \in {Null, "two", "one", "four"}, b2 \in {Null, "one", "three"},
        t1 \in {Null, "t2"}, t2 \in {Null, "t1", "t9"},
        v3 \in {<<>>, <<Assign("p.a", Num(6))>>}, v1 \in {<<>>, <<Assign("p.a", Num(1))>>},
        sel \in {Null, "one", "two", "none"}, t \in {Null, "t2", "t9"}}

\* Broken documents, and lines out of place.
MemberLines ==
    {Header("profile", FALSE), Header("target", FALSE), Header("claim", FALSE),
     Header("values", FALSE), Entry("name", <<Str("one")>>), Entry("odd", <<>>),
     Entry("schema_version", <<Num(2)>>), Assign("p.a", Num(9)), Assign("p.z", Num(1)),
     Entry("level", <<Str("x")>>), Entry("x_note", <<>>)}
MemberFamily ==
    {Input(NumOption("p.a", <<>>), <<>>, <<>>, <<Doc(ls)>>, <<>>, NoRequest) :
        ls \in SeqsUpTo(MemberLines, 2)}
    \cup {Input(NumOption("p.a", <<>>), <<>>, <<>>, <<>>, <<Doc(ls)>>, NoRequest) :
            ls \in SeqsUpTo(MemberLines, 2)}
    \cup {Input(NumOption("p.a", <<>>), <<>>, <<>>, <<ProfileDoc("one", Null, Null, <<>>),
                ProfileDoc(x, Null, Null, <<>>)>>,
                <<TargetDoc("t", <<>>), TargetDoc(y, <<>>)>>, NoRequest) :
            x \in {"one", "two"}, y \in {"t", "u"}}
ProjectLines ==
    {Header("project", FALSE), Header("odd", FALSE), Entry("name", <<Str("p")>>),
     Entry("version", <<Str("v")>>), Entry("schema_version", <<Num(1)>>),
     Entry("schema_version", <<Num(2)>>), Entry("odd", <<>>), Entry("x_note", <<>>)}
ProjectFamily ==
    {[Input(<<>>, <<>>, <<>>, <<>>, <<>>, NoRequest) EXCEPT
        !.project = [root |-> Broken1, config |-> Doc(ls)]] : ls \in SeqsUpTo(ProjectLines, 3)}
    \cup {[Input(NumOption("p.a", <<>>), <<>>, <<>>, <<>>, <<>>, NoRequest) EXCEPT
             !.project = [root |-> r, config |-> Broken1],
             !.files = [f1 |-> d, f2 |-> e]] :
            r \in {Broken1, ProjectDoc}, d \in {Broken1, Doc(<<>>)},
            e \in {Doc(<<Entry("type", <<Str("int")>>)>>), Doc(<<Header("odd", FALSE)>>),
                   Doc(<<Header("odd", FALSE), Entry("type", <<Str("int")>>)>>),
                   Doc(<<Header("p.a", TRUE), Header("p.b", TRUE)>>)}}

AllInputs == {OptionFamily, TypedFamily, MetaFamily, SelectionFamily, GraphFamily,
              ChainFamily, MemberFamily, ProjectFamily}
=============================================================================
