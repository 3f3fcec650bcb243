------------------------------ MODULE MCLedger ------------------------------
(***************************************************************************)
(* Three families of inputs: every base graph of three profiles with every *)
(* mix of value, unset and nothing for one option; every small document,   *)
(* right or wrong; every way to name a target, with two target files.      *)
(***************************************************************************)
EXTENDS Ledger

Opt(domain, user_override, required, default) ==
    [domain |-> domain, user_override |-> user_override, required |-> required,
     default |-> default]

WithDefault ==
    "p" :> Opt("profile", TRUE, FALSE, "v1")
    @@ "r" :> Opt("profile", FALSE, TRUE, "v1")
    @@ "t" :> Opt("target", TRUE, FALSE, None)
    @@ "c" :> Opt("computed", FALSE, FALSE, None)
    @@ "q" :> Opt("profile", FALSE, FALSE, None)
    @@ "s" :> Opt("schema", TRUE, FALSE, "v1")

WithoutDefault == [WithDefault EXCEPT !["p"].default = None]

OptionIds == <<"c", "p", "q", "r", "s", "t">>

Set(o, v) == [option |-> o, value |-> v]

Document(name, base, target_, values, unset) ==
    [name |-> name, base |-> base, target |-> target_, values |-> values, unset |-> unset]

Input(options, profiles, targets, profile_name, target_name, default_target,
      transaction, user) ==
    [options |-> options, files |-> [profile |-> profiles, target |-> targets],
     profile_name |-> profile_name, target_name |-> target_name,
     default_target |-> default_target, transaction |-> transaction, user |-> user]

Bodies(v) == {<< << >>, << >> >>, << <<Set("p", v)>>, << >> >>, << << >>, <<"p">> >>,
              << <<Set("r", v), Set("p", v)>>, << >> >>}

ChainInputs ==
    {Input(options,
           <<Document("A", base[1], None, b1[1], b1[2]),
             Document("B", base[2], None, b2[1], b2[2]),
             Document("C", base[3], None, b3[1], b3[2])>>,
           << >>, "A", None, None, overrides[1], overrides[2]) :
        options \in {WithDefault, WithoutDefault},
        base \in [1..3 -> {None, "A", "B", "C", "ghost"}],
        b1 \in Bodies("v1"), b2 \in Bodies("v2"), b3 \in {<< <<Set("p", "v3")>>, << >> >>},
        overrides \in {<< << >>, << >> >>, << <<Set("p", "v4")>>, << >> >>,
                       << <<Set("p", "v4")>>, <<Set("p", "v5")>> >>}}

Lists(S, n) == UNION {[1..k -> S] : k \in 0..n}

\* A TOML table has no duplicate keys; an array may repeat an item.
Tables ==
    {l \in Lists({Set(o, v) : o \in {"p", "r", "t", "c", "ghost"}, v \in {"v1", Invalid}}, 2) :
        \A i, j \in DOMAIN l : l[i].option = l[j].option => i = j}
    \cup {<<Set("p", "v1"), Set("r", "v2"), Set("q", "v1")>>}

SingleInputs ==
    {Input(WithDefault, profiles, << >>, "A", None, None, << >>, << >>) :
        profiles \in {<<Document("A", None, None, values, unset)>> :
                        values \in Tables, unset \in Lists({"p", "r", "t", "s"}, 2)}}

Transactions(n) ==
    Lists({Set("p", "v1"), Set("r", "v2"), Set("t", "v1"), Set("c", "v1"), Set("p", Invalid)}, n)

Users(n) ==
    Lists({Set("p", "v2"), Set("r", "v2"), Set("s", "v2"), Set("t", "v3"), Set("ghost", "v1"),
           Set("t", Invalid)}, n)

Overriding(transactions, users) ==
    {Input(WithDefault, profiles, << >>, profile, None, None, transaction, user) :
        profiles \in {<<Document("A", None, None, << >>, << >>)>>,
                      <<Document("A", None, None, << >>, << >>),
                        Document("A", None, None, << >>, << >>)>>},
        profile \in {None, "A"}, transaction \in transactions, user \in users}

OverrideInputs == Overriding(Transactions(2), Users(1)) \cup Overriding(Transactions(1), Users(2))

TargetInputs ==
    {Input(WithDefault,
           <<Document("A", base, profileTarget, << >>, << >>),
             Document("B", None, baseTarget, << >>, << >>)>>,
           <<Document("X", targetBase, None, <<Set("t", "v1")>>, << >>),
             Document("Y", targetBase2, None, body[1], body[2])>>,
           profile, explicit, default, << >>, user) :
        base \in {None, "B"},
        profileTarget \in {None, "X", "Y", "ghost"},
        baseTarget \in {None, "Y"},
        targetBase \in {None, "Y"}, targetBase2 \in {None, "X"},
        body \in {<< <<Set("t", "v2")>>, << >> >>, << << >>, <<"t">> >>,
                  << <<Set("p", "v2")>>, << >> >>,
                  << <<Set("t", "v2"), Set("ghost", "v2")>>, << >> >>},
        profile \in {None, "A", "ghost"},
        explicit \in {None, "X", "Y"},
        default \in {None, "X"},
        user \in {<< >>, <<Set("t", "v3")>>}}

AllInputs == {ChainInputs, SingleInputs, OverrideInputs, TargetInputs}
=============================================================================
