----------------------------- MODULE MCV1Editor -----------------------------
(***************************************************************************)
(* V1Editor for TLC: three options in two categories, one of them nested,  *)
(* a second schema without the nested one, and one with a single option.   *)
(***************************************************************************)
EXTENDS V1Editor

Opt(id, type, category, words, values) ==
    [id |-> id, type |-> type, category |-> category, tags |-> words, words |-> words,
     values |-> values]
Dep(kind, from, to) == [kind |-> kind, from |-> from, to |-> to]

Net == Opt("net", "bool", <<"core">>, {"x"}, {})
Tcp == Opt("tcp", "bool", <<"core", "ip">>, {"x"}, {})
Log == Opt("log", "int", <<"sys">>, {}, 0..1)
Mode == Opt("mode", "enum", <<"(uncategorized)">>, {}, {"fast", "small"})

Full == [options  |-> <<Net, Tcp, Log>>,
         deps     |-> {Dep("requires", "tcp", "net"), Dep("conflicts", "log", "tcp")},
         defaults |-> <<<<"net", "0">>, <<"tcp", "0">>, <<"log", "0">>>>,
         targets  |-> [t |-> <<<<"net", "1">>>>]]
Small == [options  |-> <<Log, Net>>,
          deps     |-> {Dep("visible_if", "log", "net"), Dep("forces", "log", "net")},
          defaults |-> <<<<"net", "1">>, <<"log", "0">>>>,
          targets  |-> [t |-> <<>>]]
Tiny == [options |-> <<Mode>>, deps |-> {}, defaults |-> <<<<"mode", "fast">>>>,
         targets |-> [t |-> <<>>]]
MCSchemas == {Full, Small, Tiny}


Derived == File("base", None, <<<<"net", "0">>, <<"log", "1">>, <<"net", "1">>>>)
BaseFile == File(None, "t", <<<<"log", "1">>>>)
Disk(layout, path, file, base, schema) ==
    [x \in Paths \cup {"base", "schema", "layout"} |->
        CASE x = path -> file [] x = "base" -> base [] x = "schema" -> schema
          [] x = "layout" -> layout [] OTHER -> Absent]

\* A profile with a base, a new profile, the flat layout, and a profile in a
\* file of another name.
MCDisks == {
    Disk("nested", "config/p", Derived, BaseFile, Full),
    Disk("nested", "root/p", File(None, None, <<>>), Absent, Tiny),
    Disk("flat", "root/p", File(None, None, <<>>), Absent, Tiny),
    Disk("nested", "config/other", File("base", None, <<>>), BaseFile, Small)}
MCChanges == {[path |-> "schema", content |-> Small], [path |-> "base", content |-> Absent]}
MCTexts == {"", "x"}
MCTyped == 0..2
MCTags == {""}
MCCategories == {<<>>}
=============================================================================
