---------------------------- MODULE MCSchemaLoad ----------------------------
(***************************************************************************)
(* Three files, one of them with two spellings.  ImportInputs: every way   *)
(* to import them with up to two statements per document.  DeclareInputs:  *)
(* up to two declarations per file on a few trees, bad paths and documents *)
(* included.                                                               *)
(***************************************************************************)
EXTENDS SchemaLoad

SomeFiles == {"a", "b", "c"}
SomePaths == {"a.toml", "./a", "b.toml", "c.toml", "/x", "gone", "up"}
SomeCanonical ==
    [p \in SomePaths |->
        CASE p \in {"a.toml", "./a"} -> "a"
          [] p = "b.toml" -> "b"
          [] p = "c.toml" -> "c"
          [] p = "/x" -> "invalid_path"
          [] p = "gone" -> "missing_file"
          [] p = "up" -> "outside_root"]

Lists(S, n) == UNION {[1..len -> S] : len \in 0..n}
Plain == {"a.toml", "./a", "b.toml", "c.toml"}

Input(root, a, b, c, declares, readable, project) ==
    [root |-> root, imports |-> [f \in File |-> CASE f = "a" -> a [] f = "b" -> b [] f = "c" -> c],
     declares |-> declares, readable |-> readable, project |-> project]

One(id) == <<[kind |-> "option", id |-> id, defect |-> "none"]>>
AllReadable == [f \in File |-> TRUE]

ImportInputs ==
    {Input(root, a, b, c, [f \in File |-> One(f)], AllReadable, TRUE) :
        root \in Lists(Plain, 2), a \in Lists(Plain, 2), b \in Lists(Plain, 1),
        c \in Lists(Plain, 1)}

SomeDeclarations ==
    {[kind |-> k, id |-> i, defect |-> "none"] : k \in {"option", "menu"}, i \in {"x", "y"}} \cup
    {[kind |-> "choice", id |-> "x", defect |-> d] : d \in {"none", "body"}} \cup
    {[kind |-> "constraint", id |-> "x", defect |-> d] : d \in {"none", "head", "body"}}

Order(kind) == CASE kind = "option" -> 1 [] kind = "menu" -> 2 [] kind = "choice" -> 3
                 [] kind = "constraint" -> 4

\* Kinds come in this order, and the keys of a table are distinct already.
Documents ==
    {s \in Lists(SomeDeclarations, 2) : \A i, j \in DOMAIN s :
        i < j => /\ Order(s[i].kind) <= Order(s[j].kind)
                 /\ s[i].kind # "constraint" /\ s[i].kind = s[j].kind => s[i].id # s[j].id}

DeclareInputs ==
    {Input(root, a, <<>>, <<>>, [f \in File |-> IF f = "a" THEN da ELSE IF f = "b" THEN db ELSE <<>>],
           AllReadable, TRUE) :
        root \in {<<"a.toml">>, <<"a.toml", "b.toml">>}, a \in {<<>>, <<"b.toml">>},
        da \in Documents, db \in Documents} \cup
    {Input(root, a, <<>>, <<>>, [f \in File |-> One(f)], readable, project) :
        root \in Lists(Path, 1), a \in Lists(Path, 1), readable \in [File -> BOOLEAN],
        project \in BOOLEAN}

AllInputs == ImportInputs \cup DeclareInputs
=============================================================================
