------------------------------- MODULE Ledger -------------------------------
(***************************************************************************)
(* confit_v2_assignment_ledger_build of resolver/v2/plan.c with the input  *)
(* catalogs of resolver/v2/input_loader.c: which of the schema, the        *)
(* target and profile files with their base chains, the edits of a profile *)
(* transaction and the command line sets each option.                      *)
(*                                                                         *)
(* One step parses one file, follows one base, or appends the entries of   *)
(* one source; the first failure discards the ledger.  A value is a model  *)
(* value, or Invalid when parsing or validation refuses it.                *)
(***************************************************************************)
EXTENDS Integers, Sequences, SequencesExt

CONSTANTS
    Symbols,  \* project->symbols, the ids the schema declares, in order
    Inputs,   \* families of what a build starts from, see IsInput
    Stride,   \* entries one document may have, 1000000 in the code
    SizeMax   \* SIZE_MAX

None == "none"
Invalid == "invalid"
Kind == {"profile", "target"}

\* Files may also name ids that are not options.
Option == Range(Symbols)

ASSUME StrideAssumption == Stride \in Nat \ {0} /\ SizeMax \in Nat
ASSUME SymbolsAssumption == Symbols \in Seq(Option) /\ None \notin Option

\* An input: options [Option -> [domain, user_override, required, default]],
\* files [Kind -> sequence of documents], and the ConfitV2LedgerOptions.  A
\* document has a name, a base, a target (profiles only), the table values as
\* a sequence of [option, value] and the list unset of options.  Nothing is said
\* of whether names are known or requests allowed; only that a directory holds
\* fewer files than SIZE_MAX / 1000000, past which orders wrap.
IsInput(x) ==
    /\ \A o \in Option : {x.options[o].user_override, x.options[o].required} \subseteq BOOLEAN
    /\ \A k \in Kind :
          /\ x.files[k] \in Seq(Range(x.files[k]))
          /\ Len(x.files[k]) <= SizeMax \div Stride
          /\ \A file \in Range(x.files[k]) :
                /\ file.name \notin {None, "unknown"}
                /\ file.values \in Seq(Range(file.values))
                /\ file.unset \in Seq(Range(file.unset))
    /\ x.transaction \in Seq(Range(x.transaction))
    /\ x.user \in Seq(Range(x.user))

ASSUME InputsAssumption == \A family \in Inputs : \A x \in family : IsInput(x)

VARIABLES
    input,
    stage,     \* what confit_v2_assignment_ledger_build is doing ...
    kind,      \* ... and whether for the profile or the target
    at,        \* the file being loaded
    catalog,   \* [Kind -> documents loaded]
    cursor,    \* the name the chain walk is at, None past the root
    reversed,  \* documents of the chain so far, leaf first
    chain,     \* [Kind -> documents, root first]
    target,    \* the selected target name
    entries,   \* ledger->entries
    winner,    \* [Option -> the entry that wins, or NoEntry]
    error

vars == <<input, stage, kind, at, catalog, cursor, reversed, chain, target, entries,
          winner, error>>

Entry(o, value, unset, origin, precedence, order) ==
    [option |-> o, value |-> value, unset |-> unset, origin |-> origin,
     precedence |-> precedence, order |-> order]

NoEntry == Entry(None, None, FALSE, None, 0, 0)

Init ==
    /\ \E family \in Inputs : input \in family
    /\ stage = "load"
    /\ kind = "profile"
    /\ at = 1
    /\ catalog = [k \in Kind |-> << >>]
    /\ cursor = None
    /\ reversed = << >>
    /\ chain = [k \in Kind |-> << >>]
    /\ target = None
    /\ entries = << >>
    /\ winner = [o \in Option |-> NoEntry]
    /\ error = None

Fail(reason) ==
    /\ stage' = "failed"
    /\ error' = reason
    /\ catalog' = [k \in Kind |-> << >>]
    /\ chain' = [k \in Kind |-> << >>]
    /\ entries' = << >>
    /\ winner' = [o \in Option |-> NoEntry]
    /\ UNCHANGED <<input, kind, at, cursor, reversed, target>>
-----------------------------------------------------------------------------
(* Writers.                                                                *)

\* Mutant of ValidateWrite: nobody checks who owns the option.
ValidateWriteOpen(o, writer) ==
    IF o \notin Option THEN "unknown_option"
    ELSE IF input.options[o].domain = "computed" THEN "computed_write"
    ELSE "ok"

\* confit_v2_linked_project_validate_write for the writers a ledger has.
ValidateWrite(o, writer) ==
    IF o \notin Option THEN "unknown_option"
    ELSE IF input.options[o].domain = "computed" THEN "computed_write"
    ELSE IF \/ writer \in Kind /\ input.options[o].domain = writer
            \/ writer = "user" /\ input.options[o].domain \in Kind
                               /\ input.options[o].user_override
    THEN "ok"
    ELSE "domain"

\* A request of a document: a value for an option, or its removal.
AssignmentStatus(a, earlier) ==
    LET write == ValidateWrite(a.option, kind) IN
    IF write # "ok" THEN write
    ELSE IF a.unset /\ input.options[a.option].required THEN "required_unset"
    ELSE IF ~a.unset /\ a.value = Invalid THEN "value"
    ELSE IF \E i \in DOMAIN earlier : earlier[i].option = a.option THEN "duplicate"
    ELSE "ok"

\* The assignments of a file in the order parse_document appends them.
Assignments(file) ==
    [i \in DOMAIN file.values |->
        [option |-> file.values[i].option, value |-> file.values[i].value, unset |-> FALSE]]
    \o [i \in DOMAIN file.unset |->
        [option |-> file.unset[i], value |-> None, unset |-> TRUE]]

\* What is wrong with the first wrong assignment of a file, "ok" if none is.
DocumentStatus(file) ==
    LET list == Assignments(file)
        result(i) == AssignmentStatus(list[i], SubSeq(list, 1, i - 1))
        wrong == {i \in DOMAIN list : result(i) # "ok"}
    IN  IF wrong = {} THEN "ok"
        ELSE result(CHOOSE i \in wrong : \A j \in wrong : i <= j)
-----------------------------------------------------------------------------
(* confit_v2_input_catalog_load: profiles first, then targets.             *)

LoadDocument ==
    /\ stage = "load"
    /\ at <= Len(input.files[kind])
    /\ LET file == input.files[kind][at]
           status == DocumentStatus(file)
       IN  IF status # "ok" THEN Fail(status)
           ELSE IF \E i \in DOMAIN catalog[kind] : catalog[kind][i].name = file.name
           THEN Fail("duplicate_name")
           ELSE /\ catalog' = [catalog EXCEPT ![kind] = Append(@, file)]
                /\ at' = at + 1
                /\ UNCHANGED <<input, stage, kind, cursor, reversed, chain, target, entries,
                               winner, error>>

EndLoad ==
    /\ stage = "load"
    /\ at > Len(input.files[kind])
    /\ at' = 1
    /\ IF kind = "profile"
       THEN /\ kind' = "target"
            /\ UNCHANGED stage
       ELSE /\ kind' = "profile"
            /\ stage' = IF input.profile_name = None THEN "select" ELSE "find"
    /\ UNCHANGED <<input, catalog, cursor, reversed, chain, target, entries, winner, error>>
-----------------------------------------------------------------------------
(* confit_v2_input_catalog_build_chain, for the profile and then for the   *)
(* target.                                                                 *)

Known(name) == \E i \in DOMAIN catalog[kind] : catalog[kind][i].name = name

\* confit_v2_input_catalog_find: the first document of that name.
Find(name) ==
    catalog[kind][CHOOSE i \in DOMAIN catalog[kind] :
                    /\ catalog[kind][i].name = name
                    /\ \A j \in 1..(i - 1) : catalog[kind][j].name # name]

Leaf == IF kind = "profile" THEN input.profile_name ELSE target

FindLeaf ==
    /\ stage = "find"
    /\ IF ~Known(Leaf) THEN Fail("unknown_name")
       ELSE /\ cursor' = Leaf
            /\ reversed' = << >>
            /\ stage' = "walk"
            /\ UNCHANGED <<input, kind, at, catalog, chain, target, entries, winner, error>>

WalkChain ==
    /\ stage = "walk"
    /\ cursor # None
    /\ LET document == Find(cursor) IN
       IF \E i \in DOMAIN reversed : reversed[i] = document THEN Fail("cycle")
       ELSE IF Len(reversed) = Len(catalog[kind]) THEN Fail("chain_internal")
       ELSE IF document.base # None /\ ~Known(document.base) THEN Fail("unknown_name")
       ELSE /\ reversed' = Append(reversed, document)
            /\ cursor' = document.base
            /\ UNCHANGED <<input, stage, kind, at, catalog, chain, target, entries, winner, error>>

EndWalkAnyTarget ==
    /\ stage = "walk"
    /\ cursor = None
    /\ chain' = [chain EXCEPT ![kind] = Reverse(reversed)]
    /\ stage' = IF kind = "profile" THEN "select" ELSE "defaults"
    /\ UNCHANGED <<input, kind, at, catalog, cursor, reversed, target, entries, winner, error>>

\* Past the root: the chain is turned round, and no profile but the leaf may
\* name a target.
EndWalk ==
    /\ stage = "walk"
    /\ cursor = None
    /\ IF kind = "profile" /\ \E i \in 2..Len(reversed) : reversed[i].target # None
       THEN Fail("base_target")
       ELSE /\ chain' = [chain EXCEPT ![kind] = Reverse(reversed)]
            /\ stage' = IF kind = "profile" THEN "select" ELSE "defaults"
            /\ UNCHANGED <<input, kind, at, catalog, cursor, reversed, target, entries,
                           winner, error>>

\* The command line, else the leaf profile, else the project.
SelectTarget ==
    /\ stage = "select"
    /\ target' = IF input.target_name # None THEN input.target_name
                 ELSE IF chain["profile"] # << >> /\ Last(chain["profile"]).target # None
                 THEN Last(chain["profile"]).target
                 ELSE input.default_target
    /\ kind' = "target"
    /\ stage' = IF target' = None THEN "defaults" ELSE "find"
    /\ UNCHANGED <<input, at, catalog, cursor, reversed, chain, entries, winner, error>>
-----------------------------------------------------------------------------
(* The entries, by increasing precedence.                                  *)

Advance(next, nextKind, added) ==
    /\ entries' = entries \o added
    /\ stage' = next
    /\ kind' = nextKind
    /\ UNCHANGED <<input, at, catalog, cursor, reversed, chain, target, winner, error>>

\* The order of a default is the index of its option.
AddSchemaDefaults ==
    /\ stage = "defaults"
    /\ LET default(i) == input.options[Symbols[i]].default
           has(i) == input.options[Symbols[i]].domain # "computed" /\ default(i) # None
           entry(i) == Entry(Symbols[i], default(i), FALSE, "default", 0, i - 1)
       IN  Advance("chain", "target",
                   FlattenSeq([i \in DOMAIN Symbols |->
                                  IF has(i) THEN <<entry(i)>> ELSE << >>]))

\* Mutant of ChainEntry: documents of a chain are not told apart.
ChainEntryFlat(d, i) ==
    LET a == Assignments(chain[kind][d])[i] IN
    Entry(a.option, a.value, a.unset, IF a.unset THEN "unset" ELSE kind, 1, i - 1)

\* Assignment i of document d of a chain; both count from 0 in the code.
ChainEntry(d, i) ==
    LET a == Assignments(chain[kind][d])[i] IN
    Entry(a.option, a.value, a.unset, IF a.unset THEN "unset" ELSE kind, 1,
          ((d - 1) * Stride + (i - 1)) % (SizeMax + 1))

ChainEntries ==
    FlattenSeq([d \in DOMAIN chain[kind] |->
        [i \in DOMAIN Assignments(chain[kind][d]) |-> ChainEntry(d, i)]])

AddInputChain ==
    /\ stage = "chain"
    /\ IF \E d \in DOMAIN chain[kind] : \E i \in DOMAIN Assignments(chain[kind][d]) :
              d - 1 > SizeMax \div Stride \/ i - 1 >= Stride
       THEN Fail("stride_internal")
       ELSE Advance(IF kind = "target" THEN "chain" ELSE "transaction", "profile", ChainEntries)

\* The overrides of a profile transaction and of the command line: what is
\* wrong with override i.
OverrideStatus(list, i, writer) ==
    LET write == ValidateWrite(list[i].option, writer) IN
    IF \E j \in 1..(i - 1) : list[j].option = list[i].option THEN "duplicate"
    ELSE IF write # "ok" THEN write
    ELSE IF list[i].value = Invalid THEN "value"
    ELSE "ok"

AddOverrides(from, list, writer, precedence, next) ==
    LET wrong == {i \in DOMAIN list : OverrideStatus(list, i, writer) # "ok"} IN
    /\ stage = from
    /\ IF wrong # {}
       THEN Fail(OverrideStatus(list, CHOOSE i \in wrong : \A j \in wrong : i <= j, writer))
       ELSE Advance(next, kind, [i \in DOMAIN list |->
                Entry(list[i].option, list[i].value, FALSE, writer, precedence, i - 1)])

AddProfileOverrides ==
    AddOverrides("transaction", input.transaction, "profile", 2, "user")

AddUserOverrides ==
    AddOverrides("user", input.user, "user", 3, "winners")

\* confit_v2_ledger_entry_compare for two entries of one option, which have the
\* same domain.
EntryBefore(e, f) ==
    \/ e.precedence < f.precedence
    \/ e.precedence = f.precedence /\ e.order < f.order

\* Equal keys of different origins are next to each other once sorted.
Ambiguous ==
    \E i, j \in DOMAIN entries :
        /\ entries[i].option = entries[j].option
        /\ entries[i].precedence = entries[j].precedence
        /\ entries[i].order = entries[j].order
        /\ entries[i].origin # entries[j].origin

\* The last entry of each option in sorted order.  qsort is not stable, but
\* NoImpossibleError says that different entries of an option never compare equal.
MarkWinners ==
    LET Of(o) == {entries[i] : i \in {k \in DOMAIN entries : entries[k].option = o}}
        Latest(o) == CHOOSE e \in Of(o) : \A f \in Of(o) : ~EntryBefore(e, f)
    IN  /\ stage = "winners"
        /\ IF Ambiguous THEN Fail("ambiguous")
           ELSE /\ winner' = [o \in Option |-> IF Of(o) = {} THEN NoEntry ELSE Latest(o)]
                /\ stage' = "published"
                /\ UNCHANGED <<input, kind, at, catalog, cursor, reversed, chain, target,
                               entries, error>>

Next ==
    \/ LoadDocument \/ EndLoad \/ FindLeaf \/ WalkChain \/ EndWalk \/ AddInputChain
    \/ SelectTarget \/ AddSchemaDefaults \/ AddProfileOverrides \/ AddUserOverrides
    \/ MarkWinners

Spec == Init /\ [][Next]_vars /\ WF_vars(Next)
-----------------------------------------------------------------------------
\* The values the build's variables range over: loop indexes stay inside the
\* list of files, chains inside the catalog, orders inside size_t.
TypeOK ==
    /\ stage \in {"load", "find", "walk", "select", "defaults", "chain", "transaction",
                  "user", "winners", "published", "failed"}
    /\ kind \in Kind
    /\ at \in 1..(Len(input.files[kind]) + 1)
    /\ \A k \in Kind : Len(chain[k]) <= Len(input.files[k])
    /\ \A i \in DOMAIN entries : /\ entries[i].option \in Option
                                 /\ entries[i].precedence \in 0..3
                                 /\ entries[i].order \in 0..SizeMax
    /\ \A o \in Option : winner[o] = NoEntry \/ winner[o].option = o

(* The files as a reader of the directory sees them.                       *)
Names(files) == {files[i].name : i \in DOMAIN files}
Named(files, name) == files[CHOOSE i \in DOMAIN files : files[i].name = name]

FileNames(k) == Names(input.files[k])
File(k, name) == Named(input.files[k], name)

LeafName(k) == IF k = "profile" THEN input.profile_name ELSE target

\* The leaf, its base, the base of that, ...: None past the root, "unknown"
\* past a name nobody has.
Ancestry(files, leaf) ==
    LET a[n \in 0..Len(files)] ==
          IF n = 0 THEN leaf
          ELSE IF a[n - 1] \in Names(files) THEN Named(files, a[n - 1]).base
          ELSE IF a[n - 1] = None THEN None ELSE "unknown"
    IN  a

Ancestor(k) == Ancestry(input.files[k], LeafName(k))

Sets(k, name, o) == \E i \in DOMAIN Assignments(File(k, name)) :
                        Assignments(File(k, name))[i].option = o

\* The nearest document of the chain that names the option, if any.
NearestSetter(k, o) ==
    {n \in DOMAIN Ancestor(k) :
        /\ Ancestor(k)[n] \in FileNames(k)
        /\ Sets(k, Ancestor(k)[n], o)
        /\ \A m \in 0..(n - 1) : ~Sets(k, Ancestor(k)[m], o)}

Overrides(list, o) == {list[i].value : i \in {j \in DOMAIN list : list[j].option = o}}

Wins(o, value, unset, origin) ==
    /\ winner[o] # NoEntry
    /\ <<winner[o].value, winner[o].unset, winner[o].origin>> = <<value, unset, origin>>

\* The command line beats the transaction, which beats the files, which beat
\* the schema; among the files of the option's domain the one nearest to the
\* leaf decides, and its [unset] removes what a base assigned.
WinnerIsRight ==
    stage = "published" =>
        \A o \in Option :
            LET k == input.options[o].domain
                setters == IF k \in Kind THEN NearestSetter(k, o) ELSE {}
            IN  IF Overrides(input.user, o) # {}
                THEN \A v \in Overrides(input.user, o) : Wins(o, v, FALSE, "user")
                ELSE IF Overrides(input.transaction, o) # {}
                THEN \A v \in Overrides(input.transaction, o) : Wins(o, v, FALSE, "profile")
                ELSE IF setters # {}
                THEN \E n \in setters :
                        LET list == Assignments(File(k, Ancestor(k)[n])) IN
                        \E i \in DOMAIN list :
                            /\ list[i].option = o
                            /\ Wins(o, list[i].value, list[i].unset,
                                    IF list[i].unset THEN "unset" ELSE k)
                ELSE IF k # "computed" /\ input.options[o].default # None
                THEN Wins(o, input.options[o].default, FALSE, "default")
                ELSE winner[o] = NoEntry

\* Nobody wins an option that is not theirs to write, and nobody removes the
\* value of a required option.
OwnersOnly ==
    stage = "published" =>
        \A o \in Option :
            LET option == input.options[o] IN
            winner[o] # NoEntry =>
                /\ option.domain # "computed"
                /\ winner[o].origin \in Kind => winner[o].origin = option.domain
                /\ winner[o].origin = "user" => option.user_override /\ option.domain \in Kind
                /\ winner[o].unset => ~option.required /\ option.domain \in Kind

\* A published chain is exactly the ancestry of its leaf, root first; a cycle
\* is reported only if following the bases never ends, an unknown name only if
\* it ends at a name nobody has.
ChainsAreRight ==
    /\ stage = "published" =>
          \A k \in Kind :
              LET a == Ancestor(k)
                  length == Len(chain[k])
              IN  /\ \A d \in 1..length : chain[k][d].name = a[length - d]
                  /\ length \in DOMAIN a => a[length] = None
    /\ error = "cycle" => \A n \in DOMAIN Ancestor(kind) : Ancestor(kind)[n] \in FileNames(kind)
    /\ error = "unknown_name" =>
          \E n \in DOMAIN Ancestor(kind) : Ancestor(kind)[n] \notin FileNames(kind) \cup {None}

\* Without --target the target is the one the profile chain names, whichever
\* member names it, and at most one is named: a target written in a base
\* profile is refused rather than silently dropped.
TargetIsRight ==
    stage = "published" =>
        LET named == {chain["profile"][d].target : d \in DOMAIN chain["profile"]} \ {None} IN
        IF input.target_name # None THEN target = input.target_name
        ELSE IF named # {} THEN named = {target}
        ELSE target = input.default_target

\* confit_v2_assignment_ledger_build selects its inputs rightly: the inheritance
\* chains of profile and target, and the target itself.
SelectionIsRight == ChainsAreRight /\ TargetIsRight

\* Neither the "more documents than the catalog" return of the chain walk nor
\* the ambiguity check of mark_winners can be reached: entries of an option that
\* compare equal are equal, so the unstable qsort cannot matter.
NoImpossibleError ==
    /\ error \notin {"chain_internal", "ambiguous"}
    /\ stage \in {"winners", "published"} =>
          \A i, j \in DOMAIN entries :
              /\ entries[i].option = entries[j].option
              /\ entries[i].precedence = entries[j].precedence
              /\ entries[i].order = entries[j].order
              => entries[i] = entries[j]

=============================================================================
