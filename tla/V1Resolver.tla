----------------------------- MODULE V1Resolver -----------------------------
(***************************************************************************)
(* What every version 1 command and editor does with a loaded project:     *)
(* confit_graph_build and confit_graph_validate of graph/graph.c, then     *)
(* confit_resolver_resolve of resolver/resolver.c.  The recursive search   *)
(* for cycles is a stack of frames; the slots of the resolved config are a *)
(* function of the option id, which stands for their final sort.           *)
(***************************************************************************)
EXTENDS V1Schema

VARIABLES
    edges,     \* graph->edges
    colors,    \* 0, 1 or 2 for each node of the search
    frames,    \* calls of confit_graph_dfs_has_cycle, innermost last
    chain,     \* profile_stack: the selected profile first
    resolved,  \* option id -> value and source of the slot of the config
    turn,      \* index of the loop that runs
    pos        \* index in the values of the layer being applied

resolveVars == <<edges, colors, frames, chain, resolved, turn, pos>>
resolverVars == <<loadVars, resolveVars>>

Options == tree.options
OptionAt(i) == Options[i]
Request == input.request

\* An error after the load leaves the project to its owner.
Reject(message) ==
    /\ error' = [at |-> stage, what |-> message]
    /\ stage' = "failed"
    /\ resolved' = <<>>
    /\ UNCHANGED <<input, file, line, table, local, tree, audit,
                   edges, colors, frames, chain, turn, pos>>

Goto(part) ==
    /\ stage' = part
    /\ turn' = 1
    /\ pos' = 1
    /\ UNCHANGED <<input, file, line, table, local, tree, audit, error>>

Stay == UNCHANGED loadVars

-----------------------------------------------------------------------------
\* confit_graph_build: the edges of one option.

Start ==
    /\ stage = "loaded"
    /\ Goto("edges")
    /\ UNCHANGED <<edges, colors, frames, chain, resolved>>

EdgesOf(o) == [i \in DOMAIN o.deps |->
                  [from |-> o.id, to |-> o.deps[i].id, kind |-> o.deps[i].kind]]

AddEdges ==
    /\ stage = "edges" /\ turn <= Len(Options)
    /\ \/ /\ \E e \in ToSet(EdgesOf(OptionAt(turn))) : e.to \notin OptionIds \ {e.from}
          /\ Reject("dependency on itself or on an unknown option")
       \/ /\ \A e \in ToSet(EdgesOf(OptionAt(turn))) : e.to \in OptionIds \ {e.from}
          /\ edges' = edges \o EdgesOf(OptionAt(turn))
          /\ turn' = turn + 1
          /\ Stay /\ UNCHANGED <<colors, frames, chain, resolved, pos>>

EdgesBuilt ==
    /\ stage = "edges" /\ turn = Len(Options) + 1
    /\ Goto("cycles")
    /\ colors' = [id \in OptionIds |-> 0]
    /\ UNCHANGED <<edges, frames, chain, resolved>>

-----------------------------------------------------------------------------
\* confit_graph_validate_cycles: every edge but a conflict is followed.  A frame
\* is a node and the index of the next edge of the whole graph to look at.

Top == Last(frames)
WithTop(frame) == [frames EXCEPT ![Len(frames)] = frame]
Followed(i) == edges[i].kind # "conflicts" /\ edges[i].from = Top.node

Searching == stage = "cycles" /\ frames # <<>>

VisitRoot ==
    /\ stage = "cycles" /\ frames = <<>> /\ turn <= Len(Options)
    /\ \/ /\ colors[OptionAt(turn).id] = 0
          /\ colors' = [colors EXCEPT ![OptionAt(turn).id] = 1]
          /\ frames' = <<[node |-> OptionAt(turn).id, edge |-> 1]>>
       \/ /\ colors[OptionAt(turn).id] # 0
          /\ UNCHANGED <<colors, frames>>
    /\ turn' = turn + 1
    /\ Stay /\ UNCHANGED <<edges, chain, resolved, pos>>

\* Mutant of FollowEdge: a node that was left counts as one being visited.
FollowEdgeTwice ==
    /\ Searching /\ Top.edge <= Len(edges)
    /\ LET e == edges[Top.edge]
           advanced == WithTop([Top EXCEPT !.edge = @ + 1])
       IN  \/ /\ ~Followed(Top.edge)
              /\ frames' = advanced
              /\ Stay /\ UNCHANGED <<edges, colors, chain, resolved, turn, pos>>
           \/ /\ Followed(Top.edge) /\ colors[e.to] # 0
              /\ Reject("dependency cycle")
           \/ /\ Followed(Top.edge) /\ colors[e.to] = 0
              /\ colors' = [colors EXCEPT ![e.to] = 1]
              /\ frames' = Append(advanced, [node |-> e.to, edge |-> 1])
              /\ Stay /\ UNCHANGED <<edges, chain, resolved, turn, pos>>

FollowEdge ==
    /\ Searching /\ Top.edge <= Len(edges)
    /\ LET e == edges[Top.edge]
           advanced == WithTop([Top EXCEPT !.edge = @ + 1])
       IN  \/ /\ ~Followed(Top.edge) \/ colors[e.to] = 2
              /\ frames' = advanced
              /\ Stay /\ UNCHANGED <<edges, colors, chain, resolved, turn, pos>>
           \/ /\ Followed(Top.edge) /\ colors[e.to] = 1
              /\ Reject("dependency cycle")
           \/ /\ Followed(Top.edge) /\ colors[e.to] = 0
              /\ colors' = [colors EXCEPT ![e.to] = 1]
              /\ frames' = Append(advanced, [node |-> e.to, edge |-> 1])
              /\ Stay /\ UNCHANGED <<edges, chain, resolved, turn, pos>>

LeaveNode ==
    /\ Searching /\ Top.edge > Len(edges)
    /\ colors' = [colors EXCEPT ![Top.node] = 2]
    /\ frames' = Front(frames)
    /\ Stay /\ UNCHANGED <<edges, chain, resolved, turn, pos>>

NoCycle ==
    /\ stage = "cycles" /\ frames = <<>> /\ turn = Len(Options) + 1
    /\ Goto("lint")
    /\ UNCHANGED <<edges, colors, frames, chain, resolved>>

\* confit_graph_validate_forces: only an invisible internal option without
\* requirements may be forced.  input.internal holds the ids with ".internal.".
ForceOk(e) ==
    /\ ~FindOption(e.to).visible
    /\ e.to \in input.internal
    /\ \A f \in ToSet(edges) : f.kind = "requires" => f.from # e.to

\* confit_graph_validate_conflicts
SamePair(e, f) == {e.from, e.to} = {f.from, f.to}
ConflictOk(e) == \A f \in ToSet(edges) : f.kind \in {"requires", "forces"} => ~SamePair(e, f)

Lint ==
    /\ stage = "lint"
    /\ IF /\ \A e \in ToSet(edges) : e.kind = "forces" => ForceOk(e)
          /\ \A e \in ToSet(edges) : e.kind = "conflicts" => ConflictOk(e)
       THEN Goto("seed") /\ UNCHANGED <<edges, colors, frames, chain, resolved>>
       ELSE Reject("contradictory dependencies")

-----------------------------------------------------------------------------
\* confit_resolver_resolve

Slot(value, source) == [value |-> value, source |-> source]

\* confit_resolver_seed_defaults, one option.
Seed ==
    /\ stage = "seed" /\ turn <= Len(Options)
    /\ LET o == OptionAt(turn)
       IN  \/ /\ ~Accepts(o, o.default)
              /\ Reject("invalid resolved value")
           \/ /\ Accepts(o, o.default)
              /\ resolved' = [id \in DOMAIN resolved \cup {o.id} |->
                              IF id = o.id THEN Slot(o.default, "default") ELSE resolved[id]]
              /\ turn' = turn + 1
              /\ Stay /\ UNCHANGED <<edges, colors, frames, chain, pos>>

Find(members, name) == members[First({i \in DOMAIN members : members[i].name = name})]
Profile(name) == Find(tree.profiles, name)
TargetNamed(name) == Find(tree.targets, name)

Seeded ==
    /\ stage = "seed" /\ turn = Len(Options) + 1
    /\ \/ /\ Request.profile = Null
          /\ Goto("target") /\ UNCHANGED <<edges, colors, frames, chain, resolved>>
       \/ /\ Request.profile # Null /\ Request.profile \notin Names(tree.profiles)
          /\ Reject("unknown profile")
       \/ /\ Request.profile \in Names(tree.profiles)
          /\ chain' = <<Profile(Request.profile)>>
          /\ Goto("chain") /\ UNCHANGED <<edges, colors, frames, resolved>>

\* confit_resolver_build_profile_stack, one base.
PushBase ==
    /\ stage = "chain" /\ Last(chain).base # Null
    /\ LET base == Last(chain).base
       IN  \/ /\ base \notin Names(tree.profiles)
              /\ Reject("unknown base profile")
           \/ /\ base \in Names(chain) \/ Len(chain) >= Len(tree.profiles)
              /\ base \in Names(tree.profiles)
              /\ Reject("profile base cycle")
           \/ /\ base \in Names(tree.profiles) \ Names(chain)
              /\ Len(chain) < Len(tree.profiles)
              /\ chain' = Append(chain, Profile(base))
              /\ Stay /\ UNCHANGED <<edges, colors, frames, resolved, turn, pos>>

\* The bases are applied from the far end of the stack; index 1 is not one.
ChainBuilt ==
    /\ stage = "chain" /\ Last(chain).base = Null
    /\ stage' = "bases"
    /\ turn' = Len(chain)
    /\ pos' = 1
    /\ UNCHANGED <<input, file, line, table, local, tree, audit, error,
                   edges, colors, frames, chain, resolved>>

\* confit_resolver_apply_named_values and _set_value, one value of a layer.
ApplyValue(values, source) ==
    /\ pos <= Len(values)
    /\ LET v == values[pos]
       IN  \/ /\ v.id \notin OptionIds
              /\ Reject("unknown resolved option")
           \/ /\ v.id \in OptionIds /\ ~Accepts(FindOption(v.id), v.value)
              /\ Reject("invalid resolved value")
           \/ /\ v.id \in OptionIds /\ Accepts(FindOption(v.id), v.value)
              /\ resolved' = [resolved EXCEPT ![v.id] = Slot(v.value, source)]
              /\ pos' = pos + 1
              /\ Stay /\ UNCHANGED <<edges, colors, frames, chain, turn>>

ApplyBase == stage = "bases" /\ turn > 1 /\ ApplyValue(chain[turn].values, chain[turn].name)

NextBase ==
    /\ stage = "bases" /\ turn > 1 /\ pos > Len(chain[turn].values)
    /\ turn' = turn - 1
    /\ pos' = 1
    /\ Stay /\ UNCHANGED <<edges, colors, frames, chain, resolved>>

BasesApplied ==
    /\ stage = "bases" /\ turn = 1
    /\ Goto("target") /\ UNCHANGED <<edges, colors, frames, chain, resolved>>

\* Mutant of TargetName: the profile farthest from the selected one decides.
TargetNameFarthest ==
    IF Request.target # Null THEN Request.target
    ELSE LET naming == {i \in DOMAIN chain : chain[i].target # Null}
         IN  IF naming = {} THEN Null
             ELSE chain[CHOOSE i \in naming : \A j \in naming : j <= i].target

\* confit_resolver_select_target_name: the request, or the profile nearest to the
\* selected one that names a target.
TargetName ==
    IF Request.target # Null THEN Request.target
    ELSE LET naming == {i \in DOMAIN chain : chain[i].target # Null}
         IN  IF naming = {} THEN Null ELSE chain[First(naming)].target

ApplyTarget ==
    /\ stage = "target" /\ TargetName # Null
    /\ \/ /\ TargetName \notin Names(tree.targets)
          /\ Reject("unknown target")
       \/ /\ TargetName \in Names(tree.targets)
          /\ ApplyValue(TargetNamed(TargetName).values, TargetName)

TargetApplied ==
    /\ stage = "target"
    /\ TargetName = Null \/ /\ TargetName \in Names(tree.targets)
                            /\ pos > Len(TargetNamed(TargetName).values)
    /\ Goto("profile") /\ UNCHANGED <<edges, colors, frames, chain, resolved>>

ApplyProfile == stage = "profile" /\ chain # <<>> /\ ApplyValue(chain[1].values, chain[1].name)

ProfileApplied ==
    /\ stage = "profile" /\ (chain # <<>> => pos > Len(chain[1].values))
    /\ Goto("user") /\ UNCHANGED <<edges, colors, frames, chain, resolved>>

ApplyUser == stage = "user" /\ ApplyValue(Request.user, "user")

UserApplied ==
    /\ stage = "user" /\ pos > Len(Request.user)
    /\ Goto("check") /\ UNCHANGED <<edges, colors, frames, chain, resolved>>

\* confit_resolver_value_is_active
IsActive(v) == IF v.kind \in {"string", "enum", "path"} THEN v.s # "" ELSE v.n # 0
ActiveIn(slots, id) == id \in DOMAIN slots /\ IsActive(slots[id].value)

\* Mutant of Broken: an option in conflict need not be active itself.
BrokenAnyway(slots, o, d) ==
    \/ d.kind = "requires" /\ ActiveIn(slots, o.id) /\ ~ActiveIn(slots, d.id)
    \/ d.kind = "conflicts" /\ ActiveIn(slots, d.id)

\* confit_resolver_validate_dependencies, one option: requires and conflicts of an
\* active option, in the order of its dependencies.
Broken(slots, o, d) ==
    /\ ActiveIn(slots, o.id)
    /\ \/ d.kind = "requires" /\ ~ActiveIn(slots, d.id)
       \/ d.kind = "conflicts" /\ ActiveIn(slots, d.id)

CheckOption ==
    /\ stage = "check" /\ turn <= Len(Options)
    /\ LET o == OptionAt(turn)
           broken == {i \in DOMAIN o.deps : Broken(resolved, o, o.deps[i])}
       IN  \/ /\ broken # {} /\ o.deps[First(broken)].kind = "requires"
              /\ Reject("dependency not satisfied")
           \/ /\ broken # {} /\ o.deps[First(broken)].kind = "conflicts"
              /\ Reject("conflict active")
           \/ /\ broken = {}
              /\ turn' = turn + 1
              /\ Stay /\ UNCHANGED <<edges, colors, frames, chain, resolved, pos>>

Publish ==
    /\ stage = "check" /\ turn = Len(Options) + 1
    /\ Goto("resolved") /\ UNCHANGED <<edges, colors, frames, chain, resolved>>

-----------------------------------------------------------------------------
ResolveInit ==
    /\ LoadInit
    /\ edges = <<>>
    /\ colors = <<>>
    /\ frames = <<>>
    /\ chain = <<>>
    /\ resolved = <<>>
    /\ turn = 1
    /\ pos = 1

Load == LoadNext /\ UNCHANGED resolveVars

ResolveNext ==
    \/ Load
    \/ Start \/ AddEdges \/ EdgesBuilt
    \/ VisitRoot \/ FollowEdge \/ LeaveNode \/ NoCycle \/ Lint
    \/ Seed \/ Seeded \/ PushBase \/ ChainBuilt
    \/ ApplyBase \/ NextBase \/ BasesApplied
    \/ ApplyTarget \/ TargetApplied \/ ApplyProfile \/ ProfileApplied
    \/ ApplyUser \/ UserApplied \/ CheckOption \/ Publish

ResolveSpec == ResolveInit /\ [][ResolveNext]_resolverVars /\ WF_resolverVars(ResolveNext)
-----------------------------------------------------------------------------
AfterLoad == {"loaded", "edges", "cycles", "lint", "seed", "chain", "bases", "target",
              "profile", "user", "check", "resolved"}

\* A project the loader publishes is usable: ids and aliases name one option each,
\* every default and every value of a profile or a target is stored under the id
\* of an option that accepts it in its final declaration, every link leads
\* somewhere, and every template field names an option that emits to it.  The
\* lines of a table may come in any order and repeat.
LoadedIsUsable ==
    stage \in AfterLoad =>
        /\ Cardinality(OptionIds) = Len(Options)
        /\ \A i \in DOMAIN Options :
              /\ Accepts(Options[i], Options[i].default)
              /\ \A alias \in ToSet(Options[i].aliases) :
                    alias \notin OptionIds /\ Cardinality(AliasOwners(alias)) = 1
        /\ \A m \in ToSet(tree.profiles) \cup ToSet(tree.targets) :
              \A v \in ToSet(m.values) :
                 v.id \in OptionIds /\ Accepts(FindOption(v.id), v.value)
        /\ \A p \in ToSet(tree.profiles) : LinkOk(p)
        /\ \A s \in ToSet(tree.selections) : \A sec \in ToSet(s.sections) :
              \A f \in ToSet(sec.fields) :
                 f.id \in OptionIds /\ "selection" \in FindOption(f.id).emit

\* What the loader accepted the resolver does not refuse: after a load, an unknown
\* or unacceptable value can only come from the user's overrides, and a base
\* profile is never missing.
NoLateRefusal ==
    /\ error.what \in {"unknown resolved option", "invalid resolved value"} =>
          error.at = "user"
    /\ error.what # "unknown base profile"
    /\ error.what = "unknown target" => Request.target # Null

\* confit_schema_load_project leaves nothing for the resolver to refuse: what it
\* accepts is usable, and later refusals are about the request only.
LoadIsFinal == LoadedIsUsable /\ NoLateRefusal

\* The target that counts: the requested one, or the one named by the profile of the
\* chain below which no profile names one.
RightTarget ==
    IF Request.target # Null \/ \A i \in DOMAIN chain : chain[i].target = Null
    THEN Request.target
    ELSE LET i == CHOOSE i \in DOMAIN chain :
                      /\ chain[i].target # Null
                      /\ \A j \in 1..(i - 1) : chain[j].target = Null
         IN  chain[i].target

\* The value and the source each option must have, from the precedence of
\* docs/resolution-v1.md: user, selected profile, target, bases from the nearest
\* to the farthest, default; the last value of a layer counts.
Layer(source, values) == [source |-> source, values |-> values]
ProfileLayers == [i \in DOMAIN chain |-> Layer(chain[i].name, chain[i].values)]
TargetLayers ==
    IF RightTarget = Null THEN <<>> ELSE <<Layer(RightTarget, TargetNamed(RightTarget).values)>>
Layers ==
    <<Layer("user", Request.user)>> \o
    IF chain = <<>> THEN TargetLayers
    ELSE <<ProfileLayers[1]>> \o TargetLayers \o Tail(ProfileLayers)

Gives(values, id) == \E i \in DOMAIN values : values[i].id = id
Given(values, id) ==
    values[CHOOSE i \in DOMAIN values : /\ values[i].id = id
                                        /\ \A j \in DOMAIN values : values[j].id = id => j <= i]

Merged(o) ==
    LET giving == {i \in DOMAIN Layers : Gives(Layers[i].values, o.id)}
        layer == Layers[First(giving)]
    IN  IF giving = {} THEN Slot(o.default, "default")
        ELSE Slot(Given(layer.values, o.id).value, layer.source)

MergedConfig == [id \in OptionIds |-> Merged(FindOption(id))]

\* A resolved config has exactly the options of the project, each with the value and
\* the source of the precedence rules, although layers are applied value by value in
\* five loops.
ResolvedIsRight == stage = "resolved" => resolved = MergedConfig

\* A published config satisfies every requires and conflicts of its active options,
\* and a refusal on their account is genuine.
VerdictIsGenuine ==
    LET off == {MakeValue("bool", 0, ""), MakeValue("int", 0, ""), MakeValue("uint", 0, ""),
                MakeValue("float", 0, ""), MakeValue("string", 0, ""), MakeValue("enum", 0, ""),
                MakeValue("path", 0, ""), Empty}
        on == {id \in OptionIds : MergedConfig[id].value \notin off}
        broken(kind) == \E o \in ToSet(Options) : \E d \in ToSet(o.deps) :
                            /\ d.kind = kind /\ o.id \in on
                            /\ ((d.id \in on) <=> (kind = "conflicts"))
    IN  /\ stage = "resolved" => ~broken("requires") /\ ~broken("conflicts")
        /\ error.what = "dependency not satisfied" => broken("requires")
        /\ error.what = "conflict active" => broken("conflicts")

FollowedPairs == {<<e.from, e.to>> : e \in {f \in ToSet(edges) : f.kind # "conflicts"}}
Cyclic == \E S \in (SUBSET OptionIds) \ {{}} : \A x \in S : \E y \in S : <<x, y>> \in FollowedPairs

\* confit_graph_validate_cycles accepts exactly the graphs without a cycle of edges
\* that are not conflicts.
GraphVerdict ==
    /\ stage \in AfterLoad \ {"loaded", "edges", "cycles"} => ~Cyclic
    /\ error.what = "dependency cycle" => Cyclic

\* docs/schema-v1.md:90: a default, profile or target value outside the range of its
\* option is an error.
RangeIsKept ==
    stage \in AfterLoad =>
        \A doc \in ToSet(input.profiles) : \A l \in ToSet(doc.lines) :
            LET o == FindOption(l.key)
            IN  l.quoted /\ l.key \in OptionIds /\ l.texts[1].q = "num" /\ o.range # <<>> =>
                    o.range[1].n <= l.texts[1].n /\ l.texts[1].n <= o.range[2].n
=============================================================================
