------------------------------ MODULE TopoSort ------------------------------
(***************************************************************************)
(* confit_v2_evaluation_topological_order and the recursive                *)
(* confit_v2_evaluation_visit of resolver/v2/evaluate.c: the depth-first   *)
(* search that decides in which order schema v2 symbols get their values,  *)
(* or reports a dependency cycle.                                          *)
(*                                                                         *)
(* The recursion is explicit: frame d of the C call stack is               *)
(* (path[d], cursor[d]), the symbol being visited and the position of the  *)
(* dependency its loop is at; path and incoming are the two buffers the    *)
(* caller allocates with one slot for each symbol.  Slots keep what was    *)
(* last written to them when a call returns, as the C arrays do.           *)
(* Positions start at 1 here and at 0 in C.                                *)
(***************************************************************************)
EXTENDS Naturals, Sequences

CONSTANTS
    NodeCount,  \* number of symbols; a symbol is its index in id order
    Graphs      \* the dependency lists to start from

Node == 1..NodeCount

Dependency == Seq(Node)

ASSUME NodeCountAssumption == NodeCount \in Nat

ASSUME GraphsAssumption == Graphs \subseteq [Node -> Dependency]

VARIABLES
    deps,         \* nodes[n].dependencies, sorted, duplicates kept
    visit_state,  \* 0 unvisited, 1 on the current path, 2 finished
    path, incoming, cursor, depth,
    order,        \* out_order, as far as it is filled
    index,        \* the root the outer loop is at
    status,       \* "running", "ok", "cycle" or "internal"
    begin         \* where the reported cycle starts in path

frame == <<path, incoming, cursor, depth>>
vars == <<deps, visit_state, frame, order, index, status, begin>>

\* The values the search's variables range over: what out_order, visit_state
\* and the loop index can hold.
TypeOK ==
    /\ deps \in [Node -> Dependency]
    /\ visit_state \in [Node -> 0..2]
    /\ path \in [Node -> Nat]
    /\ incoming \in [Node -> Nat]
    /\ cursor \in [Node -> Nat]
    /\ depth \in Nat
    /\ order \in Seq(Node)
    /\ index \in 1..(NodeCount + 1)
    /\ status \in {"running", "ok", "cycle", "internal"}
    /\ begin \in Nat

InitWith(graph) ==
    /\ deps = graph
    /\ visit_state = [n \in Node |-> 0]
    /\ path = [d \in Node |-> 0]
    /\ incoming = [d \in Node |-> 0]
    /\ cursor = [d \in Node |-> 0]
    /\ depth = 0
    /\ order = << >>
    /\ index = 1
    /\ status = "running"
    /\ begin = 0

Init == \E graph \in Graphs : InitWith(graph)
-----------------------------------------------------------------------------
Current == path[depth]
AtDependency ==
    /\ status = "running"
    /\ depth > 0
    /\ cursor[depth] <= Len(deps[Current])
Target == deps[Current][cursor[depth]]

\* Mutant of Enter: the node counts as finished from the moment it is entered.
EnterFinished(n, edge) ==
    /\ visit_state' = [visit_state EXCEPT ![n] = 2]
    /\ depth' = depth + 1
    /\ path' = [path EXCEPT ![depth + 1] = n]
    /\ incoming' = [incoming EXCEPT ![depth + 1] = edge]
    /\ cursor' = [cursor EXCEPT ![depth + 1] = 1]

\* Entry of confit_v2_evaluation_visit for node n; edge is the position of
\* the dependency that led here, 0 for a root.
Enter(n, edge) ==
    /\ visit_state' = [visit_state EXCEPT ![n] = 1]
    /\ depth' = depth + 1
    /\ path' = [path EXCEPT ![depth + 1] = n]
    /\ incoming' = [incoming EXCEPT ![depth + 1] = edge]
    /\ cursor' = [cursor EXCEPT ![depth + 1] = 1]

AtRoot ==
    /\ status = "running"
    /\ depth = 0
    /\ index <= NodeCount

SkipRoot ==
    /\ AtRoot
    /\ visit_state[index] # 0
    /\ index' = index + 1
    /\ UNCHANGED <<deps, visit_state, frame, order, status, begin>>

VisitRoot ==
    /\ AtRoot
    /\ visit_state[index] = 0
    /\ Enter(index, 0)
    /\ UNCHANGED <<deps, order, index, status, begin>>

\* Mutant of Descend: the incoming edge is not recorded.
DescendUnlabelled ==
    /\ AtDependency
    /\ visit_state[Target] = 0
    /\ Enter(Target, 0)
    /\ UNCHANGED <<deps, order, index, status, begin>>

Descend ==
    /\ AtDependency
    /\ visit_state[Target] = 0
    /\ Enter(Target, cursor[depth])
    /\ UNCHANGED <<deps, order, index, status, begin>>

SkipFinished ==
    /\ AtDependency
    /\ visit_state[Target] = 2
    /\ cursor' = [cursor EXCEPT ![depth] = @ + 1]
    /\ UNCHANGED <<deps, visit_state, path, incoming, depth, order, index,
                   status, begin>>

\* The search of path for the target: the first slot below the current frame
\* that holds it, the current frame when none does.
CycleBegin(b) ==
    /\ b \in 1..depth
    /\ b < depth => path[b] = Target
    /\ \A i \in 1..(b - 1) : path[i] # Target

ReportCycle ==
    /\ AtDependency
    /\ visit_state[Target] = 1
    /\ \E b \in Node : CycleBegin(b) /\ begin' = b
    /\ status' = "cycle"
    /\ UNCHANGED <<deps, visit_state, frame, order, index>>

\* The end of the dependency loop: the node is finished and appended, and the
\* call returns to the loop of the caller, which moves on.
Finish ==
    /\ status = "running"
    /\ depth > 0
    /\ cursor[depth] > Len(deps[Current])
    /\ visit_state' = [visit_state EXCEPT ![Current] = 2]
    /\ IF Len(order) >= NodeCount
       THEN /\ status' = "internal"
            /\ UNCHANGED <<path, incoming, cursor, depth, order, index>>
       ELSE /\ order' = Append(order, Current)
            /\ depth' = depth - 1
            /\ cursor' = IF depth > 1
                         THEN [cursor EXCEPT ![depth - 1] = @ + 1]
                         ELSE cursor
            /\ index' = IF depth > 1 THEN index ELSE index + 1
            /\ UNCHANGED <<path, incoming, status>>
    /\ UNCHANGED <<deps, begin>>

Complete ==
    /\ status = "running"
    /\ depth = 0
    /\ index > NodeCount
    /\ status' = IF Len(order) = NodeCount THEN "ok" ELSE "internal"
    /\ UNCHANGED <<deps, visit_state, frame, order, index, begin>>

Next ==
    \/ SkipRoot \/ VisitRoot \/ Descend \/ SkipFinished \/ ReportCycle
    \/ Finish \/ Complete

Spec == Init /\ [][Next]_vars

\* A call of a C function runs to its end.
FairSpec == Spec /\ WF_vars(Next)
-----------------------------------------------------------------------------
Abstract == INSTANCE TopoAbstract

\* confit_v2_evaluation_cycle_diagnostic prints path[begin..depth] and, after
\* each node, the dependency incoming[] recorded for the next one; the last
\* edge is the dependency that closed the cycle.
ReportedEdge(d) == IF d < depth THEN incoming[d + 1] ELSE cursor[depth]

\* Every edge of the reported cycle is a dependency of the node it is printed
\* after, it leads to the node printed next, and the last one leads back to
\* the first: the diagnostic never names a cycle that is not there, and the
\* stale slots of the two buffers never show in it.
CycleGenuine ==
    status = "cycle" =>
        /\ begin \in 1..depth
        /\ \A d \in begin..depth :
              LET edge == ReportedEdge(d) IN
              /\ edge \in DOMAIN deps[path[d]]
              /\ deps[path[d]][edge] =
                    IF d < depth THEN path[d + 1] ELSE path[begin]

\* Every write of visit() into path[] and incoming[] falls inside the
\* node_count slots topological_order allocated.
BufferBound == depth <= NodeCount

\* Neither "this cannot happen" return of CONFIT_ERR_INTERNAL is reachable:
\* out_order never overflows and never ends up short.
NoInternalError == status # "internal"

\* A successful order names every symbol exactly once, each one after all the
\* symbols it depends on.
OrderIsTopological ==
    status = "ok" =>
        /\ DOMAIN order = Node
        /\ \A n \in Node : \E i \in Node : order[i] = n
        /\ \A i \in Node : \A k \in DOMAIN deps[order[i]] :
              \E j \in 1..(i - 1) : order[j] = deps[order[i]][k]

\* The search gives the right verdict on every graph.
VerdictIsRight ==
    /\ status = "ok" => Abstract!Acyclic
    /\ status = "cycle" => ~Abstract!Acyclic

\* What the search knows at every step; the four parts are inductive together.
\* The active frames are the nodes in visit_state 1, each once, linked by the
\* dependency each loop is at, and everything before that dependency is done.
PathIsStack ==
    /\ depth <= NodeCount
    /\ \A d \in 1..depth :
          /\ path[d] \in Node
          /\ visit_state[path[d]] = 1
          /\ cursor[d] \in 1..(Len(deps[path[d]]) + 1)
          /\ \A k \in 1..(cursor[d] - 1) : visit_state[deps[path[d]][k]] = 2
    /\ \A d, e \in 1..depth : path[d] = path[e] => d = e
    /\ \A d \in 1..depth : d < depth =>
          /\ cursor[d] <= Len(deps[path[d]])
          /\ deps[path[d]][cursor[d]] = path[d + 1]
          /\ incoming[d + 1] = cursor[d]
    /\ \A n \in Node : visit_state[n] = 1 => \E d \in 1..depth : path[d] = n

\* Finished nodes are the ordered ones, each once, after their dependencies.
FinishedAreOrdered ==
    /\ \A n \in Node :
          visit_state[n] = 2 <=> \E i \in 1..Len(order) : order[i] = n
    /\ \A i, j \in 1..Len(order) : order[i] = order[j] => i = j
    /\ \A i \in 1..Len(order) : \A k \in 1..Len(deps[order[i]]) :
          \E j \in 1..(i - 1) : order[j] = deps[order[i]][k]

\* The outer loop leaves only finished roots behind.
RootsBehind ==
    /\ \A n \in 1..(index - 1) : visit_state[n] = 2
    /\ depth > 0 => path[1] = index

Verdict ==
    /\ status # "internal"
    /\ status = "ok" => depth = 0 /\ index = NodeCount + 1
    /\ status = "cycle" =>
          /\ depth > 0
          /\ cursor[depth] <= Len(deps[path[depth]])
          /\ begin \in 1..depth
          /\ deps[path[depth]][cursor[depth]] = path[begin]

SearchInvariant == PathIsStack /\ FinishedAreOrdered /\ RootsBehind /\ Verdict

\* The search implements the abstract ordering step.
Refinement == Abstract!ASpec

=============================================================================
