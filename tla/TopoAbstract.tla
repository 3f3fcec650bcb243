---------------------------- MODULE TopoAbstract ----------------------------
(***************************************************************************)
(* What the evaluation phase expects of its ordering step, whatever        *)
(* algorithm computes it: the order grows by one node at a time, a node    *)
(* is appended only once everything it depends on has been appended, the   *)
(* step succeeds only when every node has its place, and it may fail only  *)
(* because some nodes wait for one another.                                *)
(***************************************************************************)
EXTENDS Naturals, Sequences

CONSTANT Node

VARIABLES deps,   \* deps[n]: the sequence of nodes n depends on
          order,  \* the nodes ordered so far
          status

Dependencies(n) == {deps[n][k] : k \in DOMAIN deps[n]}

Ordered == {order[i] : i \in DOMAIN order}

\* A non-empty set of nodes, each of which depends on a member of the set.
Circular(C) ==
    /\ C # {}
    /\ \A n \in C : Dependencies(n) \cap C # {}

Acyclic == \A C \in SUBSET Node : ~Circular(C)

AInit ==
    /\ order = << >>
    /\ status = "running"

Place(n) ==
    /\ status = "running"
    /\ n \notin Ordered
    /\ Dependencies(n) \subseteq Ordered
    /\ order' = Append(order, n)
    /\ UNCHANGED <<deps, status>>

Succeed ==
    /\ status = "running"
    /\ Ordered = Node
    /\ status' = "ok"
    /\ UNCHANGED <<deps, order>>

Fail ==
    /\ status = "running"
    /\ \E C \in SUBSET Node : Circular(C)
    /\ status' = "cycle"
    /\ UNCHANGED <<deps, order>>

ANext == (\E n \in Node : Place(n)) \/ Succeed \/ Fail

ASpec == AInit /\ [][ANext]_<<deps, order, status>>
=============================================================================
