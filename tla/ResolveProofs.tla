---------------------------- MODULE ResolveProofs ----------------------------
(***************************************************************************)
(* For every number of symbols and every dependency graph: the search of   *)
(* evaluate.c stays inside its buffers, never takes its internal-error     *)
(* exits, reports only real cycles, and a successful order is a            *)
(* topological order of an acyclic graph; it implements TopoAbstract.      *)
(* For every linked project, every ledger and every sequence of edits:     *)
(* what confit_v2_evaluation_build publishes is the fixpoint of the        *)
(* declarations with nothing repaired, every snapshot that                 *)
(* confit_v2_snapshot_resolve and reconcile_edit publish is the result of  *)
(* a full resolve of the requests it records, and what an edit changes is  *)
(* in its affected set unless a choice has the id of an option.            *)
(***************************************************************************)
EXTENDS Snapshot, InductionLemmas

\* Node indices are numbers.
LEMMA NodeNat == \A n \in Node : n \in Nat /\ n >= 1 /\ n <= NodeCount
  BY NodeCountAssumption DEF Node

\* visit() writes path[] at distinct nodes: m distinct nodes fit in the buffer.
LEMMA DistinctFit ==
  ASSUME NEW m \in Nat, NEW f,
         \A i \in 1..m : f[i] \in Node,
         \A i, j \in 1..m : f[i] = f[j] => i = j
  PROVE  /\ m <= NodeCount
         /\ m = NodeCount => \A n \in Node : \E i \in 1..m : f[i] = n
         /\ (\A n \in Node : \E i \in 1..m : f[i] = n) => m = NodeCount
  <1> DEFINE g == [i \in 1..m |-> f[i]]
  <1>1. g \in Injection(1..m, Node)
    BY DEF Injection, IsInjective
  <1>2. /\ IsFiniteSet(Node)
        /\ Cardinality(Node) = NodeCount
        /\ Cardinality(1..m) = m
    BY FS_Interval, NodeCountAssumption DEF Node
  <1>3. /\ m <= NodeCount
        /\ m = NodeCount <=> g \in Surjection(1..m, Node)
    <2> HIDE DEF g
    <2> QED BY <1>1, <1>2, FS_Injection
  <1>4. g \in Surjection(1..m, Node)
        <=> \A n \in Node : \E i \in 1..m : f[i] = n
    BY <1>1 DEF Injection, Surjection
  <1> QED BY <1>3, <1>4

-----------------------------------------------------------------------------
IInv == TypeOK /\ SearchInvariant

\* The invariant holds before the first root is looked at.
LEMMA InitWithIInv ==
  ASSUME NEW graph \in [Node -> Dependency], InitWith(graph)
  PROVE  IInv
  <1>1. TypeOK
    BY NodeCountAssumption DEF InitWith, TypeOK
  <1>2. PathIsStack
    BY NodeCountAssumption, NodeNat DEF InitWith, PathIsStack
  <1>3. FinishedAreOrdered
    BY DEF InitWith, FinishedAreOrdered
  <1>4. RootsBehind /\ Verdict
    BY NodeCountAssumption DEF InitWith, RootsBehind, Verdict
  <1> QED BY <1>1, <1>2, <1>3, <1>4 DEF IInv, SearchInvariant

LEMMA InitIInv == Init => IInv
  BY InitWithIInv, GraphsAssumption DEF Init

\* A dependency list is a list of nodes.
LEMMA DepsType ==
  ASSUME TypeOK, NEW n \in Node
  PROVE  /\ Len(deps[n]) \in Nat
         /\ DOMAIN deps[n] = 1..Len(deps[n])
         /\ \A k \in 1..Len(deps[n]) : deps[n][k] \in Node
  <1>1. deps[n] \in Seq(Node)
    BY DEF TypeOK, Dependency
  <1> QED BY <1>1

\* What a step at a dependency knows about the current frame and its target.
LEMMA AtDependencyFacts ==
  ASSUME IInv, AtDependency
  PROVE  /\ depth \in Node /\ Current \in Node /\ Target \in Node
         /\ cursor[depth] \in 1..Len(deps[Current])
         /\ visit_state[Current] = 1
  <1>1. depth \in 1..NodeCount
    BY NodeCountAssumption DEF AtDependency, IInv, TypeOK, SearchInvariant, PathIsStack
  <1>2. /\ path[depth] \in Node
        /\ visit_state[path[depth]] = 1
        /\ cursor[depth] \in 1..(Len(deps[path[depth]]) + 1)
    BY <1>1 DEF IInv, SearchInvariant, PathIsStack
  <1>3. /\ cursor[depth] \in 1..Len(deps[path[depth]])
        /\ deps[path[depth]][cursor[depth]] \in Node
    BY <1>2, DepsType DEF AtDependency, IInv, Current
  <1> QED BY <1>1, <1>2, <1>3 DEF Current, Target, Node

\* Entering an unvisited node keeps the frames a path of distinct nodes, which
\* is why the write at depth + 1 stays inside the buffers.
LEMMA EnterPath ==
  ASSUME IInv, NEW n \in Node, NEW edge \in Nat, visit_state[n] = 0,
         Enter(n, edge), UNCHANGED <<deps, order, index, status, begin>>,
         status = "running",
         depth > 0 => /\ depth \in Node
                      /\ cursor[depth] \in 1..Len(deps[path[depth]])
                      /\ deps[path[depth]][cursor[depth]] = n
                      /\ edge = cursor[depth]
  PROVE  TypeOK' /\ PathIsStack'
  <1> USE NodeCountAssumption
  <1>1. /\ depth \in Nat /\ depth <= NodeCount
        /\ \A d \in 1..depth : path[d] \in Node /\ path[d] # n
    <2>1. depth \in Nat
      BY DEF IInv, TypeOK
    <2>2. /\ depth <= NodeCount
          /\ \A d \in 1..depth : path[d] \in Node /\ visit_state[path[d]] = 1
      BY DEF IInv, SearchInvariant, PathIsStack
    <2>3. \A d \in 1..depth : path[d] # n
      <3>1. visit_state[n] = 0
        OBVIOUS
      <3> QED BY ONLY <2>2, <3>1
    <2> QED BY <2>1, <2>2, <2>3
  <1>2. depth + 1 <= NodeCount
    <2>1. \A d, e \in 1..depth : path[d] = path[e] => d = e
      BY DEF IInv, SearchInvariant, PathIsStack
    <2>2. depth = NodeCount => \A m \in Node : \E d \in 1..depth : path[d] = m
      <3> HIDE NodeCountAssumption
      <3>1. depth \in Nat /\ \A d \in 1..depth : path[d] \in Node
        BY <1>1
      <3> QED BY ONLY <3>1, <2>1, DistinctFit
    <2>3. depth # NodeCount
      BY <1>1, <2>2
    <2> QED BY <1>1, <2>3
  <1>3. depth + 1 \in Node
    BY <1>1, <1>2 DEF Node
  <1>4. TypeOK'
    <2>1. n \in Nat
      BY NodeNat
    <2>2. visit_state' \in [Node -> 0..2] /\ depth' \in Nat
      BY DEF IInv, TypeOK, Enter
    <2>3. path' \in [Node -> Nat]
      BY <2>1 DEF IInv, TypeOK, Enter
    <2>4. incoming' \in [Node -> Nat] /\ cursor' \in [Node -> Nat]
      BY DEF IInv, TypeOK, Enter
    <2> QED BY <2>2, <2>3, <2>4 DEF IInv, TypeOK
  <1>5. /\ \A d \in 1..depth : /\ path'[d] = path[d]
                               /\ cursor'[d] = cursor[d]
                               /\ incoming'[d] = incoming[d]
        /\ path'[depth + 1] = n
        /\ cursor'[depth + 1] = 1
        /\ incoming'[depth + 1] = edge
        /\ depth' = depth + 1
        /\ visit_state'[n] = 1
        /\ \A m \in Node : m # n => visit_state'[m] = visit_state[m]
    <2>1. \A d \in 1..depth : d \in Node /\ d # depth + 1
      BY <1>1 DEF Node
    <2> QED BY <2>1, <1>3 DEF IInv, TypeOK, Enter
  <1>6. \A m \in Node : /\ Len(deps[m]) \in Nat
                       /\ \A k \in 1..Len(deps[m]) : deps[m][k] \in Node
    BY DepsType DEF IInv
  <1>7. \A d \in 1..depth' :
          /\ path'[d] \in Node
          /\ visit_state'[path'[d]] = 1
          /\ cursor'[d] \in 1..(Len(deps'[path'[d]]) + 1)
          /\ \A k \in 1..(cursor'[d] - 1) : visit_state'[deps'[path'[d]][k]] = 2
    <2> SUFFICES ASSUME NEW d \in 1..depth'
                 PROVE  /\ path'[d] \in Node
                        /\ visit_state'[path'[d]] = 1
                        /\ cursor'[d] \in 1..(Len(deps[path'[d]]) + 1)
                        /\ \A k \in 1..(cursor'[d] - 1) :
                              visit_state'[deps[path'[d]][k]] = 2
      OBVIOUS
    <2>1. CASE d = depth + 1
      BY <1>1, <1>5, <1>6, <2>1
    <2>2. CASE d \in 1..depth
      <3>1. /\ path[d] \in Node /\ visit_state[path[d]] = 1
            /\ cursor[d] \in 1..(Len(deps[path[d]]) + 1)
            /\ \A k \in 1..(cursor[d] - 1) : visit_state[deps[path[d]][k]] = 2
        BY <2>2 DEF IInv, SearchInvariant, PathIsStack
      <3>2. path'[d] = path[d] /\ cursor'[d] = cursor[d] /\ path[d] # n
        BY <1>1, <1>5, <2>2
      <3>3. ASSUME NEW k \in 1..(cursor[d] - 1)
            PROVE  visit_state'[deps[path[d]][k]] = 2
        <4>1. deps[path[d]][k] \in Node
          <5>1. k \in 1..Len(deps[path[d]])
            BY <3>1, <1>6
          <5> QED BY <3>1, <5>1, <1>6
        <4>2. visit_state[deps[path[d]][k]] = 2
          BY <3>1
        <4> QED BY <1>5, <4>1, <4>2
      <3> QED BY <1>5, <3>1, <3>2, <3>3
    <2> QED BY <1>1, <1>5, <2>1, <2>2
  <1>8. \A d, e \in 1..depth' : path'[d] = path'[e] => d = e
    <2>1. \A d, e \in 1..depth : path[d] = path[e] => d = e
      BY DEF IInv, SearchInvariant, PathIsStack
    <2> QED BY <1>1, <1>5, <2>1
  <1>9. \A d \in 1..depth' : d < depth' =>
          /\ cursor'[d] <= Len(deps'[path'[d]])
          /\ deps'[path'[d]][cursor'[d]] = path'[d + 1]
          /\ incoming'[d + 1] = cursor'[d]
    <2> SUFFICES ASSUME NEW d \in 1..depth
                 PROVE  /\ cursor'[d] <= Len(deps[path'[d]])
                        /\ deps[path'[d]][cursor'[d]] = path'[d + 1]
                        /\ incoming'[d + 1] = cursor'[d]
      BY <1>1, <1>5
    <2>1. CASE d = depth
      BY <1>1, <1>5, <1>6, <2>1
    <2>2. CASE d < depth
      <3>1. /\ cursor[d] <= Len(deps[path[d]])
            /\ deps[path[d]][cursor[d]] = path[d + 1]
            /\ incoming[d + 1] = cursor[d]
        BY <2>2 DEF IInv, SearchInvariant, PathIsStack
      <3>2. d + 1 \in 1..depth
        BY <1>1, <2>2
      <3> QED BY <1>5, <3>1, <3>2
    <2> QED BY <1>1, <2>1, <2>2
  <1>10. \A m \in Node : visit_state'[m] = 1 => \E d \in 1..depth' : path'[d] = m
    <2>1. \A m \in Node : visit_state[m] = 1 => \E d \in 1..depth : path[d] = m
      BY DEF IInv, SearchInvariant, PathIsStack
    <2> QED BY <1>1, <1>5, <2>1
  <1> QED BY <1>2, <1>4, <1>5, <1>7, <1>8, <1>9, <1>10 DEF PathIsStack

\* Entering a node changes nothing about finished ones.
LEMMA EnterOrder ==
  ASSUME IInv, NEW n \in Node, NEW edge \in Nat, visit_state[n] = 0,
         Enter(n, edge), UNCHANGED <<deps, order, index, status, begin>>
  PROVE  FinishedAreOrdered'
  <1>1. /\ \A m \in Node : visit_state'[m] = 2 <=> visit_state[m] = 2
        /\ order' = order /\ deps' = deps
    BY DEF IInv, TypeOK, Enter
  <1> QED BY <1>1 DEF IInv, SearchInvariant, FinishedAreOrdered
-----------------------------------------------------------------------------
\* Moving the outer loop past a root that an earlier root reached.
LEMMA SkipRootIInv ==
  ASSUME IInv, SkipRoot
  PROVE  IInv'
  <1> USE NodeCountAssumption
  <1>1. index \in Node /\ index + 1 \in 1..(NodeCount + 1)
    BY DEF IInv, TypeOK, SkipRoot, AtRoot, Node
  <1>2. TypeOK'
    BY <1>1 DEF IInv, TypeOK, SkipRoot, frame
  <1>3. PathIsStack' /\ FinishedAreOrdered' /\ Verdict'
    BY DEF IInv, SearchInvariant, PathIsStack, FinishedAreOrdered, Verdict,
           SkipRoot, AtRoot, frame
  <1>4. RootsBehind'
    <2>1. visit_state[index] = 2
      <3>1. visit_state[index] \in 0..2 /\ visit_state[index] # 0
        BY <1>1 DEF IInv, TypeOK, SkipRoot
      <3>2. visit_state[index] # 1
        BY <1>1 DEF IInv, SearchInvariant, PathIsStack, SkipRoot, AtRoot
      <3> QED BY <3>1, <3>2
    <2> QED BY <1>1, <2>1 DEF IInv, SearchInvariant, RootsBehind, SkipRoot, AtRoot, frame, TypeOK
  <1> QED BY <1>2, <1>3, <1>4 DEF IInv, SearchInvariant

\* Starting a root.
LEMMA VisitRootIInv ==
  ASSUME IInv, VisitRoot
  PROVE  IInv'
  <1> USE NodeCountAssumption
  <1>1. index \in Node
    BY DEF IInv, TypeOK, VisitRoot, AtRoot, Node
  <1>2. TypeOK' /\ PathIsStack' /\ FinishedAreOrdered'
    BY <1>1, EnterPath, EnterOrder DEF VisitRoot, AtRoot
  <1>3. RootsBehind'
    <2>1. /\ \A n \in 1..(index - 1) : visit_state'[n] = visit_state[n]
          /\ path'[1] = index
      BY <1>1 DEF IInv, TypeOK, VisitRoot, AtRoot, Enter, Node
    <2> QED BY <2>1 DEF IInv, SearchInvariant, RootsBehind, VisitRoot
  <1>4. Verdict'
    BY DEF IInv, SearchInvariant, Verdict, VisitRoot, AtRoot
  <1> QED BY <1>2, <1>3, <1>4 DEF IInv, SearchInvariant

\* Recursing into an unvisited dependency.
LEMMA DescendIInv ==
  ASSUME IInv, Descend
  PROVE  IInv'
  <1> USE NodeCountAssumption
  <1>1. AtDependency /\ status = "running" /\ depth > 0
    BY DEF Descend, AtDependency
  <1>2. /\ depth \in Node /\ Current \in Node /\ Target \in Node
        /\ cursor[depth] \in 1..Len(deps[Current])
    BY <1>1, AtDependencyFacts
  <1>3. cursor[depth] \in Nat
    BY <1>2 DEF IInv, TypeOK
  <1>4. TypeOK' /\ PathIsStack' /\ FinishedAreOrdered'
    BY <1>1, <1>2, <1>3, EnterPath, EnterOrder DEF Descend, Current, Target
  <1>5. RootsBehind'
    <2>1. \A n \in Node : visit_state[n] = 2 => visit_state'[n] = 2
      BY <1>2 DEF IInv, TypeOK, Descend, Enter
    <2>2. path'[1] = path[1]
      BY <1>1, <1>2 DEF IInv, TypeOK, Descend, Enter, Node
    <2>3. \A n \in 1..(index - 1) : n \in Node
      BY DEF IInv, TypeOK, Node
    <2> QED BY <1>1, <2>1, <2>2, <2>3 DEF IInv, SearchInvariant, RootsBehind, Descend
  <1>6. Verdict'
    BY <1>1 DEF IInv, SearchInvariant, Verdict, Descend
  <1> QED BY <1>4, <1>5, <1>6 DEF IInv, SearchInvariant

\* Passing a dependency that is already finished.
LEMMA SkipFinishedIInv ==
  ASSUME IInv, SkipFinished
  PROVE  IInv'
  <1> USE NodeCountAssumption
  <1>1. AtDependency /\ status = "running" /\ depth > 0 /\ visit_state[Target] = 2
    BY DEF SkipFinished, AtDependency
  <1>2. /\ depth \in Node /\ Current \in Node /\ Target \in Node
        /\ cursor[depth] \in 1..Len(deps[Current])
        /\ Len(deps[Current]) \in Nat
    BY <1>1, AtDependencyFacts, DepsType DEF IInv
  <1>3. /\ cursor'[depth] = cursor[depth] + 1
        /\ \A d \in 1..depth : d # depth => cursor'[d] = cursor[d]
        /\ cursor' \in [Node -> Nat]
    <2>1. \A d \in 1..depth : d \in Node
      BY <1>2 DEF Node
    <2>2. cursor \in [Node -> Nat] /\ depth \in Node
      BY <1>2 DEF IInv, TypeOK
    <2>3. cursor' = [cursor EXCEPT ![depth] = @ + 1]
      BY DEF SkipFinished
    <2> QED BY ONLY <2>1, <2>2, <2>3
  <1>4. TypeOK'
    BY <1>3 DEF IInv, TypeOK, SkipFinished
  <1>5. PathIsStack'
    <2>1. UNCHANGED <<deps, visit_state, path, incoming, depth>>
      BY DEF SkipFinished
    <2>2. \A d \in 1..depth :
            /\ cursor'[d] \in 1..(Len(deps[path[d]]) + 1)
            /\ \A k \in 1..(cursor'[d] - 1) : visit_state[deps[path[d]][k]] = 2
      <3> SUFFICES ASSUME NEW d \in 1..depth
                   PROVE  /\ cursor'[d] \in 1..(Len(deps[path[d]]) + 1)
                          /\ \A k \in 1..(cursor'[d] - 1) :
                                visit_state[deps[path[d]][k]] = 2
        OBVIOUS
      <3>1. /\ cursor[d] \in 1..(Len(deps[path[d]]) + 1)
            /\ \A k \in 1..(cursor[d] - 1) : visit_state[deps[path[d]][k]] = 2
        BY DEF IInv, SearchInvariant, PathIsStack
      <3>2. CASE d = depth
        <4>1. PICK c, m, seen : /\ c = cursor[d] /\ m = Len(deps[path[d]])
                                 /\ seen = visit_state[deps[path[d]][c]]
          OBVIOUS
        <4>2. c \in 1..m /\ m \in Nat /\ seen = 2
          BY <1>1, <1>2, <3>2, <4>1 DEF Current, Target
        <4>3. cursor'[d] = c + 1
          BY ONLY <1>3, <3>2, <4>1
        <4>4. c + 1 \in 1..(m + 1) /\ \A k \in 1..((c + 1) - 1) : k \in 1..(c - 1) \/ k = c
          BY ONLY <4>2
        <4>5. cursor'[d] \in 1..(Len(deps[path[d]]) + 1)
          <5>1. cursor'[d] \in 1..(m + 1)
            BY ONLY <4>3, <4>4
          <5> QED BY ONLY <4>1, <5>1, Zenon
        <4>6. ASSUME NEW k \in 1..(cursor'[d] - 1) PROVE visit_state[deps[path[d]][k]] = 2
          <5>1. k \in 1..(c - 1) \/ k = c
            BY ONLY <4>3, <4>4, k \in 1..(cursor'[d] - 1)
          <5> QED BY ONLY <3>1, <4>1, <4>2, <5>1
        <4> QED BY ONLY <4>5, <4>6, Zenon
      <3>3. CASE d # depth
        BY <1>3, <3>1, <3>3
      <3> QED BY <3>2, <3>3
    <2>3. \A d \in 1..depth : d < depth => cursor'[d] = cursor[d]
      BY <1>2, <1>3 DEF Node
    <2>4. PathIsStack
      BY DEF IInv, SearchInvariant
    <2>5. \A d \in 1..depth :
            /\ path[d] \in Node /\ visit_state[path[d]] = 1
            /\ cursor'[d] \in 1..(Len(deps[path[d]]) + 1)
            /\ \A k \in 1..(cursor'[d] - 1) : visit_state[deps[path[d]][k]] = 2
      BY ONLY <2>2, <2>4, Zenon DEF PathIsStack
    <2>6. \A d \in 1..depth : d < depth =>
            /\ cursor'[d] <= Len(deps[path[d]])
            /\ deps[path[d]][cursor'[d]] = path[d + 1]
            /\ incoming[d + 1] = cursor'[d]
      <3> SUFFICES ASSUME NEW d \in 1..depth, d < depth
                   PROVE  /\ cursor'[d] <= Len(deps[path[d]])
                          /\ deps[path[d]][cursor'[d]] = path[d + 1]
                          /\ incoming[d + 1] = cursor'[d]
        OBVIOUS
      <3>1. /\ cursor[d] <= Len(deps[path[d]])
            /\ deps[path[d]][cursor[d]] = path[d + 1]
            /\ incoming[d + 1] = cursor[d]
        BY <2>4 DEF PathIsStack
      <3>2. cursor'[d] = cursor[d]
        BY <2>3
      <3> QED BY ONLY <3>1, <3>2
    <2> QED BY ONLY <2>1, <2>4, <2>5, <2>6 DEF PathIsStack
  <1>6. FinishedAreOrdered' /\ RootsBehind' /\ Verdict'
    BY <1>1 DEF IInv, SearchInvariant, FinishedAreOrdered, RootsBehind, Verdict, SkipFinished
  <1> QED BY <1>4, <1>5, <1>6 DEF IInv, SearchInvariant

\* Reporting a cycle: the target is in visit_state 1, so path[] holds it.
LEMMA ReportCycleIInv ==
  ASSUME IInv, ReportCycle
  PROVE  IInv'
  <1> USE NodeCountAssumption
  <1>1. AtDependency /\ depth > 0 /\ visit_state[Target] = 1
    BY DEF ReportCycle, AtDependency
  <1>2. /\ depth \in Node /\ Current \in Node /\ Target \in Node
        /\ cursor[depth] \in 1..Len(deps[Current])
    BY <1>1, AtDependencyFacts
  <1>3. PICK b \in Node : CycleBegin(b) /\ begin' = b
    BY DEF ReportCycle
  <1>4. b \in 1..depth /\ path[b] = Target
    <2>1. PICK d \in 1..depth : path[d] = Target
      BY <1>1, <1>2 DEF IInv, SearchInvariant, PathIsStack
    <2>2. CASE b < depth
      BY <1>3, <2>2 DEF CycleBegin
    <2>3. CASE b = depth
      BY <1>2, <1>3, <2>1, <2>3 DEF CycleBegin, Node
    <2> QED BY <1>2, <1>3, <2>2, <2>3 DEF CycleBegin, Node
  <1>5. TypeOK'
    BY <1>3, NodeNat DEF IInv, TypeOK, ReportCycle, frame
  <1>6. PathIsStack' /\ FinishedAreOrdered' /\ RootsBehind'
    BY DEF IInv, SearchInvariant, PathIsStack, FinishedAreOrdered, RootsBehind,
           ReportCycle, frame
  <1>7. Verdict'
    BY <1>1, <1>2, <1>3, <1>4 DEF Verdict, ReportCycle, frame, Current, Target
  <1> QED BY <1>5, <1>6, <1>7 DEF IInv, SearchInvariant

\* The end of the outer loop: every node is finished, hence ordered, hence the
\* order is full.
LEMMA CompleteIInv ==
  ASSUME IInv, Complete
  PROVE  IInv'
  <1> USE NodeCountAssumption
  <1>1. depth = 0 /\ index = NodeCount + 1 /\ status = "running"
    BY DEF IInv, TypeOK, Complete
  <1>2. \A n \in Node : \E i \in 1..Len(order) : order[i] = n
    BY <1>1 DEF IInv, SearchInvariant, FinishedAreOrdered, RootsBehind, Node
  <1>3. Len(order) = NodeCount
    <2>1. Len(order) \in Nat /\ \A i \in 1..Len(order) : order[i] \in Node
      BY DEF IInv, TypeOK
    <2>2. \A i, j \in 1..Len(order) : order[i] = order[j] => i = j
      BY DEF IInv, SearchInvariant, FinishedAreOrdered
    <2> QED BY ONLY <1>2, <2>1, <2>2, DistinctFit
  <1>4. status' = "ok"
    BY <1>3 DEF Complete
  <1>5. TypeOK'
    BY <1>4 DEF IInv, TypeOK, Complete, frame
  <1>6. PathIsStack' /\ FinishedAreOrdered' /\ RootsBehind'
    BY DEF IInv, SearchInvariant, PathIsStack, FinishedAreOrdered, RootsBehind,
           Complete, frame
  <1>7. Verdict'
    BY <1>1, <1>4 DEF Verdict, Complete, frame
  <1> QED BY <1>5, <1>6, <1>7 DEF IInv, SearchInvariant

\* Finishing a node.  It is not in the order yet, so there is room for it; all
\* its dependencies are finished, hence in the order before it.
LEMMA FinishIInv ==
  ASSUME IInv, Finish
  PROVE  IInv'
  <1> USE NodeCountAssumption
  <1>1. depth \in 1..NodeCount /\ depth \in Nat /\ status = "running"
    BY DEF Finish, IInv, TypeOK, SearchInvariant, PathIsStack
  <1>2. /\ Current \in Node /\ visit_state[Current] = 1
        /\ Len(deps[Current]) \in Nat
        /\ \A k \in 1..Len(deps[Current]) : deps[Current][k] \in Node
        /\ cursor[depth] = Len(deps[Current]) + 1
    <2>1. /\ Current \in Node /\ visit_state[Current] = 1
          /\ cursor[depth] \in 1..(Len(deps[Current]) + 1)
      BY <1>1 DEF IInv, SearchInvariant, PathIsStack, Current
    <2>2. /\ Len(deps[Current]) \in Nat
          /\ \A k \in 1..Len(deps[Current]) : deps[Current][k] \in Node
      BY <2>1, DepsType DEF IInv
    <2> QED BY <2>1, <2>2 DEF Finish
  <1>3. \A k \in 1..Len(deps[Current]) : visit_state[deps[Current][k]] = 2
    <2>1. \A k \in 1..(cursor[depth] - 1) : visit_state[deps[path[depth]][k]] = 2
      BY <1>1 DEF IInv, SearchInvariant, PathIsStack
    <2> QED BY <1>2, <2>1 DEF Current
  <1>4. /\ Len(order) \in Nat /\ order \in Seq(Node)
        /\ \A i \in 1..Len(order) : order[i] \in Node
        /\ \A i \in 1..Len(order) : order[i] # Current
        /\ \A i, j \in 1..Len(order) : order[i] = order[j] => i = j
    <2>1. order \in Seq(Node)
      BY DEF IInv, TypeOK
    <2>2. /\ \A n \in Node :
                visit_state[n] = 2 <=> \E i \in 1..Len(order) : order[i] = n
          /\ \A i, j \in 1..Len(order) : order[i] = order[j] => i = j
      BY DEF IInv, SearchInvariant, FinishedAreOrdered
    <2> QED BY <1>2, <2>1, <2>2
  <1>5. Len(order) < NodeCount
    <2>1. /\ Len(order) <= NodeCount
          /\ Len(order) = NodeCount =>
                \A n \in Node : \E i \in 1..Len(order) : order[i] = n
      BY ONLY <1>4, DistinctFit
    <2> QED BY <1>2, <1>4, <2>1
  <1>6. /\ order' = Append(order, Current)
        /\ depth' = depth - 1
        /\ UNCHANGED <<deps, path, incoming, status, begin>>
        /\ visit_state' = [visit_state EXCEPT ![Current] = 2]
    BY <1>4, <1>5 DEF Finish
  <1>7. /\ visit_state'[Current] = 2
        /\ \A n \in Node : n # Current => visit_state'[n] = visit_state[n]
        /\ visit_state' \in [Node -> 0..2]
    BY <1>2, <1>6 DEF IInv, TypeOK
  <1>8. /\ Len(order') = Len(order) + 1
        /\ \A i \in 1..Len(order) : order'[i] = order[i]
        /\ order'[Len(order) + 1] = Current
        /\ order' \in Seq(Node)
    BY <1>2, <1>4, <1>6
  <1>9. /\ cursor' \in [Node -> Nat]
        /\ depth > 1 => cursor'[depth - 1] = cursor[depth - 1] + 1
        /\ \A d \in 1..depth : d < depth - 1 => cursor'[d] = cursor[d]
    <2>1. cursor' = IF depth > 1 THEN [cursor EXCEPT ![depth - 1] = @ + 1] ELSE cursor
      BY <1>4, <1>5 DEF Finish
    <2>2. \A d \in 1..depth : d \in Node
      BY <1>1 DEF Node
    <2>3. depth > 1 => depth - 1 \in Node
      BY <1>1 DEF Node
    <2>4. cursor \in [Node -> Nat]
      BY DEF IInv, TypeOK
    <2> QED BY <1>1, <2>1, <2>2, <2>3, <2>4
  <1>10. index' = IF depth > 1 THEN index ELSE index + 1
    BY <1>4, <1>5 DEF Finish
  <1>11. index \in 1..(NodeCount + 1) /\ path[1] = index /\ path[1] \in Node
    BY <1>1 DEF IInv, TypeOK, SearchInvariant, RootsBehind, PathIsStack
  <1>12. TypeOK'
    <2>1. index' \in 1..(NodeCount + 1)
      BY <1>10, <1>11 DEF Node
    <2>2. depth' \in Nat
      BY <1>1, <1>6
    <2> QED BY <1>6, <1>7, <1>8, <1>9, <2>1, <2>2 DEF IInv, TypeOK
  <1>13. PathIsStack'
    <2>1. \A d \in 1..depth' :
            /\ d \in 1..depth /\ d < depth
            /\ path[d] \in Node /\ path[d] # Current
      BY <1>1, <1>6 DEF IInv, SearchInvariant, PathIsStack, Current
    <2>2. \A d \in 1..depth' :
            /\ visit_state'[path[d]] = 1
            /\ cursor'[d] \in 1..(Len(deps[path[d]]) + 1)
            /\ \A k \in 1..(cursor'[d] - 1) : visit_state'[deps[path[d]][k]] = 2
      <3> SUFFICES ASSUME NEW d \in 1..depth'
                   PROVE  /\ visit_state'[path[d]] = 1
                          /\ cursor'[d] \in 1..(Len(deps[path[d]]) + 1)
                          /\ \A k \in 1..(cursor'[d] - 1) :
                                visit_state'[deps[path[d]][k]] = 2
        OBVIOUS
      <3>1. /\ path[d] \in Node /\ path[d] # Current /\ d < depth
            /\ visit_state[path[d]] = 1
            /\ cursor[d] \in 1..Len(deps[path[d]])
            /\ \A k \in 1..(cursor[d] - 1) : visit_state[deps[path[d]][k]] = 2
            /\ deps[path[d]][cursor[d]] = path[d + 1]
        <4>1. /\ cursor[d] \in 1..(Len(deps[path[d]]) + 1)
              /\ cursor[d] <= Len(deps[path[d]])
              /\ deps[path[d]][cursor[d]] = path[d + 1]
              /\ visit_state[path[d]] = 1
              /\ \A k \in 1..(cursor[d] - 1) : visit_state[deps[path[d]][k]] = 2
          BY <2>1 DEF IInv, SearchInvariant, PathIsStack
        <4>2. Len(deps[path[d]]) \in Nat
          BY <2>1, DepsType DEF IInv
        <4>3. cursor[d] \in 1..Len(deps[path[d]])
          BY ONLY <4>1, <4>2
        <4>4. path[d] \in Node /\ path[d] # Current /\ d < depth
          BY <2>1
        <4> QED BY <4>1, <4>3, <4>4
      <3>2. /\ Len(deps[path[d]]) \in Nat
            /\ \A k \in 1..Len(deps[path[d]]) : deps[path[d]][k] \in Node
        BY <3>1, DepsType DEF IInv
      <3>3. \A k \in 1..(cursor[d] - 1) : visit_state'[deps[path[d]][k]] = 2
        <4>1. ASSUME NEW k \in 1..(cursor[d] - 1)
              PROVE  visit_state'[deps[path[d]][k]] = 2
          <5>1. k \in 1..Len(deps[path[d]])
            BY ONLY <3>1, <3>2, k \in 1..(cursor[d] - 1)
          <5>2. deps[path[d]][k] \in Node /\ visit_state[deps[path[d]][k]] = 2
            BY <3>1, <3>2, <5>1
          <5> QED BY ONLY <1>7, <5>2
        <4> QED BY <4>1
      <3>4. CASE d = depth - 1
        <4>1. cursor'[d] = cursor[d] + 1 /\ path[d + 1] = Current
          BY <1>1, <1>9, <3>4 DEF Current
        <4>2. cursor'[d] \in 1..(Len(deps[path[d]]) + 1)
          BY ONLY <3>1, <3>2, <4>1
        <4>3. visit_state'[deps[path[d]][cursor[d]]] = 2
          BY <1>7, <3>1, <4>1
        <4>4. \A k \in 1..(cursor'[d] - 1) : k \in 1..(cursor[d] - 1) \/ k = cursor[d]
          BY ONLY <3>1, <3>2, <4>1
        <4> QED BY <1>7, <3>1, <3>3, <4>2, <4>3, <4>4
      <3>5. CASE d < depth - 1
        <4>1. cursor'[d] = cursor[d]
          BY <2>1, <1>9, <3>5
        <4> QED BY <1>7, <3>1, <3>2, <3>3, <4>1
      <3> QED BY <1>1, <3>1, <3>4, <3>5
    <2>3. \A d \in 1..depth' : d < depth' =>
            /\ cursor'[d] <= Len(deps[path[d]])
            /\ deps[path[d]][cursor'[d]] = path[d + 1]
            /\ incoming[d + 1] = cursor'[d]
      <3> SUFFICES ASSUME NEW d \in 1..depth', d < depth'
                   PROVE  /\ cursor'[d] <= Len(deps[path[d]])
                          /\ deps[path[d]][cursor'[d]] = path[d + 1]
                          /\ incoming[d + 1] = cursor'[d]
        OBVIOUS
      <3>1. cursor'[d] = cursor[d] /\ d \in 1..depth /\ d < depth
        BY <1>1, <1>6, <1>9
      <3> QED BY <3>1 DEF IInv, SearchInvariant, PathIsStack
    <2>4. \A n \in Node : visit_state'[n] = 1 => \E d \in 1..depth' : path[d] = n
      <3> SUFFICES ASSUME NEW n \in Node, visit_state'[n] = 1
                   PROVE  \E d \in 1..depth' : path[d] = n
        OBVIOUS
      <3>1. n # Current /\ visit_state[n] = 1
        BY <1>7
      <3>2. PICK d \in 1..depth : path[d] = n
        BY <3>1 DEF IInv, SearchInvariant, PathIsStack
      <3> QED BY <1>1, <1>6, <3>1, <3>2 DEF Current
    <2>5. /\ depth' <= NodeCount
          /\ \A d, e \in 1..depth' : path[d] = path[e] => d = e
      BY <1>1, <1>6, <2>1 DEF IInv, SearchInvariant, PathIsStack
    <2> QED BY <1>6, <2>1, <2>2, <2>3, <2>4, <2>5 DEF PathIsStack
  <1>14. FinishedAreOrdered'
    <2>1. \A n \in Node :
            visit_state'[n] = 2 <=> \E i \in 1..Len(order') : order'[i] = n
      <3>1. \A n \in Node :
              visit_state[n] = 2 <=> \E i \in 1..Len(order) : order[i] = n
        BY DEF IInv, SearchInvariant, FinishedAreOrdered
      <3>2. Len(order) \in Nat
        BY <1>4
      <3>3. \A n \in Node : (\E i \in 1..Len(order') : order'[i] = n)
                             <=> n = Current \/ \E i \in 1..Len(order) : order[i] = n
        <4>1. 1..Len(order') = (1..Len(order)) \cup {Len(order) + 1}
          BY ONLY <1>8, <3>2
        <4> QED BY ONLY <1>8, <4>1
      <3>4. \A n \in Node : visit_state'[n] = 2 <=> n = Current \/ visit_state[n] = 2
        BY ONLY <1>7
      <3> QED BY ONLY <3>1, <3>3, <3>4
    <2>2. \A i, j \in 1..Len(order') : order'[i] = order'[j] => i = j
      BY <1>4, <1>8
    <2>3. \A i \in 1..Len(order') : \A k \in 1..Len(deps[order'[i]]) :
            \E j \in 1..(i - 1) : order'[j] = deps[order'[i]][k]
      <3> SUFFICES ASSUME NEW i \in 1..Len(order'),
                          NEW k \in 1..Len(deps[order'[i]])
                   PROVE  \E j \in 1..(i - 1) : order'[j] = deps[order'[i]][k]
        OBVIOUS
      <3>1. CASE i = Len(order) + 1
        <4>1. PICK j \in 1..Len(order) : order[j] = deps[Current][k]
          BY <1>2, <1>3, <1>8, <3>1 DEF IInv, SearchInvariant, FinishedAreOrdered
        <4> QED BY <1>4, <1>8, <3>1, <4>1
      <3>2. CASE i \in 1..Len(order)
        <4>1. PICK j \in 1..(i - 1) : order[j] = deps[order[i]][k]
          BY <1>8, <3>2 DEF IInv, SearchInvariant, FinishedAreOrdered
        <4> QED BY <1>4, <1>8, <3>2, <4>1
      <3> QED BY <1>4, <1>8, <3>1, <3>2
    <2>4. deps' = deps
      BY <1>6
    <2> QED BY <2>1, <2>2, <2>3, <2>4 DEF FinishedAreOrdered
  <1>15. RootsBehind'
    <2>1. \A n \in 1..(index - 1) : visit_state[n] = 2 /\ n \in Node
      BY <1>11 DEF IInv, SearchInvariant, RootsBehind, Node
    <2>2. depth = 1 => visit_state'[index] = 2
      BY <1>7, <1>11 DEF Current
    <2>3. \A n \in 1..(index' - 1) : visit_state'[n] = 2
      BY <1>1, <1>7, <1>10, <1>11, <2>1, <2>2
    <2>4. depth' > 0 => path'[1] = index'
      BY <1>1, <1>6, <1>10, <1>11
    <2> QED BY <2>3, <2>4 DEF RootsBehind
  <1>16. Verdict'
    BY <1>1, <1>6 DEF Verdict
  <1> QED BY <1>12, <1>13, <1>14, <1>15, <1>16 DEF IInv, SearchInvariant
-----------------------------------------------------------------------------
\* Every step of the search preserves the invariant.
LEMMA NextIInv == IInv /\ [Next]_vars => IInv'
  <1> SUFFICES ASSUME IInv, [Next]_vars
               PROVE  IInv'
    OBVIOUS
  <1>1. CASE SkipRoot     BY <1>1, SkipRootIInv
  <1>2. CASE VisitRoot    BY <1>2, VisitRootIInv
  <1>3. CASE Descend      BY <1>3, DescendIInv
  <1>4. CASE SkipFinished BY <1>4, SkipFinishedIInv
  <1>5. CASE ReportCycle  BY <1>5, ReportCycleIInv
  <1>6. CASE Finish       BY <1>6, FinishIInv
  <1>7. CASE Complete     BY <1>7, CompleteIInv
  <1>8. CASE UNCHANGED vars
    <2> USE <1>8 DEF vars, frame
    <2>1. TypeOK'
      BY DEF IInv, TypeOK
    <2>2. PathIsStack'
      BY DEF IInv, SearchInvariant, PathIsStack
    <2>3. FinishedAreOrdered'
      BY DEF IInv, SearchInvariant, FinishedAreOrdered
    <2>4. RootsBehind' /\ Verdict'
      BY DEF IInv, SearchInvariant, RootsBehind, Verdict
    <2> QED BY <2>1, <2>2, <2>3, <2>4 DEF IInv, SearchInvariant
  <1> QED
    BY <1>1, <1>2, <1>3, <1>4, <1>5, <1>6, <1>7, <1>8 DEF Next

\* The inductive invariant holds throughout the search.
LEMMA SpecIInv == Spec => []IInv
  BY InitIInv, NextIInv, PTL DEF Spec

\* The state of the search keeps its shape.
THEOREM TypeCorrect == Spec => []TypeOK
  <1>1. IInv => TypeOK
    BY DEF IInv
  <1> QED BY <1>1, SpecIInv, PTL

\* At every step the frames are a path of distinct unfinished nodes and the
\* order is a topological order of the finished ones.
THEOREM SearchInvariantHolds == Spec => []SearchInvariant
  <1>1. IInv => SearchInvariant
    BY DEF IInv
  <1> QED BY <1>1, SpecIInv, PTL

\* visit() never writes past path[] and incoming[], and neither internal-error
\* return of the search is reachable, whatever the graph.
THEOREM SearchIsSafe == Spec => [](BufferBound /\ NoInternalError)
  <1>1. IInv => BufferBound /\ NoInternalError
    BY DEF IInv, SearchInvariant, PathIsStack, Verdict, BufferBound, NoInternalError
  <1> QED BY <1>1, SpecIInv, PTL

\* What the search has recorded of a cycle is one.
LEMMA IInvCycleGenuine == IInv => CycleGenuine
  <1>1. ASSUME IInv, status = "cycle", NEW d \in begin..depth
        PROVE  LET edge == ReportedEdge(d) IN
               /\ edge \in DOMAIN deps[path[d]]
               /\ deps[path[d]][edge] =
                     IF d < depth THEN path[d + 1] ELSE path[begin]
    <2>1. /\ begin \in 1..depth /\ depth \in Nat /\ begin \in Nat
          /\ cursor[depth] <= Len(deps[path[depth]])
          /\ deps[path[depth]][cursor[depth]] = path[begin]
      BY <1>1 DEF IInv, TypeOK, SearchInvariant, Verdict
    <2>2. d \in 1..depth
      BY <1>1, <2>1
    <2>3. /\ path[d] \in Node
          /\ cursor[d] \in 1..(Len(deps[path[d]]) + 1)
      BY <1>1, <2>2 DEF IInv, SearchInvariant, PathIsStack
    <2>4. Len(deps[path[d]]) \in Nat /\ DOMAIN deps[path[d]] = 1..Len(deps[path[d]])
      BY <1>1, <2>3, DepsType DEF IInv
    <2>5. CASE d < depth
      <3>1. /\ cursor[d] <= Len(deps[path[d]])
            /\ deps[path[d]][cursor[d]] = path[d + 1]
            /\ incoming[d + 1] = cursor[d]
        BY <1>1, <2>2, <2>5 DEF IInv, SearchInvariant, PathIsStack
      <3> QED BY <2>3, <2>4, <2>5, <3>1 DEF ReportedEdge
    <2>6. CASE d = depth
      BY <2>1, <2>3, <2>4, <2>6 DEF ReportedEdge
    <2> QED BY <2>1, <2>2, <2>5, <2>6
  <1>2. IInv /\ status = "cycle" => begin \in 1..depth
    BY DEF IInv, SearchInvariant, Verdict
  <1> QED BY <1>1, <1>2 DEF CycleGenuine

\* A reported cycle is a cycle of the graph, edge by edge.
THEOREM ReportedCycleIsGenuine == Spec => []CycleGenuine
  BY IInvCycleGenuine, SpecIInv, PTL

\* In every state in which the search has succeeded the order is full.
LEMMA OkOrder ==
  ASSUME IInv, status = "ok"
  PROVE  /\ order \in Seq(Node) /\ Len(order) = NodeCount
         /\ \A n \in Node : \E i \in 1..Len(order) : order[i] = n
  <1>1. depth = 0 /\ index = NodeCount + 1 /\ order \in Seq(Node)
    BY DEF IInv, TypeOK, SearchInvariant, Verdict
  <1>2. \A n \in Node : \E i \in 1..Len(order) : order[i] = n
    <2>1. \A n \in Node : visit_state[n] = 2
      <3>1. \A n \in 1..(index - 1) : visit_state[n] = 2
        BY DEF IInv, SearchInvariant, RootsBehind
      <3> QED BY ONLY <1>1, <3>1, NodeCountAssumption DEF Node
    <2> QED BY <2>1 DEF IInv, SearchInvariant, FinishedAreOrdered
  <1>3. Len(order) = NodeCount
    <2>1. Len(order) \in Nat /\ \A i \in 1..Len(order) : order[i] \in Node
      BY <1>1
    <2>2. \A i, j \in 1..Len(order) : order[i] = order[j] => i = j
      BY DEF IInv, SearchInvariant, FinishedAreOrdered
    <2> QED BY ONLY <1>2, <2>1, <2>2, DistinctFit
  <1> QED BY <1>1, <1>2, <1>3

\* The order of a search that has succeeded is topological.
LEMMA IInvOrderIsTopological == IInv => OrderIsTopological
  <1>1. ASSUME IInv, status = "ok"
        PROVE  /\ DOMAIN order = Node
               /\ \A n \in Node : \E i \in Node : order[i] = n
               /\ \A i \in Node : \A k \in DOMAIN deps[order[i]] :
                     \E j \in 1..(i - 1) : order[j] = deps[order[i]][k]
    <2>1. order \in Seq(Node) /\ Len(order) = NodeCount /\ Node = 1..Len(order)
      BY <1>1, OkOrder DEF Node
    <2>2. \A i \in Node : order[i] \in Node
      BY <2>1
    <2>3. \A i \in Node : DOMAIN deps[order[i]] = 1..Len(deps[order[i]])
      BY <1>1, <2>2, DepsType DEF IInv
    <2>4. DOMAIN order = Node
      BY <2>1
    <2>5. \A n \in Node : \E i \in Node : order[i] = n
      BY <1>1, <2>1, OkOrder
    <2>6. \A i \in Node : \A k \in DOMAIN deps[order[i]] :
            \E j \in 1..(i - 1) : order[j] = deps[order[i]][k]
      <3>1. \A i \in 1..Len(order) : \A k \in 1..Len(deps[order[i]]) :
              \E j \in 1..(i - 1) : order[j] = deps[order[i]][k]
        BY <1>1 DEF IInv, SearchInvariant, FinishedAreOrdered
      <3>2. \A i \in Node : i \in 1..Len(order)
        BY <2>1
      <3> QED BY ONLY <3>1, <3>2, <2>3
    <2> QED BY <2>4, <2>5, <2>6
  <1> QED BY <1>1 DEF OrderIsTopological

\* A successful search returns a topological order of all symbols.
THEOREM OrderIsCorrect == Spec => []OrderIsTopological
  BY IInvOrderIsTopological, SpecIInv, PTL

\* A full topological order leaves no circular set of symbols.
LEMMA OkAcyclic ==
  ASSUME IInv, status = "ok", NEW C \in SUBSET Node, Abstract!Circular(C)
  PROVE  FALSE
  <1> DEFINE Places == {i \in 1..Len(order) : order[i] \in C}
  <1>1. Places \subseteq Nat /\ Places # {}
    <2>1. PICK n \in C : TRUE
      BY DEF Abstract!Circular
    <2>2. \E i \in 1..Len(order) : order[i] = n
      BY <2>1, OkOrder
    <2>3. Len(order) \in Nat
      BY OkOrder
    <2> QED BY <2>1, <2>2, <2>3
  <1>2. PICK i \in Places : \A j \in Places : ~(<<j, i>> \in OpToRel(<, Nat))
    <2> HIDE DEF Places
    <2> QED BY <1>1, WFMin, NatLessThanWellFounded
  <1>3. i \in 1..Len(order) /\ i \in Nat /\ order[i] \in C
    BY <1>1, <1>2
  <1>4. PICK k \in DOMAIN deps[order[i]] : deps[order[i]][k] \in C
    BY <1>3 DEF Abstract!Circular, Abstract!Dependencies
  <1>5. k \in 1..Len(deps[order[i]])
    BY <1>3, <1>4, DepsType DEF IInv
  <1>6. PICK j \in 1..(i - 1) : order[j] = deps[order[i]][k]
    BY <1>3, <1>5 DEF IInv, SearchInvariant, FinishedAreOrdered
  <1>7. j \in Places /\ j \in Nat /\ j < i
    BY <1>3, <1>4, <1>6
  <1>8. <<j, i>> \in OpToRel(<, Nat)
    BY <1>3, <1>7 DEF OpToRel
  <1> QED BY <1>2, <1>7, <1>8

\* The nodes of the reported path are a circular set.
LEMMA CycleCircular ==
  IInv /\ status = "cycle" => \E C \in SUBSET Node : Abstract!Circular(C)
  <1> SUFFICES ASSUME IInv, status = "cycle"
               PROVE  \E C \in SUBSET Node : Abstract!Circular(C)
    OBVIOUS
  <1> DEFINE C == {path[d] : d \in begin..depth}
  <1>1. /\ begin \in 1..depth /\ depth \in Nat /\ begin \in Nat
        /\ cursor[depth] <= Len(deps[path[depth]])
        /\ deps[path[depth]][cursor[depth]] = path[begin]
    BY DEF IInv, TypeOK, SearchInvariant, Verdict
  <1>2. C \in SUBSET Node /\ C # {}
    BY <1>1 DEF IInv, SearchInvariant, PathIsStack
  <1>3. ASSUME NEW n \in C
        PROVE  Abstract!Dependencies(n) \cap C # {}
    <2>1. PICK d \in begin..depth : n = path[d]
      OBVIOUS
    <2>2. d \in 1..depth /\ path[d] \in Node
      <3>1. d \in 1..depth
        BY ONLY <1>1, d \in begin..depth
      <3>2. \A e \in 1..depth : path[e] \in Node
        BY DEF IInv, SearchInvariant, PathIsStack
      <3> QED BY ONLY <3>1, <3>2
    <2>3. /\ cursor[d] \in 1..(Len(deps[path[d]]) + 1)
          /\ d < depth => /\ cursor[d] <= Len(deps[path[d]])
                          /\ deps[path[d]][cursor[d]] = path[d + 1]
      BY <2>2 DEF IInv, SearchInvariant, PathIsStack
    <2>4. Len(deps[path[d]]) \in Nat /\ DOMAIN deps[path[d]] = 1..Len(deps[path[d]])
      BY <2>2, DepsType DEF IInv
    <2>5. cursor[d] \in DOMAIN deps[path[d]]
      BY <1>1, <2>2, <2>3, <2>4
    <2>6. deps[path[d]][cursor[d]] \in C
      <3>1. CASE d < depth
        <4>1. d + 1 \in begin..depth
          BY <1>1, <2>2, <3>1
        <4> QED BY <2>3, <3>1, <4>1
      <3>2. CASE d = depth
        BY <1>1, <3>2
      <3> QED BY <1>1, <2>2, <3>1, <3>2
    <2> QED BY <2>1, <2>5, <2>6 DEF Abstract!Dependencies
  <1>4. Abstract!Circular(C)
    BY <1>2, <1>3 DEF Abstract!Circular
  <1> QED BY <1>2, <1>4

\* The verdict is right on every graph: success means there is no circular set
\* of symbols, a reported cycle is one.
THEOREM VerdictIsCorrect == Spec => []VerdictIsRight
  <1>1. IInv => VerdictIsRight
    BY OkAcyclic, CycleCircular DEF VerdictIsRight, Abstract!Acyclic
  <1> QED BY <1>1, SpecIInv, PTL
-----------------------------------------------------------------------------
\* A node is placed when it is finished, and only then.
LEMMA FinishPlaces ==
  ASSUME IInv, Finish
  PROVE  \E n \in Node : Abstract!Place(n)
  <1> USE NodeCountAssumption
  <1>1. depth \in 1..depth /\ depth \in Nat /\ status = "running"
    BY DEF Finish, IInv, TypeOK
  <1>2. /\ Current \in Node /\ visit_state[Current] = 1
        /\ cursor[depth] \in 1..(Len(deps[Current]) + 1)
        /\ \A k \in 1..(cursor[depth] - 1) : visit_state[deps[Current][k]] = 2
    BY <1>1 DEF IInv, SearchInvariant, PathIsStack, Current
  <1>3. /\ Len(deps[Current]) \in Nat /\ DOMAIN deps[Current] = 1..Len(deps[Current])
        /\ \A k \in 1..Len(deps[Current]) : deps[Current][k] \in Node
    BY <1>2, DepsType DEF IInv
  <1>4. cursor[depth] > Len(deps[Current])
    BY DEF Finish
  <1>5. \A k \in DOMAIN deps[Current] :
          deps[Current][k] \in Node /\ visit_state[deps[Current][k]] = 2
    BY <1>2, <1>3, <1>4
  <1>6. DOMAIN order = 1..Len(order)
    BY DEF IInv, TypeOK
  <1>7. \A n \in Node : visit_state[n] = 2 <=> n \in Abstract!Ordered
    BY <1>6 DEF IInv, SearchInvariant, FinishedAreOrdered, Abstract!Ordered
  <1>8. status' # "internal"
    BY FinishIInv DEF IInv, SearchInvariant, Verdict
  <1>9. order' = Append(order, Current) /\ UNCHANGED <<deps, status>>
    BY <1>8 DEF Finish
  <1>10. Current \notin Abstract!Ordered
    BY <1>2, <1>7
  <1>11. Abstract!Dependencies(Current) \subseteq Abstract!Ordered
    BY <1>5, <1>7 DEF Abstract!Dependencies
  <1>12. Abstract!Place(Current)
    BY <1>1, <1>9, <1>10, <1>11 DEF Abstract!Place
  <1> QED BY <1>2, <1>12

\* The search succeeds only with every node placed.
LEMMA CompleteSucceeds ==
  ASSUME IInv, Complete
  PROVE  Abstract!Succeed
  <1>1. IInv' /\ status = "running" /\ UNCHANGED <<deps, order, visit_state, index>>
    BY CompleteIInv DEF Complete
  <1>2. status' = "ok"
    BY <1>1 DEF IInv, SearchInvariant, Verdict, Complete
  <1>3. index = NodeCount + 1
    BY NodeCountAssumption DEF Complete, IInv, TypeOK
  <1>4. \A n \in Node : \E i \in 1..Len(order) : order[i] = n
    BY <1>3, NodeCountAssumption
       DEF IInv, SearchInvariant, FinishedAreOrdered, RootsBehind, Node
  <1>5. /\ DOMAIN order = 1..Len(order)
        /\ \A i \in 1..Len(order) : order[i] \in Node
    BY DEF IInv, TypeOK
  <1>6. Abstract!Ordered = Node
    BY <1>4, <1>5 DEF Abstract!Ordered
  <1> QED BY <1>1, <1>2, <1>6 DEF Abstract!Succeed

\* The depth-first search implements the abstract ordering step: the order
\* grows only by nodes whose dependencies are in it, success needs every node
\* and failure a circular set.
THEOREM SearchRefines == Spec => Refinement
  <1>1. Init => Abstract!AInit
    BY DEF Init, InitWith, Abstract!AInit
  <1>2. (IInv /\ status = "cycle" => \E C \in SUBSET Node : Abstract!Circular(C))'
    BY CycleCircular, PTL
  <1>3. ASSUME IInv, [Next]_vars
        PROVE  [Abstract!ANext]_<<deps, order, status>>
    <2>1. CASE SkipRoot
      BY <2>1 DEF SkipRoot
    <2>2. CASE VisitRoot
      BY <2>2 DEF VisitRoot
    <2>3. CASE Descend
      BY <2>3 DEF Descend
    <2>4. CASE SkipFinished
      BY <2>4 DEF SkipFinished
    <2>5. CASE ReportCycle
      <3>1. IInv' /\ status' = "cycle" /\ status = "running" /\ UNCHANGED <<deps, order>>
        BY <1>3, <2>5, ReportCycleIInv DEF ReportCycle, AtDependency
      <3>2. PICK C \in SUBSET Node : Abstract!Circular(C)'
        BY <1>2, <3>1
      <3>3. Abstract!Circular(C)
        BY <3>1, <3>2 DEF Abstract!Circular, Abstract!Dependencies
      <3> QED BY <3>1, <3>3 DEF Abstract!ANext, Abstract!Fail
    <2>6. CASE Finish
      BY <1>3, <2>6, FinishPlaces DEF Abstract!ANext
    <2>7. CASE Complete
      BY <1>3, <2>7, CompleteSucceeds DEF Abstract!ANext
    <2>8. CASE UNCHANGED vars
      BY <2>8 DEF vars
    <2> QED BY <1>3, <2>1, <2>2, <2>3, <2>4, <2>5, <2>6, <2>7, <2>8 DEF Next
  <1> QED BY <1>1, <1>3, SpecIInv, PTL DEF Spec, Refinement, Abstract!ASpec
-----------------------------------------------------------------------------
\* A project as the linker hands it over.
Linked(p) == p \in ProjectRecord /\ LinkedFully(p) /\ DefaultsAreMembers(p)

\* The parts of a project that the proofs look at.
LEMMA ProjectFacts ==
  ASSUME NEW p, Linked(p)
  PROVE  /\ p.linked \in Seq(LinkedExpression)
         /\ p.symbol \in [Node -> SymbolRecord]
         /\ p.choice \in Seq(ChoiceRecord)
         /\ p.request \in [Node -> Request]
         /\ p.constraint \in Nat
         /\ p.edits \in SUBSET [option : Node, value : Request]
  BY DEF Linked, ProjectRecord

\* Every linked expression has the operands of its operator, all of them options.
LEMMA ExpressionFacts ==
  ASSUME NEW p, Linked(p), NEW i \in DOMAIN p.linked
  PROVE  /\ p.linked[i] \in LinkedExpression
         /\ p.linked[i].op \in Operator
         /\ p.linked[i].args \in Seq(Node)
         /\ Len(p.linked[i].args) = Arity(p.linked[i].op)
  <1>1. p.linked[i] \in LinkedExpression
    BY ProjectFacts
  <1>2. Len(p.linked[i].args) = Arity(p.linked[i].op)
    BY DEF Linked, LinkedFully
  <1> QED BY <1>1, <1>2 DEF LinkedExpression

\* find_expression returns an expression of the role, the owner and the
\* occurrence it is asked for.
LEMMA FoundExpression ==
  ASSUME NEW p, NEW role, NEW owner, NEW occurrence,
         HasExpression(p, role, owner, occurrence)
  PROVE  \E i \in DOMAIN p.linked :
            /\ FindExpression(p, role, owner, occurrence) = p.linked[i]
            /\ p.linked[i].role = role
            /\ p.linked[i].owner = owner
            /\ p.linked[i].occurrence = occurrence
  BY Zenon DEF HasExpression, FindExpression
-----------------------------------------------------------------------------
(* Evaluation of an expression.                                            *)

\* The operands that an operator has are options.
LEMMA Operands ==
  ASSUME NEW e \in LinkedExpression, Len(e.args) = Arity(e.op)
  PROVE  /\ e.args \in Seq(Node) /\ e.op \in Operator
         /\ e.op # "true" => 1 \in DOMAIN e.args /\ e.args[1] \in Node
         /\ e.op \in {"and", "or", "if"} => 2 \in DOMAIN e.args /\ e.args[2] \in Node
         /\ e.op = "if" => 3 \in DOMAIN e.args /\ e.args[3] \in Node
  <1>1. e.args \in Seq(Node) /\ e.op \in Operator
    BY DEF LinkedExpression
  <1>2. /\ e.op # "true" => Len(e.args) >= 1
        /\ e.op \in {"and", "or", "if"} => Len(e.args) >= 2
        /\ e.op = "if" => Len(e.args) >= 3
    BY <1>1 DEF Arity, Operator
  <1>3. DOMAIN e.args = 1..Len(e.args) /\ Len(e.args) \in Nat
    BY <1>1
  <1>4. \A k \in 1..Len(e.args) : e.args[k] \in Node
    BY <1>1
  <1> QED BY <1>1, <1>2, <1>3, <1>4

\* An expression has a value, is unset or fails.
LEMMA EvalType ==
  ASSUME NEW e \in LinkedExpression, Len(e.args) = Arity(e.op),
         NEW env \in [Node -> Bound]
  PROVE  Eval(e, env) \in Bound \cup {Error}
  <1>1. /\ e.op \in Operator
        /\ e.op # "true" => env[e.args[1]] \in Bound
        /\ e.op \in {"and", "or", "if"} => env[e.args[2]] \in Bound
        /\ e.op = "if" => env[e.args[3]] \in Bound
    BY Operands
  <1>2. {"y", "n"} \subseteq Bound
    BY DEF Bound, Value
  <1> QED BY <1>1, <1>2 DEF Eval, EvalReference, EvalUnary, EvalBinary, EvalConditional,
               EvalCall, Truth, Operator

\* An expression depends on the values of its operands only.
LEMMA EvalReads ==
  ASSUME NEW e \in LinkedExpression, Len(e.args) = Arity(e.op),
         NEW env, NEW other,
         \A k \in DOMAIN e.args : env[e.args[k]] = other[e.args[k]]
  PROVE  Eval(e, env) = Eval(e, other)
  <1>1. /\ e.op # "true" => env[e.args[1]] = other[e.args[1]]
        /\ e.op \in {"and", "or", "if"} => env[e.args[2]] = other[e.args[2]]
        /\ e.op = "if" => env[e.args[3]] = other[e.args[3]]
        /\ e.op \in Operator
    BY Operands
  <1> QED BY <1>1 DEF Eval, EvalReference, EvalUnary, EvalBinary, EvalConditional,
               EvalCall, Truth, Operator

-----------------------------------------------------------------------------
(* The dependency lists.                                                   *)

\* The references of a node, as pairs of positions.
LEMMA ReferencesType ==
  ASSUME NEW p, Linked(p), NEW n
  PROVE  /\ IsFiniteSet(References(p, n))
         /\ \A r \in References(p, n) :
               /\ r = <<r[1], r[2]>> /\ r[1] \in Nat /\ r[2] \in Nat
               /\ r[1] \in DOMAIN p.linked /\ r[2] \in DOMAIN p.linked[r[1]].args
               /\ ReferenceTarget(p, r) \in Node
  <1>1. p.linked \in Seq(LinkedExpression)
    BY ProjectFacts
  <1>2. DOMAIN p.linked = 1..Len(p.linked) /\ Len(p.linked) \in Nat
    BY <1>1
  <1>3. \A i \in DOMAIN p.linked : /\ p.linked[i].args \in Seq(Node)
                                   /\ Len(p.linked[i].args) \in 0..3
    <2> SUFFICES ASSUME NEW i \in DOMAIN p.linked
                 PROVE  /\ p.linked[i].args \in Seq(Node)
                        /\ Len(p.linked[i].args) \in 0..3
      OBVIOUS
    <2>1. p.linked[i].args \in Seq(Node) /\ Len(p.linked[i].args) = Arity(p.linked[i].op)
      BY ExpressionFacts
    <2>2. Arity(p.linked[i].op) \in 0..3
      BY DEF Arity
    <2> QED BY <2>1, <2>2
  <1>4. \A r \in References(p, n) : \E i \in DOMAIN p.linked : \E k \in DOMAIN p.linked[i].args :
            r = <<i, k>>
    <2> SUFFICES ASSUME NEW r \in References(p, n)
                 PROVE  \E i \in DOMAIN p.linked : \E k \in DOMAIN p.linked[i].args : r = <<i, k>>
      OBVIOUS
    <2>1. PICK i \in DOMAIN p.linked : r \in {i} \X DOMAIN p.linked[i].args
      BY DEF References
    <2>2. \E k \in DOMAIN p.linked[i].args : r = <<i, k>>
      BY ONLY <2>1
    <2> QED BY <2>2
  <1>5. \A r \in References(p, n) :
            /\ r = <<r[1], r[2]>>
            /\ r[1] \in 1..Len(p.linked) /\ r[2] \in 1..3
            /\ r[1] \in DOMAIN p.linked /\ r[2] \in DOMAIN p.linked[r[1]].args
            /\ p.linked[r[1]].args[r[2]] \in Node
    <2> SUFFICES ASSUME NEW r \in References(p, n)
                 PROVE  /\ r = <<r[1], r[2]>>
                        /\ r[1] \in 1..Len(p.linked) /\ r[2] \in 1..3
                        /\ r[1] \in DOMAIN p.linked /\ r[2] \in DOMAIN p.linked[r[1]].args
                        /\ p.linked[r[1]].args[r[2]] \in Node
      OBVIOUS
    <2>1. PICK i \in DOMAIN p.linked : \E k \in DOMAIN p.linked[i].args : r = <<i, k>>
      BY <1>4
    <2>2. PICK k \in DOMAIN p.linked[i].args : r = <<i, k>>
      BY <2>1
    <2>3. p.linked[i].args \in Seq(Node) /\ Len(p.linked[i].args) \in 0..3
      BY <1>3
    <2>4. k \in 1..3 /\ p.linked[i].args[k] \in Node
      BY <2>3
    <2>5. r[1] = i /\ r[2] = k
      BY <2>2
    <2> QED BY <1>2, <2>2, <2>4, <2>5
  <1>6. IsFiniteSet((1..Len(p.linked)) \X (1..3))
    <2>1. 1 \in Int /\ 3 \in Int /\ Len(p.linked) \in Int
      BY <1>2
    <2>2. IsFiniteSet(1..Len(p.linked)) /\ IsFiniteSet(1..3)
      BY ONLY <2>1, FS_Interval
    <2> QED BY ONLY <2>2, FS_Product
  <1>7. References(p, n) \subseteq (1..Len(p.linked)) \X (1..3)
    BY <1>5
  <1>8. IsFiniteSet(References(p, n))
    BY ONLY <1>6, <1>7, FS_Subset
  <1> QED BY <1>2, <1>5, <1>8 DEF ReferenceTarget

\* dependency_compare orders the references of a node strictly and totally.
LEMMA BeforeIsOrder ==
  ASSUME NEW p, Linked(p), NEW n, NEW q \in References(p, n), NEW r \in References(p, n)
  PROVE  /\ ~Before(p, q, q)
         /\ q # r => Before(p, q, r) \/ Before(p, r, q)
         /\ \A s \in References(p, n) : Before(p, s, q) /\ Before(p, q, r) => Before(p, s, r)
  <1>1. \A s \in References(p, n) :
            /\ s = <<s[1], s[2]>> /\ s[1] \in Nat /\ s[2] \in Nat
            /\ ReferenceTarget(p, s) \in Nat
    BY ReferencesType, NodeNat
  <1>2. q # r => q[1] # r[1] \/ q[2] # r[2]
    BY <1>1
  <1> QED BY <1>1, <1>2 DEF Before

\* qsort puts every reference of a node at a place of its own.
LEMMA RankIsPlace ==
  ASSUME NEW p, Linked(p), NEW n, NEW R, R = References(p, n)
  PROVE  /\ IsFiniteSet(R) /\ Cardinality(R) \in Nat
         /\ \A r \in R : Rank(p, R, r) \in 0..(Cardinality(R) - 1)
         /\ \A q, r \in R : Rank(p, R, q) = Rank(p, R, r) => q = r
         /\ \A i \in 1..Cardinality(R) : \E r \in R : Rank(p, R, r) = i - 1
  <1> DEFINE Below(r) == {q \in R : Before(p, q, r)}
  <1>1. IsFiniteSet(R) /\ Cardinality(R) \in Nat
    BY ReferencesType, FS_CardinalityType
  <1>2. \A r \in R : Below(r) \subseteq R /\ r \notin Below(r)
    BY BeforeIsOrder
  <1>3. \A r \in R : /\ IsFiniteSet(Below(r)) /\ Rank(p, R, r) = Cardinality(Below(r))
                     /\ Rank(p, R, r) \in 0..(Cardinality(R) - 1)
    <2> SUFFICES ASSUME NEW r \in R
                 PROVE  /\ IsFiniteSet(Below(r)) /\ Rank(p, R, r) = Cardinality(Below(r))
                        /\ Rank(p, R, r) \in 0..(Cardinality(R) - 1)
      OBVIOUS
    <2>1. Rank(p, R, r) = Cardinality(Below(r))
      BY DEF Rank
    <2>2. Below(r) \subseteq R /\ Below(r) # R
      BY <1>2
    <2>3. /\ IsFiniteSet(Below(r)) /\ Cardinality(Below(r)) <= Cardinality(R)
          /\ Cardinality(Below(r)) # Cardinality(R)
      <3> HIDE DEF Below
      <3> QED BY ONLY <1>1, <2>2, FS_Subset
    <2>4. Cardinality(Below(r)) \in Nat
      BY ONLY <2>3, FS_CardinalityType
    <2> QED BY <1>1, <2>1, <2>3, <2>4
  <1>4. ASSUME NEW q \in R, NEW r \in R, Before(p, q, r)
        PROVE  Rank(p, R, q) # Rank(p, R, r)
    <2>1. Below(q) \subseteq Below(r) /\ q \in Below(r) /\ q \notin Below(q)
      BY <1>2, <1>4, BeforeIsOrder
    <2>2. Below(q) # Below(r)
      BY <2>1
    <2>3. Cardinality(Below(q)) # Cardinality(Below(r))
      <3>1. Below(q) \subseteq Below(r) /\ IsFiniteSet(Below(r))
        BY <1>3, <2>1
      <3> HIDE DEF Below
      <3> QED BY ONLY <3>1, <2>2, FS_Subset
    <2> QED BY <1>3, <2>3
  <1>5. ASSUME NEW q \in R, NEW r \in R, Rank(p, R, q) = Rank(p, R, r)
        PROVE  q = r
    BY <1>4, <1>5, BeforeIsOrder
  <1>6. ASSUME NEW i \in 1..Cardinality(R)
        PROVE  \E r \in R : Rank(p, R, r) = i - 1
    <2> DEFINE T == 0..(Cardinality(R) - 1)
               place == [r \in R |-> Rank(p, R, r)]
    <2>1. place \in Injection(R, T)
      BY <1>3, <1>5 DEF Injection, IsInjective
    <2>2. IsFiniteSet(T) /\ Cardinality(T) = Cardinality(R)
      <3>1. 0 \in Int /\ Cardinality(R) - 1 \in Int
        BY <1>1
      <3>2. /\ IsFiniteSet(T)
            /\ Cardinality(T) = IF 0 > Cardinality(R) - 1 THEN 0 ELSE Cardinality(R) - 1 - 0 + 1
        BY ONLY <3>1, FS_Interval
      <3> QED BY <1>1, <3>2
    <2>3. place \in Surjection(R, T)
      <3> HIDE DEF place, T
      <3> QED BY ONLY <1>1, <2>1, <2>2, FS_Injection
    <2>4. i - 1 \in T
      BY <1>1
    <2> QED BY <2>3, <2>4 DEF Surjection
  <1> QED BY <1>1, <1>3, <1>5, <1>6

\* build_nodes gives every symbol a list of symbols, and every symbol that an
\* expression of a value-affecting role reads is in the list of its owner.
LEMMA BuildNodesFacts ==
  ASSUME NEW p, Linked(p)
  PROVE  /\ BuildNodes(p) \in [Node -> Dependency]
         /\ \A n \in Node : \A r \in References(p, n) :
               \E k \in DOMAIN BuildNodes(p)[n] : BuildNodes(p)[n][k] = ReferenceTarget(p, r)
  <1>1. ASSUME NEW n \in Node
        PROVE  /\ BuildNodes(p)[n] \in Seq(Node)
               /\ \A r \in References(p, n) :
                     \E k \in DOMAIN BuildNodes(p)[n] :
                        BuildNodes(p)[n][k] = ReferenceTarget(p, r)
    <2>1. PICK R : R = References(p, n)
      OBVIOUS
    <2> DEFINE At(i) == CHOOSE r \in R : Rank(p, R, r) = i - 1
    <2>2. /\ Cardinality(R) \in Nat
          /\ \A r \in R : Rank(p, R, r) \in 0..(Cardinality(R) - 1)
          /\ \A q, r \in R : Rank(p, R, q) = Rank(p, R, r) => q = r
          /\ \A i \in 1..Cardinality(R) : \E r \in R : Rank(p, R, r) = i - 1
      BY ONLY <2>1, Linked(p), RankIsPlace
    <2>3. BuildNodes(p)[n] = [i \in 1..Cardinality(R) |-> ReferenceTarget(p, At(i))]
      BY <2>1 DEF BuildNodes
    <2>4. \A i \in 1..Cardinality(R) : At(i) \in R /\ Rank(p, R, At(i)) = i - 1
      BY <2>2, Zenon
    <2>5. \A r \in R : ReferenceTarget(p, r) \in Node
      BY <2>1, ReferencesType
    <2>6. BuildNodes(p)[n] \in Seq(Node)
      <3> HIDE DEF At
      <3>1. [i \in 1..Cardinality(R) |-> ReferenceTarget(p, At(i))] \in [1..Cardinality(R) -> Node]
        BY <2>4, <2>5
      <3> QED BY <2>2, <2>3, <3>1
    <2>7. ASSUME NEW r \in R
          PROVE  \E k \in DOMAIN BuildNodes(p)[n] :
                    BuildNodes(p)[n][k] = ReferenceTarget(p, r)
      <3>1. PICK k : k = Rank(p, R, r) + 1
        OBVIOUS
      <3>2. k \in 1..Cardinality(R) /\ Rank(p, R, r) = k - 1
        BY <2>2, <3>1
      <3> HIDE DEF At
      <3>3. At(k) \in R /\ Rank(p, R, At(k)) = k - 1
        BY <2>4, <3>2
      <3>4. At(k) = r
        BY <2>2, <3>2, <3>3
      <3> QED BY <2>3, <3>2, <3>4
    <2> QED BY <2>1, <2>6, <2>7
  <1>2. BuildNodes(p) = [n \in Node |-> BuildNodes(p)[n]]
    BY DEF BuildNodes
  <1> QED BY <1>1, <1>2 DEF Dependency

-----------------------------------------------------------------------------
(* The selection of a conditional default.                                 *)

\* One iteration of the loop of conditional_default.
SelectStep(defaults, holds, before, i) ==
    LET entry == defaults[i]
        current == before.selected
    IN  IF before.status # "ok" THEN before
        ELSE IF holds[i] = Error THEN [before EXCEPT !.status = "expression"]
        ELSE IF holds[i] = Unset THEN [before EXCEPT !.status = "unset_condition"]
        ELSE IF holds[i] = "n" THEN before
        ELSE IF current = 0 \/ entry.priority > defaults[current].priority
             THEN [before EXCEPT !.selected = i]
        ELSE IF /\ entry.priority = defaults[current].priority
                /\ entry.result # defaults[current].result
             THEN [before EXCEPT !.status = "ambiguous"]
        ELSE before

LoopStatus == {"ok", "expression", "unset_condition", "ambiguous"}

LoopState(N) == [status : LoopStatus, selected : 0..N]

LEMMA SelectStepType ==
  ASSUME NEW N \in Nat, NEW before \in LoopState(N), NEW i \in 1..N, NEW defaults, NEW holds
  PROVE  SelectStep(defaults, holds, before, i) \in LoopState(N)
  <1>1. before = [status |-> before.status, selected |-> before.selected]
    BY DEF LoopState
  <1>2. \A s \in LoopStatus : [before EXCEPT !.status = s] \in LoopState(N)
    BY DEF LoopState
  <1>3. [before EXCEPT !.selected = i] \in LoopState(N)
    BY DEF LoopState
  <1>4. SelectStep(defaults, holds, before, i) \in
            {before, [before EXCEPT !.status = "expression"],
             [before EXCEPT !.status = "unset_condition"],
             [before EXCEPT !.selected = i], [before EXCEPT !.status = "ambiguous"]}
    BY Zenon DEF SelectStep
  <1> QED BY ONLY <1>2, <1>3, <1>4, before \in LoopState(N) DEF LoopStatus

\* SelectDefault is the result of running the loop to its end.
LoopRun(defaults, holds, N, step) ==
    /\ step \in [0..N -> LoopState(N)]
    /\ step[0] = [status |-> "ok", selected |-> 0]
    /\ \A i \in 1..N : step[i] = SelectStep(defaults, holds, step[i - 1], i)
    /\ SelectDefault(defaults, holds) = step[N]

LEMMA SelectDefaultLoop ==
  ASSUME NEW defaults, NEW holds, NEW N, N \in Nat, Len(defaults) = N
  PROVE  \E step : LoopRun(defaults, holds, N, step)
  <1> DEFINE first == [status |-> "ok", selected |-> 0]
             Go(before, i) == SelectStep(defaults, holds, before, i)
             T == LoopState(N)
             G == [x \in T \X (1..N) |-> Go(x[1], x[2])]
             Body(f) == [i \in 0..Len(defaults) |-> IF i = 0 THEN first ELSE Go(f[i - 1], i)]
             Solution == CHOOSE g : g = Body(g)
  <1>1. first \in T
    BY DEF LoopState, LoopStatus
  <1>2. \A before \in T, i \in 1..N : Go(before, i) \in T
    <2> SUFFICES ASSUME NEW before \in T, NEW i \in 1..N PROVE Go(before, i) \in T
      OBVIOUS
    <2> QED BY ONLY N \in Nat, before \in LoopState(N), i \in 1..N, SelectStepType
  <1>3. G \in [T \X (1..N) -> T]
    <2> HIDE DEF Go, T
    <2> QED BY <1>2
  <1>4. PICK f : Recursion(f, N, T, first, G)
    <2> HIDE DEF G, T, first
    <2> QED BY ONLY N \in Nat, <1>1, <1>3, RecursionTo
  <1>5. \A i \in 1..N : f[i] = Go(f[i - 1], i)
    <2> SUFFICES ASSUME NEW i \in 1..N PROVE f[i] = Go(f[i - 1], i)
      OBVIOUS
    <2>1. i - 1 \in 0..N
      OBVIOUS
    <2> HIDE DEF Go, T
    <2>2. <<f[i - 1], i>> \in T \X (1..N)
      BY <1>4, <2>1 DEF Recursion
    <2> QED BY <1>4, <2>2 DEF Recursion
  <1>6. f = Body(f)
    <2> HIDE DEF Go, T, first
    <2> QED BY <1>4, <1>5 DEF Recursion
  <1>7. Solution = Body(Solution)
    <2> HIDE DEF Body
    <2> QED BY <1>6
  <1>8. SelectDefault(defaults, holds) = Solution[N]
    BY DEF SelectDefault, SelectStep
  <1>9. Solution[0] = first /\ \A i \in 1..N : Solution[i] = Go(Solution[i - 1], i)
    <2> HIDE DEF Go, first, Solution
    <2> QED BY <1>7
  <1>10. DOMAIN Solution = 0..N /\ Solution = [i \in 0..N |-> Solution[i]]
    <2> HIDE DEF Go, first, Solution
    <2> QED BY <1>7
  <1>11. \A i \in 0..N : Solution[i] \in T
    <2> DEFINE Good == {i \in Nat : i \in 0..N => Solution[i] \in T}
    <2> HIDE DEF Go, first, Solution, T
    <2>1. 0 \in Good
      BY <1>1, <1>9
    <2>2. \A n \in Nat : n \in Good => n + 1 \in Good
      BY <1>2, <1>9
    <2>3. Nat \subseteq Good
      <3> HIDE DEF Good
      <3> QED BY <2>1, <2>2, Induction
    <2> QED BY <2>3
  <1>12. Solution \in [0..N -> T]
    <2> HIDE DEF Solution, T
    <2> QED BY <1>10, <1>11
  <1> HIDE DEF Solution
  <1>13. LoopRun(defaults, holds, N, Solution)
    BY <1>8, <1>9, <1>12 DEF LoopRun
  <1> QED BY <1>13

\* The conditions of a defaults table that hold.
Holding(holds, i) == holds[i] \notin {"n", Unset, Error}

\* What the loop knows after i entries while it has not failed: the selected
\* entry holds, no entry that holds has a higher priority, and those of the
\* same priority have the same result.
SelectedAmong(defaults, holds, selected, i) ==
    /\ selected \in 0..i
    /\ selected # 0 => Holding(holds, selected)
    /\ \A j \in 1..i : Holding(holds, j) =>
          /\ selected # 0
          /\ defaults[j].priority <= defaults[selected].priority
          /\ defaults[j].priority = defaults[selected].priority =>
                defaults[j].result = defaults[selected].result

LEMMA SelectStepKeeps ==
  ASSUME NEW N, NEW before, NEW i, NEW k, NEW defaults, NEW holds,
         N \in Nat, before \in LoopState(N), i \in 1..N, k = i - 1,
         \A j \in 1..N : defaults[j].priority \in Int,
         before.status = "ok", SelectedAmong(defaults, holds, before.selected, k),
         SelectStep(defaults, holds, before, i).status = "ok"
  PROVE  SelectedAmong(defaults, holds, SelectStep(defaults, holds, before, i).selected, i)
  <1>1. PICK current : current = before.selected
    OBVIOUS
  <1>2. /\ current \in 0..(i - 1)
        /\ current # 0 => Holding(holds, current)
        /\ \A j \in 1..(i - 1) : Holding(holds, j) =>
              /\ current # 0
              /\ defaults[j].priority <= defaults[current].priority
              /\ defaults[j].priority = defaults[current].priority =>
                    defaults[j].result = defaults[current].result
    BY <1>1 DEF SelectedAmong
  <1>3. /\ \A s : [before EXCEPT !.status = s].status = s
        /\ [before EXCEPT !.selected = i].selected = i
    BY DEF LoopState
  <1>4. /\ holds[i] # Error /\ holds[i] # Unset
        /\ Holding(holds, i) /\ current # 0 /\ defaults[i].priority = defaults[current].priority =>
              defaults[i].result = defaults[current].result
    BY <1>1, <1>3 DEF SelectStep, Holding
  <1>5. CASE ~Holding(holds, i)
    <2>1. SelectStep(defaults, holds, before, i).selected = current
      BY <1>1, <1>4, <1>5 DEF SelectStep, Holding
    <2> QED BY <1>2, <1>5, <2>1 DEF SelectedAmong
  <1>6. CASE Holding(holds, i) /\ (current = 0 \/ defaults[i].priority > defaults[current].priority)
    <2>1. SelectStep(defaults, holds, before, i).selected = i
      BY <1>1, <1>3, <1>6 DEF SelectStep, Holding
    <2>2. \A j \in 1..i : Holding(holds, j) =>
              /\ defaults[j].priority <= defaults[i].priority
              /\ defaults[j].priority = defaults[i].priority => j = i
      BY <1>2, <1>6
    <2> QED BY <1>6, <2>1, <2>2 DEF SelectedAmong
  <1>7. CASE /\ Holding(holds, i) /\ current # 0
             /\ ~(defaults[i].priority > defaults[current].priority)
    <2>1. SelectStep(defaults, holds, before, i).selected = current
      BY <1>1, <1>4, <1>7 DEF SelectStep, Holding
    <2>2. defaults[i].priority <= defaults[current].priority
      BY <1>2, <1>7
    <2> QED BY <1>2, <1>4, <1>7, <2>1, <2>2 DEF SelectedAmong
  <1> QED BY <1>5, <1>6, <1>7

\* conditional_default and select_choice_default: an entry that is selected
\* holds, has the highest priority of those that hold, and agrees with every
\* other one of that priority.
LEMMA SelectDefaultFacts ==
  ASSUME NEW Result, NEW defaults \in Seq([priority : Int, result : Result]), NEW holds
  PROVE  /\ SelectDefault(defaults, holds).status \in LoopStatus
         /\ SelectDefault(defaults, holds).selected \in 0..Len(defaults)
         /\ SelectDefault(defaults, holds).status = "ok" =>
               SelectedAmong(defaults, holds, SelectDefault(defaults, holds).selected,
                             Len(defaults))
  <1>1. PICK N \in Nat : N = Len(defaults)
    OBVIOUS
  <1>2. \A j \in 1..N : defaults[j].priority \in Int
    <2>1. PICK Entry : Entry = [priority : Int, result : Result]
      OBVIOUS
    <2>2. defaults \in Seq(Entry)
      BY <2>1
    <2>3. \A j \in 1..N : defaults[j] \in Entry
      BY ONLY <1>1, <2>2
    <2> QED BY <2>1, <2>3
  <1>3. PICK step : LoopRun(defaults, holds, N, step)
    BY <1>1, SelectDefaultLoop
  <1>4. /\ step \in [0..N -> LoopState(N)]
        /\ step[0] = [status |-> "ok", selected |-> 0]
        /\ \A i \in 1..N : step[i] = SelectStep(defaults, holds, step[i - 1], i)
        /\ SelectDefault(defaults, holds) = step[N]
    BY <1>3 DEF LoopRun
  <1>5. ASSUME NEW n \in Nat, n + 1 \in 0..N,
               step[n].status = "ok" => SelectedAmong(defaults, holds, step[n].selected, n),
               step[n + 1].status = "ok"
        PROVE  SelectedAmong(defaults, holds, step[n + 1].selected, n + 1)
    <2>1. PICK i, before : i = n + 1 /\ before = step[n]
      OBVIOUS
    <2>2. i \in 1..N /\ n \in 0..N /\ n = i - 1
      BY <1>5, <2>1
    <2>3. before \in LoopState(N) /\ step[i] = SelectStep(defaults, holds, before, i)
      BY <1>4, <2>1, <2>2
    <2>4. SelectStep(defaults, holds, before, i).status = "ok"
      BY <1>5, <2>1, <2>3
    <2>5. before.status = "ok"
      BY <2>4 DEF SelectStep
    <2>6. SelectedAmong(defaults, holds, before.selected, n)
      BY <1>5, <2>1, <2>5
    <2>7. SelectedAmong(defaults, holds, SelectStep(defaults, holds, before, i).selected, i)
      BY ONLY N \in Nat, <1>2, <2>2, <2>3, <2>4, <2>5, <2>6, SelectStepKeeps
    <2> QED BY <2>1, <2>3, <2>7
  <1> DEFINE Good == {i \in Nat : i \in 0..N /\ step[i].status = "ok" =>
                                     SelectedAmong(defaults, holds, step[i].selected, i)}
  <1>6. 0 \in Good
    BY <1>4 DEF SelectedAmong
  <1>7. \A n \in Nat : n \in Good => n + 1 \in Good
    BY <1>5
  <1>8. Nat \subseteq Good
    <2> HIDE DEF Good
    <2> QED BY <1>6, <1>7, Induction
  <1>9. step[N] \in LoopState(N)
    BY <1>4
  <1> QED BY <1>1, <1>4, <1>8, <1>9 DEF LoopState

-----------------------------------------------------------------------------
(* The value of one symbol.                                                *)

\* The references of an expression of a value-affecting role are references of
\* its owner.
LEMMA OwnReferences ==
  ASSUME NEW p, Linked(p), NEW n, NEW i \in DOMAIN p.linked,
         RoleAffectsValue(p.linked[i].role), p.linked[i].owner = n,
         NEW k \in DOMAIN p.linked[i].args
  PROVE  /\ <<i, k>> \in References(p, n)
         /\ ReferenceTarget(p, <<i, k>>) = p.linked[i].args[k]
  <1>1. <<i, k>> \in {i} \X DOMAIN p.linked[i].args
    OBVIOUS
  <1>2. <<i, k>> \in UNION {{j} \X DOMAIN p.linked[j].args : j \in DOMAIN p.linked}
    BY <1>1
  <1>3. <<i, k>>[1] = i /\ <<i, k>>[2] = k
    OBVIOUS
  <1> QED BY <1>2, <1>3 DEF References, ReferenceTarget

\* An expression that affects the value of n reads only dependencies of n.
LEMMA OwnExpression ==
  ASSUME NEW p, Linked(p), NEW n, NEW role, NEW k, NEW env, NEW other,
         RoleAffectsValue(role), HasExpression(p, role, n, k),
         \A r \in References(p, n) :
            env[ReferenceTarget(p, r)] = other[ReferenceTarget(p, r)]
  PROVE  Eval(FindExpression(p, role, n, k), env) = Eval(FindExpression(p, role, n, k), other)
  <1>1. PICK i \in DOMAIN p.linked :
            /\ FindExpression(p, role, n, k) = p.linked[i]
            /\ p.linked[i].role = role /\ p.linked[i].owner = n
    BY FoundExpression
  <1>2. \A j \in DOMAIN p.linked[i].args : env[p.linked[i].args[j]] = other[p.linked[i].args[j]]
    <2> SUFFICES ASSUME NEW j \in DOMAIN p.linked[i].args
                 PROVE  env[p.linked[i].args[j]] = other[p.linked[i].args[j]]
      OBVIOUS
    <2>1. <<i, j>> \in References(p, n) /\ ReferenceTarget(p, <<i, j>>) = p.linked[i].args[j]
      BY <1>1, OwnReferences
    <2> QED BY <2>1
  <1>3. p.linked[i] \in LinkedExpression /\ Len(p.linked[i].args) = Arity(p.linked[i].op)
    BY ExpressionFacts
  <1> QED BY <1>1, <1>2, <1>3, EvalReads

\* The result for a symbol depends on the values of its dependencies only.
LEMMA SymbolReads ==
  ASSUME NEW p, Linked(p), NEW n \in Node, NEW env, NEW other,
         \A r \in References(p, n) :
            env[ReferenceTarget(p, r)] = other[ReferenceTarget(p, r)]
  PROVE  SymbolResult(p, n, env) = SymbolResult(p, n, other)
  <1>1. CASE p.symbol[n].computed
    <2>1. HasExpression(p, "computed", n, 1) /\ RoleAffectsValue("computed")
      BY <1>1 DEF Linked, LinkedFully, RoleAffectsValue
    <2>2. Eval(FindExpression(p, "computed", n, 1), env)
             = Eval(FindExpression(p, "computed", n, 1), other)
      BY <2>1, OwnExpression
    <2>3. PICK v : v = Eval(FindExpression(p, "computed", n, 1), env)
      OBVIOUS
    <2>4. v = Eval(FindExpression(p, "computed", n, 1), other)
      BY <2>2, <2>3
    <2> QED BY ONLY <1>1, <2>3, <2>4 DEF SymbolResult, ComputeSymbol
  <1>2. CASE ~p.symbol[n].computed
    <2>1. ASSUME NEW k \in DOMAIN p.symbol[n].defaults
          PROVE  Eval(FindExpression(p, "default_when", n, k), env)
                    = Eval(FindExpression(p, "default_when", n, k), other)
      <3>1. HasExpression(p, "default_when", n, k) /\ RoleAffectsValue("default_when")
        BY <2>1 DEF Linked, LinkedFully, RoleAffectsValue
      <3> QED BY <3>1, OwnExpression
    <2>2. DefaultHolds(p, n, env) = DefaultHolds(p, n, other)
      BY <2>1, Zenon DEF DefaultHolds
    <2> QED BY <1>2, <2>2, Zenon DEF SymbolResult, InputSymbol
  <1> QED BY <1>1, <1>2

\* The parts of a symbol.
LEMMA SymbolRecordFacts ==
  ASSUME NEW p, Linked(p), NEW n \in Node
  PROVE  /\ p.symbol[n].range \subseteq Value
         /\ p.symbol[n].default \in Bound
         /\ p.symbol[n].defaults \in Seq([priority : Int, result : Value])
         /\ p.symbol[n].computed \in BOOLEAN /\ p.symbol[n].required \in BOOLEAN
  <1>1. p.symbol[n] \in SymbolRecord
    BY ProjectFacts
  <1> QED BY <1>1 DEF SymbolRecord

\* A successful result is in the range of the symbol or unset, is what was
\* requested if anything was, and is set if the symbol is required.
LEMMA SymbolFacts ==
  ASSUME NEW p, Linked(p), NEW n \in Node, NEW env, SymbolResult(p, n, env).status = "ok"
  PROVE  LET result == SymbolResult(p, n, env) IN
         /\ result = [status |-> "ok", value |-> result.value, origin |-> result.origin]
         /\ result.value \in Bound
         /\ result.value # Unset => result.value \in p.symbol[n].range
         /\ p.symbol[n].required => result.value # Unset
         /\ p.request[n] \in Value /\ ~p.symbol[n].computed => result.value = p.request[n]
         /\ result.origin = "conditional_default" =>
               LET chosen == SelectDefault(p.symbol[n].defaults, DefaultHolds(p, n, env)) IN
               /\ chosen.status = "ok" /\ chosen.selected # 0
               /\ result.value = p.symbol[n].defaults[chosen.selected].result
  <1>1. PICK result : result = SymbolResult(p, n, env)
    OBVIOUS
  <1>2. PICK chosen : chosen = SelectDefault(p.symbol[n].defaults, DefaultHolds(p, n, env))
    OBVIOUS
  <1>3. p.symbol[n].range \subseteq Value /\ Unset \notin Value /\ Unset \in Bound
    BY SymbolRecordFacts DEF Value, Bound, Unset
  <1>4. ASSUME NEW v, NEW from, SetValue(p, n, v, from).status = "ok"
        PROVE  /\ SetValue(p, n, v, from) = [status |-> "ok", value |-> v, origin |-> from]
               /\ v \in p.symbol[n].range
    BY <1>4 DEF SetValue, Failed
  <1>5. \A reason : Failed(reason).status = reason
    BY DEF Failed
  <1>6. CASE p.symbol[n].computed
    <2>1. result = ComputeSymbol(p, n, env) /\ result.status = "ok"
      BY <1>1, <1>6 DEF SymbolResult
    <2>2. PICK v : v = Eval(FindExpression(p, "computed", n, 1), env)
      OBVIOUS
    <2>3. result = SetValue(p, n, v, "computed")
      BY <2>1, <2>2, <1>5 DEF ComputeSymbol
    <2>4. result = [status |-> "ok", value |-> v, origin |-> "computed"]
          /\ v \in p.symbol[n].range
      BY <2>1, <2>3, <1>4
    <2> QED BY <1>1, <1>3, <1>6, <2>4 DEF Bound
  <1>7. CASE ~p.symbol[n].computed /\ p.request[n] \in Value
    <2>1. result = SetValue(p, n, p.request[n], "requested") /\ result.status = "ok"
      BY <1>1, <1>7 DEF SymbolResult, InputSymbol
    <2>2. result = [status |-> "ok", value |-> p.request[n], origin |-> "requested"]
          /\ p.request[n] \in p.symbol[n].range
      BY <2>1, <1>4
    <2> QED BY <1>1, <1>3, <1>7, <2>2 DEF Bound
  <1>8. CASE ~p.symbol[n].computed /\ p.request[n] \notin Value
    <2>1. result = InputSymbol(p, n, env) /\ result.status = "ok"
      BY <1>1, <1>8 DEF SymbolResult
    <2>2. \/ /\ chosen.status = "ok" /\ chosen.selected # 0
             /\ result = SetValue(p, n, p.symbol[n].defaults[chosen.selected].result,
                                  "conditional_default")
          \/ result = SetValue(p, n, p.symbol[n].default, "default")
          \/ /\ ~p.symbol[n].required
             /\ result = [status |-> "ok", value |-> Unset, origin |-> "unset"]
      BY <1>2, <1>5, <1>8, <2>1 DEF InputSymbol
    <2>3. CASE /\ chosen.status = "ok" /\ chosen.selected # 0
               /\ result = SetValue(p, n, p.symbol[n].defaults[chosen.selected].result,
                                    "conditional_default")
      <3>1. PICK v : v = p.symbol[n].defaults[chosen.selected].result
        OBVIOUS
      <3>2. result = [status |-> "ok", value |-> v, origin |-> "conditional_default"]
            /\ v \in p.symbol[n].range
        BY <1>4, <2>1, <2>3, <3>1
      <3>3. /\ result.value = v /\ result.origin = "conditional_default"
            /\ result = [status |-> "ok", value |-> result.value, origin |-> result.origin]
            /\ v \in Bound /\ v # Unset
        BY <1>3, <3>2 DEF Bound
      <3> QED BY ONLY <1>1, <1>2, <1>8, <2>3, <3>1, <3>2, <3>3, Zenon
    <2>4. CASE result = SetValue(p, n, p.symbol[n].default, "default")
      <3>1. PICK v : v = p.symbol[n].default
        OBVIOUS
      <3>2. result = [status |-> "ok", value |-> v, origin |-> "default"]
            /\ v \in p.symbol[n].range
        BY <1>4, <2>1, <2>4, <3>1
      <3> QED BY <1>1, <1>3, <1>8, <3>2 DEF Bound
    <2>5. CASE /\ ~p.symbol[n].required
               /\ result = [status |-> "ok", value |-> Unset, origin |-> "unset"]
      BY <1>1, <1>3, <1>8, <2>5
    <2> QED BY <2>2, <2>3, <2>4, <2>5
  <1> QED BY <1>6, <1>7, <1>8

-----------------------------------------------------------------------------
(* The invariant of the evaluation.                                        *)

\* The symbol has the value its declaration yields in the environment so far.
Settled(n) ==
    SymbolResult(project, n, effective) =
        [status |-> "ok", value |-> effective[n], origin |-> origin[n]]

\* The option has the state its conditions yield.
Classified(n) ==
    OptionState(project, n, effective) =
        [status |-> "ok", available |-> available[n], visible |-> visible[n]]

\* The choice has the resolution its members and defaults yield.
Chosen(c) ==
    /\ selection[c] = OneChoice(project, c, effective, available)
    /\ selection[c].status = "ok"

Phase == {"order", "values", "options", "choices", "published", "failed"}

\* The shape of the evaluation's state, and that it goes on only with an order.
EvalShape ==
    /\ Linked(project)
    /\ IInv
    /\ deps = BuildNodes(project)
    /\ phase \in Phase
    /\ phase \notin {"order", "failed"} => status = "ok"
    /\ at \in Nat \ {0}
    /\ effective \in [Node -> Bound]
    /\ DOMAIN origin = Node
    /\ available \in [Node -> BOOLEAN]
    /\ visible \in [Node -> BOOLEAN]
    /\ selection \in Seq({OneChoice(project, c, effective, available) :
                            c \in 1..Len(project.choice)})

\* What each loop has done so far.
EvalProgress ==
    /\ phase = "values" =>
          at <= NodeCount + 1 /\ \A j \in 1..(at - 1) : Settled(order[j])
    /\ phase \in {"options", "choices", "published"} => \A n \in Node : Settled(n)
    /\ phase = "options" =>
          at <= NodeCount + 1 /\ \A n \in 1..(at - 1) : Classified(n)
    /\ phase \in {"choices", "published"} => \A n \in Node : Classified(n)
    /\ phase = "choices" => Len(selection) = at - 1 /\ at <= Len(project.choice) + 1
    /\ phase = "published" => Len(selection) = Len(project.choice)
    /\ phase \notin {"choices", "published"} => selection = << >>
    /\ \A c \in 1..Len(selection) : Chosen(c)

EvalInvariant == EvalShape /\ EvalProgress

\* IInv is about the search's own variables.
LEMMA SearchUnchanged ==
  ASSUME IInv, UNCHANGED vars
  PROVE  IInv'
  BY NextIInv

\* The beginning of an evaluation: the lists are built, nothing has a value.
EvalStart ==
    /\ Linked(project)
    /\ InitWith(BuildNodes(project))
    /\ phase = "order"
    /\ at = 1
    /\ effective = [n \in Node |-> Unset]
    /\ origin = [n \in Node |-> "none"]
    /\ available = [n \in Node |-> FALSE]
    /\ visible = [n \in Node |-> FALSE]
    /\ selection = << >>

LEMMA StartInvariant ==
  ASSUME EvalStart
  PROVE  EvalInvariant
  <1>1. BuildNodes(project) \in [Node -> Dependency]
    BY BuildNodesFacts DEF EvalStart
  <1>2. IInv
    BY <1>1, InitWithIInv DEF EvalStart
  <1>3. deps = BuildNodes(project)
    BY DEF EvalStart, InitWith
  <1>4. EvalShape
    BY <1>2, <1>3 DEF EvalShape, EvalStart, Phase, Bound
  <1>5. EvalProgress
    BY DEF EvalProgress, EvalStart
  <1> QED BY <1>4, <1>5 DEF EvalInvariant

LEMMA EvalInitInvariant == EvalInit => EvalInvariant
  <1> SUFFICES ASSUME EvalInit PROVE EvalStart
    BY StartInvariant
  <1>1. PICK family \in Projects : \E p \in family :
            project = p /\ InitWith(BuildNodes(p))
    BY DEF EvalInit
  <1>2. PICK p \in family : project = p /\ InitWith(BuildNodes(p))
    BY <1>1
  <1>3. Linked(project)
    BY <1>2, ProjectsAssumption DEF Linked
  <1> QED BY <1>2, <1>3 DEF EvalInit, EvalStart

\* A failed evaluation keeps nothing.
LEMMA FailKeeps ==
  ASSUME EvalInvariant, NEW reason, Fail(reason), UNCHANGED vars
  PROVE  EvalInvariant'
  <1>1. IInv'
    BY SearchUnchanged DEF EvalInvariant, EvalShape
  <1>2. EvalShape'
    BY <1>1 DEF EvalInvariant, EvalShape, Fail, Phase, Bound, vars
  <1>3. EvalProgress'
    BY DEF Fail, EvalProgress
  <1> QED BY <1>2, <1>3 DEF EvalInvariant

\* A step of the search, or none.
LEMMA SearchKeeps ==
  ASSUME EvalInvariant, [Next]_vars, phase = "order", UNCHANGED evalvars
  PROVE  EvalInvariant'
  <1>1. IInv'
    BY NextIInv DEF EvalInvariant, EvalShape
  <1>2. deps' = deps
    BY DEF Next, SkipRoot, VisitRoot, Descend, SkipFinished, ReportCycle, Finish, Complete, vars
  <1>3. EvalShape'
    BY <1>1, <1>2 DEF EvalInvariant, EvalShape, evalvars
  <1>4. EvalProgress'
    BY DEF EvalInvariant, EvalProgress, evalvars
  <1> QED BY <1>3, <1>4 DEF EvalInvariant

LEMMA EndSearchKeeps ==
  ASSUME EvalInvariant, EndSearch
  PROVE  EvalInvariant'
  <1>1. CASE status # "ok"
    BY <1>1, FailKeeps DEF EndSearch
  <1>2. CASE status = "ok"
    <2>1. /\ phase' = "values" /\ at' = 1 /\ UNCHANGED vars
          /\ UNCHANGED <<project, effective, origin, available, visible, selection>>
      BY <1>2 DEF EndSearch, EnterPhase
    <2>2. IInv'
      BY <2>1, SearchUnchanged DEF EvalInvariant, EvalShape
    <2>3. EvalShape'
      BY <1>2, <2>1, <2>2 DEF EvalInvariant, EvalShape, Phase, vars
    <2>4. selection = << >>
      BY DEF EvalInvariant, EvalProgress, EndSearch
    <2>5. EvalProgress'
      BY <2>1, <2>4, NodeCountAssumption DEF EvalProgress
    <2> QED BY <2>3, <2>5 DEF EvalInvariant
  <1> QED BY <1>1, <1>2

\* Everything that n reads stands before n in the order.
LEMMA ReadsBefore ==
  ASSUME EvalInvariant, status = "ok", NEW i \in Node, NEW r \in References(project, order[i])
  PROVE  \E j \in 1..(i - 1) : order[j] = ReferenceTarget(project, r)
  <1>1. OrderIsTopological /\ order[i] \in Node
    <2>1. IInv
      BY DEF EvalInvariant, EvalShape
    <2>2. order \in Seq(Node) /\ Len(order) = NodeCount
      BY <2>1, OkOrder
    <2> QED BY <2>1, <2>2, IInvOrderIsTopological DEF Node
  <1>2. PICK k \in DOMAIN deps[order[i]] : deps[order[i]][k] = ReferenceTarget(project, r)
    BY <1>1, BuildNodesFacts DEF EvalInvariant, EvalShape
  <1> QED BY <1>1, <1>2 DEF OrderIsTopological

\* Positions of the order hold different symbols.
LEMMA OrderDistinct ==
  ASSUME EvalInvariant, status = "ok"
  PROVE  /\ \A i \in Node : order[i] \in Node
         /\ \A i, j \in Node : order[i] = order[j] => i = j
         /\ \A n \in Node : \E i \in Node : order[i] = n
  <1>1. IInv
    BY DEF EvalInvariant, EvalShape
  <1>2. /\ order \in Seq(Node) /\ Len(order) = NodeCount
        /\ \A n \in Node : \E i \in 1..Len(order) : order[i] = n
    BY <1>1, OkOrder
  <1>3. \A i, j \in 1..Len(order) : order[i] = order[j] => i = j
    BY <1>1 DEF IInv, SearchInvariant, FinishedAreOrdered
  <1> QED BY <1>2, <1>3 DEF Node

\* A symbol of the order settles, and those before it stay settled: none of
\* them reads it.
LEMMA EvaluateSymbolKeeps ==
  ASSUME EvalInvariant, EvaluateSymbol
  PROVE  EvalInvariant'
  <1>1. /\ status = "ok" /\ Linked(project) /\ at \in Node
        /\ effective \in [Node -> Bound] /\ DOMAIN origin = Node /\ selection = << >>
        /\ \A j \in 1..(at - 1) : Settled(order[j])
    BY NodeCountAssumption DEF EvalInvariant, EvalShape, EvalProgress, EvaluateSymbol, Node
  <1>2. PICK n : n = order[at]
    OBVIOUS
  <1>3. PICK result : result = SymbolResult(project, n, effective)
    OBVIOUS
  <1>4. CASE result.status # "ok"
    BY <1>2, <1>3, <1>4, FailKeeps DEF EvaluateSymbol
  <1>5. CASE result.status = "ok"
    <2>1. /\ effective' = [effective EXCEPT ![n] = result.value]
          /\ origin' = [origin EXCEPT ![n] = result.origin]
          /\ at' = at + 1
          /\ UNCHANGED <<project, phase, available, visible, selection>>
          /\ UNCHANGED vars /\ phase = "values"
      BY <1>2, <1>3, <1>5 DEF EvaluateSymbol
    <2>2. n \in Node
      BY <1>1, <1>2, OrderDistinct
    <2>3. /\ result = [status |-> "ok", value |-> result.value, origin |-> result.origin]
          /\ result.value \in Bound
      BY <1>1, <1>3, <1>5, <2>2, SymbolFacts
    <2>4. IInv'
      BY <2>1, SearchUnchanged DEF EvalInvariant, EvalShape
    <2>5. effective' \in [Node -> Bound] /\ DOMAIN origin' = Node
      BY <1>1, <2>1, <2>3
    <2>6. EvalShape'
      <3>1. at' \in Nat \ {0}
        BY <1>1, <2>1 DEF EvalInvariant, EvalShape
      <3>2. selection' = << >>
        BY <1>1, <2>1
      <3> QED BY <2>1, <2>4, <2>5, <3>1, <3>2 DEF EvalInvariant, EvalShape, vars
    <2>7. ASSUME NEW j \in 1..at
          PROVE  SymbolResult(project, order[j], effective')
                    = SymbolResult(project, order[j], effective)
      <3>1. j \in Node /\ order[j] \in Node
        <4>1. at \in Node
          BY <1>1
        <4>2. j \in Node
          BY ONLY <4>1, j \in 1..at, NodeCountAssumption DEF Node
        <4> QED BY <1>1, <4>2, OrderDistinct
      <3>2. ASSUME NEW r \in References(project, order[j])
            PROVE  effective'[ReferenceTarget(project, r)] = effective[ReferenceTarget(project, r)]
        <4>1. PICK i \in 1..(j - 1) : order[i] = ReferenceTarget(project, r)
          BY <1>1, <3>1, ReadsBefore
        <4>2. i \in Node /\ i # at
          BY <1>1, NodeCountAssumption DEF Node
        <4>3. ReferenceTarget(project, r) # n
          BY <1>1, <1>2, <4>1, <4>2, OrderDistinct
        <4>4. ReferenceTarget(project, r) \in Node
          <5>1. order[i] \in Node
            BY <1>1, <4>2, OrderDistinct
          <5> QED BY ONLY <4>1, <5>1
        <4> QED BY <1>1, <2>1, <4>3, <4>4
      <3>3. PICK m, other : m = order[j] /\ other = effective'
        OBVIOUS
      <3>4. /\ m \in Node
            /\ \A r \in References(project, m) :
                  other[ReferenceTarget(project, r)] = effective[ReferenceTarget(project, r)]
        BY <3>1, <3>2, <3>3
      <3>5. SymbolResult(project, m, other) = SymbolResult(project, m, effective)
        BY <1>1, <3>4, SymbolReads
      <3> QED BY <3>3, <3>5
    <2>8. ASSUME NEW j \in 1..at
          PROVE  SymbolResult(project, order[j], effective') =
                    [status |-> "ok", value |-> effective'[order[j]], origin |-> origin'[order[j]]]
      <3>1. CASE j = at
        BY <1>1, <1>2, <1>3, <2>1, <2>2, <2>3, <2>7, <3>1
      <3>2. CASE j # at
        <4>0. at \in Node /\ j \in Node /\ j \in 1..(at - 1)
          <5>1. at \in Node
            BY <1>1
          <5> QED BY ONLY <5>1, <3>2, j \in 1..at, NodeCountAssumption DEF Node
        <4>1. j \in 1..(at - 1) /\ j \in Node /\ order[j] \in Node /\ order[j] # n
          BY <1>1, <1>2, <3>2, <4>0, OrderDistinct
        <4>2. Settled(order[j])
          BY <1>1, <4>1
        <4>3. effective'[order[j]] = effective[order[j]] /\ origin'[order[j]] = origin[order[j]]
          BY <1>1, <2>1, <4>1
        <4> QED BY <2>7, <4>2, <4>3 DEF Settled
      <3> QED BY <3>1, <3>2
    <2>9. \A j \in 1..(at' - 1) : Settled(order[j])'
      <3>1. at' - 1 = at /\ order' = order /\ project' = project
        BY <1>1, <2>1 DEF vars, Node
      <3> QED BY <2>8, <3>1 DEF Settled
    <2>10. at' <= NodeCount + 1
      BY <1>1, <2>1, NodeCountAssumption DEF Node
    <2>11. EvalProgress'
      BY <1>1, <2>1, <2>9, <2>10 DEF EvalProgress
    <2> QED BY <2>6, <2>11 DEF EvalInvariant
  <1> QED BY <1>4, <1>5

\* An option's state depends on the final values only.
LEMMA EvaluateOptionKeeps ==
  ASSUME EvalInvariant, EvaluateOption
  PROVE  EvalInvariant'
  <1>1. /\ status = "ok" /\ at \in Node /\ selection = << >>
        /\ available \in [Node -> BOOLEAN] /\ visible \in [Node -> BOOLEAN]
        /\ \A n \in Node : Settled(n)
        /\ \A n \in 1..(at - 1) : Classified(n)
    BY NodeCountAssumption DEF EvalInvariant, EvalShape, EvalProgress, EvaluateOption, Node
  <1>2. PICK n, state : n = at /\ state = OptionState(project, n, effective)
    OBVIOUS
  <1>3. CASE state.status # "ok"
    BY <1>2, <1>3, FailKeeps DEF EvaluateOption
  <1>4. CASE state.status = "ok"
    <2>1. /\ available' = [available EXCEPT ![n] = state.available]
          /\ visible' = [visible EXCEPT ![n] = state.visible]
          /\ at' = n + 1
          /\ UNCHANGED <<project, phase, effective, origin, selection>>
          /\ UNCHANGED vars /\ phase = "options"
      BY <1>2, <1>4 DEF EvaluateOption
    <2>2. /\ state = [status |-> "ok", available |-> state.available, visible |-> state.visible]
          /\ state.available \in BOOLEAN /\ state.visible \in BOOLEAN
      BY <1>2, <1>4 DEF OptionState
    <2>3. IInv'
      BY <2>1, SearchUnchanged DEF EvalInvariant, EvalShape
    <2>4. available' \in [Node -> BOOLEAN] /\ visible' \in [Node -> BOOLEAN]
      BY <1>1, <2>1, <2>2
    <2>5. EvalShape'
      <3>1. at' \in Nat \ {0} /\ selection' = << >>
        BY <1>1, <1>2, <2>1 DEF EvalInvariant, EvalShape
      <3> QED BY <2>1, <2>3, <2>4, <3>1 DEF EvalInvariant, EvalShape, vars
    <2>6. \A m \in Node : Settled(m)'
      BY <1>1, <2>1 DEF Settled
    <2>7. ASSUME NEW m \in 1..n
          PROVE  Classified(m)'
      <3>1. CASE m = n
        BY <1>1, <1>2, <2>1, <2>2, <3>1 DEF Classified
      <3>2. CASE m # n
        <4>1. m \in 1..(at - 1) /\ m \in Node
          <5>1. n \in Node /\ n = at
            BY <1>1, <1>2
          <5> QED BY ONLY <5>1, <3>2, m \in 1..n, NodeCountAssumption DEF Node
        <4>2. Classified(m) /\ available'[m] = available[m] /\ visible'[m] = visible[m]
          BY <1>1, <2>1, <3>2, <4>1
        <4> QED BY <2>1, <4>2 DEF Classified
      <3> QED BY <3>1, <3>2
    <2>8. at' - 1 = n /\ at' <= NodeCount + 1
      BY <1>1, <1>2, <2>1, NodeCountAssumption DEF Node
    <2>9. EvalProgress'
      BY <1>1, <2>1, <2>6, <2>7, <2>8 DEF EvalProgress
    <2> QED BY <2>5, <2>9 DEF EvalInvariant
  <1> QED BY <1>3, <1>4

\* The resolution of a choice is appended; those before it stay.
LEMMA EvaluateChoiceKeeps ==
  ASSUME EvalInvariant, EvaluateChoice
  PROVE  EvalInvariant'
  <1> DEFINE Resolutions == {OneChoice(project, c, effective, available) :
                               c \in 1..Len(project.choice)}
  <1>1. /\ Len(selection) = at - 1 /\ at \in 1..Len(project.choice) /\ at \in Nat
        /\ Len(project.choice) \in Nat
        /\ selection \in Seq(Resolutions)
        /\ \A n \in Node : Settled(n) /\ Classified(n)
        /\ \A c \in 1..Len(selection) : Chosen(c)
    <2>1. project.choice \in Seq(ChoiceRecord)
      BY ProjectFacts DEF EvalInvariant, EvalShape
    <2>2. Len(project.choice) \in Nat
      BY <2>1
    <2> QED BY <2>2 DEF EvalInvariant, EvalShape, EvalProgress, EvaluateChoice
  <1>2. PICK result : result = OneChoice(project, at, effective, available)
    OBVIOUS
  <1>3. CASE result.status # "ok"
    BY <1>2, <1>3, FailKeeps DEF EvaluateChoice
  <1>4. CASE result.status = "ok"
    <2>1. /\ selection' = Append(selection, result)
          /\ at' = at + 1
          /\ UNCHANGED <<project, phase, effective, origin, available, visible>>
          /\ UNCHANGED vars /\ phase = "choices"
      BY <1>2, <1>4 DEF EvaluateChoice
    <2>2. result \in Resolutions
      BY <1>1, <1>2
    <2>3. /\ selection' \in Seq(Resolutions) /\ Len(selection') = at
          /\ \A c \in 1..Len(selection) : selection'[c] = selection[c]
          /\ selection'[at] = result
      <3> HIDE DEF Resolutions
      <3> QED BY <1>1, <2>1, <2>2
    <2>4. IInv'
      BY <2>1, SearchUnchanged DEF EvalInvariant, EvalShape
    <2>5. EvalShape'
      <3>1. selection' \in Seq({OneChoice(project, c, effective, available) :
                                  c \in 1..Len(project.choice)})'
        BY <2>1, <2>3
      <3>2. at' \in Nat \ {0}
        BY <1>1, <2>1
      <3> QED BY <2>1, <2>4, <3>1, <3>2 DEF EvalInvariant, EvalShape, vars
    <2>6. \A n \in Node : Settled(n)' /\ Classified(n)'
      BY <1>1, <2>1 DEF Settled, Classified
    <2>7. ASSUME NEW c \in 1..at PROVE Chosen(c)'
      <3>1. CASE c = at
        <4>1. selection'[c] = OneChoice(project, c, effective, available) /\ selection'[c].status = "ok"
          BY <1>2, <1>4, <2>3, <3>1
        <4> QED BY <2>1, <4>1 DEF Chosen
      <3>2. CASE c # at
        <4>1. c \in 1..Len(selection)
          BY <1>1, <3>2
        <4>2. Chosen(c) /\ selection'[c] = selection[c]
          BY <1>1, <2>3, <4>1
        <4> QED BY <2>1, <4>2 DEF Chosen
      <3> QED BY <3>1, <3>2
    <2>8. Len(selection') = at' - 1 /\ at' <= Len(project'.choice) + 1
      BY <1>1, <2>1, <2>3
    <2>9. \A c \in 1..Len(selection') : Chosen(c)'
      BY <2>3, <2>7
    <2>10. EvalProgress'
      BY <2>1, <2>6, <2>8, <2>9 DEF EvalProgress
    <2> QED BY <2>5, <2>10 DEF EvalInvariant
  <1> QED BY <1>3, <1>4

\* A loop that has ended has done everything.
LEMMA EndPhaseKeeps ==
  ASSUME EvalInvariant, EndPhase
  PROVE  EvalInvariant'
  <1>1. /\ at' = 1
        /\ UNCHANGED <<project, effective, origin, available, visible, selection>>
        /\ UNCHANGED vars
    BY DEF EndPhase, EnterPhase
  <1>2. IInv'
    BY <1>1, SearchUnchanged DEF EvalInvariant, EvalShape
  <1>3. status = "ok" /\ phase' \in Phase
    BY DEF EvalInvariant, EvalShape, EndPhase, EnterPhase, Phase
  <1>4. EvalShape'
    BY <1>1, <1>2, <1>3 DEF EvalInvariant, EvalShape, vars
  <1>5. /\ \A n \in Node : Settled(n) => Settled(n)'
        /\ \A n \in Node : Classified(n) => Classified(n)'
        /\ \A c \in 1..Len(selection) : Chosen(c)'
    BY <1>1 DEF Settled, Classified, Chosen, EvalInvariant, EvalProgress
  <1>6. CASE phase = "values" /\ at > NodeCount /\ EnterPhase("options")
    <2>1. at = NodeCount + 1 /\ \A j \in 1..(at - 1) : Settled(order[j])
      BY <1>6, NodeCountAssumption DEF EvalInvariant, EvalProgress, EvalShape
    <2>2. \A j \in Node : Settled(order[j])
      BY <2>1, NodeCountAssumption DEF Node
    <2>3. \A n \in Node : Settled(n)
      BY <1>3, <2>2, OrderDistinct
    <2>4. phase' = "options" /\ selection = << >>
      BY <1>6 DEF EnterPhase, EvalInvariant, EvalProgress
    <2>5. EvalProgress'
      BY <1>1, <1>5, <2>3, <2>4, NodeCountAssumption DEF EvalProgress
    <2> QED BY <1>4, <2>5 DEF EvalInvariant
  <1>7. CASE phase = "options" /\ at > NodeCount /\ EnterPhase("choices")
    <2>1. /\ at = NodeCount + 1 /\ \A n \in 1..(at - 1) : Classified(n)
          /\ \A n \in Node : Settled(n)
      BY <1>7, NodeCountAssumption DEF EvalInvariant, EvalProgress, EvalShape
    <2>2. \A n \in Node : Classified(n)
      BY <2>1, NodeCountAssumption DEF Node
    <2>3. phase' = "choices" /\ selection = << >> /\ Len(selection) = 0
      BY <1>7 DEF EnterPhase, EvalInvariant, EvalProgress
    <2>4. Len(project.choice) \in Nat
      <3>1. project.choice \in Seq(ChoiceRecord)
        BY ProjectFacts DEF EvalInvariant, EvalShape
      <3> QED BY <3>1
    <2>5. EvalProgress'
      BY <1>1, <1>5, <2>1, <2>2, <2>3, <2>4 DEF EvalProgress
    <2> QED BY <1>4, <2>5 DEF EvalInvariant
  <1>8. CASE phase = "choices" /\ at > Len(project.choice) /\ EnterPhase("published")
    <2>1. Len(project.choice) \in Nat
      <3>1. project.choice \in Seq(ChoiceRecord)
        BY ProjectFacts DEF EvalInvariant, EvalShape
      <3> QED BY <3>1
    <2>2. /\ phase' = "published" /\ Len(selection) = Len(project.choice)
          /\ \A n \in Node : Settled(n) /\ Classified(n)
      BY <1>8, <2>1 DEF EnterPhase, EvalInvariant, EvalProgress, EvalShape
    <2>3. EvalProgress'
      BY <1>1, <1>5, <2>2 DEF EvalProgress
    <2> QED BY <1>4, <2>3 DEF EvalInvariant
  <1> QED BY <1>6, <1>7, <1>8 DEF EndPhase

\* Nothing happens.
LEMMA EvalStutterKeeps ==
  ASSUME EvalInvariant, UNCHANGED allvars
  PROVE  EvalInvariant'
  <1>1. UNCHANGED vars /\ UNCHANGED evalvars
    BY DEF allvars
  <1>2. IInv'
    BY <1>1, SearchUnchanged DEF EvalInvariant, EvalShape
  <1>3. EvalShape'
    BY <1>1, <1>2 DEF EvalInvariant, EvalShape, evalvars, vars
  <1>4. EvalProgress'
    BY <1>1 DEF EvalInvariant, EvalProgress, Settled, Classified, Chosen, evalvars, vars
  <1> QED BY <1>3, <1>4 DEF EvalInvariant

LEMMA EvalNextKeeps ==
  ASSUME EvalInvariant, [EvalNext]_allvars
  PROVE  EvalInvariant'
  <1>1. CASE Search         BY <1>1, SearchKeeps DEF Search
  <1>2. CASE EndSearch      BY <1>2, EndSearchKeeps
  <1>3. CASE EvaluateSymbol BY <1>3, EvaluateSymbolKeeps
  <1>4. CASE EvaluateOption BY <1>4, EvaluateOptionKeeps
  <1>5. CASE EvaluateChoice BY <1>5, EvaluateChoiceKeeps
  <1>6. CASE EndPhase       BY <1>6, EndPhaseKeeps
  <1>7. CASE UNCHANGED allvars BY <1>7, EvalStutterKeeps
  <1> QED BY <1>1, <1>2, <1>3, <1>4, <1>5, <1>6, <1>7 DEF EvalNext

-----------------------------------------------------------------------------
(* What the evaluation publishes.                                          *)

\* An option that is not available is disabled.
LEMMA OptionFacts ==
  ASSUME NEW p, NEW n, NEW env, OptionState(p, n, env).status = "ok",
         ~OptionState(p, n, env).available
  PROVE  env[n] \in {"n", Unset}
  <1>1. PICK usable, shown : /\ usable = Condition(p, "available_if", n, env)
                             /\ shown = Condition(p, "visible_if", n, env)
    OBVIOUS
  <1>2. usable \in {"y", "n", Error}
    BY <1>1 DEF Condition, Truth
  <1>3. usable # Error /\ usable # "y"
    BY <1>1 DEF OptionState
  <1>4. ~(usable = "n" /\ ~IsDisabled(env[n]))
    BY <1>1, <1>3 DEF OptionState
  <1> QED BY <1>2, <1>3, <1>4 DEF IsDisabled

\* The parts of a choice.
LEMMA ChoiceRecordFacts ==
  ASSUME NEW p, Linked(p), NEW c \in DOMAIN p.choice
  PROVE  /\ p.choice[c].members \in Seq(Node)
         /\ p.choice[c].defaults \in Seq([priority : Int, result : Node])
  <1>1. p.choice[c] \in ChoiceRecord
    BY ProjectFacts
  <1> QED BY <1>1 DEF ChoiceRecord

\* The members that select themselves are members, and a first one exists.
LEMMA MembersFacts ==
  ASSUME NEW p, Linked(p), NEW c \in DOMAIN p.choice, NEW env, NEW usable, NEW S,
         S = EffectiveMembers(p, c, env, usable)
  PROVE  /\ IsFiniteSet(S) /\ S \subseteq DOMAIN p.choice[c].members
         /\ \A k \in S : LET m == p.choice[c].members[k] IN
               m \in Node /\ usable[m] /\ env[m] \in {"m", "y"}
         /\ S # {} => First(S) \in S
  <1>1. PICK members : members = p.choice[c].members
    OBVIOUS
  <1>2. members \in Seq(Node) /\ DOMAIN members = 1..Len(members) /\ Len(members) \in Nat
    BY <1>1, ChoiceRecordFacts
  <1>3. S \subseteq 1..Len(members) /\ \A k \in S : /\ members[k] \in Node
                                                    /\ usable[members[k]]
                                                    /\ env[members[k]] \in {"m", "y"}
    BY <1>1, <1>2 DEF EffectiveMembers, IsSelected
  <1>4. IsFiniteSet(S)
    <2>1. 1 \in Int /\ Len(members) \in Int
      BY <1>2
    <2>2. IsFiniteSet(1..Len(members))
      BY ONLY <2>1, FS_Interval
    <2> QED BY ONLY <1>3, <2>2, FS_Subset
  <1>5. ASSUME S # {} PROVE First(S) \in S
    <2>1. S \in SUBSET Nat
      BY <1>3
    <2>2. \E k \in S : \A j \in S : k <= j
      BY <1>5, <2>1, LeastNatural
    <2> QED BY <2>2, Zenon DEF First
  <1> QED BY <1>1, <1>2, <1>3, <1>4, <1>5

\* The resolution of a choice that is available and did not fail.
LEMMA ChoiceFacts ==
  ASSUME NEW p, Linked(p), NEW c \in DOMAIN p.choice, NEW env, NEW usable,
         NEW S, S = EffectiveMembers(p, c, env, usable),
         NEW result, result = OneChoice(p, c, env, usable),
         result.status = "ok", result.available
  PROVE  /\ p.choice[c].cardinality \in {"exactly_one", "zero_or_one"} => ~(Cardinality(S) > 1)
         /\ p.choice[c].cardinality \in {"exactly_one", "one_or_more"} => result.selected # 0
         /\ S # {} => result.selected = p.choice[c].members[First(S)]
         /\ S = {} /\ result.selected # 0 => result.selected \in Node /\ usable[result.selected]
  <1> DEFINE choice == p.choice[c]
             isAvailable == Condition(p, "choice_available_if", c, env)
             isVisible == Condition(p, "choice_visible_if", c, env)
             default == SelectDefault(choice.defaults, ChoiceHolds(p, c, env))
             member == choice.defaults[default.selected].result
             T == EffectiveMembers(p, c, env, usable)
             Shown == isVisible = "y"
             Fresh(count, selected, from) ==
                [status |-> "ok", available |-> TRUE, visible |-> Shown,
                 count |-> count, selected |-> selected, origin |-> from]
             Base == [NoSelection(TRUE, Shown) EXCEPT !.count = Cardinality(T)]
             Selected ==
                IF T # {}
                THEN [Base EXCEPT !.selected = choice.members[First(T)],
                                  !.origin = "effective_member"]
                ELSE IF default.status # "ok" THEN [Base EXCEPT !.status = default.status]
                ELSE IF default.selected = 0 THEN Base
                ELSE IF ~usable[member] THEN [Base EXCEPT !.status = "default_unavailable"]
                ELSE [Base EXCEPT !.selected = member, !.origin = "choice_default"]
  <1>1. S = T
    OBVIOUS
  <1>2. Base = Fresh(Cardinality(T), 0, "none")
    <2>1. \A a, b, n : [NoSelection(a, b) EXCEPT !.count = n] =
                          [status |-> "ok", available |-> a, visible |-> b,
                           count |-> n, selected |-> 0, origin |-> "none"]
      BY DEF NoSelection
    <2> HIDE DEF T, Shown
    <2> QED BY <2>1, Zenon
  <1>3. /\ T # {} => Selected = Fresh(Cardinality(T), choice.members[First(T)],
                                      "effective_member")
        /\ T = {} /\ Selected.status = "ok" =>
              \/ Selected = Fresh(Cardinality(T), 0, "none")
              \/ /\ default.status = "ok" /\ default.selected # 0 /\ usable[member]
                 /\ Selected = Fresh(Cardinality(T), member, "choice_default")
    <2> HIDE DEF Base, T, Shown, choice, default, member
    <2> QED BY <1>2
  <1>4. result =
          IF Error \in {isAvailable, isVisible}
          THEN [NoSelection(FALSE, FALSE) EXCEPT !.status = "expression"]
          ELSE IF isAvailable = "n" THEN NoSelection(FALSE, Shown)
          ELSE IF Selected.status # "ok" THEN Selected
          ELSE IF /\ choice.cardinality \in {"exactly_one", "zero_or_one"}
                  /\ Selected.count > 1
          THEN [Selected EXCEPT !.status = "too_many"]
          ELSE IF /\ choice.cardinality \in {"exactly_one", "one_or_more"}
                  /\ Selected.selected = 0
          THEN [Selected EXCEPT !.status = "no_selection"]
          ELSE Selected
    BY DEF OneChoice
  <1>5. /\ ~NoSelection(FALSE, Shown).available
        /\ [NoSelection(FALSE, FALSE) EXCEPT !.status = "expression"].status = "expression"
    BY DEF NoSelection
  <1>6. Selected.status = "ok" =>
          /\ [Selected EXCEPT !.status = "too_many"].status = "too_many"
          /\ [Selected EXCEPT !.status = "no_selection"].status = "no_selection"
    <2> HIDE DEF Selected, T, Shown, choice, default, member
    <2> QED BY <1>3
  <1>7. /\ result = Selected /\ Selected.status = "ok"
        /\ choice.cardinality \in {"exactly_one", "zero_or_one"} => ~(Selected.count > 1)
        /\ choice.cardinality \in {"exactly_one", "one_or_more"} => Selected.selected # 0
    <2> HIDE DEF Selected, T, Shown, choice, isAvailable, isVisible
    <2> QED BY <1>4, <1>5, <1>6
  <1>8. /\ Selected.count = Cardinality(T)
        /\ T # {} => Selected.selected = choice.members[First(T)]
        /\ T = {} /\ Selected.selected # 0 =>
              default.status = "ok" /\ default.selected # 0 /\ usable[member] /\ Selected.selected = member
    <2> HIDE DEF Selected, T, Shown, choice, default, member
    <2> QED BY <1>3, <1>7
  <1>9. default.selected # 0 => member \in Node
    <2>1. PICK Entry : Entry = [priority : Int, result : Node]
      OBVIOUS
    <2>2. choice.defaults \in Seq(Entry)
      BY <2>1, ChoiceRecordFacts
    <2>3. default.selected \in 0..Len(choice.defaults)
      BY ChoiceRecordFacts, SelectDefaultFacts
    <2>4. default.selected # 0 => choice.defaults[default.selected] \in Entry
      BY <2>2, <2>3
    <2> QED BY <2>1, <2>4
  <1> HIDE DEF Selected, T, default, member
  <1> QED BY <1>1, <1>7, <1>8, <1>9

\* Nothing that was requested is changed, and nothing invalid is kept.
LEMMA InvariantNothingRecovered == EvalInvariant => NothingRecovered
  <1> SUFFICES ASSUME EvalInvariant, phase = "published", NEW n \in Node
               PROVE  /\ project.request[n] \in Value /\ ~project.symbol[n].computed
                            => effective[n] = project.request[n]
                      /\ ~available[n] => effective[n] \in {"n", Unset}
                      /\ project.symbol[n].required => effective[n] # Unset
                      /\ effective[n] # Unset => effective[n] \in project.symbol[n].range
    BY DEF NothingRecovered
  <1>1. Linked(project) /\ Settled(n) /\ Classified(n)
    BY DEF EvalInvariant, EvalShape, EvalProgress
  <1>2. PICK result : result = SymbolResult(project, n, effective)
    OBVIOUS
  <1>3. result.status = "ok" /\ result.value = effective[n]
    BY <1>1, <1>2 DEF Settled
  <1>4. /\ result.value # Unset => result.value \in project.symbol[n].range
        /\ project.symbol[n].required => result.value # Unset
        /\ project.request[n] \in Value /\ ~project.symbol[n].computed
              => result.value = project.request[n]
    BY <1>1, <1>2, <1>3, SymbolFacts
  <1>5. ~available[n] => effective[n] \in {"n", Unset}
    <2>1. PICK state : state = OptionState(project, n, effective)
      OBVIOUS
    <2>2. state.status = "ok" /\ state.available = available[n]
      BY <1>1, <2>1 DEF Classified
    <2> QED BY <2>1, <2>2, OptionFacts
  <1> QED BY <1>3, <1>4, <1>5

\* The selection of every choice satisfies its cardinality.
LEMMA InvariantChoicesAreSatisfied == EvalInvariant => ChoicesAreSatisfied
  <1> SUFFICES ASSUME EvalInvariant, phase = "published", NEW c \in DOMAIN project.choice,
                      selection[c].available
               PROVE  LET resolution == selection[c]
                          chosen == {m \in {project.choice[c].members[k] :
                                              k \in DOMAIN project.choice[c].members} :
                                        available[m] /\ effective[m] \in {"m", "y"}}
                      IN  /\ project.choice[c].cardinality \in {"exactly_one", "zero_or_one"}
                                => Cardinality(chosen) <= 1
                          /\ project.choice[c].cardinality \in {"exactly_one", "one_or_more"}
                                => resolution.selected \in Node
                          /\ chosen # {} => resolution.selected \in chosen
                          /\ resolution.selected # 0 => available[resolution.selected]
    BY DEF ChoicesAreSatisfied
  <1>1. Linked(project) /\ Chosen(c)
    <2>1. project.choice \in Seq(ChoiceRecord) /\ Linked(project)
      BY ProjectFacts DEF EvalInvariant, EvalShape
    <2>2. c \in 1..Len(selection)
      BY <2>1 DEF EvalInvariant, EvalProgress
    <2> QED BY <2>1, <2>2 DEF EvalInvariant, EvalProgress
  <1>2. PICK resolution, members, S :
            /\ resolution = selection[c] /\ members = project.choice[c].members
            /\ S = EffectiveMembers(project, c, effective, available)
    OBVIOUS
  <1>3. PICK chosen : chosen = {m \in {members[k] : k \in DOMAIN members} :
                                   available[m] /\ effective[m] \in {"m", "y"}}
    OBVIOUS
  <1>4. /\ project.choice[c].cardinality \in {"exactly_one", "zero_or_one"}
              => ~(Cardinality(S) > 1)
        /\ project.choice[c].cardinality \in {"exactly_one", "one_or_more"}
              => resolution.selected # 0
        /\ S # {} => resolution.selected = members[First(S)]
        /\ S = {} /\ resolution.selected # 0 =>
              resolution.selected \in Node /\ available[resolution.selected]
    <2>1. /\ resolution = OneChoice(project, c, effective, available)
          /\ resolution.status = "ok" /\ resolution.available
      BY <1>1, <1>2 DEF Chosen
    <2> QED BY <1>1, <1>2, <2>1, ChoiceFacts
  <1>5. /\ IsFiniteSet(S) /\ S \subseteq DOMAIN members
        /\ \A k \in S : members[k] \in Node /\ available[members[k]]
                        /\ effective[members[k]] \in {"m", "y"}
        /\ S # {} => First(S) \in S
    BY <1>1, <1>2, MembersFacts
  <1>6. \A m : m \in chosen <=> \E k \in S : members[k] = m
    BY <1>2, <1>3, <1>5 DEF EffectiveMembers, IsSelected
  <1>7. Cardinality(chosen) \in Nat /\ Cardinality(S) \in Nat /\ Cardinality(chosen) <= Cardinality(S)
    <2> DEFINE image == [k \in S |-> members[k]]
    <2>1. image \in Surjection(S, chosen)
      BY <1>6 DEF Surjection
    <2>2. IsFiniteSet(chosen) /\ Cardinality(chosen) <= Cardinality(S)
      <3> HIDE DEF image
      <3> QED BY <1>5, <2>1, FS_Surjection
    <2> QED BY <1>5, <2>2, FS_CardinalityType
  <1>8. chosen # {} => resolution.selected \in chosen
    BY <1>4, <1>5, <1>6
  <1>9. \A m \in chosen : m \in Node /\ available[m]
    BY <1>5, <1>6
  <1>10. S # {} => resolution.selected \in chosen
    BY <1>4, <1>5, <1>6
  <1>11. resolution.selected # 0 => resolution.selected \in Node /\ available[resolution.selected]
    BY <1>4, <1>9, <1>10
  <1>12. project.choice[c].cardinality \in {"exactly_one", "zero_or_one"}
            => Cardinality(chosen) <= 1
    BY <1>4, <1>7
  <1> QED BY <1>2, <1>3, <1>4, <1>8, <1>11, <1>12

\* A conditional default that was taken is the one the priorities select.
LEMMA InvariantDefaultIsHighest == EvalInvariant => DefaultIsHighest
  <1> SUFFICES ASSUME EvalInvariant, phase = "published", NEW n \in Node,
                      origin[n] = "conditional_default"
               PROVE  /\ HighestDefaults(n) # {}
                      /\ \A i \in HighestDefaults(n) :
                            effective[n] = project.symbol[n].defaults[i].result
    BY DEF DefaultIsHighest
  <1>1. Linked(project) /\ Settled(n)
    BY DEF EvalInvariant, EvalShape, EvalProgress
  <1>2. PICK result, defaults, holds, chosen, s :
            /\ result = SymbolResult(project, n, effective)
            /\ defaults = project.symbol[n].defaults
            /\ holds = DefaultHolds(project, n, effective)
            /\ chosen = SelectDefault(defaults, holds)
            /\ s = chosen.selected
    OBVIOUS
  <1>3. /\ result.status = "ok" /\ result.value = effective[n]
        /\ result.origin = "conditional_default"
    BY <1>1, <1>2 DEF Settled
  <1>4. chosen.status = "ok" /\ s # 0 /\ effective[n] = defaults[s].result
    BY <1>1, <1>2, <1>3, SymbolFacts
  <1>5. PICK Entry : Entry = [priority : Int, result : Value]
    OBVIOUS
  <1>6. defaults \in Seq(Entry) /\ DOMAIN defaults = 1..Len(defaults) /\ Len(defaults) \in Nat
    <2>1. defaults \in Seq([priority : Int, result : Value])
      BY <1>1, <1>2, SymbolRecordFacts
    <2>2. defaults \in Seq(Entry)
      BY <1>5, <2>1
    <2> QED BY ONLY <2>2
  <1>7. SelectedAmong(defaults, holds, s, Len(defaults))
    <2>1. defaults \in Seq([priority : Int, result : Value])
      BY <1>5, <1>6
    <2> QED BY <1>2, <1>4, <2>1, SelectDefaultFacts
  <1>8. DOMAIN holds = 1..Len(defaults)
    BY <1>2, <1>6 DEF DefaultHolds
  <1>9. \A i : i \in TrueDefaults(n) <=> i \in 1..Len(defaults) /\ Holding(holds, i)
    BY <1>2, <1>8 DEF TrueDefaults, Holding
  <1>10. \A i \in 1..Len(defaults) : defaults[i].priority \in Int
    <2>1. \A i \in 1..Len(defaults) : defaults[i] \in Entry
      BY <1>6
    <2> QED BY <1>5, <2>1
  <1>11. /\ s \in 1..Len(defaults) /\ Holding(holds, s)
         /\ \A j \in 1..Len(defaults) : Holding(holds, j) =>
              /\ defaults[j].priority <= defaults[s].priority
              /\ defaults[j].priority = defaults[s].priority =>
                    defaults[j].result = defaults[s].result
    BY <1>4, <1>6, <1>7 DEF SelectedAmong
  <1>12. s \in HighestDefaults(n)
    BY <1>2, <1>9, <1>11 DEF HighestDefaults
  <1>13. ASSUME NEW i \in HighestDefaults(n)
         PROVE  effective[n] = project.symbol[n].defaults[i].result
    <2>1. /\ i \in 1..Len(defaults) /\ Holding(holds, i)
          /\ defaults[s].priority <= defaults[i].priority
      BY <1>2, <1>9, <1>11 DEF HighestDefaults
    <2>2. defaults[i].priority = defaults[s].priority
      BY <1>10, <1>11, <2>1
    <2> QED BY <1>2, <1>4, <1>11, <2>1, <2>2
  <1> QED BY <1>12, <1>13

LEMMA InvariantIsRight == EvalInvariant => EvaluationIsRight
  <1>1. EvalInvariant => ValuesAreFixpoint
    BY DEF EvalInvariant, EvalProgress, ValuesAreFixpoint, Settled
  <1> QED BY <1>1, InvariantNothingRecovered, InvariantChoicesAreSatisfied,
             InvariantDefaultIsHighest DEF EvaluationIsRight

\* confit_v2_evaluation_build on its own, for every linked project and every
\* ledger: the values it publishes are the fixpoint of the declarations, with
\* nothing repaired, every cardinality satisfied and every conditional default
\* the one its priority selects.
THEOREM EvaluationHolds == EvalSpec => []EvaluationIsRight
  <1>1. EvalInvariant /\ [EvalNext]_allvars => EvalInvariant'
    BY EvalNextKeeps
  <1> QED BY <1>1, EvalInitInvariant, InvariantIsRight, PTL DEF EvalSpec

-----------------------------------------------------------------------------
(* Snapshots.                                                              *)

\* The resolve that is under way has evaluated what its stage says.
StageFollows ==
    /\ stage \in {"idle", "resolve", "constraints", "freeze", "invalidate"}
    /\ stage \in {"constraints", "freeze"} =>
          /\ phase = "published"
          /\ results \in Seq({ConstraintResult(project, c, effective) : c \in 1..project.constraint})
          /\ Len(results) <= project.constraint
          /\ \A c \in 1..Len(results) : results[c] = ConstraintResult(project, c, effective)
    /\ stage = "freeze" =>
          /\ Len(results) = project.constraint
          /\ \A c \in 1..Len(results) : results[c].outcome # "failed"
    /\ stage = "resolve" => results = << >>
    /\ stage = "invalidate" =>
          base # NoSnapshot /\ pending \in [option : Node, value : Request]
    /\ base # NoSnapshot => base.request \in [Node -> Request]

SnapInvariant == EvalInvariant /\ StageFollows /\ SnapshotIsFull

\* A project whose requests are replaced is still linked.
LEMMA RequestReplaced ==
  ASSUME NEW p, Linked(p), NEW request \in [Node -> Request]
  PROVE  /\ Linked([p EXCEPT !.request = request])
         /\ \A other : [[p EXCEPT !.request = request] EXCEPT !.request = other]
                           = [p EXCEPT !.request = other]
  <1>1. PICK q : q = [p EXCEPT !.request = request]
    OBVIOUS
  <1>2. /\ q \in ProjectRecord /\ q.linked = p.linked /\ q.symbol = p.symbol
        /\ q.choice = p.choice /\ q.constraint = p.constraint
    BY <1>1 DEF Linked, ProjectRecord
  <1>3. \A role, owner, k : HasExpression(q, role, owner, k) <=> HasExpression(p, role, owner, k)
    BY <1>2 DEF HasExpression
  <1>4. LinkedFully(q)
    BY <1>2, <1>3 DEF Linked, LinkedFully
  <1>5. \A other : [q EXCEPT !.request = other] = [p EXCEPT !.request = other]
    BY <1>1 DEF Linked, ProjectRecord
  <1>6. DefaultsAreMembers(q)
    BY <1>2 DEF Linked, DefaultsAreMembers
  <1> QED BY <1>1, <1>2, <1>4, <1>5, <1>6 DEF Linked

\* SnapshotIsFull is about the project and the snapshot only.
LEMMA SnapshotUnchanged ==
  ASSUME SnapshotIsFull, UNCHANGED <<project, base>>
  PROVE  SnapshotIsFull'
  BY DEF SnapshotIsFull

LEMMA SnapInitInvariant == SnapInit => SnapInvariant
  <1> SUFFICES ASSUME SnapInit PROVE SnapInvariant
    OBVIOUS
  <1>1. EvalInvariant
    BY EvalInitInvariant DEF SnapInit
  <1>2. StageFollows /\ SnapshotIsFull
    BY DEF SnapInit, StageFollows, SnapshotIsFull
  <1> QED BY <1>1, <1>2 DEF SnapInvariant

\* A refused resolve leaves the snapshot as it was.
LEMMA RejectKeeps ==
  ASSUME SnapInvariant, NEW reason, Reject(reason)
  PROVE  SnapInvariant'
  <1>1. EvalInvariant'
    BY EvalStutterKeeps DEF SnapInvariant, Reject
  <1>2. SnapshotIsFull'
    BY SnapshotUnchanged DEF SnapInvariant, Reject, allvars, evalvars
  <1>3. StageFollows'
    BY DEF SnapInvariant, StageFollows, Reject
  <1> QED BY <1>1, <1>2, <1>3 DEF SnapInvariant

LEMMA EvaluateKeeps ==
  ASSUME SnapInvariant, Evaluate
  PROVE  SnapInvariant'
  <1>1. EvalInvariant'
    BY EvalNextKeeps DEF SnapInvariant, Evaluate
  <1>2. UNCHANGED project
    BY DEF Evaluate, EvalNext, Search, EndSearch, EvaluateSymbol, EvaluateOption, EvaluateChoice,
           EndPhase, Fail, evalvars
  <1>3. SnapshotIsFull'
    BY <1>2, SnapshotUnchanged DEF SnapInvariant, Evaluate, snapvars
  <1>4. StageFollows'
    BY DEF SnapInvariant, StageFollows, Evaluate, snapvars
  <1> QED BY <1>1, <1>3, <1>4 DEF SnapInvariant

LEMMA EndEvaluationKeeps ==
  ASSUME SnapInvariant, EndEvaluation
  PROVE  SnapInvariant'
  <1>1. CASE phase = "failed" /\ Reject(error)
    BY <1>1, RejectKeeps
  <1>2. CASE /\ phase = "published" /\ stage' = "constraints"
             /\ UNCHANGED <<allvars, results, base, pending, queue, head, edits, verdict>>
    <2>1. EvalInvariant'
      BY <1>2, EvalStutterKeeps DEF SnapInvariant
    <2>2. SnapshotIsFull'
      BY <1>2, SnapshotUnchanged DEF SnapInvariant, allvars, evalvars
    <2>3. results = << >> /\ project.constraint \in Nat
      BY ProjectFacts DEF EndEvaluation, SnapInvariant, StageFollows, EvalInvariant, EvalShape
    <2>4. StageFollows'
      BY <1>2, <2>3 DEF SnapInvariant, StageFollows, allvars, evalvars
    <2> QED BY <2>1, <2>2, <2>4 DEF SnapInvariant
  <1> QED BY <1>1, <1>2 DEF EndEvaluation

LEMMA EvaluateConstraintKeeps ==
  ASSUME SnapInvariant, EvaluateConstraint
  PROVE  SnapInvariant'
  <1> DEFINE Results == {ConstraintResult(project, c, effective) : c \in 1..project.constraint}
  <1>1. PICK k, result : k = Len(results) + 1 /\ result = ConstraintResult(project, k, effective)
    OBVIOUS
  <1>2. CASE result.outcome \notin Outcome
    BY <1>1, <1>2, RejectKeeps DEF EvaluateConstraint
  <1>3. CASE result.outcome \in Outcome
    <2>1. /\ results' = Append(results, result) /\ stage = "constraints"
          /\ UNCHANGED <<allvars, stage, base, pending, queue, head, edits, verdict>>
      BY <1>1, <1>3 DEF EvaluateConstraint
    <2>2. EvalInvariant'
      BY <2>1, EvalStutterKeeps DEF SnapInvariant
    <2>3. SnapshotIsFull'
      BY <2>1, SnapshotUnchanged DEF SnapInvariant, allvars, evalvars
    <2>4. /\ phase = "published" /\ results \in Seq(Results)
          /\ Len(results) \in Nat /\ project.constraint \in Nat
          /\ \A c \in 1..Len(results) : results[c] = ConstraintResult(project, c, effective)
      BY <2>1, ProjectFacts
         DEF SnapInvariant, StageFollows, EvalInvariant, EvalShape
    <2>5. k \in 1..project.constraint
      BY <1>1, <2>4 DEF EvaluateConstraint
    <2>6. result \in Results
      BY <1>1, <2>5
    <2>7. /\ results' \in Seq(Results) /\ Len(results') = k
          /\ \A c \in 1..k : results'[c] = ConstraintResult(project, c, effective)
      <3> HIDE DEF Results
      <3>1. /\ results' \in Seq(Results) /\ Len(results') = k
            /\ \A c \in 1..Len(results) : results'[c] = results[c]
            /\ results'[k] = result
        BY <1>1, <2>1, <2>4, <2>6
      <3> QED BY <1>1, <2>4, <3>1
    <2>8. UNCHANGED <<project, effective, phase>>
      BY <2>1 DEF allvars, evalvars
    <2>9. StageFollows'
      BY <2>1, <2>4, <2>5, <2>7, <2>8 DEF SnapInvariant, StageFollows
    <2> QED BY <2>2, <2>3, <2>9 DEF SnapInvariant
  <1> QED BY <1>2, <1>3

LEMMA EndValidationKeeps ==
  ASSUME SnapInvariant, EndValidation
  PROVE  SnapInvariant'
  <1>1. CASE \E reason : Reject(reason)
    BY <1>1, RejectKeeps
  <1>2. CASE /\ ~\E c \in DOMAIN results : results[c].outcome = "failed"
             /\ stage' = "freeze"
             /\ UNCHANGED <<allvars, results, base, pending, queue, head, edits, verdict>>
    <2>1. EvalInvariant'
      BY <1>2, EvalStutterKeeps DEF SnapInvariant
    <2>2. SnapshotIsFull'
      BY <1>2, SnapshotUnchanged DEF SnapInvariant, allvars, evalvars
    <2>3. /\ phase = "published" /\ Len(results) = project.constraint
          /\ DOMAIN results = 1..Len(results)
      BY DEF SnapInvariant, StageFollows, EndValidation
    <2>4. UNCHANGED <<project, effective, phase>>
      BY <1>2 DEF allvars, evalvars
    <2>5. StageFollows'
      BY <1>2, <2>3, <2>4 DEF SnapInvariant, StageFollows, EndValidation
    <2> QED BY <2>1, <2>2, <2>5 DEF SnapInvariant
  <1> QED BY <1>1, <1>2 DEF EndValidation

\* What is frozen is what was just evaluated and validated.
LEMMA FreezeKeeps ==
  ASSUME SnapInvariant, Freeze
  PROVE  SnapInvariant'
  <1>1. EvalInvariant'
    BY EvalStutterKeeps DEF SnapInvariant, Freeze
  <1>2. /\ project' = project /\ Linked(project) /\ EvalInvariant /\ phase = "published"
        /\ Len(results) = project.constraint /\ DOMAIN results = 1..project.constraint
        /\ \A c \in 1..project.constraint :
              /\ results[c] = ConstraintResult(project, c, effective)
              /\ results[c].outcome # "failed"
    BY DEF SnapInvariant, StageFollows, EvalInvariant, EvalShape, Freeze, allvars, evalvars
  <1>3. /\ base'.request = project.request /\ base'.value = effective
        /\ base'.origin = origin /\ base'.available = available
        /\ base'.visible = visible /\ base'.choice = selection
        /\ base'.outcome = [c \in DOMAIN results |-> results[c].outcome]
    BY DEF Freeze
  <1>4. PICK p : p = [project' EXCEPT !.request = base'.request]
    OBVIOUS
  <1>5. p = project
    BY <1>2, <1>3, <1>4 DEF Linked, ProjectRecord
  <1>6. \A n \in Node :
          /\ SymbolResult(p, n, base'.value) =
                [status |-> "ok", value |-> base'.value[n], origin |-> base'.origin[n]]
          /\ OptionState(p, n, base'.value) =
                [status |-> "ok", available |-> base'.available[n], visible |-> base'.visible[n]]
    BY <1>2, <1>3, <1>5 DEF EvalInvariant, EvalProgress, Settled, Classified
  <1>7. \A c \in DOMAIN p.choice :
          OneChoice(p, c, base'.value, base'.available) = base'.choice[c]
    <2>1. project.choice \in Seq(ChoiceRecord)
      BY <1>2, ProjectFacts
    <2>2. DOMAIN p.choice = 1..Len(selection)
      BY <1>2, <1>5, <2>1 DEF EvalInvariant, EvalProgress
    <2> QED BY <1>2, <1>3, <1>5, <2>2 DEF EvalInvariant, EvalProgress, Chosen
  <1>8. \A c \in 1..p.constraint :
          /\ base'.outcome[c] = ConstraintResult(p, c, base'.value).outcome
          /\ base'.outcome[c] # "failed"
    BY <1>2, <1>3, <1>5
  <1>9. SnapshotIsFull'
    BY <1>4, <1>6, <1>7, <1>8 DEF SnapshotIsFull
  <1>10. StageFollows'
    BY <1>2, <1>3, ProjectFacts DEF StageFollows, Freeze
  <1> QED BY <1>1, <1>9, <1>10 DEF SnapInvariant

LEMMA EditKeeps ==
  ASSUME SnapInvariant, NEW edit \in project.edits, Edit(edit)
  PROVE  SnapInvariant'
  <1>1. EvalInvariant'
    BY EvalStutterKeeps DEF SnapInvariant, Edit
  <1>2. SnapshotIsFull'
    BY SnapshotUnchanged DEF SnapInvariant, Edit, allvars, evalvars
  <1>3. edit \in [option : Node, value : Request]
    BY ProjectFacts DEF SnapInvariant, EvalInvariant, EvalShape
  <1>4. StageFollows'
    BY <1>3 DEF SnapInvariant, StageFollows, Edit
  <1> QED BY <1>1, <1>2, <1>4 DEF SnapInvariant

LEMMA InvalidateKeeps ==
  ASSUME SnapInvariant, Invalidate
  PROVE  SnapInvariant'
  <1>1. EvalInvariant'
    BY EvalStutterKeeps DEF SnapInvariant, Invalidate
  <1>2. SnapshotIsFull'
    BY SnapshotUnchanged DEF SnapInvariant, Invalidate, allvars, evalvars
  <1>3. StageFollows'
    BY DEF SnapInvariant, StageFollows, Invalidate
  <1> QED BY <1>1, <1>2, <1>3 DEF SnapInvariant

\* The second resolve starts from the requests of the snapshot and the edit.
LEMMA ResolveKeeps ==
  ASSUME SnapInvariant, Resolve
  PROVE  SnapInvariant'
  <1>1. /\ Linked(project) /\ base # NoSnapshot /\ base.request \in [Node -> Request]
        /\ pending \in [option : Node, value : Request]
    BY DEF SnapInvariant, StageFollows, EvalInvariant, EvalShape, Resolve
  <1>2. PICK request : request = [base.request EXCEPT ![pending.option] = pending.value]
    OBVIOUS
  <1>3. request \in [Node -> Request]
    BY <1>1, <1>2
  <1>4. project' = [project EXCEPT !.request = request]
    BY <1>2 DEF Resolve
  <1>5. /\ Linked(project')
        /\ \A other : [project' EXCEPT !.request = other] = [project EXCEPT !.request = other]
    BY <1>1, <1>3, <1>4, RequestReplaced
  <1>6. EvalStart'
    BY <1>5 DEF EvalStart, InitWith, Resolve
  <1>7. EvalInvariant'
    BY <1>6, StartInvariant, PTL
  <1>8. SnapshotIsFull'
    <2>1. base' = base
      BY DEF Resolve
    <2>2. PICK p : p = [project EXCEPT !.request = base.request]
      OBVIOUS
    <2>3. p = [project' EXCEPT !.request = base'.request]
      BY <1>5, <2>1, <2>2
    <2> QED BY <1>1, <2>1, <2>2, <2>3 DEF SnapInvariant, SnapshotIsFull
  <1>9. StageFollows'
    BY <1>1 DEF StageFollows, Resolve
  <1> QED BY <1>7, <1>8, <1>9 DEF SnapInvariant

LEMMA SnapStutterKeeps ==
  ASSUME SnapInvariant, UNCHANGED everything
  PROVE  SnapInvariant'
  <1>1. EvalInvariant'
    BY EvalStutterKeeps DEF SnapInvariant, everything
  <1>2. SnapshotIsFull'
    BY SnapshotUnchanged DEF SnapInvariant, everything, allvars, evalvars, snapvars
  <1>3. StageFollows'
    BY DEF SnapInvariant, StageFollows, everything, allvars, evalvars, snapvars
  <1> QED BY <1>1, <1>2, <1>3 DEF SnapInvariant

LEMMA SnapNextKeeps == SnapInvariant /\ [SnapNext]_everything => SnapInvariant'
  <1> SUFFICES ASSUME SnapInvariant, [SnapNext]_everything PROVE SnapInvariant'
    OBVIOUS
  <1>1. CASE Evaluate           BY <1>1, EvaluateKeeps
  <1>2. CASE EndEvaluation      BY <1>2, EndEvaluationKeeps
  <1>3. CASE EvaluateConstraint BY <1>3, EvaluateConstraintKeeps
  <1>4. CASE EndValidation      BY <1>4, EndValidationKeeps
  <1>5. CASE Freeze             BY <1>5, FreezeKeeps
  <1>6. CASE Invalidate         BY <1>6, InvalidateKeeps
  <1>7. CASE Resolve            BY <1>7, ResolveKeeps
  <1>8. CASE \E edit \in project.edits : Edit(edit)  BY <1>8, EditKeeps
  <1>9. CASE UNCHANGED everything  BY <1>9, SnapStutterKeeps
  <1> QED BY <1>1, <1>2, <1>3, <1>4, <1>5, <1>6, <1>7, <1>8, <1>9 DEF SnapNext, Compute

LEMMA SnapSpecInvariant == SnapSpec => []SnapInvariant
  BY SnapInitInvariant, SnapNextKeeps, PTL DEF SnapSpec

\* The search keeps its invariant, and reports only real cycles, through any
\* sequence of resolves and edits.
THEOREM ResolveSearchHolds == SnapSpec => [](SearchInvariant /\ CycleGenuine)
  <1>1. SnapInvariant => SearchInvariant /\ CycleGenuine
    BY IInvCycleGenuine DEF SnapInvariant, EvalInvariant, EvalShape, IInv
  <1> QED BY <1>1, SnapSpecInvariant, PTL

\* Every evaluation of every resolve publishes only what the declarations yield.
THEOREM ResolveEvaluationHolds == SnapSpec => []EvaluationIsRight
  <1>1. SnapInvariant => EvaluationIsRight
    BY InvariantIsRight DEF SnapInvariant
  <1> QED BY <1>1, SnapSpecInvariant, PTL

\* Every published snapshot is the result of a full resolve of the requests it
\* records, whatever edits were accepted or refused before it, and no constraint
\* fails in it.
THEOREM SnapshotHolds == SnapSpec => []SnapshotIsFull
  <1>1. SnapInvariant => SnapshotIsFull
    BY DEF SnapInvariant
  <1> QED BY <1>1, SnapSpecInvariant, PTL

-----------------------------------------------------------------------------
(* Edits.  The affected set is closed under the edges of the reverse       *)
(* index, and an option outside of it reads nothing inside.                *)

\* Each choice has an id that no option has.
Apart(p) == \A c \in DOMAIN p.choice : p.choice[c].id \notin Node

\* The image of a finite set is finite.
LEMMA FiniteImage ==
  ASSUME NEW S, IsFiniteSet(S), NEW f, DOMAIN f = S
  PROVE  IsFiniteSet({f[x] : x \in S})
  <1>1. PICK T : T = {f[x] : x \in S}
    OBVIOUS
  <1>2. [x \in S |-> f[x]] \in Surjection(S, T)
    BY <1>1 DEF Surjection
  <1> QED BY <1>1, <1>2, FS_Surjection

LEMMA ReverseNodesFinite ==
  ASSUME NEW p, Linked(p)
  PROVE  IsFiniteSet(ReverseNodes(p))
  <1>1. IsFiniteSet(Node) /\ IsFiniteSet(DOMAIN p.choice) /\ IsFiniteSet(1..p.constraint)
    <2>1. NodeCount \in Int /\ p.constraint \in Int /\ 1 \in Int
      BY ProjectFacts, NodeCountAssumption
    <2>2. p.choice \in Seq(ChoiceRecord)
      BY ProjectFacts
    <2>3. DOMAIN p.choice = 1..Len(p.choice) /\ Len(p.choice) \in Int
      BY <2>2
    <2> QED BY <2>1, <2>3, FS_Interval DEF Node
  <1> DEFINE f == [n \in Node |-> <<"option", n>>]
             g == [c \in DOMAIN p.choice |-> <<"choice", p.choice[c].id>>]
             h == [c \in 1..p.constraint |-> <<"constraint", c>>]
  <1>2. IsFiniteSet({f[x] : x \in Node})
    <2>1. DOMAIN f = Node
      OBVIOUS
    <2> HIDE DEF f
    <2> QED BY <1>1, <2>1, FiniteImage
  <1>3. IsFiniteSet({g[x] : x \in DOMAIN p.choice})
    <2>1. DOMAIN g = DOMAIN p.choice
      OBVIOUS
    <2> HIDE DEF g
    <2> QED BY <1>1, <2>1, FiniteImage
  <1>4. IsFiniteSet({h[x] : x \in 1..p.constraint})
    <2>1. DOMAIN h = 1..p.constraint
      OBVIOUS
    <2> HIDE DEF h
    <2> QED BY <1>1, <2>1, FiniteImage
  <1>5. ReverseNodes(p) = ({f[x] : x \in Node} \cup {g[x] : x \in DOMAIN p.choice})
                          \cup {h[x] : x \in 1..p.constraint}
    BY DEF ReverseNodes
  <1> HIDE DEF f, g, h
  <1>6. IsFiniteSet({f[x] : x \in Node} \cup {g[x] : x \in DOMAIN p.choice})
    BY ONLY <1>2, <1>3, FS_Union
  <1>7. IsFiniteSet(({f[x] : x \in Node} \cup {g[x] : x \in DOMAIN p.choice})
                    \cup {h[x] : x \in 1..p.constraint})
    BY ONLY <1>4, <1>6, FS_Union
  <1> QED BY <1>5, <1>7

\* The order in which new dependents are queued: each of them is.
LEMMA QueuedFacts ==
  ASSUME NEW S, IsFiniteSet(S)
  PROVE  /\ Seqs!SetToSeq(S) \in Seq(S)
         /\ \A x \in S : \E i \in 1..Len(Seqs!SetToSeq(S)) : Seqs!SetToSeq(S)[i] = x
  <1>1. PICK n : n = Cardinality(S) /\ n \in Nat
    BY FS_CardinalityType
  <1>2. PICK b \in Bijection(1..n, S) : TRUE
    BY <1>1, FS_CardinalityType DEF ExistsBijection
  <1>3. b \in [1..n -> S] /\ Seqs!IsInjective(b)
    BY <1>2 DEF Bijection, Injection, IsInjective, Seqs!IsInjective
  <1>4. PICK s : s = Seqs!SetToSeq(S)
    OBVIOUS
  <1>5. s \in [1..n -> S] /\ Seqs!IsInjective(s)
    <2>1. Seqs!Cardinality(S) = n
      BY <1>1, Zenon DEF Seqs!Cardinality, Cardinality
    <2>2. s = CHOOSE f \in [1..n -> S] : Seqs!IsInjective(f)
      BY <1>4, <2>1, Zenon DEF Seqs!SetToSeq
    <2> QED BY <1>3, <2>2, Zenon
  <1>6. s \in Seq(S) /\ Len(s) = n
    BY <1>1, <1>5
  <1>7. s \in Injection(1..n, S)
    BY <1>5 DEF Injection, IsInjective, Seqs!IsInjective
  <1>8. Cardinality(1..n) = n
    BY <1>1, FS_Interval
  <1>9. s \in Surjection(1..n, S)
    BY <1>1, <1>7, <1>8, FS_Injection
  <1> QED BY <1>4, <1>6, <1>9 DEF Surjection

\* A set of nodes that holds the dependents of its members.
Closed(p, V) == \A v \in V : Dependents(p, v) \subseteq V

\* What is outside of such a set depends on nothing inside.
LEMMA OutsideReads ==
  ASSUME NEW p, NEW V, Closed(p, V), NEW d \in ReverseNodes(p), d \notin V,
         NEW n, <<n, d>> \in Edges(p)
  PROVE  <<"option", n>> \notin V
  <1> SUFFICES ASSUME <<"option", n>> \in V PROVE FALSE
    OBVIOUS
  <1>1. PICK v : v = <<"option", n>>
    OBVIOUS
  <1>2. v[1] = "option" /\ v[2] = n /\ v \in V
    BY <1>1
  <1>3. d \in Dependents(p, v)
    BY <1>2 DEF Dependents
  <1> QED BY <1>2, <1>3 DEF Closed

\* Each operand of a linked expression has an edge to its owner.
LEMMA OperandEdge ==
  ASSUME NEW p, NEW i \in DOMAIN p.linked, NEW n \in Reads(p.linked[i])
  PROVE  <<n, OwnerNode(p.linked[i].role \in {"constraint_when", "constraint_require"},
                        OwnerId(p, p.linked[i]))>> \in Edges(p)
  <1> DEFINE Sources(e) ==
               {<<m, OwnerNode(e.role \in {"constraint_when", "constraint_require"}, OwnerId(p, e))>> :
                   m \in Reads(e)}
  <1>1. <<n, OwnerNode(p.linked[i].role \in {"constraint_when", "constraint_require"},
                       OwnerId(p, p.linked[i]))>> \in Sources(p.linked[i])
    OBVIOUS
  <1>2. ExpressionEdges(p) = UNION {Sources(p.linked[j]) : j \in DOMAIN p.linked}
    BY DEF ExpressionEdges
  <1> HIDE DEF Sources
  <1>3. <<n, OwnerNode(p.linked[i].role \in {"constraint_when", "constraint_require"},
                       OwnerId(p, p.linked[i]))>> \in ExpressionEdges(p)
    BY <1>1, <1>2
  <1> QED BY <1>3 DEF Edges

\* Expressions of an option outside, of a choice outside and of a constraint
\* outside.
LEMMA OptionOutside ==
  ASSUME NEW p, Linked(p), NEW V, Closed(p, V), NEW n \in Node, <<"option", n>> \notin V,
         NEW i \in DOMAIN p.linked, p.linked[i].owner = n,
         p.linked[i].role \in {"computed", "available_if", "visible_if", "default_when"}
  PROVE  \A m \in Reads(p.linked[i]) : <<"option", m>> \notin V
  <1>1. OwnerId(p, p.linked[i]) = n
    BY DEF OwnerId
  <1>2. p.linked[i].role \notin {"constraint_when", "constraint_require"}
    OBVIOUS
  <1>3. OwnerNode(p.linked[i].role \in {"constraint_when", "constraint_require"}, n) = <<"option", n>>
    BY <1>2 DEF OwnerNode
  <1>4. <<"option", n>> \in ReverseNodes(p)
    BY DEF ReverseNodes
  <1> QED BY <1>1, <1>3, <1>4, OperandEdge, OutsideReads

LEMMA ChoiceOutside ==
  ASSUME NEW p, Linked(p), Apart(p), NEW V, Closed(p, V), NEW c \in DOMAIN p.choice,
         <<"choice", p.choice[c].id>> \notin V
  PROVE  /\ \A k \in DOMAIN p.choice[c].members : <<"option", p.choice[c].members[k]>> \notin V
         /\ \A i \in DOMAIN p.linked :
              /\ p.linked[i].owner = c
              /\ p.linked[i].role \in {"choice_available_if", "choice_visible_if",
                                       "choice_default_when"}
              => \A m \in Reads(p.linked[i]) : <<"option", m>> \notin V
  <1>1. PICK d : d = <<"choice", p.choice[c].id>>
    OBVIOUS
  <1>2. d \in ReverseNodes(p) /\ d \notin V
    BY <1>1 DEF ReverseNodes
  <1>3. OwnerNode(FALSE, p.choice[c].id) = d
    BY <1>1 DEF OwnerNode, Apart
  <1>4. ASSUME NEW k \in DOMAIN p.choice[c].members
        PROVE  <<"option", p.choice[c].members[k]>> \notin V
    <2>1. <<p.choice[c].members[k], d>> \in Edges(p)
      <3> DEFINE Members(choice) ==
                   {<<choice.members[j], OwnerNode(FALSE, choice.id)>> : j \in DOMAIN choice.members}
      <3>1. <<p.choice[c].members[k], d>> \in Members(p.choice[c])
        BY <1>3
      <3>2. Edges(p) = ExpressionEdges(p) \cup UNION {Members(p.choice[e]) : e \in DOMAIN p.choice}
        BY DEF Edges
      <3> HIDE DEF Members
      <3> QED BY <3>1, <3>2
    <2> QED BY <1>2, <2>1, OutsideReads
  <1>5. ASSUME NEW i \in DOMAIN p.linked, p.linked[i].owner = c,
               p.linked[i].role \in {"choice_available_if", "choice_visible_if",
                                     "choice_default_when"},
               NEW m \in Reads(p.linked[i])
        PROVE  <<"option", m>> \notin V
    <2>1. OwnerId(p, p.linked[i]) = p.choice[c].id
      BY <1>5 DEF OwnerId
    <2>2. p.linked[i].role \notin {"constraint_when", "constraint_require"}
      BY <1>5
    <2>3. OwnerNode(p.linked[i].role \in {"constraint_when", "constraint_require"},
                    OwnerId(p, p.linked[i])) = d
      BY <1>3, <2>1, <2>2 DEF OwnerNode
    <2> QED BY <1>2, <2>3, OperandEdge, OutsideReads
  <1> QED BY <1>4, <1>5

LEMMA ConstraintOutside ==
  ASSUME NEW p, Linked(p), NEW V, Closed(p, V), NEW c \in 1..p.constraint,
         <<"constraint", c>> \notin V, NEW i \in DOMAIN p.linked, p.linked[i].owner = c,
         p.linked[i].role \in {"constraint_when", "constraint_require"}
  PROVE  \A m \in Reads(p.linked[i]) : <<"option", m>> \notin V
  <1>1. OwnerId(p, p.linked[i]) = c
    BY DEF OwnerId
  <1>2. OwnerNode(p.linked[i].role \in {"constraint_when", "constraint_require"}, c) = <<"constraint", c>>
    BY DEF OwnerNode
  <1>3. <<"constraint", c>> \in ReverseNodes(p)
    BY DEF ReverseNodes
  <1> QED BY <1>1, <1>2, <1>3, OperandEdge, OutsideReads

\* What an expression evaluates to depends on what its role's expressions read.
LEMMA FoundAgrees ==
  ASSUME NEW p, Linked(p), NEW role, NEW owner, NEW k, HasExpression(p, role, owner, k),
         NEW env, NEW other,
         \A i \in DOMAIN p.linked :
            p.linked[i].role = role /\ p.linked[i].owner = owner
            => \A m \in Reads(p.linked[i]) : env[m] = other[m]
  PROVE  Eval(FindExpression(p, role, owner, k), env)
            = Eval(FindExpression(p, role, owner, k), other)
  <1>1. PICK i \in DOMAIN p.linked :
            /\ FindExpression(p, role, owner, k) = p.linked[i]
            /\ p.linked[i].role = role /\ p.linked[i].owner = owner
    BY FoundExpression
  <1>2. \A j \in DOMAIN p.linked[i].args : env[p.linked[i].args[j]] = other[p.linked[i].args[j]]
    BY <1>1 DEF Reads
  <1>3. p.linked[i] \in LinkedExpression /\ Len(p.linked[i].args) = Arity(p.linked[i].op)
    BY ExpressionFacts
  <1>4. PICK x : x = p.linked[i]
    OBVIOUS
  <1>5. Eval(x, env) = Eval(x, other)
    BY ONLY <1>2, <1>3, <1>4, EvalReads
  <1> QED BY ONLY <1>1, <1>4, <1>5

LEMMA ConditionAgrees ==
  ASSUME NEW p, Linked(p), NEW role, NEW owner, NEW env, NEW other,
         \A i \in DOMAIN p.linked :
            p.linked[i].role = role /\ p.linked[i].owner = owner
            => \A m \in Reads(p.linked[i]) : env[m] = other[m]
  PROVE  Condition(p, role, owner, env) = Condition(p, role, owner, other)
  <1>1. CASE ~HasExpression(p, role, owner, 1)
    BY <1>1 DEF Condition
  <1>2. CASE HasExpression(p, role, owner, 1)
    <2>1. Eval(FindExpression(p, role, owner, 1), env)
             = Eval(FindExpression(p, role, owner, 1), other)
      BY <1>2, FoundAgrees
    <2> QED BY <2>1, Zenon DEF Condition
  <1> QED BY <1>1, <1>2

\* Two environments with the same values outside of a set of nodes.
Agree(env, other, V) == \A m \in Node : <<"option", m>> \notin V => env[m] = other[m]

\* Operands are options.
LEMMA ReadsAreNodes ==
  ASSUME NEW p, Linked(p), NEW i \in DOMAIN p.linked
  PROVE  Reads(p.linked[i]) \subseteq Node
  <1>1. p.linked[i].args \in Seq(Node)
    BY ExpressionFacts
  <1> QED BY <1>1 DEF Reads

\* The state of an option outside of the set.
LEMMA OptionStateAgrees ==
  ASSUME NEW p, Linked(p), NEW V, Closed(p, V), NEW n \in Node, <<"option", n>> \notin V,
         NEW env, NEW other, Agree(env, other, V)
  PROVE  OptionState(p, n, env) = OptionState(p, n, other)
  <1>1. ASSUME NEW role \in {"available_if", "visible_if"}
        PROVE  Condition(p, role, n, env) = Condition(p, role, n, other)
    <2>1. ASSUME NEW i \in DOMAIN p.linked, p.linked[i].role = role, p.linked[i].owner = n,
                 NEW m \in Reads(p.linked[i])
          PROVE  env[m] = other[m]
      <3>1. <<"option", m>> \notin V
        BY <2>1, OptionOutside
      <3> QED BY <3>1, ReadsAreNodes DEF Agree
    <2> QED BY <2>1, ConditionAgrees
  <1>2. /\ Condition(p, "available_if", n, env) = Condition(p, "available_if", n, other)
        /\ Condition(p, "visible_if", n, env) = Condition(p, "visible_if", n, other)
    BY <1>1
  <1>3. env[n] = other[n]
    BY DEF Agree
  <1> QED BY <1>2, <1>3, Zenon DEF OptionState

\* What the members and the default of a choice select, and OneChoice in terms
\* of it.
MemberOrDefault(choice, isVisible, members, default, defaultUsable) ==
    LET plain == [NoSelection(TRUE, isVisible = "y") EXCEPT !.count = Cardinality(members)] IN
    IF members # {}
    THEN [plain EXCEPT !.selected = choice.members[First(members)],
                       !.origin = "effective_member"]
    ELSE IF default.status # "ok" THEN [plain EXCEPT !.status = default.status]
    ELSE IF default.selected = 0 THEN plain
    ELSE IF ~defaultUsable THEN [plain EXCEPT !.status = "default_unavailable"]
    ELSE [plain EXCEPT !.selected = choice.defaults[default.selected].result,
                       !.origin = "choice_default"]

Resolution(choice, isAvailable, isVisible, selected) ==
    IF Error \in {isAvailable, isVisible}
    THEN [NoSelection(FALSE, FALSE) EXCEPT !.status = "expression"]
    ELSE IF isAvailable = "n" THEN NoSelection(FALSE, isVisible = "y")
    ELSE IF selected.status # "ok" THEN selected
    ELSE IF choice.cardinality \in {"exactly_one", "zero_or_one"} /\ selected.count > 1
    THEN [selected EXCEPT !.status = "too_many"]
    ELSE IF choice.cardinality \in {"exactly_one", "one_or_more"} /\ selected.selected = 0
    THEN [selected EXCEPT !.status = "no_selection"]
    ELSE selected

LEMMA OneChoiceResolution ==
  ASSUME NEW p, NEW c, NEW env, NEW usable
  PROVE  LET default == SelectDefault(p.choice[c].defaults, ChoiceHolds(p, c, env))
             isVisible == Condition(p, "choice_visible_if", c, env)
         IN  OneChoice(p, c, env, usable) =
                Resolution(p.choice[c], Condition(p, "choice_available_if", c, env), isVisible,
                           MemberOrDefault(p.choice[c], isVisible, EffectiveMembers(p, c, env, usable),
                                           default,
                                           usable[p.choice[c].defaults[default.selected].result]))
  BY DEF OneChoice, Resolution, MemberOrDefault

\* The resolution of a choice, in which the availability of the default counts
\* only when there is one.
LEMMA OneChoiceAgrees ==
  ASSUME NEW p, Linked(p), Apart(p), NEW V, Closed(p, V), NEW c \in DOMAIN p.choice,
         <<"choice", p.choice[c].id>> \notin V,
         NEW env, NEW other, Agree(env, other, V),
         NEW usable, NEW also, Agree(usable, also, V)
  PROVE  OneChoice(p, c, env, usable) = OneChoice(p, c, other, also)
  <1>1. ASSUME NEW role \in {"choice_available_if", "choice_visible_if", "choice_default_when"},
               NEW i \in DOMAIN p.linked, p.linked[i].role = role, p.linked[i].owner = c,
               NEW m \in Reads(p.linked[i])
        PROVE  env[m] = other[m]
    <2>1. <<"option", m>> \notin V
      BY <1>1, ChoiceOutside
    <2> QED BY <2>1, ReadsAreNodes DEF Agree
  <1>2. /\ Condition(p, "choice_available_if", c, env) = Condition(p, "choice_available_if", c, other)
        /\ Condition(p, "choice_visible_if", c, env) = Condition(p, "choice_visible_if", c, other)
    BY <1>1, ConditionAgrees
  <1>3. ChoiceHolds(p, c, env) = ChoiceHolds(p, c, other)
    <2>1. ASSUME NEW k \in DOMAIN p.choice[c].defaults
          PROVE  Eval(FindExpression(p, "choice_default_when", c, k), env)
                    = Eval(FindExpression(p, "choice_default_when", c, k), other)
      <3>1. HasExpression(p, "choice_default_when", c, k)
        BY DEF Linked, LinkedFully
      <3> QED BY <1>1, <3>1, FoundAgrees
    <2> QED BY <2>1, Zenon DEF ChoiceHolds
  <1>4. ASSUME NEW k \in DOMAIN p.choice[c].members
        PROVE  LET m == p.choice[c].members[k] IN env[m] = other[m] /\ usable[m] = also[m]
    <2>1. p.choice[c].members[k] \in Node
      BY ChoiceRecordFacts
    <2>2. <<"option", p.choice[c].members[k]>> \notin V
      BY ChoiceOutside
    <2> QED BY <2>1, <2>2 DEF Agree
  <1>5. EffectiveMembers(p, c, env, usable) = EffectiveMembers(p, c, other, also)
    BY <1>4 DEF EffectiveMembers
  <1>6. PICK default : default = SelectDefault(p.choice[c].defaults, ChoiceHolds(p, c, env))
    OBVIOUS
  <1>7. default = SelectDefault(p.choice[c].defaults, ChoiceHolds(p, c, other))
    BY <1>3, <1>6
  <1>8. PICK member : member = p.choice[c].defaults[default.selected].result
    OBVIOUS
  <1>9. default.selected # 0 => usable[member] = also[member]
    <2>1. default.selected \in 0..Len(p.choice[c].defaults)
      BY <1>6, ChoiceRecordFacts, SelectDefaultFacts
    <2>2. p.choice[c].defaults \in Seq([priority : Int, result : Node])
      BY ChoiceRecordFacts
    <2>3. default.selected # 0 => default.selected \in DOMAIN p.choice[c].defaults
      BY <2>1, <2>2
    <2>4. default.selected # 0 => \E k \in DOMAIN p.choice[c].members : p.choice[c].members[k] = member
      BY <1>8, <2>3 DEF Linked, DefaultsAreMembers
    <2> QED BY <1>4, <2>4
  <1>10. PICK a, v, T : /\ a = Condition(p, "choice_available_if", c, env)
                        /\ v = Condition(p, "choice_visible_if", c, env)
                        /\ T = EffectiveMembers(p, c, env, usable)
    OBVIOUS
  <1>11. OneChoice(p, c, env, usable)
            = Resolution(p.choice[c], a, v, MemberOrDefault(p.choice[c], v, T, default, usable[member]))
    BY <1>6, <1>8, <1>10, OneChoiceResolution
  <1>12. OneChoice(p, c, other, also)
            = Resolution(p.choice[c], a, v, MemberOrDefault(p.choice[c], v, T, default, also[member]))
    <2>1. /\ a = Condition(p, "choice_available_if", c, other)
          /\ v = Condition(p, "choice_visible_if", c, other)
          /\ T = EffectiveMembers(p, c, other, also)
      BY <1>2, <1>5, <1>10
    <2> QED BY <1>7, <1>8, <2>1, OneChoiceResolution
  <1>13. MemberOrDefault(p.choice[c], v, T, default, usable[member])
            = MemberOrDefault(p.choice[c], v, T, default, also[member])
    <2>1. CASE default.selected # 0
      BY <1>9, <2>1
    <2>2. CASE default.selected = 0
      BY ONLY <2>2 DEF MemberOrDefault
    <2> QED BY <2>1, <2>2
  <1> QED BY <1>11, <1>12, <1>13

\* The result of a constraint depends on its two expressions.
LEMMA ConstraintFromParts ==
  ASSUME NEW p, NEW c, NEW env, NEW other,
         Eval(FindExpression(p, "constraint_when", c, 1), env)
            = Eval(FindExpression(p, "constraint_when", c, 1), other),
         Eval(FindExpression(p, "constraint_require", c, 1), env)
            = Eval(FindExpression(p, "constraint_require", c, 1), other)
  PROVE  ConstraintResult(p, c, env) = ConstraintResult(p, c, other)
  BY Zenon DEF ConstraintResult

\* The outcome of a constraint outside of the set.
LEMMA ConstraintAgrees ==
  ASSUME NEW p, Linked(p), NEW V, Closed(p, V), NEW c \in 1..p.constraint,
         <<"constraint", c>> \notin V, NEW env, NEW other, Agree(env, other, V)
  PROVE  ConstraintResult(p, c, env) = ConstraintResult(p, c, other)
  <1>1. HasExpression(p, "constraint_when", c, 1) /\ HasExpression(p, "constraint_require", c, 1)
    BY DEF Linked, LinkedFully
  <1>2. ASSUME NEW role \in {"constraint_when", "constraint_require"},
               NEW i \in DOMAIN p.linked, p.linked[i].role = role, p.linked[i].owner = c,
               NEW m \in Reads(p.linked[i])
        PROVE  env[m] = other[m]
    <2>1. <<"option", m>> \notin V
      BY <1>2, ConstraintOutside
    <2> QED BY <2>1, ReadsAreNodes DEF Agree
  <1>3. Eval(FindExpression(p, "constraint_when", c, 1), env)
            = Eval(FindExpression(p, "constraint_when", c, 1), other)
    BY <1>1, <1>2, FoundAgrees
  <1>4. Eval(FindExpression(p, "constraint_require", c, 1), env)
            = Eval(FindExpression(p, "constraint_require", c, 1), other)
    BY <1>1, <1>2, FoundAgrees
  <1> QED BY <1>3, <1>4, ConstraintFromParts

\* An expression depends on what it reads.
LEMMA FoundReads ==
  ASSUME NEW p, Linked(p), NEW role, NEW owner, NEW k, HasExpression(p, role, owner, k),
         NEW env, NEW other,
         \A m \in Reads(FindExpression(p, role, owner, k)) : env[m] = other[m]
  PROVE  /\ Reads(FindExpression(p, role, owner, k)) \subseteq Node
         /\ Eval(FindExpression(p, role, owner, k), env)
               = Eval(FindExpression(p, role, owner, k), other)
  <1>1. PICK i \in DOMAIN p.linked : FindExpression(p, role, owner, k) = p.linked[i]
    BY FoundExpression
  <1>2. \A j \in DOMAIN p.linked[i].args : env[p.linked[i].args[j]] = other[p.linked[i].args[j]]
    BY <1>1 DEF Reads
  <1>3. p.linked[i] \in LinkedExpression /\ Len(p.linked[i].args) = Arity(p.linked[i].op)
    BY ExpressionFacts
  <1>4. Eval(p.linked[i], env) = Eval(p.linked[i], other)
    BY <1>2, <1>3, EvalReads
  <1>5. Reads(p.linked[i]) \subseteq Node
    BY ReadsAreNodes
  <1> QED BY <1>1, <1>4, <1>5

\* Operands of the expressions of a constraint that the result records.
LEMMA ConstraintReads ==
  ASSUME NEW p, Linked(p), NEW c \in 1..p.constraint, NEW env, NEW other,
         ConstraintResult(p, c, env).outcome \in Outcome,
         \A m \in ConstraintResult(p, c, env).reads : m \in Node => env[m] = other[m]
  PROVE  ConstraintResult(p, c, other) = ConstraintResult(p, c, env)
  <1>1. PICK when, require : /\ when = FindExpression(p, "constraint_when", c, 1)
                             /\ require = FindExpression(p, "constraint_require", c, 1)
    OBVIOUS
  <1>2. HasExpression(p, "constraint_when", c, 1) /\ HasExpression(p, "constraint_require", c, 1)
    BY DEF Linked, LinkedFully
  <1>3. PICK a, r, b, s : /\ a = Eval(when, env) /\ r = Eval(require, env)
                          /\ b = Eval(when, other) /\ s = Eval(require, other)
    OBVIOUS
  <1>4. /\ Reads(when) \subseteq Node /\ Reads(require) \subseteq Node
        /\ (\A m \in Reads(when) : env[m] = other[m]) => a = b
        /\ (\A m \in Reads(require) : env[m] = other[m]) => r = s
    <2>1. Reads(when) \subseteq Node /\ Reads(require) \subseteq Node
      BY <1>1, <1>2, FoundExpression, ReadsAreNodes
    <2>2. (\A m \in Reads(when) : env[m] = other[m]) => a = b
      BY <1>1, <1>2, <1>3, FoundReads
    <2>3. (\A m \in Reads(require) : env[m] = other[m]) => r = s
      BY <1>1, <1>2, <1>3, FoundReads
    <2> QED BY <2>1, <2>2, <2>3
  <1>5. ConstraintResult(p, c, env) =
          IF a \in {Unset, Error} THEN [outcome |-> "condition", reads |-> {}]
          ELSE IF a = "n" THEN [outcome |-> "not_applicable", reads |-> Reads(when)]
          ELSE IF r \in {Unset, Error} THEN [outcome |-> "requirement", reads |-> {}]
          ELSE [outcome |-> IF r = "n" THEN "failed" ELSE "passed",
                reads |-> Reads(when) \cup Reads(require)]
    BY ONLY <1>1, <1>3, Zenon DEF ConstraintResult
  <1>6. ConstraintResult(p, c, other) =
          IF b \in {Unset, Error} THEN [outcome |-> "condition", reads |-> {}]
          ELSE IF b = "n" THEN [outcome |-> "not_applicable", reads |-> Reads(when)]
          ELSE IF s \in {Unset, Error} THEN [outcome |-> "requirement", reads |-> {}]
          ELSE [outcome |-> IF s = "n" THEN "failed" ELSE "passed",
                reads |-> Reads(when) \cup Reads(require)]
    BY ONLY <1>1, <1>3, Zenon DEF ConstraintResult
  <1>7. a \notin {Unset, Error}
    BY <1>5 DEF Outcome
  <1>8. CASE a = "n"
    <2>1. ConstraintResult(p, c, env) = [outcome |-> "not_applicable", reads |-> Reads(when)]
      BY <1>5, <1>7, <1>8
    <2>2. a = b
      BY <1>4, <2>1
    <2> QED BY <1>6, <1>7, <1>8, <2>1, <2>2
  <1>9. CASE a # "n"
    <2>1. r \notin {Unset, Error}
      BY <1>5, <1>7, <1>9 DEF Outcome
    <2>2. ConstraintResult(p, c, env).reads = Reads(when) \cup Reads(require)
      BY <1>5, <1>7, <1>9, <2>1
    <2>3. a = b /\ r = s
      BY <1>4, <2>2
    <2> QED BY <1>5, <1>6, <2>3
  <1> QED BY <1>8, <1>9

\* Two projects that differ in their requests only.
SameDeclarations(p, q) ==
    /\ q.linked = p.linked /\ q.symbol = p.symbol /\ q.choice = p.choice
    /\ q.constraint = p.constraint /\ q.menu = p.menu

\* FindExpression and HasExpression look at the linked expressions only.
FoundIn(linked, role, owner, occurrence) ==
    linked[CHOOSE i \in DOMAIN linked : /\ linked[i].role = role
                                        /\ linked[i].owner = owner
                                        /\ linked[i].occurrence = occurrence]

LEMMA SameExpressions ==
  ASSUME NEW p, NEW q, SameDeclarations(p, q)
  PROVE  /\ \A role, owner, k : FindExpression(q, role, owner, k) = FindExpression(p, role, owner, k)
         /\ \A role, owner, k : HasExpression(q, role, owner, k) <=> HasExpression(p, role, owner, k)
         /\ \A role, owner, env : Condition(q, role, owner, env) = Condition(p, role, owner, env)
  <1>1. ASSUME NEW role, NEW owner, NEW k
        PROVE  FindExpression(q, role, owner, k) = FindExpression(p, role, owner, k)
    <2>1. /\ FindExpression(q, role, owner, k) = FoundIn(q.linked, role, owner, k)
          /\ FindExpression(p, role, owner, k) = FoundIn(p.linked, role, owner, k)
      BY DEF FindExpression, FoundIn
    <2> QED BY <2>1 DEF SameDeclarations
  <1>2. ASSUME NEW role, NEW owner, NEW k
        PROVE  HasExpression(q, role, owner, k) <=> HasExpression(p, role, owner, k)
    BY DEF HasExpression, SameDeclarations
  <1>3. ASSUME NEW role, NEW owner, NEW env
        PROVE  Condition(q, role, owner, env) = Condition(p, role, owner, env)
    <2>1. PICK e : e = FindExpression(p, role, owner, 1)
      OBVIOUS
    <2>2. e = FindExpression(q, role, owner, 1)
      BY <1>1, <2>1
    <2>3. HasExpression(q, role, owner, 1) <=> HasExpression(p, role, owner, 1)
      BY <1>2
    <2>4. CASE HasExpression(p, role, owner, 1)
      BY ONLY <2>1, <2>2, <2>3, <2>4, Zenon DEF Condition
    <2>5. CASE ~HasExpression(p, role, owner, 1)
      BY ONLY <2>3, <2>5, Zenon DEF Condition
    <2> QED BY <2>4, <2>5
  <1> QED BY <1>1, <1>2, <1>3

\* The result of a symbol differs only with its own request.
LEMMA SameSymbol ==
  ASSUME NEW p, NEW q, SameDeclarations(p, q), NEW n, q.request[n] = p.request[n], NEW env
  PROVE  SymbolResult(q, n, env) = SymbolResult(p, n, env)
  <1>1. DefaultHolds(q, n, env) = DefaultHolds(p, n, env)
    <2>1. q.symbol = p.symbol
      BY DEF SameDeclarations
    <2>2. \A k : Eval(FindExpression(q, "default_when", n, k), env)
                    = Eval(FindExpression(p, "default_when", n, k), env)
      BY SameExpressions
    <2> QED BY <2>1, <2>2, Zenon DEF DefaultHolds
  <1>2. \A value, from : SetValue(q, n, value, from) = SetValue(p, n, value, from)
    BY Zenon DEF SetValue, SameDeclarations
  <1>3. ComputeSymbol(q, n, env) = ComputeSymbol(p, n, env)
    <2>1. FindExpression(q, "computed", n, 1) = FindExpression(p, "computed", n, 1)
      BY SameExpressions
    <2>2. PICK v : v = Eval(FindExpression(p, "computed", n, 1), env)
      OBVIOUS
    <2>3. v = Eval(FindExpression(q, "computed", n, 1), env)
      BY <2>1, <2>2
    <2> QED BY ONLY <1>2, <2>2, <2>3 DEF ComputeSymbol
  <1>4. InputSymbol(q, n, env) = InputSymbol(p, n, env)
    <2>1. PICK symbol, conditional : /\ symbol = p.symbol[n]
                                     /\ conditional = SelectDefault(symbol.defaults, DefaultHolds(p, n, env))
      OBVIOUS
    <2>2. /\ symbol = q.symbol[n]
          /\ conditional = SelectDefault(symbol.defaults, DefaultHolds(q, n, env))
      BY <1>1, <2>1 DEF SameDeclarations
    <2>3. PICK request : request = p.request[n] /\ request = q.request[n]
      OBVIOUS
    <2> QED BY ONLY <1>2, <2>1, <2>2, <2>3 DEF InputSymbol
  <1>5. q.symbol[n] = p.symbol[n]
    BY DEF SameDeclarations
  <1> QED BY <1>3, <1>4, <1>5 DEF SymbolResult

\* The rest does not look at requests at all.
LEMMA SameRest ==
  ASSUME NEW p, NEW q, SameDeclarations(p, q)
  PROVE  /\ \A n, env : OptionState(q, n, env) = OptionState(p, n, env)
         /\ \A c, env, usable : OneChoice(q, c, env, usable) = OneChoice(p, c, env, usable)
         /\ \A c, env : ConstraintResult(q, c, env) = ConstraintResult(p, c, env)
  <1>1. ASSUME NEW n, NEW env
        PROVE  OptionState(q, n, env) = OptionState(p, n, env)
    <2>1. /\ Condition(q, "available_if", n, env) = Condition(p, "available_if", n, env)
          /\ Condition(q, "visible_if", n, env) = Condition(p, "visible_if", n, env)
      BY SameExpressions
    <2> QED BY <2>1, Zenon DEF OptionState
  <1>2. ASSUME NEW c, NEW env, NEW usable
        PROVE  OneChoice(q, c, env, usable) = OneChoice(p, c, env, usable)
    <2>1. /\ Condition(q, "choice_available_if", c, env) = Condition(p, "choice_available_if", c, env)
          /\ Condition(q, "choice_visible_if", c, env) = Condition(p, "choice_visible_if", c, env)
      BY SameExpressions
    <2>2. q.choice[c] = p.choice[c]
      BY DEF SameDeclarations
    <2>3. EffectiveMembers(q, c, env, usable) = EffectiveMembers(p, c, env, usable)
      BY <2>2, Zenon DEF EffectiveMembers
    <2>4. ChoiceHolds(q, c, env) = ChoiceHolds(p, c, env)
      <3>1. \A k : Eval(FindExpression(q, "choice_default_when", c, k), env)
                    = Eval(FindExpression(p, "choice_default_when", c, k), env)
        BY SameExpressions
      <3> QED BY <2>2, <3>1, Zenon DEF ChoiceHolds
    <2> QED BY <2>1, <2>2, <2>3, <2>4, OneChoiceResolution
  <1>3. ASSUME NEW c, NEW env
        PROVE  ConstraintResult(q, c, env) = ConstraintResult(p, c, env)
    <2>1. PICK when, require : /\ when = FindExpression(p, "constraint_when", c, 1)
                               /\ require = FindExpression(p, "constraint_require", c, 1)
      OBVIOUS
    <2>2. /\ when = FindExpression(q, "constraint_when", c, 1)
          /\ require = FindExpression(q, "constraint_require", c, 1)
      BY <2>1, SameExpressions
    <2> QED BY ONLY <2>1, <2>2, Zenon DEF ConstraintResult
  <1> QED BY <1>1, <1>2, <1>3

\* Nor does the reverse index.
LEMMA SameEdges ==
  ASSUME NEW p, NEW q, SameDeclarations(p, q)
  PROVE  /\ ReverseNodes(q) = ReverseNodes(p)
         /\ \A node : Dependents(q, node) = Dependents(p, node)
         /\ Apart(q) <=> Apart(p)
  <1>1. ReverseNodes(q) = ReverseNodes(p)
    BY Zenon DEF ReverseNodes, SameDeclarations
  <1>2. Edges(q) = Edges(p)
    <2>1. \A e : OwnerId(q, e) = OwnerId(p, e)
      BY Zenon DEF OwnerId, SameDeclarations
    <2>2. ExpressionEdges(q) = ExpressionEdges(p)
      <3> DEFINE Owner(r, e) == OwnerNode(e.role \in {"constraint_when", "constraint_require"},
                                          OwnerId(r, e))
                 Sources(r, e) == {<<n, Owner(r, e)>> : n \in Reads(e)}
      <3>1. /\ ExpressionEdges(q) = UNION {Sources(q, q.linked[i]) : i \in DOMAIN q.linked}
            /\ ExpressionEdges(p) = UNION {Sources(p, p.linked[i]) : i \in DOMAIN p.linked}
        BY DEF ExpressionEdges
      <3>2. \A e : Owner(q, e) = Owner(p, e)
        BY <2>1
      <3>3. \A e : Sources(q, e) = Sources(p, e)
        <4> HIDE DEF Owner
        <4> QED BY <3>2
      <3>4. q.linked = p.linked
        BY DEF SameDeclarations
      <3> HIDE DEF Sources
      <3> QED BY <3>1, <3>3, <3>4
    <2>3. q.choice = p.choice
      BY DEF SameDeclarations
    <2> DEFINE Members(r, c) == {<<r.choice[c].members[k], OwnerNode(FALSE, r.choice[c].id)>> :
                                    k \in DOMAIN r.choice[c].members}
    <2>4. \A c : Members(q, c) = Members(p, c)
      BY <2>3
    <2>5. /\ Edges(q) = ExpressionEdges(q) \cup UNION {Members(q, c) : c \in DOMAIN q.choice}
          /\ Edges(p) = ExpressionEdges(p) \cup UNION {Members(p, c) : c \in DOMAIN p.choice}
      BY DEF Edges
    <2> HIDE DEF Members
    <2>6. UNION {Members(q, c) : c \in DOMAIN q.choice} = UNION {Members(p, c) : c \in DOMAIN p.choice}
      BY <2>3, <2>4
    <2> QED BY <2>2, <2>5, <2>6
  <1>3. \A node : Dependents(q, node) = Dependents(p, node)
    BY <1>1, <1>2, Zenon DEF Dependents
  <1>4. Apart(q) <=> Apart(p)
    BY DEF Apart, SameDeclarations
  <1> QED BY <1>1, <1>3, <1>4

\* What two resolves of the same declarations publish is the same for every
\* option outside of a closed set that holds the options whose requests differ:
\* along the order of evaluation, each such option reads others outside.
LEMMA ValuesAgree ==
  ASSUME EvalInvariant, status = "ok", \A n \in Node : Settled(n),
         NEW V, Closed(project, V), NEW p, SameDeclarations(project, p),
         NEW values, NEW origins,
         \A n \in Node : SymbolResult(p, n, values) =
                            [status |-> "ok", value |-> values[n], origin |-> origins[n]],
         \A n \in Node : <<"option", n>> \notin V => p.request[n] = project.request[n]
  PROVE  Agree(effective, values, V) /\ Agree(origin, origins, V)
  <1> DEFINE Same(n) == effective[n] = values[n] /\ origin[n] = origins[n]
             Done == {i \in Nat : \A j \in Node : j <= i /\ <<"option", order[j]>> \notin V
                                                  => Same(order[j])}
  <1>1. Linked(project)
    BY DEF EvalInvariant, EvalShape
  <1>2. \A j \in Node : order[j] \in Node
    BY OrderDistinct
  <1>3. ASSUME NEW j \in Node, <<"option", order[j]>> \notin V,
               \A k \in Node : k < j /\ <<"option", order[k]>> \notin V => Same(order[k])
        PROVE  Same(order[j])
    <2>1. PICK n \in Node : n = order[j]
      BY <1>2
    <2>2. ASSUME NEW r \in References(project, n)
          PROVE  effective[ReferenceTarget(project, r)] = values[ReferenceTarget(project, r)]
      <3>1. PICK k \in 1..(j - 1) : order[k] = ReferenceTarget(project, r)
        BY <2>1, ReadsBefore
      <3>2. k \in Node /\ k < j
        BY <3>1, NodeCountAssumption DEF Node
      <3>3. <<"option", ReferenceTarget(project, r)>> \notin V
        <4>1. PICK i \in DOMAIN project.linked :
                  /\ RoleAffectsValue(project.linked[i].role) /\ project.linked[i].owner = n
                  /\ \E a \in DOMAIN project.linked[i].args :
                        ReferenceTarget(project, r) = project.linked[i].args[a]
          <5>1. /\ r \in UNION {{i} \X DOMAIN project.linked[i].args : i \in DOMAIN project.linked}
                /\ RoleAffectsValue(project.linked[r[1]].role) /\ project.linked[r[1]].owner = n
            BY DEF References
          <5>2. PICK e \in DOMAIN project.linked : r \in {e} \X DOMAIN project.linked[e].args
            BY <5>1
          <5>3. r[1] = e /\ r[2] \in DOMAIN project.linked[e].args
            BY <5>2
          <5> QED BY <5>1, <5>3 DEF ReferenceTarget
        <4>2. ReferenceTarget(project, r) \in Reads(project.linked[i])
          BY <4>1 DEF Reads
        <4>3. project.linked[i].role \in {"computed", "available_if", "visible_if", "default_when"}
          BY <4>1 DEF RoleAffectsValue
        <4> QED BY <1>1, <1>3, <2>1, <4>1, <4>2, <4>3, OptionOutside
      <3> QED BY <1>3, <3>1, <3>2, <3>3
    <2>3. SymbolResult(project, n, effective) = SymbolResult(project, n, values)
      BY <1>1, <2>2, SymbolReads
    <2>4. SymbolResult(p, n, values) = SymbolResult(project, n, values)
      BY <1>3, <2>1, SameSymbol
    <2>5. [status |-> "ok", value |-> effective[n], origin |-> origin[n]]
             = [status |-> "ok", value |-> values[n], origin |-> origins[n]]
      BY <2>3, <2>4 DEF Settled
    <2>6. effective[n] = values[n] /\ origin[n] = origins[n]
      BY ONLY <2>5
    <2> QED BY <2>1, <2>6
  <1> HIDE DEF Same
  <1>4. 0 \in Done
    BY NodeNat
  <1>5. ASSUME NEW i \in Nat, i \in Done PROVE i + 1 \in Done
    <2> SUFFICES ASSUME NEW j \in Node, j <= i + 1, <<"option", order[j]>> \notin V
                 PROVE  Same(order[j])
      OBVIOUS
    <2>1. j \in Nat
      BY NodeNat
    <2>2. \A k \in Node : k < j /\ <<"option", order[k]>> \notin V => Same(order[k])
      BY <1>5, <2>1, NodeNat
    <2> QED BY <1>3, <2>2
  <1>6. Nat \subseteq Done
    <2> HIDE DEF Done
    <2>1. Done \subseteq Nat
      BY DEF Done
    <2> QED BY <1>4, <1>5, <2>1, Induction
  <1>7. ASSUME NEW n \in Node, <<"option", n>> \notin V PROVE Same(n)
    <2>1. PICK j \in Node : order[j] = n
      BY OrderDistinct
    <2>2. j \in Done
      BY <1>6, NodeNat
    <2>3. j <= j
      BY NodeNat
    <2> QED BY <1>7, <2>1, <2>2, <2>3
  <1> QED BY <1>7 DEF Same, Agree

\* confit_v2_snapshot_invalidate: the edited option is queued, and so are all
\* dependents of the nodes the search is done with.
Searching ==
    /\ queue \in Seq(ReverseNodes(project))
    /\ head \in 1..(Len(queue) + 1)
    /\ <<"option", pending.option>> \in Visited
    /\ \A i \in 1..(head - 1) : Dependents(project, queue[i]) \subseteq Visited

\* The second resolve differs from the first in the request of one visited option.
Edited ==
    /\ pending \in [option : Node, value : Request]
    /\ <<"option", pending.option>> \in Visited
    /\ Closed(project, Visited)
    /\ project.request = [base.request EXCEPT ![pending.option] = pending.value]

\* The snapshot records what its constraints read.
Recorded ==
    base # NoSnapshot =>
        \A c \in 1..project.constraint :
            LET result == ConstraintResult(project, c, base.value) IN
            /\ result.outcome \in Outcome
            /\ \A n \in result.reads :
                  <<<<"option", n>>, <<"constraint", c>>>> \in base.provenance

Resolving == {"resolve", "constraints", "freeze"}

EditFollows ==
    /\ Apart(project)
    /\ stage = "invalidate" => Searching
    /\ stage \in Resolving /\ base # NoSnapshot => Edited
    /\ stage \in {"constraints", "freeze"} =>
          \A c \in 1..Len(results) : results[c].outcome \in Outcome
    /\ Recorded

\* Steps that leave the project, the snapshot and the edit alone.
LEMMA EditUnchanged ==
  ASSUME EditFollows, UNCHANGED <<project, base, queue, pending>>,
         stage' = "idle" \/ (stage \in Resolving /\ stage' \in Resolving),
         stage' \in {"constraints", "freeze"} =>
            \A c \in 1..Len(results') : results'[c].outcome \in Outcome
  PROVE  EditFollows'
  <1>1. Apart(project)' /\ Recorded'
    BY DEF EditFollows, Recorded
  <1>2. stage' # "invalidate"
    BY DEF Resolving
  <1>3. (stage \in Resolving /\ base # NoSnapshot => Edited)'
    <2>1. Visited' = Visited
      BY DEF Visited
    <2>2. stage' \in Resolving => stage \in Resolving
      BY DEF Resolving
    <2> QED BY <2>1, <2>2 DEF EditFollows, Edited
  <1> QED BY <1>1, <1>2, <1>3 DEF EditFollows

LEMMA RejectFollows ==
  ASSUME EditFollows, NEW reason, Reject(reason)
  PROVE  EditFollows'
  <1>1. UNCHANGED <<project, base, queue, pending>> /\ stage' = "idle"
    BY DEF Reject, allvars, evalvars
  <1> QED BY <1>1, EditUnchanged

LEMMA EvaluateFollows ==
  ASSUME EditFollows, Evaluate
  PROVE  EditFollows'
  <1>1. UNCHANGED project
    BY DEF Evaluate, EvalNext, Search, EndSearch, EvaluateSymbol, EvaluateOption, EvaluateChoice,
           EndPhase, Fail, evalvars
  <1>2. UNCHANGED <<base, queue, pending>> /\ stage = "resolve" /\ stage' = "resolve"
    BY DEF Evaluate, snapvars
  <1> QED BY <1>1, <1>2, EditUnchanged DEF Resolving

LEMMA EndEvaluationFollows ==
  ASSUME SnapInvariant, EditFollows, EndEvaluation
  PROVE  EditFollows'
  <1>1. CASE phase = "failed" /\ Reject(error)
    BY <1>1, RejectFollows
  <1>2. CASE /\ phase = "published" /\ stage' = "constraints"
             /\ UNCHANGED <<allvars, results, base, pending, queue, head, edits, verdict>>
    <2>1. UNCHANGED <<project, base, queue, pending>> /\ stage = "resolve" /\ stage' = "constraints"
      BY <1>2 DEF EndEvaluation, allvars, evalvars
    <2>2. results' = << >>
      BY <1>2 DEF EndEvaluation, SnapInvariant, StageFollows
    <2>3. \A c \in 1..Len(results') : results'[c].outcome \in Outcome
      BY <2>2
    <2> QED BY <2>1, <2>3, EditUnchanged DEF Resolving
  <1> QED BY <1>1, <1>2 DEF EndEvaluation

LEMMA EvaluateConstraintFollows ==
  ASSUME SnapInvariant, EditFollows, EvaluateConstraint
  PROVE  EditFollows'
  <1>1. PICK result : result = ConstraintResult(project, Len(results) + 1, effective)
    OBVIOUS
  <1>2. CASE result.outcome \notin Outcome
    BY <1>1, <1>2, RejectFollows DEF EvaluateConstraint
  <1>3. CASE result.outcome \in Outcome
    <2>1. /\ results' = Append(results, result) /\ stage = "constraints" /\ stage' = "constraints"
          /\ UNCHANGED <<project, base, queue, pending>>
      BY <1>1, <1>3 DEF EvaluateConstraint, allvars, evalvars
    <2>2. PICK S : results \in Seq(S)
      BY <2>1 DEF SnapInvariant, StageFollows
    <2>3. /\ Len(results') = Len(results) + 1 /\ Len(results) \in Nat
          /\ \A c \in 1..Len(results) : results'[c] = results[c]
          /\ results'[Len(results) + 1] = result
      BY <2>1, <2>2
    <2>4. \A c \in 1..Len(results) : results[c].outcome \in Outcome
      BY <2>1 DEF EditFollows
    <2>5. \A c \in 1..Len(results') : results'[c].outcome \in Outcome
      BY <1>3, <2>3, <2>4
    <2> QED BY <2>1, <2>5, EditUnchanged DEF Resolving
  <1> QED BY <1>2, <1>3

LEMMA EndValidationFollows ==
  ASSUME EditFollows, EndValidation
  PROVE  EditFollows'
  <1>1. CASE \E reason : Reject(reason)
    BY <1>1, RejectFollows
  <1>2. CASE /\ stage' = "freeze"
             /\ UNCHANGED <<allvars, results, base, pending, queue, head, edits, verdict>>
    <2>1. UNCHANGED <<project, base, queue, pending, results>> /\ stage = "constraints"
      BY <1>2 DEF EndValidation, allvars, evalvars
    <2>2. \A c \in 1..Len(results') : results'[c].outcome \in Outcome
      BY <2>1 DEF EditFollows
    <2> QED BY <1>2, <2>1, <2>2, EditUnchanged DEF Resolving
  <1> QED BY <1>1, <1>2 DEF EndValidation

\* The snapshot is frozen with the reads of every constraint.
LEMMA FreezeFollows ==
  ASSUME SnapInvariant, EditFollows, Freeze
  PROVE  EditFollows'
  <1>1. /\ project' = project /\ base'.value = effective /\ base'.provenance = Provenance
        /\ stage' = "idle" /\ stage = "freeze"
    BY DEF Freeze, allvars, evalvars
  <1>2. /\ DOMAIN results = 1..Len(results) /\ Len(results) = project.constraint
        /\ \A c \in 1..Len(results) : /\ results[c] = ConstraintResult(project, c, effective)
                                      /\ results[c].outcome \in Outcome
    BY <1>1 DEF SnapInvariant, StageFollows, EditFollows
  <1>3. ASSUME NEW c \in 1..project.constraint, NEW n \in results[c].reads
        PROVE  <<<<"option", n>>, <<"constraint", c>>>> \in Provenance
    <2> DEFINE From(k) == {<<<<"option", m>>, <<"constraint", k>>>> : m \in results[k].reads}
    <2>1. <<<<"option", n>>, <<"constraint", c>>>> \in From(c)
      OBVIOUS
    <2>2. UNION {From(k) : k \in DOMAIN results} \subseteq Provenance
      BY DEF Provenance
    <2> HIDE DEF From
    <2> QED BY <1>2, <2>1, <2>2
  <1>4. Recorded'
    BY <1>1, <1>2, <1>3 DEF Recorded
  <1> QED BY <1>1, <1>4 DEF EditFollows, Resolving

LEMMA EditStarts ==
  ASSUME SnapInvariant, EditFollows, NEW edit \in project.edits, Edit(edit)
  PROVE  EditFollows'
  <1>1. /\ queue' = <<<<"option", edit.option>>>> /\ head' = 1 /\ pending' = edit
        /\ stage' = "invalidate" /\ project' = project /\ base' = base
    BY DEF Edit, allvars, evalvars
  <1>2. edit.option \in Node
    BY ProjectFacts DEF SnapInvariant, EvalInvariant, EvalShape
  <1>3. <<"option", edit.option>> \in ReverseNodes(project)
    BY <1>2 DEF ReverseNodes
  <1>4. queue' \in Seq(ReverseNodes(project)) /\ Len(queue') = 1 /\ queue'[1] = <<"option", edit.option>>
    BY <1>1, <1>3
  <1>5. Searching'
    <2>1. <<"option", edit.option>> \in Visited'
      <3>1. 1 \in DOMAIN queue'
        BY <1>1
      <3> QED BY <1>4, <3>1 DEF Visited
    <2> QED BY <1>1, <1>4, <2>1 DEF Searching
  <1>6. Recorded'
    BY <1>1 DEF EditFollows, Recorded
  <1> QED BY <1>1, <1>5, <1>6 DEF EditFollows, Resolving

\* One iteration adds the dependents of the node at the head.
LEMMA InvalidateFollows ==
  ASSUME SnapInvariant, EditFollows, Invalidate
  PROVE  EditFollows'
  <1>1. PICK fresh : fresh = Dependents(project, queue[head]) \ Visited
    OBVIOUS
  <1>2. PICK more : more = Seqs!SetToSeq(fresh)
    OBVIOUS
  <1>3. /\ queue' = queue \o more /\ head' = head + 1 /\ head <= Len(queue)
        /\ stage = "invalidate" /\ stage' = "invalidate"
        /\ UNCHANGED <<project, base, pending>>
    BY <1>1, <1>2 DEF Invalidate, allvars, evalvars
  <1>4. /\ queue \in Seq(ReverseNodes(project)) /\ head \in 1..(Len(queue) + 1)
        /\ <<"option", pending.option>> \in Visited
        /\ \A i \in 1..(head - 1) : Dependents(project, queue[i]) \subseteq Visited
    BY <1>3 DEF EditFollows, Searching
  <1>5. fresh \subseteq ReverseNodes(project) /\ IsFiniteSet(fresh)
    <2>1. fresh \subseteq ReverseNodes(project)
      BY <1>1 DEF Dependents
    <2>2. IsFiniteSet(ReverseNodes(project))
      BY ReverseNodesFinite DEF SnapInvariant, EvalInvariant, EvalShape
    <2> QED BY <2>1, <2>2, FS_Subset
  <1>6. more \in Seq(fresh) /\ \A x \in fresh : \E i \in 1..Len(more) : more[i] = x
    BY <1>2, <1>5, QueuedFacts
  <1>7. more \in Seq(ReverseNodes(project)) /\ Len(more) \in Nat /\ Len(queue) \in Nat
    BY <1>4, <1>5, <1>6
  <1>8. PICK R : R = ReverseNodes(project)
    OBVIOUS
  <1>9. /\ queue' \in Seq(R) /\ Len(queue') = Len(queue) + Len(more)
        /\ \A i \in 1..Len(queue) : queue'[i] = queue[i]
        /\ \A i \in 1..Len(more) : queue'[Len(queue) + i] = more[i]
    <2>1. queue \in Seq(R) /\ more \in Seq(R)
      BY <1>4, <1>7, <1>8
    <2> QED BY ONLY <1>3, <2>1
  <1>10. Visited \subseteq Visited' /\ fresh \subseteq Visited'
    <2>1. DOMAIN queue = 1..Len(queue) /\ DOMAIN queue' = 1..Len(queue')
      BY <1>4, <1>9
    <2>2. Visited \subseteq Visited'
      BY <1>7, <1>9, <2>1 DEF Visited
    <2>3. ASSUME NEW x \in fresh PROVE x \in Visited'
      <3>1. PICK i \in 1..Len(more) : more[i] = x
        BY <1>6
      <3>2. Len(queue) + i \in 1..Len(queue') /\ queue'[Len(queue) + i] = x
        BY <1>7, <1>9, <3>1
      <3> QED BY <2>1, <3>2 DEF Visited
    <2> QED BY <2>2, <2>3
  <1>11. Dependents(project, queue[head]) \subseteq Visited'
    BY <1>1, <1>10
  <1>12. \A i \in 1..head : Dependents(project, queue[i]) \subseteq Visited'
    BY <1>3, <1>4, <1>7, <1>10, <1>11
  <1>13. Searching'
    <2>1. head' - 1 = head /\ head' \in 1..(Len(queue') + 1) /\ head <= Len(queue) /\ head \in Nat
      BY <1>3, <1>4, <1>7, <1>9
    <2>2. \A i \in 1..(head' - 1) : Dependents(project', queue'[i]) \subseteq Visited'
      BY <1>3, <1>7, <1>9, <1>12, <2>1
    <2>3. <<"option", pending'.option>> \in Visited'
      BY <1>3, <1>4, <1>10
    <2> QED BY <1>3, <1>8, <1>9, <2>1, <2>2, <2>3 DEF Searching
  <1>14. Recorded'
    BY <1>3 DEF EditFollows, Recorded
  <1> QED BY <1>3, <1>13, <1>14 DEF EditFollows, Resolving

\* The second resolve starts when every visited node has its dependents visited.
LEMMA ResolveFollows ==
  ASSUME SnapInvariant, EditFollows, Resolve
  PROVE  EditFollows'
  <1>1. /\ stage = "invalidate" /\ stage' = "resolve" /\ UNCHANGED <<base, pending, queue>>
        /\ head > Len(queue)
    BY DEF Resolve
  <1>2. /\ Linked(project) /\ base # NoSnapshot /\ base.request \in [Node -> Request]
        /\ pending \in [option : Node, value : Request]
    BY <1>1 DEF SnapInvariant, StageFollows, EvalInvariant, EvalShape
  <1>3. PICK request : request = [base.request EXCEPT ![pending.option] = pending.value]
    OBVIOUS
  <1>4. project' = [project EXCEPT !.request = request]
    BY <1>3 DEF Resolve
  <1>5. project'.request = request /\ SameDeclarations(project, project')
    BY <1>2, <1>4 DEF Linked, ProjectRecord, SameDeclarations
  <1>6. /\ queue \in Seq(ReverseNodes(project)) /\ head \in 1..(Len(queue) + 1)
        /\ <<"option", pending.option>> \in Visited
        /\ \A i \in 1..(head - 1) : Dependents(project, queue[i]) \subseteq Visited
    BY <1>1 DEF EditFollows, Searching
  <1>7. Closed(project, Visited)
    <2>1. DOMAIN queue = 1..Len(queue) /\ Len(queue) \in Nat
      BY <1>6
    <2>2. 1..(head - 1) = 1..Len(queue)
      BY <1>1, <1>6, <2>1
    <2> QED BY <1>6, <2>1, <2>2 DEF Closed, Visited
  <1>8. Visited' = Visited
    BY <1>1 DEF Visited
  <1>9. Closed(project', Visited')
    <2>1. \A node : Dependents(project', node) = Dependents(project, node)
      BY <1>5, SameEdges
    <2> QED BY <1>7, <1>8, <2>1 DEF Closed
  <1>10. Edited'
    BY <1>1, <1>2, <1>3, <1>5, <1>6, <1>8, <1>9 DEF Edited
  <1>11. Apart(project')
    BY <1>5, SameEdges DEF EditFollows
  <1>12. Recorded'
    <2>1. /\ \A c, env : ConstraintResult(project', c, env) = ConstraintResult(project, c, env)
          /\ project'.constraint = project.constraint
      BY <1>5, SameRest DEF SameDeclarations
    <2> QED BY <1>1, <2>1 DEF EditFollows, Recorded
  <1> QED BY <1>1, <1>10, <1>11, <1>12 DEF EditFollows

LEMMA StutterFollows ==
  ASSUME EditFollows, UNCHANGED everything
  PROVE  EditFollows'
  <1>1. UNCHANGED <<project, base, queue, head, pending, stage, results>>
    BY DEF everything, allvars, evalvars, snapvars
  <1>2. Visited' = Visited
    BY <1>1 DEF Visited
  <1> QED BY <1>1, <1>2 DEF EditFollows, Searching, Edited, Recorded

LEMMA SnapNextFollows ==
  SnapInvariant /\ EditFollows /\ [SnapNext]_everything => EditFollows'
  <1> SUFFICES ASSUME SnapInvariant, EditFollows, [SnapNext]_everything PROVE EditFollows'
    OBVIOUS
  <1>1. CASE Evaluate           BY <1>1, EvaluateFollows
  <1>2. CASE EndEvaluation      BY <1>2, EndEvaluationFollows
  <1>3. CASE EvaluateConstraint BY <1>3, EvaluateConstraintFollows
  <1>4. CASE EndValidation      BY <1>4, EndValidationFollows
  <1>5. CASE Freeze             BY <1>5, FreezeFollows
  <1>6. CASE Invalidate         BY <1>6, InvalidateFollows
  <1>7. CASE Resolve            BY <1>7, ResolveFollows
  <1>8. CASE \E edit \in project.edits : Edit(edit)  BY <1>8, EditStarts
  <1>9. CASE UNCHANGED everything  BY <1>9, StutterFollows
  <1> QED BY <1>1, <1>2, <1>3, <1>4, <1>5, <1>6, <1>7, <1>8, <1>9 DEF SnapNext, Compute

\* What the freeze of an edit compares: the snapshot before and the evaluation
\* agree outside of the visited nodes.
LEMMA FrozenAgrees ==
  ASSUME SnapInvariant, EditFollows, stage = "freeze", base # NoSnapshot
  PROVE  /\ Agree(effective, base.value, Visited) /\ Agree(origin, base.origin, Visited)
         /\ Agree(available, base.available, Visited) /\ Agree(visible, base.visible, Visited)
         /\ \A c \in DOMAIN project.choice :
               <<"choice", project.choice[c].id>> \notin Visited => selection[c] = base.choice[c]
         /\ \A c \in 1..project.constraint :
               <<"constraint", c>> \notin Visited => results[c].outcome = base.outcome[c]
  <1>1. PICK V : V = Visited
    OBVIOUS
  <1>2. PICK p : p = [project EXCEPT !.request = base.request]
    OBVIOUS
  <1>3. /\ EvalInvariant /\ Linked(project) /\ Apart(project) /\ phase = "published"
        /\ base.request \in [Node -> Request] /\ Edited /\ SnapshotIsFull
    BY DEF SnapInvariant, StageFollows, EditFollows, EvalInvariant, EvalShape, Resolving
  <1>4. /\ status = "ok" /\ \A n \in Node : Settled(n) /\ Classified(n)
    BY <1>3 DEF EvalInvariant, EvalShape, EvalProgress
  <1>5. Closed(project, V)
    BY <1>1, <1>3 DEF Edited
  <1>6. SameDeclarations(project, p) /\ p.request = base.request
    BY <1>2, <1>3 DEF Linked, ProjectRecord, SameDeclarations
  <1>7. \A n \in Node : <<"option", n>> \notin V => p.request[n] = project.request[n]
    <2> SUFFICES ASSUME NEW n \in Node, <<"option", n>> \notin V
                 PROVE  p.request[n] = project.request[n]
      OBVIOUS
    <2>1. n # pending.option
      BY <1>1, <1>3 DEF Edited
    <2> QED BY <1>3, <1>6, <2>1 DEF Edited
  <1>8. /\ \A n \in Node :
              /\ SymbolResult(p, n, base.value) =
                    [status |-> "ok", value |-> base.value[n], origin |-> base.origin[n]]
              /\ OptionState(p, n, base.value) =
                    [status |-> "ok", available |-> base.available[n], visible |-> base.visible[n]]
        /\ \A c \in DOMAIN p.choice :
              OneChoice(p, c, base.value, base.available) = base.choice[c]
        /\ \A c \in 1..p.constraint :
              base.outcome[c] = ConstraintResult(p, c, base.value).outcome
    BY <1>2, <1>3 DEF SnapshotIsFull
  <1>9. Agree(effective, base.value, V) /\ Agree(origin, base.origin, V)
    <2>1. \A n \in Node : Settled(n)
      BY <1>4
    <2>2. PICK values, origins : values = base.value /\ origins = base.origin
      OBVIOUS
    <2>3. \A n \in Node : SymbolResult(p, n, values) =
                              [status |-> "ok", value |-> values[n], origin |-> origins[n]]
      BY <1>8, <2>2
    <2>4. Agree(effective, values, V) /\ Agree(origin, origins, V)
      BY ONLY <1>3, <1>4, <1>5, <1>6, <1>7, <2>1, <2>3, ValuesAgree
    <2> QED BY <2>2, <2>4
  <1>10. Agree(available, base.available, V) /\ Agree(visible, base.visible, V)
    <2>1. ASSUME NEW n \in Node, <<"option", n>> \notin V
          PROVE  available[n] = base.available[n] /\ visible[n] = base.visible[n]
      <3>1. OptionState(project, n, effective) = OptionState(project, n, base.value)
        BY <1>3, <1>5, <1>9, <2>1, OptionStateAgrees
      <3>2. OptionState(p, n, base.value) = OptionState(project, n, base.value)
        BY <1>6, SameRest
      <3>3. [status |-> "ok", available |-> available[n], visible |-> visible[n]]
               = [status |-> "ok", available |-> base.available[n], visible |-> base.visible[n]]
        BY <1>4, <1>8, <3>1, <3>2 DEF Classified
      <3> QED BY ONLY <3>3
    <2> QED BY <2>1 DEF Agree
  <1>11. ASSUME NEW c \in DOMAIN project.choice, <<"choice", project.choice[c].id>> \notin V
         PROVE  selection[c] = base.choice[c]
    <2>1. selection[c] = OneChoice(project, c, effective, available)
      <3>1. project.choice \in Seq(ChoiceRecord)
        BY <1>3, ProjectFacts
      <3>2. DOMAIN project.choice = 1..Len(selection)
        BY <1>3, <3>1 DEF EvalInvariant, EvalProgress
      <3> QED BY <1>3, <3>2 DEF EvalInvariant, EvalProgress, Chosen
    <2>2. OneChoice(project, c, effective, available)
             = OneChoice(project, c, base.value, base.available)
      BY <1>3, <1>5, <1>9, <1>10, <1>11, OneChoiceAgrees
    <2>3. OneChoice(p, c, base.value, base.available)
             = OneChoice(project, c, base.value, base.available)
      BY <1>6, SameRest
    <2>4. c \in DOMAIN p.choice
      BY <1>6 DEF SameDeclarations
    <2> QED BY <1>8, <2>1, <2>2, <2>3, <2>4
  <1>12. ASSUME NEW c \in 1..project.constraint, <<"constraint", c>> \notin V
         PROVE  results[c].outcome = base.outcome[c]
    <2>1. results[c] = ConstraintResult(project, c, effective)
      BY DEF SnapInvariant, StageFollows
    <2>2. ConstraintResult(project, c, effective) = ConstraintResult(project, c, base.value)
      BY <1>3, <1>5, <1>9, <1>12, ConstraintAgrees
    <2>3. ConstraintResult(p, c, base.value) = ConstraintResult(project, c, base.value)
      BY <1>6, SameRest
    <2>4. c \in 1..p.constraint
      BY <1>6 DEF SameDeclarations
    <2> QED BY <1>8, <2>1, <2>2, <2>3, <2>4
  <1> QED BY <1>1, <1>9, <1>10, <1>11, <1>12

\* A step that publishes another snapshot is a freeze.
LEMMA OnlyFreezePublishes ==
  ASSUME [SnapNext]_everything, base' # base
  PROVE  Freeze
  BY DEF SnapNext, Compute, Evaluate, EndEvaluation, EvaluateConstraint, EndValidation, Reject,
         Invalidate, Resolve, Edit, everything, snapvars

LEMMA ChangesAreAffected ==
  ASSUME SnapInvariant, EditFollows, [SnapNext]_everything, base # NoSnapshot, base' # base
  PROVE  Changed(base, base') \subseteq Visited
  <1>1. Freeze
    BY OnlyFreezePublishes
  <1>2. /\ base'.value = effective /\ base'.origin = origin /\ base'.available = available
        /\ base'.visible = visible /\ base'.choice = selection
        /\ base'.outcome = [c \in DOMAIN results |-> results[c].outcome]
        /\ stage = "freeze"
    BY <1>1 DEF Freeze
  <1>3. \A c \in 1..project.constraint : base'.outcome[c] = results[c].outcome
    BY <1>2 DEF SnapInvariant, StageFollows
  <1>4. /\ Agree(effective, base.value, Visited) /\ Agree(origin, base.origin, Visited)
        /\ Agree(available, base.available, Visited) /\ Agree(visible, base.visible, Visited)
        /\ \A c \in DOMAIN project.choice :
              <<"choice", project.choice[c].id>> \notin Visited => selection[c] = base.choice[c]
        /\ \A c \in 1..project.constraint :
              <<"constraint", c>> \notin Visited => results[c].outcome = base.outcome[c]
    BY <1>2, FrozenAgrees
  <1>5. {<<"option", n>> : n \in {m \in Node :
          \/ base.value[m] # base'.value[m] \/ base.origin[m] # base'.origin[m]
          \/ base.available[m] # base'.available[m] \/ base.visible[m] # base'.visible[m]}}
        \subseteq Visited
    BY <1>2, <1>4 DEF Agree
  <1>6. {<<"choice", project.choice[c].id>> : c \in {d \in DOMAIN project.choice :
          base.choice[d] # base'.choice[d]}} \subseteq Visited
    BY <1>2, <1>4
  <1>7. {<<"constraint", c>> : c \in {d \in 1..project.constraint :
          base.outcome[d] # base'.outcome[d]}} \subseteq Visited
    BY <1>3, <1>4
  <1> QED BY <1>5, <1>6, <1>7 DEF Changed

LEMMA ReadsAreRecorded ==
  ASSUME SnapInvariant, EditFollows, [SnapNext]_everything, base # NoSnapshot, base' # base,
         NEW c \in 1..project.constraint, base'.outcome[c] # base.outcome[c]
  PROVE  \E n \in Node : /\ <<<<"option", n>>, <<"constraint", c>>>> \in base.provenance
                         /\ base'.value[n] # base.value[n]
  <1> SUFFICES ASSUME \A n \in Node :
                         <<<<"option", n>>, <<"constraint", c>>>> \in base.provenance
                         => base'.value[n] = base.value[n]
               PROVE  FALSE
    OBVIOUS
  <1>1. Freeze
    BY OnlyFreezePublishes
  <1>2. /\ base'.value = effective /\ stage = "freeze"
        /\ base'.outcome = [k \in DOMAIN results |-> results[k].outcome]
    BY <1>1 DEF Freeze
  <1>3. base'.outcome[c] = ConstraintResult(project, c, effective).outcome
    BY <1>2 DEF SnapInvariant, StageFollows
  <1>4. /\ ConstraintResult(project, c, base.value).outcome \in Outcome
        /\ \A n \in ConstraintResult(project, c, base.value).reads :
              <<<<"option", n>>, <<"constraint", c>>>> \in base.provenance
    BY DEF EditFollows, Recorded
  <1>5. \A n \in ConstraintResult(project, c, base.value).reads :
           n \in Node => base.value[n] = effective[n]
    BY <1>2, <1>4
  <1>6. ConstraintResult(project, c, effective) = ConstraintResult(project, c, base.value)
    BY <1>4, <1>5, ConstraintReads DEF SnapInvariant, EvalInvariant, EvalShape
  <1>7. base.outcome[c] = ConstraintResult(project, c, base.value).outcome
    <2>1. PICK p : p = [project EXCEPT !.request = base.request]
      OBVIOUS
    <2>2. SameDeclarations(project, p)
      BY <2>1 DEF SnapInvariant, EvalInvariant, EvalShape, Linked, ProjectRecord, SameDeclarations
    <2>3. c \in 1..p.constraint
      BY <2>2 DEF SameDeclarations
    <2>4. base.outcome[c] = ConstraintResult(p, c, base.value).outcome
      BY <2>1, <2>3 DEF SnapInvariant, SnapshotIsFull
    <2>5. ConstraintResult(p, c, base.value) = ConstraintResult(project, c, base.value)
      BY <2>2, SameRest
    <2> QED BY <2>4, <2>5
  <1> QED BY <1>3, <1>6, <1>7

\* No choice of a project has the id of an option.
ApartProjects == \A family \in Projects : \A p \in family : Apart(p)

LEMMA EditsInvariant ==
  ASSUME ApartProjects
  PROVE  SnapSpec => [](SnapInvariant /\ EditFollows)
  <1>1. SnapInit => EditFollows
    <2> SUFFICES ASSUME SnapInit PROVE EditFollows
      OBVIOUS
    <2>1. Apart(project)
      BY DEF SnapInit, EvalInit, ApartProjects
    <2> QED BY <2>1 DEF SnapInit, EditFollows, Recorded
  <1> QED BY <1>1, SnapInitInvariant, SnapNextKeeps, SnapNextFollows, PTL DEF SnapSpec

\* confit_v2_snapshot_reconcile_edit, for every project in which no choice has
\* the id of an option and every sequence of edits: each option, choice and
\* constraint that an accepted edit changes is in the affected set that the
\* reverse index yields, and when the outcome of a constraint changes, an
\* option that it is recorded as having read has changed.
THEOREM EditsHold ==
  ASSUME ApartProjects
  PROVE  SnapSpec => EditsAreExplained
  <1>1. SnapInvariant /\ EditFollows /\ [SnapNext]_everything =>
          /\ [base # NoSnapshot /\ base' # base => Changed(base, base') \subseteq Visited]_everything
          /\ [base # NoSnapshot /\ base' # base =>
                \A c \in 1..project.constraint :
                    base'.outcome[c] # base.outcome[c] =>
                        \E n \in Node : /\ <<<<"option", n>>, <<"constraint", c>>>> \in base.provenance
                                        /\ base'.value[n] # base.value[n]]_everything
    BY ChangesAreAffected, ReadsAreRecorded
  <1> QED BY <1>1, EditsInvariant, PTL
       DEF SnapSpec, EditsAreExplained, AffectedCoversChanges, ReadsExplainOutcome
=============================================================================
