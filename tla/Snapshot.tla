------------------------------ MODULE Snapshot ------------------------------
(***************************************************************************)
(* confit_v2_snapshot_resolve and confit_v2_snapshot_reconcile_edit of     *)
(* resolver/v2: an evaluation is validated against the constraints         *)
(* (constraint/v2/validate.c) and frozen (snapshot.c); an edit of one      *)
(* option looks up in the frozen reverse index what it may affect          *)
(* (incremental.c), and everything is resolved again.                      *)
(*                                                                         *)
(* The evaluation is that of Evaluation, run once for each resolve.  Ids   *)
(* of options are their numbers; a choice or a menu may have the id of an  *)
(* option, since each kind has an identifier table of its own.             *)
(***************************************************************************)
EXTENDS Evaluation

Seqs == INSTANCE SequencesExt

CONSTANT MaxEdits  \* how many edits follow the first resolve

VARIABLES
    stage,    \* "idle", "resolve", "constraints", "freeze" or "invalidate"
    results,  \* report->results
    base,     \* the published snapshot
    pending,  \* the edit being reconciled
    queue, head,  \* of confit_v2_snapshot_invalidate
    edits,
    verdict   \* of the last resolve

snapvars == <<stage, results, base, pending, queue, head, edits, verdict>>
everything == <<allvars, snapvars>>

NoSnapshot == [request |-> << >>]
NoEdit == [option |-> 0, value |-> "none"]
-----------------------------------------------------------------------------
(* Constraints and suggestions.                                            *)

Reads(e) == {e.args[k] : k \in DOMAIN e.args}

\* confit_v2_constraint_evaluate_one; an unset condition or requirement is an
\* error of the whole validation, not an outcome.
ConstraintResult(p, c, env) ==
    LET when == FindExpression(p, "constraint_when", c, 1)
        require == FindExpression(p, "constraint_require", c, 1)
        applicable == Eval(when, env)
        required == Eval(require, env)
    IN  IF applicable \in {Unset, Error} THEN [outcome |-> "condition", reads |-> {}]
        ELSE IF applicable = "n" THEN [outcome |-> "not_applicable", reads |-> Reads(when)]
        ELSE IF required \in {Unset, Error} THEN [outcome |-> "requirement", reads |-> {}]
        ELSE [outcome |-> IF required = "n" THEN "failed" ELSE "passed",
              reads |-> Reads(when) \cup Reads(require)]

Outcome == {"passed", "failed", "not_applicable"}

\* confit_v2_constraint_suggestions fails when a condition has no value.
SuggestionsFail(p, env) ==
    \E n \in Node : \E k \in DOMAIN p.symbol[n].suggestions :
        Eval(FindExpression(p, "suggestion_when", n, k), env) \in {Unset, Error}
-----------------------------------------------------------------------------
(* The reverse index.                                                      *)

\* owner_id of a linked expression.
OwnerId(p, e) ==
    CASE e.role \in {"choice_available_if", "choice_visible_if", "choice_default_when"} ->
           p.choice[e.owner].id
      [] e.role = "menu_visible_if" -> p.menu[e.owner]
      [] OTHER -> e.owner

\* confit_v2_snapshot_owner_kind: edges carry the id of their owner and not
\* its kind, except that constraints have a graph of their own.
OwnerNode(isConstraint, id) ==
    IF isConstraint THEN <<"constraint", id>>
    ELSE IF id \in Node THEN <<"option", id>>
    ELSE <<"choice", id>>

ReverseNodes(p) ==
    {<<"option", n>> : n \in Node} \cup
    {<<"choice", p.choice[c].id>> : c \in DOMAIN p.choice} \cup
    {<<"constraint", c>> : c \in 1..p.constraint}

ExpressionEdges(p) ==
    UNION {LET e == p.linked[i] IN
           {<<n, OwnerNode(e.role \in {"constraint_when", "constraint_require"}, OwnerId(p, e))>> :
               n \in Reads(e)} : i \in DOMAIN p.linked}

\* Mutant of Edges: the members of a choice are not in its graph.
EdgesWithoutMembers(p) == ExpressionEdges(p)

\* The four compiled graphs together.
Edges(p) ==
    ExpressionEdges(p) \cup
    UNION {LET choice == p.choice[c] IN
           {<<choice.members[k], OwnerNode(FALSE, choice.id)>> : k \in DOMAIN choice.members} :
              c \in DOMAIN p.choice}

\* Only options have dependents, and an owner without a node (a menu) is
\* skipped.
Dependents(p, node) ==
    {d \in ReverseNodes(p) : node[1] = "option" /\ <<node[2], d>> \in Edges(p)}
-----------------------------------------------------------------------------
SnapInit ==
    /\ EvalInit
    /\ stage = "resolve"
    /\ results = << >>
    /\ base = NoSnapshot
    /\ pending = NoEdit
    /\ queue = << >>
    /\ head = 1
    /\ edits = 0
    /\ verdict = "none"

\* A failed resolve or edit returns no snapshot; the caller keeps its own.
Reject(reason) ==
    /\ stage' = "idle"
    /\ verdict' = reason
    /\ UNCHANGED <<allvars, results, base, pending, queue, head, edits>>

Evaluate ==
    /\ stage = "resolve"
    /\ EvalNext
    /\ UNCHANGED snapvars

EndEvaluation ==
    /\ stage = "resolve"
    /\ \/ phase = "failed" /\ Reject(error)
       \/ /\ phase = "published"
          /\ stage' = "constraints"
          /\ UNCHANGED <<allvars, results, base, pending, queue, head, edits, verdict>>

\* All constraints are evaluated, also after one has failed.
EvaluateConstraint ==
    /\ stage = "constraints"
    /\ Len(results) < project.constraint
    /\ LET result == ConstraintResult(project, Len(results) + 1, effective)
       IN  IF result.outcome \notin Outcome THEN Reject(result.outcome)
           ELSE /\ results' = Append(results, result)
                /\ UNCHANGED <<allvars, stage, base, pending, queue, head, edits, verdict>>

\* Mutant of EndValidation: failures are left to the report.
EndValidationAnyway ==
    /\ stage = "constraints"
    /\ Len(results) = project.constraint
    /\ IF SuggestionsFail(project, effective) THEN Reject("suggestion")
       ELSE /\ stage' = "freeze"
            /\ UNCHANGED <<allvars, results, base, pending, queue, head, edits, verdict>>

\* Suggestions are evaluated before the failures are looked at.
EndValidation ==
    /\ stage = "constraints"
    /\ Len(results) = project.constraint
    /\ IF SuggestionsFail(project, effective) THEN Reject("suggestion")
       ELSE IF \E c \in DOMAIN results : results[c].outcome = "failed"
       THEN Reject("constraint")
       ELSE /\ stage' = "freeze"
            /\ UNCHANGED <<allvars, results, base, pending, queue, head, edits, verdict>>

\* confit_v2_snapshot_build_provenance, the edges between different subjects:
\* from a choice to its selection and from the options a constraint read.
Provenance ==
    {<<<<"choice", project.choice[c].id>>, <<"option", selection[c].selected>>>> :
        c \in {d \in DOMAIN selection : selection[d].selected # 0}} \cup
    UNION {{<<<<"option", n>>, <<"constraint", c>>>> : n \in results[c].reads} :
              c \in DOMAIN results}

\* confit_v2_snapshot_freeze: everything is copied, so that the evaluation and
\* the report can be freed.  Source positions and hashes are left out.
Freeze ==
    /\ stage = "freeze"
    /\ base' = [request |-> project.request,
                value |-> effective, origin |-> origin,
                available |-> available, visible |-> visible,
                choice |-> selection,
                outcome |-> [c \in DOMAIN results |-> results[c].outcome],
                provenance |-> Provenance]
    /\ stage' = "idle"
    /\ verdict' = "ok"
    /\ UNCHANGED <<allvars, results, pending, queue, head, edits>>

\* reconcile_edit: the search starts at the edited option.
Edit(edit) ==
    /\ stage = "idle"
    /\ base # NoSnapshot
    /\ edits < MaxEdits
    /\ edits' = edits + 1
    /\ pending' = edit
    /\ queue' = <<<<"option", edit.option>>>>
    /\ head' = 1
    /\ stage' = "invalidate"
    /\ UNCHANGED <<allvars, results, base, verdict>>

Visited == {queue[i] : i \in DOMAIN queue}

\* Mutant of Invalidate: a node without new dependents stays at the head.
InvalidateStuck ==
    /\ stage = "invalidate"
    /\ head <= Len(queue)
    /\ LET fresh == Dependents(project, queue[head]) \ Visited
       IN /\ head' = IF fresh = {} /\ head < Len(queue) THEN head ELSE head + 1
          /\ queue' = queue \o Seqs!SetToSeq(fresh)
    /\ UNCHANGED <<allvars, stage, results, base, pending, edits, verdict>>

\* One iteration of the search.
Invalidate ==
    /\ stage = "invalidate"
    /\ head <= Len(queue)
    /\ head' = head + 1
    /\ queue' = queue \o Seqs!SetToSeq(Dependents(project, queue[head]) \ Visited)
    /\ UNCHANGED <<allvars, stage, results, base, pending, edits, verdict>>

\* The second resolve: a new ledger with the edit in place, a new evaluation.
Resolve ==
    /\ stage = "invalidate"
    /\ head > Len(queue)
    /\ project' = [project EXCEPT !.request = [base.request EXCEPT ![pending.option] = pending.value]]
    /\ deps' = BuildNodes(project')
    /\ visit_state' = [n \in Node |-> 0]
    /\ path' = [d \in Node |-> 0]
    /\ incoming' = [d \in Node |-> 0]
    /\ cursor' = [d \in Node |-> 0]
    /\ depth' = 0
    /\ order' = << >>
    /\ index' = 1
    /\ status' = "running"
    /\ begin' = 0
    /\ phase' = "order"
    /\ at' = 1
    /\ effective' = [n \in Node |-> Unset]
    /\ origin' = [n \in Node |-> "none"]
    /\ available' = [n \in Node |-> FALSE]
    /\ visible' = [n \in Node |-> FALSE]
    /\ selection' = << >>
    /\ error' = "none"
    /\ results' = << >>
    /\ stage' = "resolve"
    /\ UNCHANGED <<base, pending, queue, head, edits, verdict>>

Compute ==
    \/ Evaluate \/ EndEvaluation \/ EvaluateConstraint \/ EndValidation \/ Freeze
    \/ Invalidate \/ Resolve

SnapNext == Compute \/ \E edit \in project.edits : Edit(edit)

SnapSpec == SnapInit /\ [][SnapNext]_everything /\ WF_everything(Compute)
-----------------------------------------------------------------------------
\* docs/resolution-v2.md, Incremental Resolve: a published snapshot is the result
\* of a full resolve of the requests it records, whatever edits were accepted
\* or refused before it, and no constraint fails in it.
SnapshotIsFull ==
    base # NoSnapshot =>
        LET p == [project EXCEPT !.request = base.request] IN
        /\ \A n \in Node :
              /\ SymbolResult(p, n, base.value) =
                    [status |-> "ok", value |-> base.value[n], origin |-> base.origin[n]]
              /\ OptionState(p, n, base.value) =
                    [status |-> "ok", available |-> base.available[n],
                     visible |-> base.visible[n]]
        /\ \A c \in DOMAIN p.choice :
              OneChoice(p, c, base.value, base.available) = base.choice[c]
        /\ \A c \in 1..p.constraint :
              /\ base.outcome[c] = ConstraintResult(p, c, base.value).outcome
              /\ base.outcome[c] # "failed"

\* What two snapshots differ in.
Changed(old, new) ==
    {<<"option", n>> : n \in {m \in Node :
        \/ old.value[m] # new.value[m] \/ old.origin[m] # new.origin[m]
        \/ old.available[m] # new.available[m] \/ old.visible[m] # new.visible[m]}} \cup
    {<<"choice", project.choice[c].id>> : c \in {d \in DOMAIN project.choice :
        old.choice[d] # new.choice[d]}} \cup
    {<<"constraint", c>> : c \in {d \in 1..project.constraint :
        old.outcome[d] # new.outcome[d]}}

\* The affected set of an accepted edit covers every option, choice and
\* constraint that differs from the snapshot before.
AffectedCoversChanges ==
    [][base # NoSnapshot /\ base' # base => Changed(base, base') \subseteq Visited]_everything

\* Provenance: when the outcome of a constraint changes, an option it was
\* recorded as reading has changed.
ReadsExplainOutcome ==
    [][base # NoSnapshot /\ base' # base =>
        \A c \in 1..project.constraint :
            base'.outcome[c] # base.outcome[c] =>
                \E n \in Node : /\ <<<<"option", n>>, <<"constraint", c>>>> \in base.provenance
                                /\ base'.value[n] # base.value[n]]_everything

\* confit_v2_snapshot_reconcile_edit: what an accepted edit changes is in the
\* affected set, and the recorded reads explain every changed constraint.
EditsAreExplained == AffectedCoversChanges /\ ReadsExplainOutcome

\* Every resolve and every edit is answered.
ResolveEnds == []<>(stage = "idle")
=============================================================================
