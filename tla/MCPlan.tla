------------------------------- MODULE MCPlan -------------------------------
(* The planner over `a`, `a/b` and `c`, each absent or one of two entries.  *)
EXTENDS PlanPass, TLC

CONSTANTS a, b

PathAbove == {<<a, b>>}

\* Everything in scope, and each path left out in turn.
AllScopes == {Path} \cup {Path \ {p} : p \in Path}

\* No answer, and either side kept for everything, or for a and a/b alone.
AllAnswers == {NoAnswer} \cup [keep : Side, paths : {Path, {a, b}}]

Entries == Permutations(Entry)
=============================================================================
