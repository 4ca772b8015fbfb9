------------------------------ MODULE PlanPass ------------------------------
(***************************************************************************)
(* The planner over every case: any three working copies, any answer, and  *)
(* then pass after pass over them with nobody else about, each landing any *)
(* part of what it planned (crates/taste-git/src/plan.rs and the narrowed  *)
(* pass of mirror.rs).  What actors do meanwhile is module Mirror's.       *)
(***************************************************************************)
EXTENDS Plan

CONSTANTS Scopes,   \* the scopes tried
          Answers   \* the answers tried

ASSUME PlanPassAssumption ==
    /\ Scopes \subseteq SUBSET Path
    /\ Answers \subseteq Resolve

VARIABLES input, reply

roundVars == <<input, reply>>

\* What may be unseen, on the folder's disk but not in its copy: a path known
\* from one of the other two, with nothing of the folder's above or beneath.
MayBeUnseen(archive, folder, checkout) ==
    {p \in (Present(archive) \cup Present(checkout)) \ Present(folder) :
        \A q \in Present(folder) : ~Crossing(p, q)}

\* Unseen files are files too.
NoneCross(paths) == \A p, q \in paths : ~Crossing(p, q)

PassInit ==
    /\ \E archive, folder, checkout \in {c \in Copy : WellFormed(c)} :
       \E scope \in Scopes :
       \E unseen \in SUBSET MayBeUnseen(archive, folder, checkout) :
           /\ NoneCross(unseen)
           /\ input = [archive |-> archive, folder |-> folder,
                           checkout |-> checkout, unseen |-> unseen, scope |-> scope]
    /\ reply \in Answers

\* What the three copies are once the writes in landed are on them.
Carried(o, plan, landed) ==
    [o EXCEPT !.archive = AsTree(Archived(o, plan, landed)),
              !.folder = Applied(@, landed \cap plan.toFolder),
              !.checkout = Applied(@, landed \cap plan.toCheckout)]

\* Mutant: what was unseen is taken to be so still.
ReobservedNot(o) == o

\* What is unseen stays so while either other copy has it.
Reobserved(o) ==
    [o EXCEPT !.unseen = @ \cap MayBeUnseen(o.archive, o.folder, o.checkout)]

Land ==
    LET plan == Planned(input, reply) IN
    \E landed \in SUBSET (plan.toFolder \cup plan.toCheckout) :
        LET next == Carried(input, plan, landed) IN
        /\ \A s \in {next.archive, next.folder, next.checkout} : WellFormed(s)
        /\ input' = Reobserved(next)
        /\ reply' = NoAnswer

PassNext == Land

PassSpec == PassInit /\ [][PassNext]_roundVars

-----------------------------------------------------------------------------
(* The narrowed pass: while the rules hold, only the paths where a side    *)
(* differs from the archive are read and decided.                          *)

\* Mutant: only the folder's changes are looked for.
ChangedInFolder(o) == {p \in Path : o.folder[p] # o.archive[p]}

Changed(o) ==
    {p \in Path : o.folder[p] # o.archive[p] \/ o.checkout[p] # o.archive[p]}

EntriesAt(copy, paths) == [p \in Path |-> IF p \in paths THEN copy[p] ELSE None]

Narrowed(o) ==
    [o EXCEPT !.archive = EntriesAt(@, Changed(o)),
              !.folder = EntriesAt(@, Changed(o)),
              !.checkout = EntriesAt(@, Changed(o)),
              !.unseen = @ \cap Changed(o)]

-----------------------------------------------------------------------------
\* The copies are what some side's disk could hold, and what is unseen could
\* be there beside them.
Sound(o) ==
    /\ WellFormed(o.archive) /\ WellFormed(o.folder) /\ WellFormed(o.checkout)
    /\ o.unseen \subseteq MayBeUnseen(o.archive, o.folder, o.checkout)

PassTypeOK == input \in Observed /\ reply \in Resolve /\ Sound(input)

\* P12: whatever lands whole fits - no put of the plan leaves a path and one
\* beneath it both on a side, the folder's ignored files counted.
NoClashLeft ==
    LET plan == Planned(input, reply)
        folder == Present(Applied(input.folder, plan.toFolder))
        checkout == Present(Applied(input.checkout, plan.toCheckout))
    IN /\ \A w \in Puts(plan.toFolder) : \A q \in folder \cup input.unseen :
              ~Crossing(w.path, q)
       /\ \A w \in Puts(plan.toCheckout) : \A q \in checkout : ~Crossing(w.path, q)

\* RulesSeen (mirror.rs): "That is exact": the pass narrowed to the changed
\* paths plans what the full pass plans, the archive holding only paths in
\* scope.
NarrowedIsExact ==
    Present(input.archive) \subseteq input.scope =>
        Planned(Narrowed(input), reply) = Planned(input, reply)

Asked(o) == Planned(o, NoAnswer).conflicts

\* P3, P4: once everything planned has landed - with no answer, or one to
\* everything asked - a further pass has nothing to write or to record, and
\* asks only what this one asked.  (An unseen file out of scope is forgotten
\* with its archive's entry, and may then stand in a later write's way.)
Settles ==
    reply.paths \in {{}, Asked(input)} /\ input.unseen \subseteq input.scope =>
    LET plan == Planned(input, reply)
        next == Reobserved(Carried(input, plan, plan.toFolder \cup plan.toCheckout))
        again == Planned(next, NoAnswer)
    IN /\ again.toFolder = {} /\ again.toCheckout = {}
       /\ again.agreed = {} /\ again.forget = {}
       /\ again.conflicts \subseteq plan.conflicts

\* P2: an answer to everything asked leaves nothing of it to ask again - a
\* conflict of kinds is answered as surely as one of contents - where the
\* folder ignores nothing in the way and both sides have every path in scope.
AnswerSettles ==
    input.unseen = {} /\ input.scope = Path =>
        \A side \in Side :
            Planned(input, [keep |-> side, paths |-> Asked(input)]).conflicts = {}
=============================================================================
