------------------------------- MODULE Mirror -------------------------------
(***************************************************************************)
(* One pass of the folder sync, a step at a time: the checkout's snapshot  *)
(* (crates/taste-git/src/snapshot.rs), the decision (module Plan), the     *)
(* writes to the checkout by a script in the VM and to the folder on this  *)
(* host (crates/taste-devcontainer/src/peer.rs, taste-git/src/mirror.rs),  *)
(* and the archive recorded for what landed.  The user and the agents edit *)
(* their sides, and change what they ignore, between any two steps; a pass *)
(* may stop at any step; and a chat turn's end takes a snapshot of its own *)
(* beside the pass.  Both sides stand on one branch at one commit.         *)
(***************************************************************************)
EXTENDS Plan, Naturals

CONSTANTS
    NoSnapshot,   \* no commit
    Tag,          \* what tells two commits of one tree apart
    Budget        \* how often each thing that may keep happening happens

Kind == {"edit", "rule", "fail", "unsaid", "stop", "turn", "answer"}

Tree == [files : Copy, ignored : SUBSET Path]
Snapshot == [tree : Tree, tag : Tag]
Commit == Snapshot \cup {NoSnapshot}
Taker == {"pass", "turn"}
Look == [at : {"idle", "looked", "done"}, tree : Tree,
         prev : Commit, avoid : Commit]

ASSUME MirrorAssumption ==
    /\ NoSnapshot \notin Snapshot
    /\ Budget \in [Kind -> Nat]

VARIABLES
    disk,         \* what each side's working tree holds
    ignored,      \* the paths each side's rules ignore and do not sync
    archive,      \* MIRROR_REF: what the two last agreed on
    observation,  \* the snapshot its pass observed, and whether it wrote there
    snapRef,      \* the checkout's snapshot ref
    look,         \* the snapshot script of each taker
    pc,           \* where the pass is
    answer,       \* the user's answer the pass was given
    snapshot,     \* the checkout as the pass observes it
    seen,         \* the folder as the pass observes it
    observed,     \* what the pass decided from
    plan,         \* what it decided
    left,         \* the writes of this leg not yet tried
    landed,       \* the writes that landed
    orphan,       \* writes of a script whose pass has stopped
    asked,        \* folder_conflicts: the paths the user is to be asked about
    dialog,       \* the paths named in the question on the user's screen
    replaced,     \* ghost: <<p, e>> that an actor, or an answer, replaced
    byActor,      \* ghost: whether an actor made what a side holds at a path
    calm,         \* ghost: nothing but the pass has acted since it began
    budget        \* what is left of Budget

passVars == <<answer, snapshot, seen, observed, plan, left, landed>>
recordVars == <<archive, observation, asked, dialog>>
sideVars == <<disk, ignored, replaced, byActor>>
vars == <<sideVars, recordVars, snapRef, look, pc, passVars, orphan, calm, budget>>

Other(side) == IF side = Folder THEN Checkout ELSE Folder

Empty == [p \in Path |-> None]
NoTree == [files |-> Empty, ignored |-> {}]
NoLook == [at |-> "idle", tree |-> NoTree, prev |-> NoSnapshot, avoid |-> NoSnapshot]
NoObservation == [snapshot |-> NoSnapshot, wrote |-> FALSE]
NothingObserved == [archive |-> Empty, folder |-> Empty, checkout |-> Empty,
                    unseen |-> {}, scope |-> {}]
NoPlan == [toFolder |-> {}, toCheckout |-> {}, agreed |-> {}, forget |-> {},
           conflicts |-> {}]

Spend(kind) == /\ budget[kind] > 0
               /\ budget' = [budget EXCEPT ![kind] = @ - 1]

\* What git reads of a side: everything but what its rules ignore.
Visible(side) ==
    [p \in Path |-> IF p \in ignored[side] THEN None ELSE disk[side][p]]

-----------------------------------------------------------------------------
Init ==
    /\ archive \in {copy \in Copy : WellFormed(copy)}
    /\ disk = [s \in Side |-> archive]
    /\ ignored = [s \in Side |-> {}]
    /\ observation = NoObservation
    /\ snapRef = NoSnapshot
    /\ look = [t \in Taker |-> NoLook]
    /\ pc = "idle"
    /\ answer = NoAnswer
    /\ snapshot = NoSnapshot
    /\ seen = Empty
    /\ observed = NothingObserved
    /\ plan = NoPlan
    /\ left = {}
    /\ landed = {}
    /\ orphan = {}
    /\ asked = {}
    /\ dialog = {}
    /\ replaced = {}
    /\ byActor = [s \in Side |-> [p \in Path |-> TRUE]]
    /\ calm = TRUE
    /\ budget = Budget

-----------------------------------------------------------------------------
(* The actors.                                                             *)

\* The user in the folder, an agent or a program in the checkout: a file
\* made, changed or removed.
Edit(side, p, e) ==
    /\ Spend("edit")
    /\ e # disk[side][p]
    /\ e # None => Fits(disk[side], p)
    /\ disk' = [disk EXCEPT ![side][p] = e]
    /\ replaced' = replaced \cup ({<<p, disk[side][p]>>} \ {<<p, None>>})
    /\ byActor' = [byActor EXCEPT ![side][p] = TRUE]
    /\ calm' = FALSE
    /\ UNCHANGED <<ignored, recordVars, snapRef, look, pc, passVars, orphan>>

\* A rule added or taken away on one side.  A rule that ignores a directory
\* ignores all beneath it.
ChangeRules(side, p) ==
    LET beneath == {q \in Path : <<p, q>> \in Above}
        above == {q \in Path : <<q, p>> \in Above}
    IN /\ Spend("rule")
       /\ ignored' = [ignored EXCEPT ![side] =
              IF p \in @ THEN @ \ ({p} \cup above) ELSE @ \cup {p} \cup beneath]
       /\ calm' = FALSE
       /\ UNCHANGED <<disk, replaced, byActor, recordVars, snapRef, look, pc,
                      passVars, orphan>>

-----------------------------------------------------------------------------
(* The snapshot script.                                                    *)

TreeNow == [files |-> Visible(Checkout), ignored |-> ignored[Checkout]]

Looked(avoid) == [at |-> "looked", tree |-> TreeNow, prev |-> snapRef, avoid |-> avoid]

\* A commit of the tree looked at; one of the same second is the same
\* commit, but never the one to avoid.
CommitsOf(l) == {[tree |-> l.tree, tag |-> g] : g \in Tag} \ {l.avoid}

Unchanged(l) ==
    l.prev # NoSnapshot /\ l.prev # l.avoid /\ l.prev.tree = l.tree

\* The ref moved only from what it was when last read; moved meanwhile, it
\* is read again, and the tree - looked at once - is not.  A script whose
\* third try loses too ends in an error: Stop.
Publish(t) ==
    /\ look[t].at = "looked"
    /\ \/ /\ Unchanged(look[t])
          /\ look' = [look EXCEPT ![t].at = "done"]
          /\ UNCHANGED snapRef
       \/ /\ ~Unchanged(look[t])
          /\ snapRef = look[t].prev
          /\ snapRef' \in CommitsOf(look[t])
          /\ look' = [look EXCEPT ![t].at = "done"]
       \/ /\ ~Unchanged(look[t])
          /\ snapRef # look[t].prev
          /\ look' = [look EXCEPT ![t].prev = snapRef]
          /\ UNCHANGED snapRef
    /\ UNCHANGED <<sideVars, recordVars, pc, passVars, orphan, calm, budget>>

\* A turn's end snapshots the checkout without waiting for a pass.
TurnEnds ==
    /\ Spend("turn")
    /\ look["turn"].at = "idle"
    /\ look' = [look EXCEPT !["turn"] = Looked(NoSnapshot)]
    /\ UNCHANGED <<sideVars, recordVars, snapRef, pc, passVars, orphan, calm>>

TurnTaken ==
    /\ look["turn"].at = "done"
    /\ look' = [look EXCEPT !["turn"] = NoLook]
    /\ UNCHANGED <<sideVars, recordVars, snapRef, pc, passVars, orphan, calm, budget>>

-----------------------------------------------------------------------------
(* The pass.                                                               *)

\* What the pass leaves to ask.  The window is told when there comes to be
\* something, or nothing: its question is not taken down, nor changed while
\* there is something yet.
Asks(conflicts) ==
    /\ asked' = conflicts
    /\ dialog' = IF asked = {} /\ conflicts # {} THEN conflicts ELSE dialog

\* The pass's own memory goes with it.
Forgotten ==
    /\ pc' = "idle"
    /\ look' = [look EXCEPT !["pass"] = NoLook]
    /\ answer' = NoAnswer
    /\ snapshot' = NoSnapshot
    /\ seen' = Empty
    /\ observed' = NothingObserved
    /\ plan' = NoPlan
    /\ left' = {}
    /\ landed' = {}

\* Mutant: the checkout's snapshot is not told which one to avoid.
WrittenOverUntold == NoSnapshot

WrittenOver == IF observation.wrote THEN observation.snapshot ELSE NoSnapshot

\* A pass begins by having the checkout looked at, never answered with the
\* snapshot the last pass wrote over.  r is the user's answer, if any.
Begin(r) ==
    /\ pc = "idle"
    /\ pc' = "looking"
    /\ answer' = r
    /\ look' = [look EXCEPT !["pass"] = Looked(WrittenOver)]
    /\ calm' = (orphan = {})
    /\ UNCHANGED <<sideVars, archive, observation, asked, snapRef, snapshot, seen, observed,
                   plan, left, landed, orphan>>

BeginUnasked == Begin(NoAnswer) /\ UNCHANGED <<dialog, budget>>

\* The answer keeps one side for what there is to ask by then.
BeginAnswered(side) ==
    /\ dialog # {}
    /\ dialog' = {}
    /\ Spend("answer")
    /\ Begin([keep |-> side, paths |-> asked])

\* Resolve... asks again, with the conflicts as the last pass found them.
Resolving ==
    /\ asked # {}
    /\ dialog # asked
    /\ dialog' = asked
    /\ UNCHANGED <<sideVars, archive, observation, asked, snapRef, look, pc,
                   passVars, orphan, calm, budget>>

IsStale(s) == observation = [snapshot |-> s, wrote |-> TRUE]

\* The fetch brings whatever the ref holds by then.
FetchNow ==
    /\ pc = "looking"
    /\ ~IsStale(snapRef)
    /\ pc' = "fetched"
    /\ snapshot' = snapRef
    /\ look' = [look EXCEPT !["pass"] = NoLook]
    /\ UNCHANGED <<sideVars, recordVars, snapRef, answer, seen, observed, plan,
                   left, landed, orphan, calm, budget>>

\* Once the snapshot asked for is taken (FetchNow alone is a mutant).
Fetch == look["pass"].at = "done" /\ FetchNow

\* The pass refuses the snapshot its predecessor wrote over.
FetchStale ==
    /\ pc = "looking"
    /\ look["pass"].at = "done"
    /\ IsStale(snapRef)
    /\ Forgotten
    /\ Asks({})
    /\ calm' = FALSE
    /\ UNCHANGED <<sideVars, archive, observation, snapRef, orphan, budget>>

ReadFolder ==
    /\ pc = "fetched"
    /\ pc' = "read"
    /\ seen' = Visible(Folder)
    /\ UNCHANGED <<sideVars, recordVars, snapRef, look, answer, snapshot,
                   observed, plan, left, landed, orphan, calm, budget>>

\* Mutant: a path absent as read is taken for removed.
UnseenNone == {}

\* Absent from the folder as read, on its disk all the same.
Unseen ==
    {p \in (Present(archive) \cup Present(snapshot.tree.files)) \ Present(seen) :
        disk[Folder][p] # None}

Observation ==
    [archive |-> archive, folder |-> seen, checkout |-> snapshot.tree.files,
     unseen |-> Unseen,
     scope |-> Path \ (ignored[Folder] \cup snapshot.tree.ignored)]

\* The versions an answer gives up: those its writes replace.
GivenUp(o, r, writes) ==
    {<<w.path, w.expect>> : w \in {v \in writes : Answered(o, r, v.path)}}
        \ {<<p, None>> : p \in Path}

Decide ==
    /\ pc = "read"
    /\ pc' = "sending"
    /\ observed' = Observation
    /\ plan' = Planned(Observation, answer)
    /\ left' = plan'.toCheckout
    /\ replaced' = replaced
           \cup GivenUp(Observation, answer, plan'.toCheckout \cup plan'.toFolder)
    /\ UNCHANGED <<disk, ignored, byActor, recordVars, snapRef, look, answer,
                   snapshot, seen, landed, orphan, calm, budget>>

\* Git partway through something in the folder, or no room for the writes:
\* the pass ends having written nothing.
Pause ==
    /\ pc \in {"fetched", "read"}
    /\ Spend("stop")
    /\ Forgotten
    /\ Asks({})
    /\ calm' = FALSE
    /\ UNCHANGED <<sideVars, archive, observation, snapRef, orphan>>

-----------------------------------------------------------------------------
(* The writes: removals first, deepest first, then puts, shallowest first. *)

\* Mutant: puts first.
BeforePutsFirst(u, w) == u.entry # None /\ w.entry = None

Before(u, w) ==
    \/ u.entry = None /\ w.entry # None
    \/ u.entry = None /\ w.entry = None /\ <<w.path, u.path>> \in Above
    \/ u.entry # None /\ w.entry # None /\ <<u.path, w.path>> \in Above

FirstOf(writes) == {w \in writes : \A u \in writes : ~Before(u, w)}

\* Mutant: the side is not checked at the write.
LandsUnchecked(side, w) == w.entry # None => Fits(disk[side], w.path)

\* The check at the write: the side holds what was expected, and no file
\* stands above or beneath.
Lands(side, w) ==
    /\ disk[side][w.path] = w.expect
    /\ w.entry # None => Fits(disk[side], w.path)

Written(side, w) ==
    /\ disk' = [disk EXCEPT ![side][w.path] = w.entry]
    /\ byActor' = [byActor EXCEPT ![side][w.path] = FALSE]

\* A write that misses, or fails, costs its path and nothing more.  The
\* script cut off may have written and not said so.
Carry(side, w) ==
    /\ left' = left \ {w}
    /\ \/ /\ Lands(side, w)
          /\ Written(side, w)
          /\ landed' = landed \cup {w}
          /\ UNCHANGED <<calm, budget>>
       \/ /\ ~Lands(side, w)
          /\ UNCHANGED <<disk, byActor, landed, calm, budget>>
       \/ /\ Lands(side, w)
          /\ Spend("fail")
          /\ calm' = FALSE
          /\ UNCHANGED <<disk, byActor, landed>>
       \/ /\ side = Checkout
          /\ Lands(side, w)
          /\ Spend("unsaid")
          /\ Written(side, w)
          /\ calm' = FALSE
          /\ UNCHANGED landed
    /\ UNCHANGED <<ignored, replaced, recordVars, snapRef, look, pc, answer,
                   snapshot, seen, observed, plan, orphan>>

Send == pc = "sending" /\ \E w \in FirstOf(left) : Carry(Checkout, w)

Sent ==
    /\ pc = "sending"
    /\ left = {}
    /\ pc' = "receiving"
    /\ left' = plan.toFolder
    /\ UNCHANGED <<sideVars, recordVars, snapRef, look, answer, snapshot, seen,
                   observed, plan, landed, orphan, calm, budget>>

Receive == pc = "receiving" /\ \E w \in FirstOf(left) : Carry(Folder, w)

\* One ref update, the last step of the pass.
Recorded(writes) ==
    /\ pc = "receiving"
    /\ left = {}
    /\ archive' = AsTree(Archived(observed, plan, writes))
    /\ observation' = [snapshot |-> snapshot,
                       wrote |-> landed \cap plan.toCheckout # {}]
    /\ Asks(plan.conflicts)
    /\ Forgotten
    /\ UNCHANGED <<sideVars, snapRef, orphan, calm, budget>>

\* Mutants: the archive recorded as planned; without what was sent.
RecordPlanned == Recorded(plan.toFolder \cup plan.toCheckout)
RecordReceived == Recorded(landed \cap plan.toFolder)

Record == Recorded(landed)

\* The process killed, the VM gone, an error on the way: nothing recorded.
\* A script already running in the VM may run on.  A killed process has
\* also forgotten what it asked.
Stop ==
    /\ pc # "idle"
    /\ Spend("stop")
    /\ orphan' \in {orphan, IF pc = "sending" THEN orphan \cup left ELSE orphan}
    /\ Forgotten
    /\ \/ asked' = {} /\ dialog' = {}
       \/ UNCHANGED <<asked, dialog>>
    /\ calm' = FALSE
    /\ UNCHANGED <<sideVars, archive, observation, snapRef>>

\* The script whose pass is gone takes its next write, or is cut off.
OrphanWrites ==
    \E w \in FirstOf(orphan) :
        /\ orphan' = orphan \ {w}
        /\ IF Lands(Checkout, w) THEN Written(Checkout, w)
                                 ELSE UNCHANGED <<disk, byActor>>
        /\ calm' = FALSE
        /\ UNCHANGED <<ignored, replaced, recordVars, snapRef, look, pc,
                       passVars, budget>>

-----------------------------------------------------------------------------
Actors ==
    \E side \in Side, p \in Path :
        \/ \E e \in Held : Edit(side, p, e)
        \/ ChangeRules(side, p)

Pass ==
    \/ BeginUnasked
    \/ \E side \in Side : BeginAnswered(side)
    \/ Resolving
    \/ Publish("pass")
    \/ Fetch
    \/ FetchStale
    \/ ReadFolder
    \/ Decide
    \/ Pause
    \/ Send
    \/ Sent
    \/ Receive
    \/ Record
    \/ Stop

Next == Actors \/ Pass \/ OrphanWrites \/ TurnEnds \/ Publish("turn") \/ TurnTaken

Spec == Init /\ [][Next]_vars

\* A pass goes on to its end unless something stops it, and while the two
\* sides are watched there is always another.
FairSpec ==
    /\ Spec
    /\ WF_vars(BeginUnasked)
    /\ WF_vars(Publish("pass"))
    /\ WF_vars(Fetch \/ FetchStale)
    /\ WF_vars(ReadFolder)
    /\ WF_vars(Decide)
    /\ WF_vars(Send \/ Sent)
    /\ WF_vars(Receive \/ Record)

-----------------------------------------------------------------------------
(* Properties.                                                             *)

TypeOK ==
    /\ disk \in [Side -> Copy]
    /\ ignored \in [Side -> SUBSET Path]
    /\ archive \in Copy
    /\ observation \in [snapshot : Commit, wrote : BOOLEAN]
    /\ snapRef \in Commit
    /\ look \in [Taker -> Look]
    /\ pc \in {"idle", "looking", "fetched", "read", "sending", "receiving"}
    /\ answer \in Resolve
    /\ snapshot \in Commit
    /\ pc \in {"fetched", "read", "sending", "receiving"} => snapshot \in Snapshot
    /\ \A t \in Taker : look[t].at = "done" => snapRef \in Snapshot
    /\ seen \in Copy
    /\ observed \in Observed
    /\ plan \in [toFolder : SUBSET Write, toCheckout : SUBSET Write,
                 agreed : SUBSET Path, forget : SUBSET Path,
                 conflicts : SUBSET Path]
    /\ left \subseteq Write
    /\ landed \subseteq Write
    /\ orphan \subseteq Write
    /\ asked \subseteq Path
    /\ dialog \subseteq Path
    /\ replaced \subseteq Path \X Entry
    /\ byActor \in [Side -> [Path -> BOOLEAN]]
    /\ calm \in BOOLEAN
    /\ budget \in [Kind -> Nat]

\* What may leave p: nothing at all, or a version somebody replaced.
Expendable(p, e) == e = None \/ <<p, e>> \in replaced

\* P1, P2, P10 as one promise, of which every step here is a step or none.
R == INSTANCE Reconcile WITH
         Place <- Path, Version <- Entry, Nothing <- None,
         copy <- disk, agreed <- archive, retired <- replaced

\* The pass, cut off or not, implements it.
Reconciles == R!Spec

\* SYNC.md, P1: no write of the sync takes a version away that no actor and
\* no answer of the user has replaced - wherever the pass stops, whatever
\* fails, and whatever the actors do between its look and its write.
NoVersionLost ==
    [][\A s \in Side, p \in Path :
           disk'[s][p] # disk[s][p] =>
               disk[s][p] = None \/ <<p, disk[s][p]>> \in replaced']_vars

\* P1 as SYNC.md words it: what the sync takes from one side, the other
\* still holds, or somebody had replaced.
HeldSomewhere ==
    [][\A s \in Side, p \in Path :
           disk'[s][p] # disk[s][p] =>
               \/ disk[s][p] = None
               \/ <<p, disk[s][p]>> \in replaced'
               \/ disk'[Other(s)][p] = disk[s][p]]_vars

\* P10: what the archive records is what both sides came to hold: a side
\* that holds something else at p has moved on from it.
ArchiveBacked ==
    \A s \in Side, p \in Path :
        disk[s][p] = archive[p] \/ Expendable(p, archive[p])

\* P5, P6: between passes, and until one is cut off, a side differs from
\* the archive only where an actor made the difference: the sync's own write
\* is never read as that side's change, to be sent back or asked about -
\* save a file that landed where an actor had just taken away the one beneath
\* it that the archive still names (AsTree).
NoEcho ==
    pc = "idle" /\ budget["stop"] = Budget["stop"] =>
        \A s \in Side, p \in Path :
            \/ byActor[s][p]
            \/ Visible(s)[p] = archive[p]
            \/ /\ archive[p] = None
               /\ \E q \in Path, e \in Entry :
                      <<p, q>> \in Above /\ <<q, e>> \in replaced

\* P6 as SYNC.md words it, with nothing saved.
NoEchoAtAll ==
    pc = "idle" /\ budget["stop"] = Budget["stop"] =>
        \A s \in Side, p \in Path : Visible(s)[p] # archive[p] => byActor[s][p]

\* P2, P6: whatever the user is asked about, actors made both versions of.
ConflictsAreActors ==
    pc = "sending" /\ landed = {} /\ left = plan.toCheckout =>
        \A p \in plan.conflicts : \A s \in Side :
            disk[s][p] # archive[p] => byActor[s][p]

\* P3, P4, P12: a pass nobody disturbed lands every write it planned, in
\* the order it takes them, and leaves the two sides and the archive agreed
\* at every path but those it asks about.
CalmMeansAgreed ==
    pc = "idle" /\ calm =>
        \A p \in Path \ asked : \A s \in Side : disk[s][p] = archive[p]

\* P4: the actors done, the two come to agree at every path nobody is asked
\* about, the archive with them.
Converges ==
    <>[](\A p \in Path : \/ p \in asked
                         \/ \A s \in Side : disk[s][p] = archive[p])

\* P4: and the passes come to plan no write.
Quiesces == <>[](plan.toFolder = {} /\ plan.toCheckout = {})

\* P1, P2: with nobody's word on p, the pass writes it only over what the
\* two last agreed on.
OnlyOverAgreed ==
    [][\A s \in Side, p \in Path :
           /\ disk'[s][p] # disk[s][p]
           /\ pc \in {"sending", "receiving"} /\ orphan' = orphan /\ ~byActor'[s][p]
           => p \in answer.paths \/ disk[s][p] = archive[p]]_vars

\* P2: "the answer writes only the paths it was about": those the question
\* the user answered named.
AnswerOnlyAsked ==
    [][pc = "idle" /\ pc' = "looking" => answer'.paths \subseteq dialog]_vars

\* P7: the pass never reads what the folder ignores as removed there: it
\* plans no removal in the checkout of a path on the folder's disk.
UnseenKept ==
    [][pc = "read" /\ pc' = "sending" =>
           \A w \in Removals(plan'.toCheckout) : disk[Folder][w.path] = None]_vars
=============================================================================
