------------------------------ MODULE Position ------------------------------
(***************************************************************************)
(* The other half of a pass of the sync: where each side stands.  Branches *)
(* and HEAD of the folder and of Personal's checkout, the commits pushed   *)
(* in and followed out, switches, rewrites and detached HEADs              *)
(* (crates/taste-devcontainer/src/peer.rs: sync_primary_peer_pass and the  *)
(* scripts it runs in the VM; taste-git: mirror.rs, refs.rs, merge.rs).    *)
(* The files of the two working copies are module Mirror's: here the files *)
(* pass is one long step, during which anybody may act.                    *)
(*                                                                         *)
(* A commit is the set of the ids in its history, so an ancestor is a      *)
(* subset and "ahead" and "behind" are differences; no commit is {}.       *)
(***************************************************************************)
EXTENDS Naturals, FiniteSets

CONSTANTS
    Branch,
    Published,   \* the IDE's own branches, agents/...
    Id,          \* what tells commits apart
    None,        \* no position, no branch
    Budget       \* how often each thing that may keep happening happens

Folder == "folder"
Checkout == "checkout"
Side == {Folder, Checkout}
Kind == {"act", "fault"}
History == SUBSET Id
Commit == History \ {{}}

ASSUME PositionAssumption ==
    /\ Published \subseteq Branch
    /\ Id \subseteq Nat
    /\ None \notin Branch
    /\ \A h \in History : h \notin Branch /\ h # None
    /\ Budget \in [Kind -> Nat]

IsHead(h) == h \in Branch \/ h \in Commit
MayBeHead(h) == h = None \/ IsHead(h)

VARIABLES
    tip,        \* each side's branches
    head,       \* each side's HEAD: a branch, or the commit it is detached at
    op,         \* the branch each side is partway through a rebase of
    mover,      \* who wrote the newest reflog entry of the folder's branches
    fetched,    \* refs/taste/vm/*: the checkout's branches as last fetched
    pinned,     \* VM_HEAD: its detached HEAD
    recorded,   \* MIRROR_REF's position: HEAD and tip the two agreed on
    pc,
    base,       \* the commit the pass's snapshot was taken on
    there,      \* the checkout's HEAD as the pass read it
    on,         \* the folder's branch as the pass read it
    todo,       \* the fetched branches not yet decided
    unsettled,  \* commits moved in this pass, or could not
    push,       \* what a script in the VM was given
    follow,     \* the position the mirror is to bring the folder to
    note,       \* whether this pass has left something to say
    noted,      \* whether the last one did
    born,       \* ghost: ids of the commits made so far
    given,      \* ghost: ids somebody dropped, or risked in a race
    known,      \* ghost: ids the checkout has held
    budget

passVars == <<base, there, on, todo, unsettled, push, follow, note>>
sideVars == <<tip, head, op, mover>>
ghosts == <<born, given, known>>
vars == <<sideVars, fetched, pinned, recorded, pc, passVars, noted, ghosts, budget>>

NoPush == [to |-> None, commit |-> {}, expect |-> {}, here |-> None]
NoRecord == [head |-> None, tip |-> {}]

CommitOf(side, h) == IF h \in Branch THEN tip[side][h] ELSE h
CommitAt(side) == CommitOf(side, head[side])

\* A HEAD on a branch with no commit yet names no position.
CheckedOut(side) == IF CommitAt(side) = {} THEN None ELSE head[side]

Spend(kind) == /\ budget[kind] > 0
               /\ budget' = [budget EXCEPT ![kind] = @ - 1]

\* Personal begun from the folder on one branch, or the folder on a branch
\* with no commit yet.
Init ==
    /\ \E b \in Branch, root \in Id, unborn \in BOOLEAN :
        LET none == [c \in Branch |-> {}]
            only == [none EXCEPT ![b] = {root}]
        IN /\ \A i \in Id : root <= i
           /\ tip = [s \in Side |-> IF s = Folder /\ unborn THEN none ELSE only]
           /\ head = [s \in Side |-> b]
           /\ recorded \in {NoRecord} \cup
                  (IF unborn THEN {} ELSE {[head |-> b, tip |-> {root}]})
           /\ born = {root}
           /\ known = {root}
    /\ op = [s \in Side |-> None]
    /\ mover = [b \in Branch |-> "user"]
    /\ fetched = [b \in Branch |-> {}]
    /\ pinned = {}
    /\ pc = "idle"
    /\ base = {}
    /\ there = None
    /\ on = None
    /\ todo = {}
    /\ unsettled = FALSE
    /\ push = NoPush
    /\ follow = None
    /\ note = FALSE
    /\ noted = FALSE
    /\ given = {}
    /\ budget = Budget

-----------------------------------------------------------------------------
(* The actors: the user in the folder, agents in the checkout.             *)

\* Where the sync checks a side and then moves it, or records it, without
\* looking again: a script in the VM between its check and its move; the
\* folder from the mirror's check through its files pass to the record, and
\* from the push of a switch to the record of it.
Window(side) ==
    IF side = Checkout THEN pc = "checked"
    ELSE pc \in {"mirroring", "placed", "switching", "switched"}

\* The commits an act on a side puts at risk: what it leaves there in a
\* window, and in the folder under a detached HEAD or in the IDE's branches.
Risked(side, at, h) ==
    IF Window(side) \/ (side = Folder /\ h \notin Branch \ Published) THEN at ELSE {}

\* An act on a side: its branches, HEAD and rebase after it, the commit it
\* made and those it dropped.
Act(side, tips, h, rebased, made, dropped) ==
    /\ Spend("act")
    /\ tip' = [tip EXCEPT ![side] = tips]
    /\ head' = [head EXCEPT ![side] = h]
    /\ op' = [op EXCEPT ![side] = rebased]
    /\ mover' = [b \in Branch |->
           IF side = Folder /\ tips[b] # tip[Folder][b] THEN "user" ELSE mover[b]]
    /\ born' = born \cup made
    /\ given' = given \cup dropped
           \cup Risked(side, IF h \in Branch THEN tips[h] ELSE h, h)
    /\ known' = IF side = Checkout THEN known \cup made ELSE known
    /\ UNCHANGED <<fetched, pinned, recorded, pc, passVars, noted>>

Fresh(c) == c \in Id \ born /\ \A d \in Id \ born : c <= d

\* git commit, on a branch or on a detached HEAD.
Commits(side, c) ==
    LET grown == CommitAt(side) \cup {c} IN
    /\ op[side] = None /\ Fresh(c) /\ CommitAt(side) # {}
    /\ IF head[side] \in Branch
       THEN Act(side, [tip[side] EXCEPT ![head[side]] = grown], head[side], None, {c}, {})
       ELSE Act(side, tip[side], grown, None, {c}, {})

\* git commit --amend: c in the place of d.
Amends(side, d, c) ==
    LET b == head[side] IN
    /\ op[side] = None /\ Fresh(c)
    /\ b \in Branch
    /\ d \in tip[side][b] /\ tip[side][b] # {d}
    /\ Act(side, [tip[side] EXCEPT ![b] = (@ \ {d}) \cup {c}], b, None, {c}, {d})

\* git rebase: HEAD is detached at its base while it replays d, and then
\* the branch moved and HEAD back on it.
RebaseBegins(side, d) ==
    LET b == head[side] IN
    /\ op[side] = None
    /\ b \in Branch
    /\ d \in tip[side][b] /\ tip[side][b] # {d}
    /\ Act(side, tip[side], tip[side][b] \ {d}, b, {}, {})

RebaseEnds(side, c) ==
    LET b == op[side]
        rebased == CommitAt(side) \cup {c}
    IN /\ b # None /\ Fresh(c)
       /\ Act(side, [tip[side] EXCEPT ![b] = rebased], b, None, {c}, tip[side][b] \ rebased)

\* git switch, -c, --detach: leaving a detached HEAD leaves what no branch
\* holds behind.
Switches(side, h) ==
    LET tips == IF h \in Branch /\ tip[side][h] = {}
                THEN [tip[side] EXCEPT ![h] = CommitAt(side)] ELSE tip[side]
        left == CommitAt(side) \ (CommitOf(side, h) \cup UNION {tips[b] : b \in Branch})
    IN /\ op[side] = None /\ CommitAt(side) # {}
       /\ h # head[side]
       /\ Act(side, tips, h, None, {}, left)

-----------------------------------------------------------------------------
(* The pass: observing.                                                    *)

Goes(next) == pc' = next

Ends == Goes("idle") /\ noted' = note'

\* Either side partway through an operation: the pass stands down.
StandDown ==
    /\ pc = "idle"
    /\ \E s \in Side : op[s] # None
    /\ noted' = TRUE
    /\ UNCHANGED <<sideVars, fetched, pinned, recorded, pc, passVars, ghosts, budget>>

Look ==
    /\ pc = "idle"
    /\ \A s \in Side : op[s] = None
    /\ Goes("looked")
    /\ base' = CommitAt(Checkout)
    /\ there' = None /\ on' = None /\ follow' = None
    /\ unsettled' = FALSE /\ note' = FALSE
    /\ UNCHANGED <<sideVars, fetched, pinned, recorded, todo, push, noted, ghosts, budget>>

\* HEAD is read before the fetch.
ReadHead ==
    /\ pc = "looked"
    /\ Goes("headed")
    /\ there' = head[Checkout]
    /\ UNCHANGED <<sideVars, fetched, pinned, recorded, base, on, todo, unsettled, push,
                   follow, note, noted, ghosts, budget>>

\* The fetch takes no ref away.
Fetch ==
    /\ pc = "headed"
    /\ Goes("branches")
    /\ fetched' = [b \in Branch |-> IF tip[Checkout][b] # {} THEN tip[Checkout][b]
                                    ELSE fetched[b]]
    /\ pinned' = IF there \in Branch THEN pinned ELSE CommitAt(Checkout)
    /\ on' = IF head[Folder] \in Branch THEN head[Folder] ELSE None
    /\ todo' = {b \in Branch : fetched'[b] # {}}
    /\ UNCHANGED <<sideVars, recorded, base, there, unsettled, push, follow, note, noted,
                   ghosts, budget>>

-----------------------------------------------------------------------------
(* The pass: one branch after another.                                     *)

Mine(b) == tip[Folder][b]
Theirs(b) == fetched[b]
Ahead(b) == Mine(b) \ Theirs(b)
Behind(b) == Theirs(b) \ Mine(b)
Diverged(b) == Ahead(b) # {} /\ Behind(b) # {}

\* mirror_recorded_tip: where the two last agreed, when that was on b.
AgreedTip(b) == IF recorded.head = b THEN recorded.tip ELSE {}

UnmovedSinceMirror(b) == Mine(b) # {} /\ AgreedTip(b) = Mine(b)

MovedOnlyByIde(b) == Mine(b) # {} /\ mover[b] = "ide"

\* Mutant: moved whatever the folder holds in it.
FollowsElsewhereForced(b) == TRUE

\* A branch not checked out in the folder is moved here forward only, but
\* for the IDE's own and those the folder holds nothing of its own in.
FollowsElsewhere(b) ==
    \/ Mine(b) = {}
    \/ Ahead(b) = {}
    \/ b \in Published
    \/ MovedOnlyByIde(b)

\* The folder's rewrite goes only where the two last agreed.
SendsRewrite(b) == there = b /\ Diverged(b) /\ AgreedTip(b) = Theirs(b)

SendsElsewhere(b) ==
    there = b /\ Mine(b) # {} /\ (SendsRewrite(b) \/ (Ahead(b) # {} /\ Behind(b) = {}))

\* The mirror will move it: behind, or rewritten in the checkout with
\* nothing made here since the two last agreed.
LeftToMirror(b) ==
    /\ there \in Branch
    /\ Ahead(b) = {} \/ (Behind(b) # {} /\ (UnmovedSinceMirror(b) \/ MovedOnlyByIde(b)))

SendsCurrent(b) ==
    ~LeftToMirror(b) /\ Ahead(b) # {} /\ (Behind(b) = {} \/ SendsRewrite(b))

FolderMoves(b, commit, by) ==
    /\ tip' = [tip EXCEPT ![Folder][b] = commit]
    /\ mover' = [mover EXCEPT ![b] = IF Mine(b) = commit THEN @ ELSE by]
    /\ UNCHANGED <<head, op>>

Stays == UNCHANGED sideVars

Says(something) == note' = (note \/ something)

\* What the branch needs, in the order the code tries its cases.
DecidesElsewhere(b) ==
    /\ on # b /\ ~SendsElsewhere(b)
    /\ UNCHANGED unsettled
    /\ IF FollowsElsewhere(b) THEN FolderMoves(b, Theirs(b), "ide") /\ Says(FALSE)
                              ELSE Stays /\ Says(TRUE)

\* Its first commit; nothing, the mirror moving it; a fast-forward of a
\* clean folder, under a detached checkout; or a divergence said.
DecidesCurrent(b) ==
    /\ on = b
    /\ \/ /\ Mine(b) = {}
          /\ FolderMoves(b, Theirs(b), "ide") /\ Says(FALSE) /\ UNCHANGED unsettled
       \/ /\ Mine(b) # {} /\ LeftToMirror(b)
          /\ Stays /\ Says(FALSE) /\ UNCHANGED unsettled
       \/ /\ Mine(b) # {} /\ Ahead(b) = {} /\ ~LeftToMirror(b)
          /\ \/ head[Folder] = b /\ FolderMoves(b, Theirs(b), "user") /\ Says(FALSE)
             \/ Stays /\ Says(TRUE)
          /\ UNCHANGED unsettled
       \/ /\ Diverged(b) /\ ~LeftToMirror(b) /\ ~SendsRewrite(b)
          /\ Stays /\ Says(TRUE) /\ unsettled' = TRUE

Decides(b) ==
    /\ pc = "branches"
    /\ b \in todo
    /\ todo' = todo \ {b}
    /\ \/ Mine(b) = Theirs(b) /\ Stays /\ UNCHANGED <<note, unsettled>>
       \/ Mine(b) # Theirs(b) /\ (DecidesElsewhere(b) \/ DecidesCurrent(b))
    /\ UNCHANGED <<fetched, pinned, recorded, pc, base, there, on, push, follow, noted,
                   ghosts, budget>>

\* The folder's branch, as it is by now, staged in the checkout.
Sends(b) ==
    /\ pc = "branches"
    /\ b \in todo
    /\ Mine(b) \notin {{}, Theirs(b)}
    /\ IF on = b THEN SendsCurrent(b) ELSE SendsElsewhere(b)
    /\ Goes("staged")
    /\ todo' = todo \ {b}
    /\ unsettled' = TRUE
    /\ push' = [to |-> b, commit |-> Mine(b), here |-> None,
                expect |-> IF Diverged(b) THEN Theirs(b) ELSE {}]
    /\ UNCHANGED <<sideVars, fetched, pinned, recorded, base, there, on, follow, note,
                   noted, ghosts, budget>>

-----------------------------------------------------------------------------
(* SYNC_SCRIPT, in the checkout.                                           *)

\* A rewrite only from where the two last agreed; else only forward.
MayArrive ==
    LET now == tip[Checkout][push.to] IN
    now # {} /\ IF push.expect # {} THEN now = push.expect ELSE now \subseteq push.commit

PassGoesOn == UNCHANGED <<fetched, pinned, recorded, base, there, on, todo, unsettled,
                          follow, noted>>

Refused ==
    /\ Goes("branches")
    /\ push' = NoPush
    /\ Says(TRUE)
    /\ UNCHANGED <<sideVars, ghosts>>

ScriptChecks ==
    /\ pc = "staged"
    /\ IF MayArrive
       THEN /\ Goes("checked")
            /\ push' = [push EXCEPT !.here = head[Checkout]]
            /\ UNCHANGED <<sideVars, ghosts, note>>
       ELSE Refused
    /\ PassGoesOn /\ UNCHANGED budget

\* A branch of the checkout, or its HEAD, at the commit pushed.
CheckoutMoves(h) ==
    /\ tip' = IF h \in Branch THEN [tip EXCEPT ![Checkout][h] = push.commit] ELSE tip
    /\ head' = IF h \in Branch THEN head ELSE [head EXCEPT ![Checkout] = push.commit]
    /\ known' = known \cup push.commit
    /\ UNCHANGED <<op, mover, born, given>>

\* The branch not checked out there: the ref alone, compared and swapped
\* only for a rewrite.
ArrivesElsewhere ==
    /\ push.here # push.to
    /\ push.expect # {} => tip[Checkout][push.to] = push.expect
    /\ CheckoutMoves(push.to)

\* Checked out: git reset where the files are the same, onto whatever HEAD
\* names; the rewrite's own branch, by update-ref; or a fast-forward, which
\* looks again.
ArrivesHere ==
    /\ push.here = push.to
    /\ \/ CheckoutMoves(head[Checkout])
       \/ push.expect # {} /\ CheckoutMoves(push.to)
       \/ /\ push.expect = {} /\ CommitAt(Checkout) \subseteq push.commit
          /\ CheckoutMoves(head[Checkout])

\* Mutant: the script ends well having moved nothing.
ScriptMovesNot ==
    /\ pc = "checked"
    /\ Goes("branches")
    /\ push' = NoPush
    /\ UNCHANGED <<sideVars, ghosts, note, budget>>
    /\ PassGoesOn

ScriptMoves ==
    /\ pc = "checked"
    /\ \/ /\ ArrivesElsewhere \/ ArrivesHere
          /\ Goes("branches")
          /\ push' = NoPush
          /\ UNCHANGED <<note, budget>>
       \/ \* Git would not, over a file of the checkout's own.
          /\ push.here = push.to /\ Spend("fault") /\ Refused
       \/ \* The swap found another tip.
          /\ push.here # push.to /\ push.expect \notin {{}, tip[Checkout][push.to]}
          /\ Refused /\ UNCHANGED budget
    /\ PassGoesOn

-----------------------------------------------------------------------------
(* Following a switch.                                                     *)

FolderSwitched ==
    LET here == CheckedOut(Folder) IN
    here # None /\ recorded # NoRecord /\ here \notin {there, recorded.head}

Follows(h) == follow' = h /\ Goes("settle")

\* The folder's switch goes to Personal, where Personal has not moved; both
\* having moved is said; and else the folder follows.
FollowHead ==
    /\ pc = "branches"
    /\ todo = {}
    /\ \/ /\ FolderSwitched /\ there = recorded.head
          /\ Goes("switching")
          /\ push' = [to |-> head[Folder], commit |-> CommitAt(Folder), expect |-> {},
                      here |-> there]
          /\ UNCHANGED <<follow, note>>
       \/ /\ FolderSwitched /\ there # recorded.head
          /\ Follows(there) /\ Says(TRUE) /\ UNCHANGED push
       \/ /\ ~FolderSwitched
          /\ Follows(there) /\ UNCHANGED <<push, note>>
    /\ UNCHANGED <<sideVars, fetched, pinned, recorded, base, there, on, todo, unsettled,
                   noted, ghosts, budget>>

\* SWITCH_SCRIPT: over nothing of Personal's own.
MaySwitch ==
    /\ head[Checkout] = push.here
    /\ push.to \in Branch => tip[Checkout][push.to] \subseteq push.commit

\* Mutant: the script's refusal is not seen.
SwitchScriptUnseen ==
    /\ pc = "switching"
    /\ Goes("switched")
    /\ UNCHANGED <<sideVars, ghosts, push, follow, note, budget>>
    /\ UNCHANGED <<fetched, pinned, recorded, base, there, on, todo, unsettled, noted>>

SwitchScript ==
    /\ pc = "switching"
    /\ \/ /\ MaySwitch
          /\ Goes("switched")
          /\ tip' = IF push.to \in Branch THEN [tip EXCEPT ![Checkout][push.to] = push.commit]
                                          ELSE tip
          /\ head' = [head EXCEPT ![Checkout] = push.to]
          /\ known' = known \cup push.commit
          /\ UNCHANGED <<op, mover, born, given, push, follow, note, budget>>
       \/ /\ \/ ~MaySwitch /\ UNCHANGED budget
             \/ MaySwitch /\ Spend("fault")   \* uncommitted changes
          /\ Follows(there) /\ Says(TRUE)
          /\ push' = NoPush
          /\ UNCHANGED <<sideVars, ghosts>>
    /\ UNCHANGED <<fetched, pinned, recorded, base, there, on, todo, unsettled, noted>>

\* record_switch reads the folder's branch as it is by then.
RecordSwitch ==
    /\ pc = "switched"
    /\ recorded' = [head |-> push.to, tip |-> CommitOf(Folder, push.to)]
    /\ unsettled' = TRUE
    /\ push' = NoPush
    /\ Follows(push.to)
    /\ UNCHANGED <<sideVars, fetched, pinned, base, there, on, todo, note, noted, ghosts,
                   budget>>

-----------------------------------------------------------------------------
(* The mirror.                                                             *)

Target == IF follow \in Branch THEN fetched[follow] ELSE follow

\* Commits of the folder's own in its copy of the branch.
HoldsUnshared ==
    /\ follow \in Branch
    /\ Mine(follow) \notin {{}, Target}
    /\ ~UnmovedSinceMirror(follow) /\ ~MovedOnlyByIde(follow)
    /\ Ahead(follow) # {}

SwitchedHere ==
    /\ follow \in Branch /\ recorded # NoRecord
    /\ head[Folder] \in Branch \ {follow, recorded.head}

\* The fetch brought the tip.
HasTarget == IF follow \in Branch THEN Target # {} ELSE pinned = follow

Mirrors == /\ ~unsettled /\ HasTarget
           /\ ~HoldsUnshared /\ op[Folder] = None /\ ~SwitchedHere

\* The mirror's checks, before its files: a snapshot of another commit is
\* stale, unless its files are that commit's.
Settle ==
    /\ pc = "settle"
    /\ \/ /\ Mirrors
          /\ Goes("mirroring")
          /\ UNCHANGED <<note, noted>>
       \/ /\ Mirrors /\ base # Target
          /\ Says(FALSE) /\ Ends
       \/ /\ ~Mirrors
          /\ Says(~unsettled /\ HasTarget) /\ Ends
    /\ UNCHANGED <<sideVars, fetched, pinned, recorded, base, there, on, todo, unsettled,
                   push, follow, ghosts, budget>>

\* Mutant: on the branch is taken for at its tip.
AtTargetByName == head[Folder] = follow

AtTarget ==
    /\ CommitAt(Folder) = Target
    /\ head[Folder] = follow \/ {head[Folder], follow} \cap Branch = {}

\* The files done: the branch and HEAD, forced.
Place ==
    /\ pc = "mirroring"
    /\ Goes("placed")
    /\ IF AtTarget THEN Stays
       ELSE /\ head' = [head EXCEPT ![Folder] = follow]
            /\ IF follow \in Branch
               THEN /\ tip' = [tip EXCEPT ![Folder][follow] = Target]
                    /\ mover' = [mover EXCEPT ![follow] =
                           IF Mine(follow) = Target THEN @ ELSE "ide"]
               ELSE UNCHANGED <<tip, mover>>
            /\ UNCHANGED op
    /\ UNCHANGED <<fetched, pinned, recorded, passVars, noted, ghosts, budget>>

\* The tip recorded is the branch's as it is by then.
Record ==
    /\ pc = "placed"
    /\ recorded' = [head |-> follow,
                    tip |-> IF follow \in Branch THEN Mine(follow) ELSE follow]
    /\ Says(FALSE) /\ Ends
    /\ UNCHANGED <<sideVars, fetched, pinned, base, there, on, todo, unsettled, push,
                   follow, ghosts, budget>>

\* The process gone, or an error: the rest of the pass is not done.
Stop ==
    /\ pc # "idle"
    /\ Spend("fault")
    /\ Goes("idle")
    /\ todo' = {} /\ push' = NoPush
    /\ noted' = TRUE
    /\ UNCHANGED <<sideVars, fetched, pinned, recorded, base, there, on, unsettled, follow,
                   note, ghosts>>

-----------------------------------------------------------------------------
Actors ==
    \E s \in Side :
        \/ \E c \in Id : Commits(s, c) \/ RebaseEnds(s, c)
        \/ \E c, d \in Id : Amends(s, d, c)
        \/ \E d \in Id : RebaseBegins(s, d)
        \/ \E h \in Branch \cup {CommitAt(s)} : Switches(s, h)

Pass ==
    \/ StandDown
    \/ Look
    \/ ReadHead
    \/ Fetch
    \/ \E b \in Branch : Decides(b) \/ Sends(b)
    \/ ScriptChecks
    \/ ScriptMoves
    \/ FollowHead
    \/ SwitchScript
    \/ RecordSwitch
    \/ Settle
    \/ Place
    \/ Record

Next == Actors \/ Pass \/ Stop

Spec == Init /\ [][Next]_vars

\* Passes follow one another while the two sides are watched, and go on to
\* their end unless something stops them.
FairSpec == Spec /\ WF_vars(Pass)

-----------------------------------------------------------------------------
(* Properties.                                                             *)

TypeOK ==
    /\ tip \in [Side -> [Branch -> History]]
    /\ DOMAIN head = Side /\ \A s \in Side : IsHead(head[s])
    /\ op \in [Side -> Branch \cup {None}]
    /\ mover \in [Branch -> {"ide", "user"}]
    /\ fetched \in [Branch -> History]
    /\ pinned \in History
    /\ MayBeHead(recorded.head) /\ recorded.tip \in History
    /\ pc \in {"idle", "looked", "headed", "branches", "staged", "checked",
              "switching", "switched", "settle", "mirroring", "placed"}
    /\ base \in History
    /\ MayBeHead(there) /\ MayBeHead(follow)
    /\ on \in Branch \cup {None}
    /\ todo \subseteq Branch
    /\ DOMAIN push = {"to", "commit", "expect", "here"}
    /\ MayBeHead(push.to) /\ MayBeHead(push.here)
    /\ push.commit \in History /\ push.expect \in History
    /\ {unsettled, note, noted} \subseteq BOOLEAN
    /\ born \subseteq Id /\ given \subseteq Id /\ known \subseteq Id
    /\ budget \in [Kind -> Nat]

Holds(side) == CommitAt(side) \cup UNION {tip[side][b] : b \in Branch}

\* P1, of commits ("in a commit a branch reaches on either side"): what
\* anybody commits stays in a branch, or under a HEAD, of one side or the
\* other, but for what an actor dropped or committed in a window.
NoCommitLost == born \ given \subseteq Holds(Folder) \cup Holds(Checkout)

\* mirror_recorded_tip, "the point both sides last agreed on": Personal has
\* held every commit the record takes for agreed.
AgreedWasShared == recorded.tip \ given \subseteq known

InAgreement ==
    /\ head[Folder] = head[Checkout] /\ CommitAt(Folder) = CommitAt(Checkout)
    /\ recorded = [head |-> head[Folder], tip |-> CommitAt(Folder)]

\* P4, of positions: the actors done, the two come to stand on one branch
\* at one commit and that is recorded, or every pass says why not.
Meets == <>[](InAgreement \/ noted)

\* And passes come to move nothing, and to push no commit.
StandsStill == <>[][UNCHANGED <<sideVars, recorded>> /\ pc' # "checked"]_vars

\* SYNC.md: "both having moved, differently, is a conflict, said rather
\* than settled", and "Working copies are synced only in a pass that finds
\* the positions agreeing": no mirror begins over a folder whose HEAD the
\* user moved since, to where Personal is not.
MirrorsInAgreement ==
    [][pc = "settle" /\ pc' = "mirroring" =>
           recorded = NoRecord \/ head[Folder] \in {recorded.head, follow}]_vars
=============================================================================
