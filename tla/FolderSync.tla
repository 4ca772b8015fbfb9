----------------------------- MODULE FolderSync -----------------------------
(***************************************************************************)
(* What starts the mirror's passes and what is said of them: the watches   *)
(* on the folder and on the checkout, the threads that wait out a burst,   *)
(* the lock under which passes run one at a time, and the counts a close   *)
(* and a publish read (crates/taste-devcontainer/src/supervisor.rs).  What *)
(* a pass does to the files is module Mirror's: here a side is a change it *)
(* holds and the other does not, and a pass carries what it saw of it.     *)
(* Commits are made in the checkout alone.                                 *)
(***************************************************************************)
EXTENDS Naturals

CONSTANT Budget     \* how often each thing that may keep happening happens

Kind == {"edit", "early", "commit", "err", "fail", "op", "death", "answer",
         "publish", "call", "stale", "late"}

ASSUME FolderSyncAssumption == Budget \in [Kind -> Nat]

Folder == "folder"
Checkout == "checkout"
Side == {Folder, Checkout}
Other(side) == IF side = Folder THEN Checkout ELSE Folder

Caller == {"sync", "turn", "publish", "answer"}
Depth == 0 .. 2

\* The trees a checkout's snapshots are: the one its ref names, the one a
\* turn's script has taken and the one the pass's has; and what may have moved
\* on in the checkout since each was taken.
Tree == {"ref", "turn", "pass"}
Newer == {"files", "head"}

VARIABLES
    dirty,      \* each side's change: none, seen by a pass, or new since
    clash,      \* the two changes are to one path
    operation,  \* the sides partway through a rebase, a merge or the like
    watched,    \* the sides whose changes a watch reports
    unheard,    \* the sides with a change their watch has yet to report
    pending,    \* the sides whose burst a thread is waiting out
    alive,      \* whether the VM's keeper answers
    trees,      \* what each snapshot's tree lacks
    turn,       \* the script of a snapshot that is not a pass's
    queue,      \* the threads about to run a pass
    pass,       \* the pass that holds folder_sync
    settled,    \* folder_settled = folder_changes
    conflict,   \* folder_conflicts holds some path
    told,       \* the badge says why the folder was left as it is
    publish,    \* the publish waiting on the sync
    commits,    \* the commits made in the checkout
    home,       \* those of them brought to the folder
    budget      \* what is left of Budget

sides == <<dirty, clash, operation>>
watch == <<watched, unheard, pending, alive>>
snapshots == <<trees, turn>>
vars == <<sides, watch, snapshots, queue, pass, settled, conflict, told, publish,
          commits, home, budget>>

\* seen: folder_changes has not moved since the pass read it; takes: the
\* sides whose change it carries over; keep: the user's answer; behind: it
\* goes by a snapshot against an older HEAD than that of the branches it
\* fetched.
NoPass == [step |-> "none", by |-> "sync", seen |-> FALSE, depth |-> 0,
           keep |-> {}, takes |-> {}, asks |-> FALSE, missed |-> FALSE,
           behind |-> FALSE]

\* passed: folder_passes has moved while the publish waits; called: the
\* commits there were then; alone: no pass was under way.
NoPublish == [at |-> "idle", passed |-> FALSE, called |-> 0, alone |-> FALSE]

Spend(kind) == /\ budget[kind] > 0
               /\ budget' = [budget EXCEPT ![kind] = @ - 1]

SpendAll(kinds) ==
    /\ \A kind \in kinds : budget[kind] > 0
    /\ budget' = [kind \in Kind |-> IF kind \in kinds THEN budget[kind] - 1 ELSE budget[kind]]

Free == pass.step = "none"

\* The trees somebody may yet go by.
Held == {"ref"} \cup {t \in {"turn"} : turn \in {"looked", "orphan"}}
                \cup {t \in {"pass"} : pass.step = "looking"}

\* The checkout has moved on from each.
Lack(what) ==
    trees' = [t \in Tree |-> trees[t] \cup {w \in {what} : t \in Held}]

\* folder_in_step
InStep == settled /\ ~conflict

-----------------------------------------------------------------------------
\* Placed, its pass made and, when that left nothing for another, settled;
\* the watches are not up yet.
Init ==
    /\ dirty = [s \in Side |-> "none"]
    /\ clash = FALSE
    /\ operation = {}
    /\ watched = {}
    /\ unheard = {}
    /\ pending = {}
    /\ alive = TRUE
    /\ trees = [t \in Tree |-> {}]
    /\ turn = "none"
    /\ queue = 0
    /\ pass = NoPass
    /\ settled \in BOOLEAN
    /\ conflict = FALSE
    /\ told = FALSE
    /\ publish = NoPublish
    /\ commits = 0
    /\ home = 0
    /\ budget = Budget

-----------------------------------------------------------------------------
(* The actors.                                                             *)

\* A file changed on one side, at the path of the other's change or at
\* another.
Edit(side) ==
    /\ Spend(IF side \in watched THEN "edit" ELSE "early")
    /\ dirty' = [dirty EXCEPT ![side] = "new"]
    /\ clash' \in (IF dirty[Other(side)] = "none" THEN {FALSE} ELSE BOOLEAN)
    /\ unheard' = unheard \cup ({side} \cap watched)
    /\ IF side = Checkout THEN Lack("files") ELSE UNCHANGED trees
    /\ UNCHANGED <<operation, watched, pending, alive, turn, queue, pass, settled,
                   conflict, told, publish, commits, home>>

\* A commit in the checkout: a ref moved, which its watch reports.
Commit ==
    /\ Spend("commit")
    /\ commits' = commits + 1
    /\ unheard' = unheard \cup ({Checkout} \cap watched)
    /\ Lack("head")
    /\ UNCHANGED <<sides, watched, pending, alive, turn, queue, pass, settled,
                   conflict, told, publish, home>>

Operate(side) ==
    /\ side \notin operation
    /\ Spend("op")
    /\ operation' = operation \cup {side}
    /\ UNCHANGED <<dirty, clash, watch, snapshots, queue, pass, settled, conflict,
                   told, publish, commits, home>>

\* The end of one moves a ref.  The checkout's watch reports that; the
\* folder's takes nothing in the folder's own .git for a change.
OperationEnds(side) ==
    /\ side \in operation
    /\ operation' = operation \ {side}
    /\ unheard' = unheard \cup ({side} \cap {Checkout} \cap watched)
    /\ UNCHANGED <<dirty, clash, watched, pending, alive, snapshots, queue, pass,
                   settled, conflict, told, publish, commits, home, budget>>

\* The keeper is gone, and with it the watch on the checkout and what it had
\* not said yet.  A turn's script runs on.
KeeperDies ==
    /\ alive
    /\ Spend("death")
    /\ alive' = FALSE
    /\ watched' = watched \ {Checkout}
    /\ unheard' = unheard \ {Checkout}
    /\ turn' = IF turn = "looked" THEN "orphan" ELSE turn
    /\ UNCHANGED <<sides, pending, trees, queue, pass, settled, conflict, told,
                   publish, commits, home>>

\* Placement's last step, or a keeper reconnected: both sides watched, and no
\* pass made.
SetKeeper ==
    /\ watched # Side
    /\ watched' = Side
    /\ alive' = TRUE
    /\ UNCHANGED <<sides, unheard, pending, snapshots, queue, pass, settled,
                   conflict, told, publish, commits, home, budget>>

-----------------------------------------------------------------------------
(* From a change to a pass.                                                *)

Heard(side) ==
    /\ side \in unheard
    /\ unheard' = unheard \ {side}
    /\ settled' = FALSE
    /\ pass' = [pass EXCEPT !.seen = FALSE]

\* Mutant: the burst's mark is kept until its pass is over, as by a thread
\* that clears it last.
ReportUnlessRunning(side) ==
    /\ Heard(side)
    /\ pending' = IF Free /\ queue = 0 THEN pending \cup {side} ELSE pending
    /\ UNCHANGED <<sides, watched, alive, snapshots, queue, conflict, told, publish,
                   commits, home, budget>>

\* A report counts the change, and starts a thread to wait the burst out
\* unless one is waiting already.
Report(side) ==
    /\ Heard(side)
    /\ pending' = pending \cup {side}
    /\ UNCHANGED <<sides, watched, alive, snapshots, queue, conflict, told, publish,
                   commits, home, budget>>

\* Quiet for two seconds: the mark is cleared, and then the pass asked for.
BurstOver(side) ==
    /\ side \in pending
    /\ pending' = pending \ {side}
    /\ queue' = queue + 1
    /\ UNCHANGED <<sides, watched, unheard, alive, snapshots, pass, settled,
                   conflict, told, publish, commits, home, budget>>

\* A turn's end, and every fifteen minutes: a snapshot, outside the passes'
\* lock, one at a time with the pass after it.  Its script takes the tree,
\* which is there already or is to be published.
TurnLooks ==
    /\ alive
    /\ watched # {}
    /\ turn = "none" /\ pass.by # "turn"
    /\ trees["ref"] # {}
    /\ turn' = "looked"
    /\ trees' = [trees EXCEPT !["turn"] = {}]
    /\ UNCHANGED <<sides, watch, queue, pass, settled, conflict, told, publish,
                   commits, home, budget>>

\* Its tree may be older than the ref's by then: a ref update that lost is
\* made again, the tree not taken again.  Between a pass's publishing and its
\* fetch the pass will go by it; that is bounded as stale.
Outdates == pass.step = "published" /\ ~(trees["turn"] \subseteq trees["ref"])

\* Published for nobody, it has no pass after it, and the next snapshot has
\* nothing to write; that is bounded as late.
Hides == turn = "orphan" /\ ~(trees["ref"] \subseteq trees["turn"])

\* Published, and a pass is to come after it, unless the ref names that tree
\* by now.
TurnPublishes ==
    /\ SpendAll({k \in {"stale"} : Outdates} \cup {k \in {"late"} : Hides})
    /\ trees' = [trees EXCEPT !["ref"] = trees["turn"], !["turn"] = {}]
    /\ \/ /\ turn = "looked" /\ trees["turn"] \cup trees["ref"] # {}
          /\ turn' = "waiting"
       \/ /\ turn = "orphan" \/ (turn = "looked" /\ trees["turn"] = trees["ref"])
          /\ turn' = "none"
    /\ UNCHANGED <<sides, watch, queue, pass, settled, conflict, told, publish,
                   commits, home>>

\* One whose keeper went may come to nothing.
OrphanEnds ==
    /\ turn = "orphan"
    /\ turn' = "none"
    /\ trees' = [trees EXCEPT !["turn"] = {}]
    /\ UNCHANGED <<sides, watch, queue, pass, settled, conflict, told, publish,
                   commits, home, budget>>

\* The tree after a commit or a switch, a VM about to stop, a close that
\* finds the two out of step.
Called ==
    /\ Spend("call")
    /\ queue' = queue + 1
    /\ UNCHANGED <<sides, watch, snapshots, pass, settled, conflict, told, publish,
                   commits, home>>

-----------------------------------------------------------------------------
(* The pass.                                                               *)

\* folder_changes is read under the lock, by the pass itself.
Starts(by, keep) ==
    /\ Free
    /\ watched # {}
    /\ pass' = [NoPass EXCEPT !.step = "begun", !.by = by, !.seen = (by # "answer"),
                              !.keep = keep]
    /\ told' = FALSE
    /\ UNCHANGED <<sides, watch, trees, settled, conflict, commits, home>>

Enter ==
    /\ queue > 0
    /\ queue' = queue - 1
    /\ Starts("sync", {})
    /\ UNCHANGED <<turn, publish, budget>>

TurnEnters ==
    /\ turn = "waiting"
    /\ turn' = "none"
    /\ Starts("turn", {})
    /\ UNCHANGED <<queue, publish, budget>>

\* The user's answer, to keep one side's.
Answer(side) ==
    /\ conflict
    /\ Spend("answer")
    /\ Starts("answer", {side})
    /\ UNCHANGED <<turn, queue, publish>>

\* folder_passes counts every pass but an answer's, whatever it came to.
Passed == /\ publish.at \in {"trying", "asking", "passing"}
          /\ publish.passed \/ pass.by # "answer"

Counted ==
    publish' = [publish EXCEPT
        !.passed = Passed,
        !.at = IF pass.by = "publish" /\ @ = "passing" THEN "fresh" ELSE @]

\* Mutant: the count is read when the pass is over.
DoneSettlesNow ==
    /\ pass' = NoPass
    /\ settled' = (settled \/ pass.by # "answer")
    /\ Counted

Done ==
    /\ pass' = NoPass
    /\ settled' = IF pass.by = "answer" THEN settled ELSE pass.seen
    /\ Counted

\* Partway through an operation on either side: the pass says so, and ends
\* as one that succeeded.
StandDown ==
    /\ pass.step = "begun"
    /\ operation # {}
    /\ Done
    /\ conflict' = FALSE
    /\ told' = TRUE
    /\ UNCHANGED <<sides, watch, snapshots, queue, commits, home, budget>>

\* The checkout's tree taken by the pass's own script, which is done when the
\* ref names it already;
LookCheckout ==
    /\ pass.step = "begun"
    /\ operation = {}
    /\ alive
    /\ pass' = [pass EXCEPT !.step = IF trees["ref"] = {} THEN "published" ELSE "looking"]
    /\ trees' = [trees EXCEPT !["pass"] = {}]
    /\ UNCHANGED <<sides, watch, turn, queue, settled, conflict, told, publish,
                   commits, home, budget>>

\* otherwise made the ref's, whatever was published meanwhile;
PublishSnapshot ==
    /\ pass.step = "looking"
    /\ alive
    /\ pass' = [pass EXCEPT !.step = "published"]
    /\ trees' = [trees EXCEPT !["ref"] = trees["pass"], !["pass"] = {}]
    /\ UNCHANGED <<sides, watch, turn, queue, settled, conflict, told, publish,
                   commits, home, budget>>

\* and then the ref fetched, with the branches.  What was changed since its tree is
\* not seen by it.
FetchCheckout ==
    /\ pass.step = "published"
    /\ alive
    /\ pass' = [pass EXCEPT !.step = "looked",
                            !.behind = "head" \in trees["ref"]]
    /\ dirty' = [dirty EXCEPT ![Checkout] =
                     IF @ = "none" THEN "none"
                     ELSE IF "files" \in trees["ref"] THEN "new" ELSE "seen"]
    /\ home' = commits
    /\ UNCHANGED <<clash, operation, watch, snapshots, queue, settled, conflict, told,
                   publish, commits, budget>>

\* Git partway through something in the folder by the time it is read.
Pause ==
    /\ pass.step = "looked"
    /\ Folder \in operation
    /\ Done
    /\ conflict' = FALSE
    /\ told' = TRUE
    /\ UNCHANGED <<sides, watch, snapshots, queue, commits, home, budget>>

\* A snapshot of another commit than the branch's tip, unless its tree is the
\* tip's: nothing is decided, and the pass ends as one that succeeded.
Stale ==
    /\ pass.step = "looked"
    /\ Folder \notin operation
    /\ pass.behind
    /\ Done
    /\ conflict' = FALSE
    /\ UNCHANGED <<sides, watch, snapshots, queue, told, commits, home, budget>>

\* The folder read, and every change seen decided: carried over, but for one
\* path changed on both sides, which is asked about - or answered for.
Reads(heard) ==
    /\ pass.step = "looked"
    /\ Folder \notin operation
    /\ LET now == [dirty EXCEPT ![Folder] = IF @ = "none" THEN "none" ELSE "seen"]
           seen == {s \in Side : now[s] = "seen"}
           both == clash /\ seen = Side
       IN /\ dirty' = now
          /\ pass' = [pass EXCEPT !.step = "sending",
                          !.takes = IF both THEN pass.keep ELSE seen,
                          !.asks = both /\ pass.keep = {}]
    /\ unheard' = unheard \cup heard
    /\ UNCHANGED <<clash, operation, watched, pending, alive, snapshots, queue,
                   settled, conflict, told, publish, commits, home, budget>>

\* Mutant: a read is taken for a change.
ReadFolderHeard == Reads({Folder} \cap watched)

ReadFolder == Reads({})

\* Every write checks its side: one to a path changed there since it was
\* looked at misses; any may fail, unheard of.  One that lands is a change
\* to that side's watch, as any other.
Carries(side) ==
    LET to == Other(side) IN
    \/ /\ ~(clash /\ dirty[to] = "new" /\ dirty[side] = "seen")
       /\ dirty' = [dirty EXCEPT
              ![side] = IF @ = "seen" THEN "none" ELSE @,
              ![to] = IF @ = "seen" /\ pass.keep = {side} /\ clash THEN "none" ELSE @]
       /\ clash' = (clash /\ \A s \in Side : dirty'[s] # "none")
       /\ unheard' = unheard \cup ({to} \cap watched)
       /\ IF to = Checkout THEN Lack("files") ELSE UNCHANGED trees
       /\ pass' = [pass EXCEPT !.takes = @ \ {side}]
       /\ UNCHANGED budget
    \/ /\ \/ clash /\ dirty[to] = "new" /\ UNCHANGED budget
          \/ Spend("fail")
       /\ pass' = [pass EXCEPT !.takes = @ \ {side}, !.missed = TRUE]
       /\ UNCHANGED <<dirty, clash, unheard, trees>>

\* The folder's changes to the checkout, then the checkout's to the folder.
Carry(side) ==
    /\ pass.step = "sending"
    /\ side \in pass.takes
    /\ side = Checkout => Folder \notin pass.takes
    /\ side = Folder => alive
    /\ Carries(side)
    /\ UNCHANGED <<operation, watched, pending, alive, turn, queue, settled, conflict,
                   told, publish, commits, home>>

\* After a write that missed, another pass at once, twice at most; otherwise
\* done, and nothing said of what missed.
Finish ==
    /\ pass.step = "sending"
    /\ pass.takes = {}
    /\ conflict' = pass.asks
    /\ IF pass.missed /\ pass.depth < 2
       THEN /\ pass' = [pass EXCEPT !.step = "begun", !.depth = @ + 1, !.keep = {},
                                    !.asks = FALSE, !.missed = FALSE]
            /\ UNCHANGED <<settled, publish>>
       ELSE Done
    /\ UNCHANGED <<sides, watch, snapshots, queue, told, commits, home, budget>>

\* The script of a pass that is over runs on.
LeavesScript ==
    IF pass.step = "looking" /\ turn = "none"
    THEN turn' = "orphan" /\ trees' = [trees EXCEPT !["turn"] = trees["pass"], !["pass"] = {}]
    ELSE trees' = [trees EXCEPT !["pass"] = {}] /\ UNCHANGED turn

\* An error on the way, or a keeper that does not answer: said on the badge,
\* and the count of what is settled left.
Fail ==
    /\ pass.step # "none"
    /\ \/ budget["err"] > 0
       \/ ~alive /\ (pass.step # "sending" \/ Folder \in pass.takes)
    /\ pass' = NoPass
    /\ publish' = [publish EXCEPT
           !.passed = Passed,
           !.at = IF pass.by = "publish" /\ @ = "passing" THEN "failed" ELSE @]
    /\ told' = TRUE
    /\ LeavesScript
    /\ UNCHANGED <<sides, watch, queue, settled, conflict, commits, home, budget>>

-----------------------------------------------------------------------------
(* A publish, which wants the checkout's branches home.                    *)

PublishCalls ==
    /\ publish.at = "idle"
    /\ watched # {}
    /\ Spend("publish")
    /\ publish' = [at |-> "trying", passed |-> FALSE, called |-> commits, alone |-> Free]
    /\ UNCHANGED <<sides, watch, snapshots, queue, pass, settled, conflict, told,
                   commits, home>>

\* Mutant: a free lock is enough.
PublishWaitedForNone ==
    /\ publish.at = "trying"
    /\ Free
    /\ publish' = [publish EXCEPT !.at = "fresh"]
    /\ UNCHANGED <<sides, watch, snapshots, queue, pass, settled, conflict, told,
                   commits, home, budget>>

\* The lock is free, and a pass has ended since: it brought them home.
PublishWaited ==
    /\ publish.at = "trying"
    /\ Free
    /\ publish.passed
    /\ publish' = [publish EXCEPT !.at = "fresh"]
    /\ UNCHANGED <<sides, watch, snapshots, queue, pass, settled, conflict, told,
                   commits, home, budget>>

\* Free, and none has: a pass of its own, behind any that gets in first.
PublishAsks ==
    /\ publish.at = "trying"
    /\ Free
    /\ ~publish.passed
    /\ publish' = [publish EXCEPT !.at = "asking"]
    /\ UNCHANGED <<sides, watch, snapshots, queue, pass, settled, conflict, told,
                   commits, home, budget>>

PublishEnters ==
    /\ publish.at = "asking"
    /\ publish' = [publish EXCEPT !.at = "passing"]
    /\ Starts("publish", {})
    /\ UNCHANGED <<turn, queue, budget>>

\* The wait is over: the publish goes on with what the folder has.  A pass
\* it asked for runs on.
PublishGivesUp ==
    /\ publish.at \in {"trying", "asking", "passing"}
    /\ queue' = IF publish.at = "asking" THEN queue + 1 ELSE queue
    /\ publish' = [NoPublish EXCEPT !.at = "stale"]
    /\ UNCHANGED <<sides, watch, snapshots, pass, settled, conflict, told, commits,
                   home, budget>>

-----------------------------------------------------------------------------
Actors ==
    \/ \E s \in Side : Edit(s) \/ Operate(s) \/ OperationEnds(s)
    \/ Commit
    \/ KeeperDies
    \/ SetKeeper
    \/ Called

Passes ==
    \/ \E s \in Side : Report(s) \/ BurstOver(s) \/ Answer(s) \/ Carry(s)
    \/ TurnLooks
    \/ TurnPublishes
    \/ OrphanEnds
    \/ Enter
    \/ TurnEnters
    \/ StandDown
    \/ LookCheckout
    \/ PublishSnapshot
    \/ FetchCheckout
    \/ Pause
    \/ Stale
    \/ ReadFolder
    \/ Finish
    \/ Fail

Publishes ==
    PublishCalls \/ PublishWaited \/ PublishAsks \/ PublishEnters \/ PublishGivesUp

Next == Actors \/ Passes \/ Publishes

Spec == Init /\ [][Next]_vars

\* Threads run on, a watch reports, a placement begun is finished and the
\* snapshot timer fires.  Nothing makes an actor act, an operation end or a
\* dead keeper come back.
FairSpec ==
    /\ Spec
    /\ \A s \in Side : WF_vars(Report(s)) /\ WF_vars(BurstOver(s))
    /\ WF_vars(watched = {} /\ SetKeeper)
    /\ WF_vars(TurnLooks) /\ WF_vars(TurnPublishes \/ OrphanEnds)
    /\ WF_vars(Enter \/ TurnEnters \/ PublishEnters)
    /\ WF_vars(StandDown \/ LookCheckout \/ PublishSnapshot \/ FetchCheckout)
    /\ WF_vars(Pause \/ Stale \/ ReadFolder)
    /\ WF_vars(Finish \/ \E s \in Side : Carry(s))
    /\ WF_vars(~alive /\ Fail)

-----------------------------------------------------------------------------
(* Properties.                                                             *)

Change == {"none", "seen", "new"}

PassType ==
    [step : {"none", "begun", "looking", "published", "looked", "sending"}, by : Caller,
     seen : BOOLEAN, depth : Depth, keep : SUBSET Side, takes : SUBSET Side,
     asks : BOOLEAN, missed : BOOLEAN, behind : BOOLEAN]

PublishType ==
    [at : {"idle", "trying", "asking", "passing", "fresh", "failed", "stale"},
     passed : BOOLEAN, called : Nat, alone : BOOLEAN]

TypeOK ==
    /\ dirty \in [Side -> Change]
    /\ clash \in BOOLEAN
    /\ operation \subseteq Side
    /\ watched \subseteq Side
    /\ unheard \subseteq Side
    /\ pending \subseteq Side
    /\ alive \in BOOLEAN
    /\ trees \in [Tree -> SUBSET Newer]
    /\ turn \in {"none", "looked", "waiting", "orphan"}
    /\ queue \in Nat
    /\ pass \in PassType
    /\ settled \in BOOLEAN
    /\ conflict \in BOOLEAN
    /\ told \in BOOLEAN
    /\ publish \in PublishType
    /\ commits \in Nat
    /\ home \in Nat
    /\ budget \in [Kind -> Nat]

\* folder_in_step (supervisor.rs): in step, with every change reported, means
\* neither side holds a change the other does not have - whatever passes
\* failed, were asked about or raced those changes.
InStepHonest ==
    InStep /\ unheard = {} => \A s \in Side : dirty[s] = "none"

\* SYNC.md, "Passes run when either side changes": every change comes to be
\* carried over, asked about, or left with the reason on the badge, as long
\* as the keeper answers.
CarriedOrTold ==
    \A s \in Side :
        []<>(dirty[s] = "none" \/ conflict \/ told \/ ~alive)

\* And "until one writes nothing": the sync's own writes, which its watches
\* report as they do any other, do not keep it going for ever.
Rests == <>[](Free /\ queue = 0 /\ turn # "waiting")

\* window.rs, the close: once a change has been reported, the workspace comes
\* to be in step and stays so while nothing more happens, so that its close
\* makes no pass - or it is known why not.
ComesInStep ==
    <>(pending # {}) => <>[](InStep \/ conflict \/ told \/ ~alive)

\* A publish called while no pass ran and told its branches are home finds
\* them as they were when it was called, or newer.
PublishAlone ==
    publish.at = "fresh" /\ publish.alone => home >= publish.called

\* sync_peer_for_publish: a pass waited out "brings them home too".
PublishFresh == publish.at = "fresh" => home >= publish.called
=============================================================================
