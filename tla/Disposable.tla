----------------------------- MODULE Disposable -----------------------------
(***************************************************************************)
(* A workspace's VM between its windows: the marker that says its disk     *)
(* holds nothing this machine lacks, the shutdown a close defers and the   *)
(* look it takes again first, a relaunch, and another IDE that clears      *)
(* marked VMs for room (crates/taste-devcontainer/src/disposable.rs,       *)
(* provision.rs, peer.rs: give_checkout_the_folder; taste-app: window.rs). *)
(*                                                                         *)
(* Work is what is written in the VM, of which this machine comes to hold  *)
(* a copy when a sync passes it over.  Several processes take part: the    *)
(* workspace's window, its shutdown's sleeper, which outlives it, the      *)
(* re-check that one runs, which may outlive it in turn, what runs in the  *)
(* VM's containers, and the other IDE.                                     *)
(***************************************************************************)
EXTENDS Naturals, FiniteSets

CONSTANTS
    Work,
    None,
    Budget      \* how often each thing that may keep happening happens

Kind == {"open", "move", "clear", "fault", "slip"}

ASSUME DisposableAssumption ==
    /\ Work \subseteq Nat
    /\ \A s \in SUBSET Work : s # None
    /\ Budget \in [Kind -> Nat]

VARIABLES
    vm,         \* the domain: up, on its way down, off, or destroyed
    containers, \* whether what the project runs in the VM is running
    disk,       \* the work in the VM's checkouts
    here,       \* the work in the repositories of this machine
    marked,     \* <domain>.disposable, naming this disk
    recheck,    \* <domain>.recheck: what the close saw, to be seen again
    window,     \* what the workspace's window is doing
    clean,      \* CLEAN_RETURNS holds the VM
    slow,       \* the close waits for a move, past the shutdown's grace
    seen,       \* what a close's look has seen
    sleeper,    \* the deferred shutdown
    check,      \* the re-check's script: where it is
    expects,    \* what it is to see
    agrees,     \* whether it has seen just that
    clearer,    \* how far another IDE is with removing the VM
    born,       \* ghost: work written so far
    unsure,     \* ghost: who goes by a marker whose re-check had still to come,
                \* or by one withdrawn since
    given,      \* ghost: work that went so
    budget

vmVars == <<vm, containers, disk, here>>
markVars == <<marked, recheck>>
windowVars == <<window, clean, slow, seen>>
checkVars == <<check, expects, agrees>>
sleeperVars == <<sleeper, checkVars>>
ghosts == <<born, unsure, given>>
vars == <<vmVars, markVars, windowVars, sleeperVars, clearer, ghosts, budget>>

Opening == {"opening", "noted", "withdrawing", "withdrawn", "cancelled", "up"}
Closing == {"closing", "synced", "looked", "marking", "keeping"}

Spend(kinds) == /\ \A k \in kinds : budget[k] > 0
                /\ budget' = [k \in Kind |-> IF k \in kinds THEN budget[k] - 1 ELSE budget[k]]

\* What leaves a marker standing without the re-check it was to have, which
\* nothing confirms and everybody goes by.  Each is bounded, and how it comes
\* about is said where it does.
Slips(how) == IF how THEN {"slip"} ELSE {}

Init ==
    /\ vm = "off" /\ containers = FALSE
    /\ disk = {} /\ here = {}
    /\ marked = FALSE /\ recheck = None
    /\ window = "closed" /\ clean = FALSE /\ slow = FALSE /\ seen = {}
    /\ sleeper = "none"
    /\ check = "none" /\ expects = None /\ agrees = FALSE
    /\ clearer = "idle"
    /\ born = {} /\ unsure = {} /\ given = {}
    /\ budget = Budget

Up == vm \in {"running", "stopping"}

Unconfirmed == marked /\ recheck # None

\* Between the two files: the marker written and its re-check still to be, or
\* the re-check removed and the marker still to be.
Between == window \in {"marking", "withdrawing", "keeping"}

-----------------------------------------------------------------------------
(* What runs in the VM, and the VM itself.                                 *)

\* An agent's job, a server, a build: from when the environment is started
\* to when its container is stopped, whether a window is open or not.
Writes(w) ==
    /\ Up /\ containers
    /\ w \in Work \ born /\ \A v \in Work \ born : w <= v
    /\ disk' = disk \cup {w}
    /\ born' = born \cup {w}
    /\ UNCHANGED <<vm, containers, here, markVars, windowVars, sleeperVars, clearer, unsure,
                   given, budget>>

GoesOff ==
    /\ vm = "stopping"
    /\ vm' = "off" /\ containers' = FALSE
    /\ UNCHANGED <<disk, here, markVars, windowVars, sleeperVars, clearer, ghosts, budget>>

\* The host restarted, with nobody asked.
HostRestarts ==
    /\ Spend({"fault"} \cup Slips(Between /\ marked))
    /\ vm' = IF vm = "gone" THEN vm ELSE "off"
    /\ containers' = FALSE
    /\ window' = "closed" /\ clean' = FALSE /\ slow' = FALSE /\ seen' = {}
    /\ sleeper' = "none" /\ check' = "none" /\ expects' = None /\ agrees' = FALSE
    /\ clearer' = "idle"
    /\ UNCHANGED <<disk, here, markVars, ghosts>>

-----------------------------------------------------------------------------
(* The window: opening.                                                    *)

WindowTo(from, to) == window = from /\ window' = to

\* The supervision lock is taken as the window opens, and held while it is.
Opens ==
    /\ WindowTo("closed", "opening")
    /\ Spend({"open"})
    /\ clean' = FALSE /\ slow' = FALSE
    /\ unsure' = (unsure \ {"return"}) \cup (IF clearer = "judged" THEN {"clear"} ELSE {})
    /\ UNCHANGED <<vmVars, markVars, seen, sleeperVars, clearer, born, given>>

\* create: the window's VM cleared by another, a new one is made.
MakesVm ==
    /\ window = "opening" /\ vm = "gone"
    /\ vm' = "off" /\ disk' = here
    /\ recheck' = None
    /\ UNCHANGED <<containers, here, marked, windowVars, sleeperVars, clearer, ghosts, budget>>

\* bring_up, one step after another.
NotesReturn ==
    /\ vm # "gone"
    /\ WindowTo("opening", "noted")
    /\ clean' = (clean \/ marked)
    /\ unsure' = IF Unconfirmed THEN unsure \cup {"return"} ELSE unsure
    /\ UNCHANGED <<vmVars, markVars, slow, seen, sleeperVars, clearer, born, given, budget>>

\* withdraw: the re-check goes first, and then the marker, which may not go:
\* that is warned of, and no more.
RemovesRecheck ==
    /\ recheck' = None
    /\ UNCHANGED <<vmVars, marked, clean, slow, seen, sleeperVars, clearer, ghosts, budget>>

RemovesMarker ==
    /\ \/ marked' = FALSE /\ UNCHANGED budget
       \/ marked /\ UNCHANGED marked /\ Spend({"slip"})
    /\ UNCHANGED <<vmVars, recheck, clean, slow, seen, sleeperVars, clearer, ghosts>>

WithdrawsRecheck == WindowTo("noted", "withdrawing") /\ RemovesRecheck

WithdrawsMarker == WindowTo("withdrawing", "withdrawn") /\ RemovesMarker

\* Mutant: the pin is removed, its process left.
CancelsThePin ==
    /\ WindowTo("withdrawn", "cancelled")
    /\ UNCHANGED <<vmVars, markVars, clean, slow, seen, sleeperVars, clearer, ghosts, budget>>

\* Its process group is killed.  The re-check it may be running is not of that
\* group, for `timeout` makes one of its own, and runs on.
CancelsShutdown ==
    /\ WindowTo("withdrawn", "cancelled")
    /\ sleeper' = "none"
    /\ UNCHANGED <<vmVars, markVars, clean, slow, seen, checkVars, clearer, ghosts, budget>>

\* A VM going down is waited out.
BringsUp ==
    /\ vm \in {"running", "off"}
    /\ WindowTo("cancelled", "up")
    /\ vm' = "running"
    /\ UNCHANGED <<containers, disk, here, markVars, clean, slow, seen, sleeperVars, clearer,
                   ghosts, budget>>

\* ensure_running: the last window's shutdown landed, once more from the top.
BringsUpAgain ==
    /\ vm # "running"
    /\ window \in {"cancelled", "up"} /\ (window = "cancelled" => vm = "gone")
    /\ window' = "opening"
    /\ UNCHANGED <<vmVars, markVars, clean, slow, seen, sleeperVars, clearer, ghosts, budget>>

\* place's sync of a checkout already there.  Back still marked, Personal is
\* first made the folder's, whole: what the folder lacks goes.
Places ==
    /\ vm = "running"
    /\ WindowTo("up", "open")
    /\ clean' = FALSE
    /\ IF clean THEN disk' = here /\ UNCHANGED here
                ELSE here' = here \cup disk /\ UNCHANGED disk
    /\ containers' = TRUE
    /\ given' = IF clean /\ "return" \in unsure THEN given \cup (disk \ here) ELSE given
    /\ UNCHANGED <<vm, markVars, slow, seen, sleeperVars, clearer, born, unsure, budget>>

-----------------------------------------------------------------------------
(* The window: open, and closing.                                          *)

Syncs ==
    /\ Up /\ window = "open"
    /\ here' = here \cup disk
    /\ UNCHANGED <<vm, containers, disk, markVars, windowVars, sleeperVars, clearer, ghosts,
                   budget>>

\* The shutdown is deferred first: an earlier sleeper is cancelled, and the
\* new one has its grace from here.
CloseBegins ==
    /\ WindowTo("open", "closing")
    /\ sleeper' = "sleeping"
    /\ \/ slow' = FALSE /\ UNCHANGED budget
       \/ slow' = TRUE /\ Spend({"move"})
    /\ UNCHANGED <<vmVars, markVars, clean, seen, checkVars, clearer, ghosts>>

\* The one pass a close makes, which may not come to its end in its time.
LastSync ==
    /\ WindowTo("closing", "synced")
    /\ \/ Up /\ here' = here \cup disk
       \/ UNCHANGED here
    /\ UNCHANGED <<vm, containers, disk, markVars, clean, slow, seen, sleeperVars, clearer,
                   ghosts, budget>>

\* mark_workspace_vms looks at the VMs that run, as they run.
Looks ==
    /\ vm \in {"running", "stopping"}
    /\ WindowTo("synced", "looked")
    /\ seen' = disk
    /\ UNCHANGED <<vmVars, markVars, clean, slow, sleeperVars, clearer, ghosts, budget>>

\* look_and_mark: marked when nothing seen is missing here.
Marks ==
    /\ seen \subseteq here /\ vm # "gone"
    /\ WindowTo("looked", "marking")
    /\ marked' = TRUE
    /\ UNCHANGED <<vmVars, recheck, clean, slow, seen, sleeperVars, clearer, ghosts, budget>>

\* And then the re-check of it, left for the sleeper; or it cannot be written.
LeavesRecheck ==
    /\ WindowTo("marking", "closed")
    /\ \/ recheck' = seen /\ UNCHANGED budget
       \/ UNCHANGED recheck /\ Spend({"fault", "slip"})
    /\ UNCHANGED <<vmVars, marked, clean, slow, seen, sleeperVars, clearer, ghosts>>

\* Something missing, or a look that did not come back: withdrawn, in its two
\* steps.
Keeps ==
    /\ window \in {"synced", "looked"} /\ Up
    /\ window' = "keeping"
    /\ RemovesRecheck

KeepsUnmarked == WindowTo("keeping", "closed") /\ RemovesMarker

\* Close Now, or no VM that runs to look at.
ClosesNow ==
    /\ window \in Closing
    /\ window' = "closed"
    /\ Spend(Slips(Between /\ marked))
    /\ UNCHANGED <<vmVars, markVars, clean, slow, seen, sleeperVars, clearer, ghosts>>

\* The process gone, with no close: the VM runs on.
Dies ==
    /\ window # "closed"
    /\ Spend({"fault"} \cup Slips(Between /\ marked))
    /\ window' = "closed" /\ clean' = FALSE
    /\ UNCHANGED <<vmVars, markVars, slow, seen, sleeperVars, clearer, ghosts>>

-----------------------------------------------------------------------------
(* The deferred shutdown's sleeper.                                        *)

SleeperTo(from, to) == sleeper = from /\ sleeper' = to

\* The grace outlasts a close, but for one that waits for a move, and outlasts
\* what a re-check may take.
Wakes ==
    /\ window \in Closing => slow
    /\ check = "none"
    /\ \/ /\ vm = "running" /\ recheck # None
          /\ SleeperTo("sleeping", "checking")
          /\ check' = "begun" /\ expects' = recheck
       \/ /\ vm = "running" /\ recheck = None
          /\ SleeperTo("sleeping", "checked")
          /\ UNCHANGED <<check, expects>>
       \/ /\ vm # "running"
          /\ SleeperTo("sleeping", "none")
          /\ UNCHANGED <<check, expects>>
    /\ UNCHANGED <<vmVars, markVars, windowVars, agrees, clearer, ghosts, budget>>

CheckTo(from, to) == check = from /\ check' = to

\* The re-check, in the guest: the containers first.
StopsContainers ==
    /\ CheckTo("begun", "stopped")
    /\ containers' = FALSE
    /\ UNCHANGED <<vm, disk, here, markVars, windowVars, sleeper, expects, agrees, clearer,
                   ghosts, budget>>

\* Mutant: any report will do.
RechecksAny ==
    /\ CheckTo("stopped", "looked")
    /\ agrees' = TRUE
    /\ UNCHANGED <<vmVars, markVars, windowVars, sleeper, expects, clearer, ghosts, budget>>

\* Then the look: the report is the one the close's look saw, or another, or
\* none.
Rechecks ==
    /\ CheckTo("stopped", "looked")
    /\ agrees' = (vm = "running" /\ disk = expects)
    /\ UNCHANGED <<vmVars, markVars, windowVars, sleeper, expects, clearer, ghosts, budget>>

\* The marker taken back unless it was, and the script itself removed, under
\* whatever name the next close's has too: one that ran on under a window may
\* take that window's re-check away.
Unmarks ==
    /\ CheckTo("looked", "judged")
    /\ marked' = (marked /\ agrees)
    /\ UNCHANGED <<vmVars, recheck, windowVars, sleeper, expects, agrees, clearer, ghosts, budget>>

CheckEnds ==
    /\ check' = "none" /\ expects' = None /\ agrees' = FALSE
    /\ sleeper' = IF sleeper = "checking" THEN "checked" ELSE sleeper

RecheckRemoves ==
    /\ check = "judged"
    /\ Spend(Slips(sleeper # "checking" /\ recheck # None))
    /\ recheck' = None
    /\ CheckEnds
    /\ UNCHANGED <<vmVars, marked, windowVars, clearer, ghosts>>

\* `timeout 60` ends the script before it has come to its end.
RecheckTimesOut ==
    /\ check # "none"
    /\ Spend({"fault"})
    /\ CheckEnds
    /\ UNCHANGED <<vmVars, markVars, windowVars, clearer, ghosts>>

ShutsDown ==
    /\ SleeperTo("checked", "none")
    /\ vm' = IF vm = "running" THEN "stopping" ELSE vm
    /\ UNCHANGED <<containers, disk, here, markVars, windowVars, checkVars, clearer, ghosts,
                   budget>>

-----------------------------------------------------------------------------
(* Another IDE, short of room or sweeping at its launch.                   *)

ClearerTo(from, to) == clearer = from /\ clearer' = to

\* list_all reads the state of every domain.
Lists ==
    /\ vm = "off"
    /\ ClearerTo("idle", "listed")
    /\ Spend({"clear"})
    /\ UNCHANGED <<vmVars, markVars, windowVars, sleeperVars, ghosts>>

\* Mutant: whoever holds it.
MayClearHeld == marked

\* may_clear: marked, and its owner not open.
MayClear == marked /\ window = "closed"

Judges ==
    /\ \/ MayClear /\ ClearerTo("listed", "judged")
       \/ ~MayClear /\ ClearerTo("listed", "idle")
    /\ unsure' = (unsure \ {"clear"}) \cup (IF Unconfirmed THEN {"clear"} ELSE {})
    /\ UNCHANGED <<vmVars, markVars, windowVars, sleeperVars, born, given, budget>>

\* A domain that runs by now is stopped for it.
Destroys ==
    /\ ClearerTo("judged", "idle")
    /\ vm' = "gone" /\ containers' = FALSE
    /\ disk' = {} /\ marked' = FALSE
    /\ given' = IF "clear" \in unsure THEN given \cup (disk \ here) ELSE given
    /\ UNCHANGED <<here, recheck, windowVars, sleeperVars, born, unsure, budget>>

-----------------------------------------------------------------------------
Next ==
    \/ \E w \in Work : Writes(w)
    \/ GoesOff \/ HostRestarts
    \/ Opens \/ MakesVm \/ NotesReturn \/ WithdrawsRecheck \/ WithdrawsMarker \/ CancelsShutdown
    \/ BringsUp \/ BringsUpAgain \/ Places
    \/ Syncs \/ CloseBegins \/ LastSync \/ Looks \/ Marks \/ LeavesRecheck
    \/ Keeps \/ KeepsUnmarked \/ ClosesNow \/ Dies
    \/ Wakes \/ ShutsDown
    \/ StopsContainers \/ Rechecks \/ Unmarks \/ RecheckRemoves \/ RecheckTimesOut
    \/ Lists \/ Judges \/ Destroys

Spec == Init /\ [][Next]_vars

-----------------------------------------------------------------------------
(* Properties.                                                             *)

TypeOK ==
    /\ vm \in {"running", "stopping", "off", "gone"}
    /\ disk \subseteq born /\ here \subseteq born /\ seen \subseteq born
    /\ born \subseteq Work /\ given \subseteq born
    /\ {containers, marked, clean, slow, agrees} \subseteq BOOLEAN
    /\ recheck = None \/ recheck \subseteq born
    /\ expects = None \/ expects \subseteq born
    /\ window \in {"closed", "open"} \cup Opening \cup Closing
    /\ sleeper \in {"none", "sleeping", "checking", "checked"}
    /\ check \in {"none", "begun", "stopped", "looked", "judged"}
    /\ clearer \in {"idle", "listed", "judged"}
    /\ unsure \subseteq {"return", "clear"}
    /\ budget \in [Kind -> Nat]

\* A VM is removed, and Personal made the folder's, over nothing this machine
\* lacks: what was written in the VM stays in it or is here, but for what
\* went by a marker still to be confirmed, or with a VM whose window opened
\* between the look at its marker and its removal.
NothingLost == born \ given \subseteq here \cup disk

\* "A shutdown still marks only a VM that was quiet": a marker with no
\* re-check beside it, which nobody is just writing or withdrawing, is true,
\* and nothing writes under it.
ConfirmedIsTrue ==
    marked /\ recheck = None /\ ~Between => disk \subseteq here /\ ~containers

\* A shutdown one window deferred does not stop the VM under the next:
\* "a relaunch inside the grace can cancel it and find the VMs up".
NotUnderAWindow == [][ShutsDown => window \notin {"cancelled", "up", "open"}]_vars

\* cancel_deferred_shutdown: its re-check "must not go on doing that", stopping
\* containers, "under the window that cancelled it".
ContainersLeft ==
    [][StopsContainers /\ containers => window \notin {"cancelled", "up", "open"}]_vars

\* "Its window's close found nothing on it this machine lacked, so everything
\* that differs now was done on this side, after."
DiffersOnThisSide == window = "up" /\ clean => disk \subseteq here
=============================================================================
