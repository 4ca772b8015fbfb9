-------------------------------- MODULE Plan --------------------------------
(***************************************************************************)
(* The sync's decision, crates/taste-git/src/plan.rs: from three working   *)
(* copies - the archive, the folder and the checkout, as one pass observed *)
(* them - what to write on which side, what to record and what to ask.     *)
(*                                                                         *)
(* A working copy is a function from every path to the entry held there,   *)
(* or None.  A list of writes is a set of records: no path is ever in a    *)
(* list twice, and the order matters only to what carries the list out     *)
(* (module Mirror).                                                        *)
(***************************************************************************)
CONSTANTS
    Path,       \* the paths of the workspace
    Entry,      \* what a path may hold: a blob and its mode
    None,       \* what a path that is absent holds
    Above       \* <<d, p>> \in Above: d is a directory on the way to p

ASSUME PlanAssumption ==
    /\ None \notin Entry
    /\ Above \subseteq Path \X Path
    /\ \A p \in Path : <<p, p>> \notin Above

Folder == "folder"
Checkout == "checkout"
Side == {Folder, Checkout}

Held == Entry \cup {None}
Copy == [Path -> Held]

\* A path and one beneath it: never both files on one side.
Crossing(p, q) == <<p, q>> \in Above \/ <<q, p>> \in Above

\* The user's answer; the answer that keeps a side for no path is none.
Resolve == [keep : Side, paths : SUBSET Path]
NoAnswer == [keep |-> Folder, paths |-> {}]

\* What a pass decides from.  unseen: absent from the folder's copy and yet
\* on its disk; scope: the paths the rules of both sides let through.
Observed == [archive : Copy, folder : Copy, checkout : Copy,
             unseen : SUBSET Path, scope : SUBSET Path]

Write == [path : Path, entry : Held, expect : Held]

Present(copy) == {p \in Path : copy[p] # None}

\* Nothing held at p meets a file above it or a file beneath it.
Fits(copy, p) == \A q \in Present(copy) : ~Crossing(p, q)

\* No side holds a file and one beneath it; the archive, a git tree, neither.
WellFormed(copy) == \A p, q \in Present(copy) : ~Crossing(p, q)

-----------------------------------------------------------------------------
(* The decision for one path.                                              *)

\* The folder's entry: what is unseen there counts as unchanged.
FolderEntry(o, p) == IF p \in o.unseen THEN o.archive[p] ELSE o.folder[p]

FolderChanged(o, p) == FolderEntry(o, p) # o.archive[p]
CheckoutChanged(o, p) == o.checkout[p] # o.archive[p]
Differs(o, p) == FolderEntry(o, p) # o.checkout[p]

\* Mutant: an answer decides only what both sides changed, as it once did.
AnsweredIfBothChanged(o, r, p) ==
    p \in r.paths /\ p \notin o.unseen /\ FolderChanged(o, p) /\ CheckoutChanged(o, p)

Answered(o, r, p) == p \in r.paths /\ p \notin o.unseen

SendsToCheckout(o, r, p) ==
    IF Answered(o, r, p)
    THEN Differs(o, p) /\ r.keep = Folder
    ELSE FolderChanged(o, p) /\ ~CheckoutChanged(o, p)

SendsToFolder(o, r, p) ==
    IF Answered(o, r, p)
    THEN Differs(o, p) /\ r.keep = Checkout
    ELSE ~FolderChanged(o, p) /\ CheckoutChanged(o, p) /\ p \notin o.unseen

Agrees(o, p) == FolderChanged(o, p) /\ ~Differs(o, p)

Conflicts(o, r, p) ==
    /\ ~Answered(o, r, p)
    /\ FolderChanged(o, p) /\ CheckoutChanged(o, p) /\ Differs(o, p)

CheckoutWrites(o, r) ==
    {[path |-> p, entry |-> FolderEntry(o, p), expect |-> o.checkout[p]] :
        p \in {q \in o.scope : SendsToCheckout(o, r, q)}}

FolderWrites(o, r) ==
    {[path |-> p, entry |-> o.checkout[p], expect |-> FolderEntry(o, p)] :
        p \in {q \in o.scope : SendsToFolder(o, r, q)}}

-----------------------------------------------------------------------------
(* A file and a directory never meet at one path.                          *)

Paths(writes) == {w.path : w \in writes}
Puts(writes) == {w \in writes : w.entry # None}
Removals(writes) == {w \in writes : w.entry = None}

\* The paths a side holds once the writes have landed on it.
After(present, writes) ==
    (present \ Paths(Removals(writes))) \cup Paths(Puts(writes))

\* The puts that would leave a path and one beneath it both there.
Clashes(present, writes) ==
    {p \in Paths(Puts(writes)) :
        \E q \in After(present, writes) : Crossing(p, q)}

\* Mutant: the folder's ignored files are not counted.
ClashingSeen(o, toFolder, toCheckout) ==
    Clashes(Present(o.folder), toFolder) \cup Clashes(Present(o.checkout), toCheckout)

\* unseen files stand in the folder's way though its copy leaves them out
Clashing(o, toFolder, toCheckout) ==
    Clashes(Present(o.folder) \cup o.unseen, toFolder)
        \cup Clashes(Present(o.checkout), toCheckout)

Without(writes, paths) == {w \in writes : w.path \notin paths}

\* Mutant of Planned: no write is dropped.
PlannedUnfit(o, r) ==
    [toFolder |-> FolderWrites(o, r), toCheckout |-> CheckoutWrites(o, r),
     agreed |-> {p \in o.scope : Agrees(o, p)},
     forget |-> Present(o.archive) \ o.scope,
     conflicts |-> {p \in o.scope : Conflicts(o, r, p)}]

-----------------------------------------------------------------------------
(* The plan.  The source drops clashing writes in a loop until none is     *)
(* left; one round is all the loop can take, since dropping a put only     *)
(* shrinks what its side will hold (lemma OneRound of PlanProofs).         *)
Planned(o, r) ==
    LET toFolder == FolderWrites(o, r)
        toCheckout == CheckoutWrites(o, r)
        clashing == Clashing(o, toFolder, toCheckout)
    IN [toFolder |-> Without(toFolder, clashing),
        toCheckout |-> Without(toCheckout, clashing),
        agreed |-> {p \in o.scope : Agrees(o, p)},
        forget |-> Present(o.archive) \ o.scope,
        conflicts |-> {p \in o.scope : Conflicts(o, r, p)} \cup clashing]

\* A copy once the writes in landed are on it.
Applied(copy, landed) ==
    [p \in Path |->
        IF p \in Paths(landed)
        THEN (CHOOSE w \in landed : w.path = p).entry
        ELSE copy[p]]

\* The archive is kept as a git tree, where a path gives way to one beneath.
AsTree(copy) ==
    [p \in Path |->
        IF \E q \in Present(copy) : <<p, q>> \in Above THEN None ELSE copy[p]]

\* Mutant: agreements are not recorded.
ArchivedDisagreed(o, plan, landed) ==
    [p \in Path |-> IF p \in plan.forget THEN None ELSE Applied(o.archive, landed)[p]]

\* The archive after a pass: what landed, what was agreed, less what the
\* rules let go.
Archived(o, plan, landed) ==
    [p \in Path |->
        IF p \in plan.forget THEN None
        ELSE IF p \in plan.agreed THEN FolderEntry(o, p)
        ELSE Applied(o.archive, landed)[p]]
=============================================================================
