----------------------------- MODULE PlanProofs -----------------------------
(***************************************************************************)
(* What holds of the planner for every set of paths, every entry, every    *)
(* scope and every answer: what a plan writes fits, and the narrowed pass  *)
(* plans what the full pass plans.                                         *)
(*                                                                         *)
(* First the facts of the planner's operators: what its lists of writes    *)
(* hold, that one round of dropping clashing writes leaves none (the       *)
(* source loops until none is left), and the types of what it returns.     *)
(***************************************************************************)
EXTENDS PlanPass, TLAPS

-----------------------------------------------------------------------------
(* The writes: each path in at most one list, and in it once.              *)

LEMMA WritesAreUnique ==
    ASSUME NEW o, NEW r,
           NEW u \in CheckoutWrites(o, r) \cup FolderWrites(o, r),
           NEW w \in CheckoutWrites(o, r) \cup FolderWrites(o, r),
           u.path = w.path
    PROVE  /\ u = w
           /\ u \in CheckoutWrites(o, r) => w \notin FolderWrites(o, r)
           /\ u \in FolderWrites(o, r) => w \notin CheckoutWrites(o, r)
PROOF
  <1>1. \A p : ~(SendsToCheckout(o, r, p) /\ SendsToFolder(o, r, p))
    BY DEF SendsToCheckout, SendsToFolder, Folder, Checkout, Answered, Differs
  <1>2. \A v \in CheckoutWrites(o, r) :
            /\ v = [path |-> v.path, entry |-> FolderEntry(o, v.path),
                    expect |-> o.checkout[v.path]]
            /\ SendsToCheckout(o, r, v.path)
    BY DEF CheckoutWrites
  <1>3. \A v \in FolderWrites(o, r) :
            /\ v = [path |-> v.path, entry |-> o.checkout[v.path],
                    expect |-> FolderEntry(o, v.path)]
            /\ SendsToFolder(o, r, v.path)
    BY DEF FolderWrites
  <1>q. QED BY <1>1, <1>2, <1>3

LEMMA PathsOfWrites ==
    ASSUME NEW o, NEW r,
           NEW w \in CheckoutWrites(o, r) \cup FolderWrites(o, r)
    PROVE  w.path \in o.scope
PROOF BY DEF CheckoutWrites, FolderWrites

\* A write to the folder puts there what the checkout holds; one to the
\* checkout, what the folder holds, or what is agreed where it is unseen.
LEMMA PutsAreHeld ==
    ASSUME NEW o, NEW r
    PROVE  /\ \A w \in FolderWrites(o, r) : w.entry = o.checkout[w.path]
           /\ \A w \in CheckoutWrites(o, r) : w.entry = FolderEntry(o, w.path)
PROOF BY DEF FolderWrites, CheckoutWrites

\* Whatever is sent is in the list of its side.
LEMMA SentIsListed ==
    ASSUME NEW o, NEW r, NEW p \in o.scope
    PROVE  /\ SendsToFolder(o, r, p) =>
                \E w \in FolderWrites(o, r) : w.path = p /\ w.entry = o.checkout[p]
           /\ SendsToCheckout(o, r, p) =>
                \E w \in CheckoutWrites(o, r) : w.path = p /\ w.entry = FolderEntry(o, p)
PROOF
  <1>1. ASSUME SendsToFolder(o, r, p)
        PROVE  \E w \in FolderWrites(o, r) : w.path = p /\ w.entry = o.checkout[p]
    <2> DEFINE w == [path |-> p, entry |-> o.checkout[p], expect |-> FolderEntry(o, p)]
    <2>1. w \in FolderWrites(o, r)
      BY <1>1 DEF FolderWrites
    <2>q. QED BY <2>1
  <1>2. ASSUME SendsToCheckout(o, r, p)
        PROVE  \E w \in CheckoutWrites(o, r) : w.path = p /\ w.entry = FolderEntry(o, p)
    <2> DEFINE w == [path |-> p, entry |-> FolderEntry(o, p), expect |-> o.checkout[p]]
    <2>1. w \in CheckoutWrites(o, r)
      BY <1>2 DEF CheckoutWrites
    <2>q. QED BY <2>1
  <1>q. QED BY <1>1, <1>2

-----------------------------------------------------------------------------
(* One round is enough.                                                    *)

\* The lists the plan keeps.
Kept(o, r, writes) ==
    Without(writes, Clashing(o, FolderWrites(o, r), CheckoutWrites(o, r)))

\* Dropping clashing puts drops no removal, and so only shrinks what a side
\* will hold.
LEMMA DroppingShrinks ==
    ASSUME NEW o, NEW r, NEW present, NEW writes,
           \/ writes = FolderWrites(o, r)
           \/ writes = CheckoutWrites(o, r)
    PROVE  After(present, Kept(o, r, writes)) \subseteq After(present, writes)
PROOF
  <1> DEFINE clashing == Clashing(o, FolderWrites(o, r), CheckoutWrites(o, r))
  <1>1. \A p \in clashing :
            \E v \in CheckoutWrites(o, r) \cup FolderWrites(o, r) :
                v.path = p /\ v.entry # None
    BY DEF Clashing, Clashes, Paths, Puts
  <1>2. \A w \in Removals(writes) : w.path \notin clashing
    BY <1>1, WritesAreUnique DEF Removals
  <1>3. Removals(writes) \subseteq Removals(Kept(o, r, writes))
    BY <1>2 DEF Removals, Kept, Without
  <1>4. Puts(Kept(o, r, writes)) \subseteq Puts(writes)
    BY DEF Puts, Kept, Without
  <1>q. QED BY <1>3, <1>4 DEF After, Paths

\* No write kept leaves a path and one beneath it both on its side.
LEMMA OneRound ==
    ASSUME NEW o, NEW r
    PROVE  /\ \A w \in Puts(Kept(o, r, FolderWrites(o, r))) :
               \A q \in After(Present(o.folder) \cup o.unseen,
                             Kept(o, r, FolderWrites(o, r))) : ~Crossing(w.path, q)
           /\ \A w \in Puts(Kept(o, r, CheckoutWrites(o, r))) :
               \A q \in After(Present(o.checkout),
                             Kept(o, r, CheckoutWrites(o, r))) : ~Crossing(w.path, q)
PROOF
  <1> DEFINE toFolder == FolderWrites(o, r)
             toCheckout == CheckoutWrites(o, r)
             inFolder == Present(o.folder) \cup o.unseen
             inCheckout == Present(o.checkout)
  <1>1. /\ After(inFolder, Kept(o, r, toFolder)) \subseteq After(inFolder, toFolder)
        /\ After(inCheckout, Kept(o, r, toCheckout)) \subseteq After(inCheckout, toCheckout)
    BY DroppingShrinks
  <1>2. ASSUME NEW w \in Puts(Kept(o, r, toFolder)),
               NEW q \in After(inFolder, Kept(o, r, toFolder)),
               Crossing(w.path, q)
        PROVE  FALSE
    <2>1. w \in Puts(toFolder) /\ w.path \notin Clashes(inFolder, toFolder)
      BY DEF Puts, Kept, Without, Clashing
    <2>2. w.path \in Paths(Puts(toFolder))
      BY <2>1 DEF Paths
    <2>q. QED BY <1>1, <1>2, <2>1, <2>2 DEF Clashes
  <1>3. ASSUME NEW w \in Puts(Kept(o, r, toCheckout)),
               NEW q \in After(inCheckout, Kept(o, r, toCheckout)),
               Crossing(w.path, q)
        PROVE  FALSE
    <2>1. w \in Puts(toCheckout) /\ w.path \notin Clashes(inCheckout, toCheckout)
      BY DEF Puts, Kept, Without, Clashing
    <2>2. w.path \in Paths(Puts(toCheckout))
      BY <2>1 DEF Paths
    <2>q. QED BY <1>1, <1>3, <2>1, <2>2 DEF Clashes
  <1>q. QED BY <1>2, <1>3

-----------------------------------------------------------------------------
(* Types.                                                                  *)

PlanType == [toFolder : SUBSET Write, toCheckout : SUBSET Write,
             agreed : SUBSET Path, forget : SUBSET Path, conflicts : SUBSET Path]

LEMMA EntryType ==
    ASSUME NEW o \in Observed, NEW p \in Path
    PROVE  /\ FolderEntry(o, p) \in Held
           /\ o.archive[p] \in Held /\ o.folder[p] \in Held /\ o.checkout[p] \in Held
PROOF BY DEF Observed, Copy, FolderEntry

LEMMA WritesType ==
    ASSUME NEW o \in Observed, NEW r
    PROVE  FolderWrites(o, r) \subseteq Write /\ CheckoutWrites(o, r) \subseteq Write
PROOF
  <1>1. o.scope \subseteq Path
    BY DEF Observed
  <1>q. QED BY <1>1, EntryType DEF FolderWrites, CheckoutWrites, Write

LEMMA PlannedType ==
    ASSUME NEW o \in Observed, NEW r
    PROVE  /\ Planned(o, r) \in PlanType
           /\ Planned(o, r).toFolder = Kept(o, r, FolderWrites(o, r))
           /\ Planned(o, r).toCheckout = Kept(o, r, CheckoutWrites(o, r))
PROOF
  <1> DEFINE clashing == Clashing(o, FolderWrites(o, r), CheckoutWrites(o, r))
  <1>1. FolderWrites(o, r) \subseteq Write /\ CheckoutWrites(o, r) \subseteq Write
    BY WritesType
  <1>2. o.scope \subseteq Path /\ Present(o.archive) \subseteq Path
    BY DEF Observed, Present
  <1>3. clashing \subseteq Path
    BY <1>1 DEF Clashing, Clashes, Paths, Puts, Write
  <1>4. Planned(o, r) =
          [toFolder |-> Kept(o, r, FolderWrites(o, r)),
           toCheckout |-> Kept(o, r, CheckoutWrites(o, r)),
           agreed |-> {p \in o.scope : Agrees(o, p)},
           forget |-> Present(o.archive) \ o.scope,
           conflicts |-> {p \in o.scope : Conflicts(o, r, p)} \cup clashing]
    BY DEF Planned, Kept
  <1>5. /\ Kept(o, r, FolderWrites(o, r)) \subseteq Write
        /\ Kept(o, r, CheckoutWrites(o, r)) \subseteq Write
    BY <1>1 DEF Kept, Without
  <1>q. QED BY <1>2, <1>3, <1>4, <1>5 DEF PlanType

LEMMA AppliedType ==
    ASSUME NEW copy \in Copy, NEW landed \in SUBSET Write
    PROVE  Applied(copy, landed) \in Copy
PROOF
  <1> SUFFICES ASSUME NEW p \in Path
               PROVE  (IF p \in Paths(landed)
                       THEN (CHOOSE w \in landed : w.path = p).entry
                       ELSE copy[p]) \in Held
    BY DEF Applied, Copy
  <1>1. CASE p \in Paths(landed)
    <2>1. \E w \in landed : w.path = p
      BY <1>1 DEF Paths
    <2>2. (CHOOSE w \in landed : w.path = p) \in landed
      BY <2>1
    <2>q. QED BY <1>1, <2>2 DEF Write
  <1>2. CASE p \notin Paths(landed)
    BY <1>2 DEF Copy
  <1>q. QED BY <1>1, <1>2

LEMMA AsTreeType ==
    ASSUME NEW copy \in Copy
    PROVE  AsTree(copy) \in Copy
PROOF BY DEF AsTree, Copy, Held

LEMMA ArchivedType ==
    ASSUME NEW o \in Observed, NEW plan \in PlanType, NEW landed \in SUBSET Write
    PROVE  Archived(o, plan, landed) \in Copy
PROOF
  <1>1. Applied(o.archive, landed) \in Copy
    BY AppliedType DEF Observed
  <1>q. QED BY <1>1, EntryType DEF Archived, Copy, Held

-----------------------------------------------------------------------------
(* What a copy holds afterwards.                                           *)

LEMMA AppliedIsAfter ==
    ASSUME NEW copy \in Copy, NEW writes \in SUBSET Write,
           \A u, w \in writes : u.path = w.path => u = w
    PROVE  Present(Applied(copy, writes)) \subseteq After(Present(copy), writes)
PROOF
  <1> SUFFICES ASSUME NEW p \in Path, Applied(copy, writes)[p] # None
               PROVE  p \in After(Present(copy), writes)
    BY DEF Present
  <1>1. CASE p \in Paths(writes)
    <2>1. PICK w \in writes : w.path = p
      BY <1>1 DEF Paths
    <2>2. (CHOOSE v \in writes : v.path = p) = w
      BY <2>1
    <2>3. w \in Puts(writes)
      BY <1>1, <2>2 DEF Applied, Puts
    <2>q. QED BY <2>1, <2>3 DEF After, Paths
  <1>2. CASE p \notin Paths(writes)
    BY <1>2 DEF Applied, After, Present, Paths, Removals
  <1>q. QED BY <1>1, <1>2

LEMMA AfterGrows ==
    ASSUME NEW present, NEW more, NEW writes
    PROVE  After(present, writes) \subseteq After(present \cup more, writes)
PROOF BY DEF After

\* A file ignored in the folder stays whatever is written there: no write
\* kept removes it.
LEMMA UnseenStays ==
    ASSUME NEW o, NEW r, NEW q \in o.unseen
    PROVE  q \in After(Present(o.folder) \cup o.unseen, Kept(o, r, FolderWrites(o, r)))
PROOF
  <1>1. \A p : SendsToFolder(o, r, p) => p \notin o.unseen
    BY DEF SendsToFolder, Answered
  <1>2. \A w \in FolderWrites(o, r) : w.path \notin o.unseen
    BY <1>1 DEF FolderWrites
  <1>q. QED BY <1>2 DEF After, Kept, Without, Paths, Removals

-----------------------------------------------------------------------------
(* A pass that lands whole.                                                *)

\* Copies that fit, what is unseen counted.
Fitting(o) ==
    /\ WellFormed(o.archive) /\ WellFormed(o.folder) /\ WellFormed(o.checkout)
    /\ \A p \in Present(o.folder), q \in o.unseen : ~Crossing(p, q)

\* What a copy holds once a list of writes, each path in it once, is on it.
LEMMA AppliedAt ==
    ASSUME NEW copy, NEW writes, \A u, w \in writes : u.path = w.path => u = w
    PROVE  /\ \A w \in writes : w.path \in Path => Applied(copy, writes)[w.path] = w.entry
           /\ \A p \in Path : p \notin Paths(writes) => Applied(copy, writes)[p] = copy[p]
PROOF
  <1>1. ASSUME NEW w \in writes, w.path \in Path
        PROVE  Applied(copy, writes)[w.path] = w.entry
    <2>1. (CHOOSE v \in writes : v.path = w.path) = w
      OBVIOUS
    <2>2. w.path \in Paths(writes)
      BY DEF Paths
    <2>q. QED BY <1>1, <2>1, <2>2 DEF Applied
  <1>2. \A p \in Path : p \notin Paths(writes) => Applied(copy, writes)[p] = copy[p]
    BY DEF Applied
  <1>q. QED BY <1>1, <1>2

\* What the three copies come to when all that a plan writes lands: before
\* the archive is made a tree, and after.
Landed(o, r) == Planned(o, r).toFolder \cup Planned(o, r).toCheckout
ArchiveNow(o, r) == Archived(o, Planned(o, r), Landed(o, r))
FolderNow(o, r) == Applied(o.folder, Planned(o, r).toFolder)
CheckoutNow(o, r) == Applied(o.checkout, Planned(o, r).toCheckout)

\* A path the pass neither wrote nor recorded.
Untouched(o, r, p) ==
    p \in o.scope /\ p \notin Paths(Landed(o, r)) /\ ~Agrees(o, p)

\* Path by path: what was written or agreed is on both sides and in the
\* archive; what was neither is as it was; what is out of scope is let go.
LEMMA PathByPath ==
    ASSUME NEW o \in Observed, NEW r, NEW p \in Path
    PROVE  /\ p \in o.scope /\ ~Untouched(o, r, p) =>
                /\ p \notin o.unseen
                /\ FolderNow(o, r)[p] = ArchiveNow(o, r)[p]
                /\ CheckoutNow(o, r)[p] = ArchiveNow(o, r)[p]
           /\ Untouched(o, r, p) =>
                /\ ArchiveNow(o, r)[p] = o.archive[p]
                /\ FolderNow(o, r)[p] = o.folder[p]
                /\ CheckoutNow(o, r)[p] = o.checkout[p]
           /\ p \notin o.scope =>
                /\ ArchiveNow(o, r)[p] = None
                /\ FolderNow(o, r)[p] = o.folder[p]
                /\ CheckoutNow(o, r)[p] = o.checkout[p]
PROOF
  <1> DEFINE plan == Planned(o, r)
             down == plan.toFolder
             up == plan.toCheckout
  <1>1. /\ down \subseteq FolderWrites(o, r) /\ up \subseteq CheckoutWrites(o, r)
        /\ plan.forget = Present(o.archive) \ o.scope
        /\ plan.agreed = {q \in o.scope : Agrees(o, q)}
    BY PlannedType DEF Kept, Without, Planned
  <1>2. /\ \A u, w \in Landed(o, r) : u.path = w.path => u = w
        /\ \A u, w \in down : u.path = w.path => u = w
        /\ \A u, w \in up : u.path = w.path => u = w
        /\ \A u \in down, w \in up : u.path # w.path
    BY <1>1, WritesAreUnique DEF Landed
  <1>3. /\ \A w \in down : /\ w.path \in o.scope /\ SendsToFolder(o, r, w.path)
                           /\ w.entry = o.checkout[w.path]
        /\ \A w \in up : /\ w.path \in o.scope /\ SendsToCheckout(o, r, w.path)
                         /\ w.entry = FolderEntry(o, w.path)
    BY <1>1 DEF FolderWrites, CheckoutWrites
  <1>4. /\ SendsToFolder(o, r, p) => p \notin o.unseen /\ ~Agrees(o, p)
        /\ SendsToCheckout(o, r, p) => p \notin o.unseen /\ ~Agrees(o, p)
        /\ Agrees(o, p) => p \notin o.unseen
    BY DEF SendsToFolder, SendsToCheckout, Agrees, Answered, FolderChanged,
           CheckoutChanged, Differs, FolderEntry
  <1>5. p \notin Paths(Landed(o, r)) =>
            /\ FolderNow(o, r)[p] = o.folder[p] /\ CheckoutNow(o, r)[p] = o.checkout[p]
            /\ Applied(o.archive, Landed(o, r))[p] = o.archive[p]
    BY AppliedAt, <1>2 DEF FolderNow, CheckoutNow, Paths, Landed
  <1>6. CASE p \in o.scope /\ p \in Paths(Landed(o, r))
    <2>1. PICK w \in Landed(o, r) : w.path = p
      BY <1>6 DEF Paths
    <2>2. /\ p \notin plan.forget /\ p \notin plan.agreed /\ p \notin o.unseen
      BY <1>1, <1>3, <1>4, <1>6, <2>1 DEF Landed
    <2>3. ArchiveNow(o, r)[p] = w.entry
      BY <1>2, <2>1, <2>2, AppliedAt DEF ArchiveNow, Archived
    <2>4. CASE w \in down
      <3>1. p \notin Paths(up)
        BY <1>2, <2>1, <2>4 DEF Paths
      <3>2. FolderNow(o, r)[p] = w.entry /\ CheckoutNow(o, r)[p] = o.checkout[p]
        BY <1>2, <2>1, <2>4, <3>1, AppliedAt DEF FolderNow, CheckoutNow
      <3>q. QED BY <1>3, <1>6, <2>1, <2>2, <2>3, <2>4, <3>2 DEF Untouched
    <2>5. CASE w \in up
      <3>1. p \notin Paths(down)
        BY <1>2, <2>1, <2>5 DEF Paths
      <3>2. CheckoutNow(o, r)[p] = w.entry /\ FolderNow(o, r)[p] = o.folder[p]
        BY <1>2, <2>1, <2>5, <3>1, AppliedAt DEF FolderNow, CheckoutNow
      <3>q. QED BY <1>3, <1>6, <2>1, <2>2, <2>3, <2>5, <3>2 DEF Untouched, FolderEntry
    <2>q. QED BY <2>1, <2>4, <2>5 DEF Landed
  <1>7. CASE p \in o.scope /\ p \notin Paths(Landed(o, r)) /\ Agrees(o, p)
    <2>1. p \notin plan.forget /\ p \in plan.agreed /\ p \notin o.unseen
      BY <1>1, <1>4, <1>7
    <2>2. ArchiveNow(o, r)[p] = FolderEntry(o, p)
      BY <2>1 DEF ArchiveNow, Archived
    <2>q. QED BY <1>5, <1>7, <2>1, <2>2 DEF Untouched, Agrees, Differs, FolderEntry
  <1>8. CASE p \in o.scope /\ p \notin Paths(Landed(o, r)) /\ ~Agrees(o, p)
    <2>1. p \notin plan.forget /\ p \notin plan.agreed
      BY <1>1, <1>8
    <2>q. QED BY <1>5, <1>8, <2>1 DEF ArchiveNow, Archived, Untouched
  <1>9. CASE p \notin o.scope
    <2>1. p \notin Paths(Landed(o, r)) /\ p \notin plan.agreed
      BY <1>1, <1>3, <1>9 DEF Paths, Landed
    <2>2. ArchiveNow(o, r)[p] = None
      BY <1>1, <1>5, <2>1, <1>9 DEF ArchiveNow, Archived, Present
    <2>q. QED BY <1>5, <1>9, <2>1, <2>2 DEF Untouched
  <1>q. QED BY <1>6, <1>7, <1>8, <1>9

\* Both sides fit afterwards, the folder's ignored files counted.
LEMMA SidesFit ==
    ASSUME NEW o \in Observed, Fitting(o), NEW r
    PROVE  /\ WellFormed(FolderNow(o, r)) /\ WellFormed(CheckoutNow(o, r))
           /\ \A p \in Present(FolderNow(o, r)), q \in o.unseen : ~Crossing(p, q)
PROOF
  <1> DEFINE down == Planned(o, r).toFolder
             up == Planned(o, r).toCheckout
             inFolder == After(Present(o.folder) \cup o.unseen, down)
             inCheckout == After(Present(o.checkout), up)
  <1>1. o.folder \in Copy /\ o.checkout \in Copy
    BY DEF Observed
  <1>2. /\ down = Kept(o, r, FolderWrites(o, r)) /\ up = Kept(o, r, CheckoutWrites(o, r))
        /\ down \in SUBSET Write /\ up \in SUBSET Write
    BY PlannedType DEF PlanType
  <1>3. /\ \A u, w \in down : u.path = w.path => u = w
        /\ \A u, w \in up : u.path = w.path => u = w
    BY <1>2, WritesAreUnique DEF Kept, Without
  <1>4. /\ Present(FolderNow(o, r)) \cup o.unseen \subseteq inFolder
        /\ Present(CheckoutNow(o, r)) \subseteq inCheckout
    BY <1>1, <1>2, <1>3, AppliedIsAfter, AfterGrows, UnseenStays DEF FolderNow, CheckoutNow
  <1>5. /\ \A p \in Paths(Puts(down)), q \in inFolder : ~Crossing(p, q)
        /\ \A p \in Paths(Puts(up)), q \in inCheckout : ~Crossing(p, q)
    BY <1>2, OneRound DEF Paths
  <1>6. /\ \A p \in Present(FolderNow(o, r)) : p \in Paths(Puts(down)) \/ p \in Present(o.folder)
        /\ \A p \in Present(CheckoutNow(o, r)) : p \in Paths(Puts(up)) \/ p \in Present(o.checkout)
    <2>1. /\ Present(FolderNow(o, r)) \subseteq After(Present(o.folder), down)
          /\ Present(CheckoutNow(o, r)) \subseteq After(Present(o.checkout), up)
      BY <1>1, <1>2, <1>3, AppliedIsAfter DEF FolderNow, CheckoutNow
    <2>q. QED BY <2>1 DEF After
  <1>7. \A p, q : Crossing(p, q) => Crossing(q, p)
    BY DEF Crossing
  <1>q. QED BY <1>4, <1>5, <1>6, <1>7 DEF Fitting, WellFormed

\* What is in the archive afterwards and was neither written nor agreed is
\* still on a side, or is unseen: so the archive fits as both sides do, and
\* is a tree as it stands.
LEMMA ArchiveFits ==
    ASSUME NEW o \in Observed, Fitting(o), NEW r
    PROVE  AsTree(ArchiveNow(o, r)) = ArchiveNow(o, r)
PROOF
  <1> DEFINE a == ArchiveNow(o, r)
             f == FolderNow(o, r)
             c == CheckoutNow(o, r)
  <1>1. /\ WellFormed(f) /\ WellFormed(c) /\ WellFormed(o.archive)
        /\ \A p \in Present(f), q \in o.unseen : ~Crossing(p, q)
    BY SidesFit DEF Fitting
  <1>2. ASSUME NEW x \in Path, NEW y \in Path, a[x] # None, a[y] # None,
               ~Untouched(o, r, x), Untouched(o, r, y), Crossing(x, y)
        PROVE  FALSE
    <2>1. x \in o.scope
      BY <1>2, PathByPath
    <2>2. f[x] # None /\ c[x] # None
      BY <1>2, <2>1, PathByPath
    <2>3. y \notin o.unseen
      BY <1>1, <1>2, <2>2 DEF Present
    <2>4. /\ f[y] = o.folder[y] /\ c[y] = o.checkout[y] /\ a[y] = o.archive[y]
      BY <1>2, PathByPath
    <2>5. f[y] = None /\ c[y] = None
      BY <1>1, <1>2, <2>2 DEF WellFormed, Present
    <2>6. Agrees(o, y)
      BY <1>2, <2>3, <2>4, <2>5 DEF Agrees, FolderChanged, Differs, FolderEntry
    <2>q. QED BY <1>2, <2>6 DEF Untouched
  <1>3. ASSUME NEW x \in Path, NEW y \in Path, a[x] # None, a[y] # None, Crossing(x, y)
        PROVE  FALSE
    <2>1. Crossing(y, x)
      BY <1>3 DEF Crossing
    <2>2. CASE Untouched(o, r, x) /\ Untouched(o, r, y)
      BY <1>1, <1>3, <2>2, PathByPath DEF WellFormed, Present
    <2>3. CASE ~Untouched(o, r, x) /\ ~Untouched(o, r, y)
      <3>1. x \in o.scope /\ y \in o.scope
        BY <1>3, PathByPath
      <3>2. f[x] # None /\ f[y] # None
        BY <1>3, <2>3, <3>1, PathByPath
      <3>q. QED BY <1>1, <1>3, <3>2 DEF WellFormed, Present
    <2>q. QED BY <1>2, <1>3, <2>1, <2>2, <2>3
  <1>4. \A p \in Path : a[p] # None => ~(\E q \in Present(a) : <<p, q>> \in Above)
    BY <1>3 DEF Present, Crossing
  <1>5. a = [p \in Path |-> a[p]]
    BY DEF ArchiveNow, Archived
  <1> HIDE DEF a
  <1>6. \A p \in Path :
            (IF \E q \in Present(a) : <<p, q>> \in Above THEN None ELSE a[p]) = a[p]
    BY <1>4
  <1>7. AsTree(a) = a
    BY <1>5, <1>6 DEF AsTree
  <1>q. QED BY <1>7 DEF a

\* A list of writes each path of which is in it once.
Distinct(writes) == \A u, w \in writes : u.path = w.path => u = w

LEMMA PlannedLists ==
    ASSUME NEW o \in Observed, NEW r
    PROVE  /\ Planned(o, r).toFolder \subseteq FolderWrites(o, r)
           /\ Planned(o, r).toCheckout \subseteq CheckoutWrites(o, r)
           /\ Distinct(Planned(o, r).toFolder) /\ Distinct(Planned(o, r).toCheckout)
           /\ \A u \in Planned(o, r).toFolder, w \in Planned(o, r).toCheckout :
                  u.path # w.path
           /\ Planned(o, r).agreed = {p \in o.scope : Agrees(o, p)}
           /\ Planned(o, r).forget = Present(o.archive) \ o.scope
PROOF
  <1>1. /\ Planned(o, r).toFolder \subseteq FolderWrites(o, r)
        /\ Planned(o, r).toCheckout \subseteq CheckoutWrites(o, r)
        /\ Planned(o, r).agreed = {p \in o.scope : Agrees(o, p)}
        /\ Planned(o, r).forget = Present(o.archive) \ o.scope
    BY PlannedType DEF Kept, Without, Planned
  <1>q. QED BY <1>1, WritesAreUnique DEF Distinct

\* When all that is planned has landed, nothing being unseen or out of scope,
\* the two sides and the archive agree wherever nothing is asked.
LEMMA WholeMeansAgreed ==
    ASSUME NEW o \in Observed, Fitting(o), o.scope = Path, o.unseen = {},
           NEW r \in Resolve, NEW p \in Path, p \notin Planned(o, r).conflicts
    PROVE  /\ FolderNow(o, r)[p] = AsTree(ArchiveNow(o, r))[p]
           /\ CheckoutNow(o, r)[p] = AsTree(ArchiveNow(o, r))[p]
PROOF
  <1>1. AsTree(ArchiveNow(o, r)) = ArchiveNow(o, r)
    BY ArchiveFits
  <1>2. CASE ~Untouched(o, r, p)
    BY <1>1, <1>2, PathByPath
  <1>3. CASE Untouched(o, r, p)
    <2>1. /\ ArchiveNow(o, r)[p] = o.archive[p]
          /\ FolderNow(o, r)[p] = o.folder[p] /\ CheckoutNow(o, r)[p] = o.checkout[p]
          /\ FolderEntry(o, p) = o.folder[p]
      BY <1>3, PathByPath DEF FolderEntry
    <2>2. ~Conflicts(o, r, p) /\ ~Agrees(o, p)
      BY <1>3 DEF Planned, Untouched
    <2>3. ~SendsToFolder(o, r, p) /\ ~SendsToCheckout(o, r, p)
      <3>1. \A w \in FolderWrites(o, r) \cup CheckoutWrites(o, r) : w.path # p
        BY <1>3, PlannedType DEF Planned, Untouched, Landed, Paths, Kept, Without
      <3>q. QED BY <3>1, SentIsListed
    <2>4. r.keep \in {Folder, Checkout}
      BY DEF Resolve, Side
    <2>5. o.folder[p] = o.archive[p] /\ o.checkout[p] = o.archive[p]
      BY <2>1, <2>2, <2>3, <2>4 DEF SendsToFolder, SendsToCheckout, Conflicts, Agrees,
                                    FolderChanged, CheckoutChanged, Differs
    <2>q. QED BY <1>1, <2>1, <2>5
  <1>q. QED BY <1>2, <1>3

-----------------------------------------------------------------------------
(* The invariant.                                                          *)

LEMMA InitSound ==
    PassInit => PassTypeOK
PROOF BY PlanPassAssumption DEF PassInit, PassTypeOK, Sound, Observed, MayBeUnseen, Present

LEMMA LandSound ==
    PassTypeOK /\ Land => PassTypeOK'
PROOF
  <1> SUFFICES ASSUME PassTypeOK, Land PROVE PassTypeOK'
    OBVIOUS
  <1> DEFINE plan == Planned(input, reply)
  <1>1. input \in Observed /\ reply \in Resolve
    BY DEF PassTypeOK
  <1>2. plan \in PlanType
    BY <1>1, PlannedType
  <1>3. PICK landed \in SUBSET (plan.toFolder \cup plan.toCheckout) :
            LET next == Carried(input, plan, landed) IN
            /\ \A s \in {next.archive, next.folder, next.checkout} : WellFormed(s)
            /\ input' = Reobserved(next)
            /\ reply' = NoAnswer
    BY DEF Land
  <1> DEFINE next == Carried(input, plan, landed)
  <1>4. landed \in SUBSET Write
    BY <1>2 DEF PlanType
  <1>5. /\ AsTree(Archived(input, plan, landed)) \in Copy
        /\ Applied(input.folder, landed \cap plan.toFolder) \in Copy
        /\ Applied(input.checkout, landed \cap plan.toCheckout) \in Copy
    BY <1>1, <1>2, <1>4, ArchivedType, AsTreeType, AppliedType DEF Observed
  <1>6. /\ next \in Observed
        /\ next.scope = input.scope
    BY <1>1, <1>5 DEF Carried, Observed
  <1>7. /\ input' \in Observed
        /\ input'.archive = next.archive
        /\ input'.folder = next.folder
        /\ input'.checkout = next.checkout
        /\ input'.unseen = next.unseen
                \cap MayBeUnseen(next.archive, next.folder, next.checkout)
    BY <1>3, <1>6 DEF Reobserved, Observed
  <1>8. Sound(input')
    BY <1>3, <1>7 DEF Sound
  <1>9. reply' \in Resolve
    BY <1>3 DEF NoAnswer, Resolve, Side
  <1>q. QED BY <1>7, <1>8, <1>9 DEF PassTypeOK, Sound

\* What the passes go on from stays three working copies that fit, what may
\* be unseen beside them, and an answer.
THEOREM TypeCorrect ==
    PassSpec => []PassTypeOK
PROOF
  <1>1. PassTypeOK /\ [PassNext]_roundVars => PassTypeOK'
    BY LandSound DEF PassNext, roundVars, PassTypeOK, Sound, WellFormed, MayBeUnseen
  <1>q. QED BY InitSound, <1>1, PTL DEF PassSpec

-----------------------------------------------------------------------------
(* What is written fits.                                                   *)

LEMMA PlanFitsHere ==
    PassTypeOK => NoClashLeft
PROOF
  <1> SUFFICES ASSUME PassTypeOK PROVE NoClashLeft
    OBVIOUS
  <1> DEFINE o == input
             plan == Planned(o, reply)
             toFolder == Kept(o, reply, FolderWrites(o, reply))
             toCheckout == Kept(o, reply, CheckoutWrites(o, reply))
  <1>1. o \in Observed /\ o.folder \in Copy /\ o.checkout \in Copy
    BY DEF PassTypeOK, Observed
  <1>2. plan.toFolder = toFolder /\ plan.toCheckout = toCheckout /\ plan \in PlanType
    BY <1>1, PlannedType
  <1>3. toFolder \in SUBSET Write /\ toCheckout \in SUBSET Write
    BY <1>2 DEF PlanType
  <1>4. /\ \A u, w \in toFolder : u.path = w.path => u = w
        /\ \A u, w \in toCheckout : u.path = w.path => u = w
    BY WritesAreUnique DEF Kept, Without
  <1>5. /\ Present(Applied(o.folder, toFolder)) \cup o.unseen
            \subseteq After(Present(o.folder) \cup o.unseen, toFolder)
        /\ Present(Applied(o.checkout, toCheckout))
            \subseteq After(Present(o.checkout), toCheckout)
    BY <1>1, <1>3, <1>4, AppliedIsAfter, AfterGrows, UnseenStays
  <1>q. QED BY <1>2, <1>5, OneRound DEF NoClashLeft

\* P12, for any copies, scope and answer: a plan leaves no file above or
\* beneath one it writes, the folder's ignored files counted.
THEOREM PlanFits ==
    PassSpec => []NoClashLeft
PROOF BY TypeCorrect, PlanFitsHere, PTL

-----------------------------------------------------------------------------
(* The narrowed pass.                                                      *)

LEMMA NarrowedIsExactHere ==
    PassTypeOK => NarrowedIsExact
PROOF
  <1> SUFFICES ASSUME PassTypeOK, Present(input.archive) \subseteq input.scope
               PROVE  Planned(Narrowed(input), reply) = Planned(input, reply)
    BY DEF NarrowedIsExact
  <1> DEFINE o == input
             n == Narrowed(o)
             r == reply
  <1>1. /\ o \in Observed /\ Sound(o)
        /\ o.archive \in Copy /\ o.folder \in Copy /\ o.checkout \in Copy
        /\ o.scope \subseteq Path
    BY DEF PassTypeOK, Observed
  <1>2. /\ n.archive = EntriesAt(o.archive, Changed(o))
        /\ n.folder = EntriesAt(o.folder, Changed(o))
        /\ n.checkout = EntriesAt(o.checkout, Changed(o))
        /\ n.scope = o.scope
        /\ n.unseen = o.unseen \cap Changed(o)
    BY <1>1 DEF Narrowed, Observed
  \* What is unseen differs from a side that has it.
  <1>3. o.unseen \subseteq Changed(o)
    BY <1>1 DEF Sound, MayBeUnseen, Changed, Present, Copy
  <1>4. n.unseen = o.unseen
    BY <1>2, <1>3
  \* A changed path reads the same; any other is absent from all three.
  <1>5. \A p \in Changed(o) :
            /\ n.archive[p] = o.archive[p] /\ n.folder[p] = o.folder[p]
            /\ n.checkout[p] = o.checkout[p] /\ FolderEntry(n, p) = FolderEntry(o, p)
    BY <1>2, <1>4 DEF EntriesAt, Changed, FolderEntry
  <1>6. \A p \in Path \ Changed(o) :
            /\ n.archive[p] = None /\ n.folder[p] = None /\ n.checkout[p] = None
            /\ FolderEntry(n, p) = None
            /\ o.folder[p] = o.archive[p] /\ o.checkout[p] = o.archive[p]
            /\ FolderEntry(o, p) = o.archive[p]
    BY <1>2, <1>4 DEF EntriesAt, Changed, FolderEntry
  <1>7. \A p \in o.scope :
            /\ FolderChanged(n, p) <=> FolderChanged(o, p)
            /\ CheckoutChanged(n, p) <=> CheckoutChanged(o, p)
            /\ Differs(n, p) <=> Differs(o, p)
            /\ Answered(n, r, p) <=> Answered(o, r, p)
    BY <1>1, <1>4, <1>5, <1>6 DEF FolderChanged, CheckoutChanged, Differs, Answered
  <1>8. \A p \in o.scope :
            /\ SendsToFolder(n, r, p) <=> SendsToFolder(o, r, p)
            /\ SendsToCheckout(n, r, p) <=> SendsToCheckout(o, r, p)
            /\ Agrees(n, p) <=> Agrees(o, p)
            /\ Conflicts(n, r, p) <=> Conflicts(o, r, p)
    BY <1>4, <1>7 DEF SendsToFolder, SendsToCheckout, Agrees, Conflicts
  \* Only a changed path is sent anywhere.
  <1>9. \A p \in o.scope :
            SendsToFolder(o, r, p) \/ SendsToCheckout(o, r, p) => p \in Changed(o)
    BY <1>1, <1>6 DEF SendsToFolder, SendsToCheckout, Differs, FolderChanged, CheckoutChanged
  <1>10. /\ FolderWrites(n, r) = FolderWrites(o, r)
         /\ CheckoutWrites(n, r) = CheckoutWrites(o, r)
    <2> DEFINE up == {p \in o.scope : SendsToCheckout(o, r, p)}
               down == {p \in o.scope : SendsToFolder(o, r, p)}
    <2>1. /\ up = {p \in n.scope : SendsToCheckout(n, r, p)}
          /\ down = {p \in n.scope : SendsToFolder(n, r, p)}
      BY <1>2, <1>8
    <2>2. \A p \in up \cup down :
              /\ n.checkout[p] = o.checkout[p]
              /\ FolderEntry(n, p) = FolderEntry(o, p)
      BY <1>5, <1>9
    <2>3. {[path |-> p, entry |-> FolderEntry(n, p), expect |-> n.checkout[p]] : p \in up}
            = {[path |-> p, entry |-> FolderEntry(o, p), expect |-> o.checkout[p]] : p \in up}
      BY <2>2
    <2>4. {[path |-> p, entry |-> n.checkout[p], expect |-> FolderEntry(n, p)] : p \in down}
            = {[path |-> p, entry |-> o.checkout[p], expect |-> FolderEntry(o, p)] : p \in down}
      BY <2>2
    <2>q. QED BY <2>1, <2>3, <2>4 DEF FolderWrites, CheckoutWrites
  <1>11. /\ {p \in n.scope : Agrees(n, p)} = {p \in o.scope : Agrees(o, p)}
         /\ {p \in n.scope : Conflicts(n, r, p)} = {p \in o.scope : Conflicts(o, r, p)}
    BY <1>2, <1>8
  <1>12. Present(n.archive) \ n.scope = Present(o.archive) \ o.scope
    BY <1>2, <1>5, <1>6 DEF Present
  <1>13. Clashing(n, FolderWrites(o, r), CheckoutWrites(o, r))
            = Clashing(o, FolderWrites(o, r), CheckoutWrites(o, r))
    <2> DEFINE toFolder == FolderWrites(o, r)
               toCheckout == CheckoutWrites(o, r)
    \* What is left out is on both sides and in the archive alike.
    <2>1. \A q \in Path \ Changed(o) :
              o.folder[q] # None \/ o.checkout[q] # None =>
                  /\ q \in Present(o.archive)
                  /\ q \in Present(o.folder) /\ q \in Present(o.checkout)
      BY <1>6 DEF Present
    <2>2. /\ Present(n.folder) = Present(o.folder) \cap Changed(o)
          /\ Present(n.checkout) = Present(o.checkout) \cap Changed(o)
      BY <1>5, <1>6 DEF Present, Changed
    <2>3. \A w \in Puts(toFolder) : w.path \in Present(o.checkout)
      BY <1>1, PutsAreHeld, PathsOfWrites DEF Puts, Present
    <2>4. \A w \in Puts(toCheckout) :
              w.path \in Present(o.folder) \/ w.path \in Present(o.archive)
      BY <1>1, PutsAreHeld, PathsOfWrites DEF Puts, Present, FolderEntry
    <2>5. \A w \in Puts(toFolder) \cup Puts(toCheckout), q \in Path \ Changed(o) :
              (o.folder[q] # None \/ o.checkout[q] # None) => ~Crossing(w.path, q)
      BY <1>1, <2>1, <2>3, <2>4 DEF Sound, WellFormed
    <2>6. Clashes(Present(n.folder) \cup o.unseen, toFolder)
              = Clashes(Present(o.folder) \cup o.unseen, toFolder)
      <3>1. ASSUME NEW w \in Puts(toFolder),
                   NEW q \in After(Present(o.folder) \cup o.unseen, toFolder),
                   Crossing(w.path, q)
            PROVE  q \in After(Present(n.folder) \cup o.unseen, toFolder)
        BY <2>2, <2>5, <3>1 DEF After, Present
      <3>2. After(Present(n.folder) \cup o.unseen, toFolder)
                \subseteq After(Present(o.folder) \cup o.unseen, toFolder)
        BY <2>2 DEF After
      <3>q. QED BY <3>1, <3>2 DEF Clashes, Paths
    <2>7. Clashes(Present(n.checkout), toCheckout) = Clashes(Present(o.checkout), toCheckout)
      <3>1. ASSUME NEW w \in Puts(toCheckout),
                   NEW q \in After(Present(o.checkout), toCheckout),
                   Crossing(w.path, q)
            PROVE  q \in After(Present(n.checkout), toCheckout)
        BY <2>2, <2>5, <3>1 DEF After, Present
      <3>2. After(Present(n.checkout), toCheckout)
                \subseteq After(Present(o.checkout), toCheckout)
        BY <2>2 DEF After
      <3>q. QED BY <3>1, <3>2 DEF Clashes, Paths
    <2>q. QED BY <1>4, <2>6, <2>7 DEF Clashing
  <1>q. QED BY <1>10, <1>11, <1>12, <1>13 DEF Planned

\* "That is exact" (RulesSeen, mirror.rs), for any paths, copies and answer:
\* the pass that reads only the changed paths plans what the full pass plans.
THEOREM NarrowedExact ==
    PassSpec => []NarrowedIsExact
PROOF BY TypeCorrect, NarrowedIsExactHere, PTL

-----------------------------------------------------------------------------
(* An answer settles what it answers.                                      *)

\* With nothing ignored in the folder, an answer to everything asked leaves
\* no write that clashes: what stands in the way of the side kept was asked
\* about too, or was to be removed anyway.
LEMMA AnsweredFits ==
    ASSUME NEW o \in Observed, Sound(o), o.unseen = {}, o.scope = Path,
           NEW r, r.keep \in Side, r.paths = Asked(o)
    PROVE  Clashing(o, FolderWrites(o, r), CheckoutWrites(o, r)) = {}
PROOF
  <1> DEFINE down == FolderWrites(o, r)
             up == CheckoutWrites(o, r)
             down0 == FolderWrites(o, NoAnswer)
             up0 == CheckoutWrites(o, NoAnswer)
             clashing0 == Clashing(o, down0, up0)
  <1>1. /\ o.archive \in Copy /\ o.folder \in Copy /\ o.checkout \in Copy
        /\ WellFormed(o.archive) /\ WellFormed(o.folder) /\ WellFormed(o.checkout)
    BY DEF Observed, Sound
  <1>2. Asked(o) = {p \in o.scope : Conflicts(o, NoAnswer, p)} \cup clashing0
    BY DEF Asked, Planned
  <1>3. \A p : FolderEntry(o, p) = o.folder[p]
    BY DEF FolderEntry
  <1>4. \A p : ~Answered(o, NoAnswer, p)
    BY DEF Answered, NoAnswer
  <1>5. \A p \in Path : Answered(o, r, p) <=> p \in Asked(o)
    BY DEF Answered
  \* Writes with no answer, by what each side holds.
  <1>6. \A p \in Path :
            /\ SendsToFolder(o, NoAnswer, p)
                 <=> o.folder[p] = o.archive[p] /\ o.checkout[p] # o.archive[p]
            /\ SendsToCheckout(o, NoAnswer, p)
                 <=> o.folder[p] # o.archive[p] /\ o.checkout[p] = o.archive[p]
            /\ Conflicts(o, NoAnswer, p)
                 <=> /\ o.folder[p] # o.archive[p] /\ o.checkout[p] # o.archive[p]
                     /\ o.folder[p] # o.checkout[p]
    BY <1>3, <1>4 DEF SendsToFolder, SendsToCheckout, Conflicts,
                      FolderChanged, CheckoutChanged, Differs
  <1>7. /\ \A w \in down : w.path \in Path /\ SendsToFolder(o, r, w.path)
                            /\ w.entry = o.checkout[w.path]
        /\ \A w \in up : w.path \in Path /\ SendsToCheckout(o, r, w.path)
                            /\ w.entry = o.folder[w.path]
        /\ \A w \in down0 : w.path \in Path /\ SendsToFolder(o, NoAnswer, w.path)
                            /\ w.entry = o.checkout[w.path]
        /\ \A w \in up0 : w.path \in Path /\ SendsToCheckout(o, NoAnswer, w.path)
                            /\ w.entry = o.folder[w.path]
    BY <1>3 DEF FolderWrites, CheckoutWrites
  <1>8. \A p \in Path :
            /\ SendsToFolder(o, r, p) =>
                 \E w \in down : w.path = p /\ w.entry = o.checkout[p]
            /\ SendsToCheckout(o, r, p) =>
                 \E w \in up : w.path = p /\ w.entry = o.folder[p]
            /\ SendsToFolder(o, NoAnswer, p) =>
                 \E w \in down0 : w.path = p /\ w.entry = o.checkout[p]
            /\ SendsToCheckout(o, NoAnswer, p) =>
                 \E w \in up0 : w.path = p /\ w.entry = o.folder[p]
    BY <1>3, SentIsListed
  \* What is put clashes with what neither stands away nor is removed.
  <1>9. \A p, q \in Path : Crossing(p, q) =>
            /\ (/\ SendsToFolder(o, NoAnswer, p) /\ o.checkout[p] # None
                /\ o.folder[q] # None
                /\ ~(SendsToFolder(o, NoAnswer, q) /\ o.checkout[q] = None))
                 => p \in clashing0
            /\ (/\ SendsToCheckout(o, NoAnswer, p) /\ o.folder[p] # None
                /\ o.checkout[q] # None
                /\ ~(SendsToCheckout(o, NoAnswer, q) /\ o.folder[q] = None))
                 => p \in clashing0
    <2> SUFFICES ASSUME NEW p \in Path, NEW q \in Path, Crossing(p, q)
                 PROVE  /\ (/\ SendsToFolder(o, NoAnswer, p) /\ o.checkout[p] # None
                            /\ o.folder[q] # None
                            /\ ~(SendsToFolder(o, NoAnswer, q) /\ o.checkout[q] = None))
                             => p \in clashing0
                        /\ (/\ SendsToCheckout(o, NoAnswer, p) /\ o.folder[p] # None
                            /\ o.checkout[q] # None
                            /\ ~(SendsToCheckout(o, NoAnswer, q) /\ o.folder[q] = None))
                             => p \in clashing0
      OBVIOUS
    <2>1. ASSUME SendsToFolder(o, NoAnswer, p), o.checkout[p] # None, o.folder[q] # None,
                 ~(SendsToFolder(o, NoAnswer, q) /\ o.checkout[q] = None)
          PROVE  p \in clashing0
      <3>1. p \in Paths(Puts(down0))
        BY <1>8, <2>1 DEF Paths, Puts
      <3>2. q \in Present(o.folder) /\ q \notin Paths(Removals(down0))
        BY <1>7, <2>1 DEF Present, Paths, Removals
      <3>q. QED BY <3>1, <3>2 DEF Clashing, Clashes, After
    <2>2. ASSUME SendsToCheckout(o, NoAnswer, p), o.folder[p] # None, o.checkout[q] # None,
                 ~(SendsToCheckout(o, NoAnswer, q) /\ o.folder[q] = None)
          PROVE  p \in clashing0
      <3>1. p \in Paths(Puts(up0))
        BY <1>8, <2>2 DEF Paths, Puts
      <3>2. q \in Present(o.checkout) /\ q \notin Paths(Removals(up0))
        BY <1>7, <2>2 DEF Present, Paths, Removals
      <3>q. QED BY <3>1, <3>2 DEF Clashing, Clashes, After
    <2>q. QED BY <2>1, <2>2
  \* What is asked is never a removal.
  <1>10. \A p \in Path : p \in Asked(o) =>
            /\ SendsToFolder(o, NoAnswer, p) => o.checkout[p] # None
            /\ SendsToCheckout(o, NoAnswer, p) => o.folder[p] # None
    <2>1. \A p \in clashing0 : \E w \in Puts(down0) \cup Puts(up0) : w.path = p
      BY DEF Clashing, Clashes, Paths
    <2>q. QED BY <1>2, <1>6, <1>7, <2>1 DEF Puts
  <1>11. ASSUME NEW p \in Path, NEW q \in Path, Crossing(p, q),
                SendsToFolder(o, r, p), o.checkout[p] # None, o.folder[q] # None,
                ~(SendsToFolder(o, r, q) /\ o.checkout[q] = None)
         PROVE  FALSE
    <2>1. o.checkout[q] = None /\ o.folder[p] = None
      BY <1>1, <1>11 DEF WellFormed, Present
    <2>2. CASE p \in Asked(o)
      <3>1. r.keep = Checkout
        BY <1>5, <1>11, <2>2 DEF SendsToFolder
      <3>2. q \notin Asked(o)
        BY <1>3, <1>5, <1>11, <2>1, <3>1 DEF SendsToFolder, Differs
      <3>3. SendsToFolder(o, r, q) <=> SendsToFolder(o, NoAnswer, q)
        BY <1>4, <1>5, <3>2 DEF SendsToFolder
      <3>4. SendsToCheckout(o, NoAnswer, q)
        BY <1>2, <1>6, <1>11, <2>1, <3>2, <3>3
      <3>5. Crossing(q, p)
        BY <1>11 DEF Crossing
      <3>6. SendsToCheckout(o, NoAnswer, p) /\ o.folder[p] = None
        BY <1>2, <1>9, <1>11, <2>1, <3>2, <3>4, <3>5
      <3>q. QED BY <1>10, <2>2, <3>6
    <2>3. CASE p \notin Asked(o)
      <3>1. SendsToFolder(o, NoAnswer, p)
        BY <1>4, <1>5, <1>11, <2>3 DEF SendsToFolder
      <3>2. SendsToFolder(o, NoAnswer, q) /\ o.checkout[q] = None
        BY <1>2, <1>9, <1>11, <2>3, <3>1
      <3>3. q \notin Asked(o)
        BY <1>10, <3>2
      <3>q. QED BY <1>4, <1>5, <1>11, <3>2, <3>3 DEF SendsToFolder
    <2>q. QED BY <2>2, <2>3
  <1>12. ASSUME NEW p \in Path, NEW q \in Path, Crossing(p, q),
                SendsToCheckout(o, r, p), o.folder[p] # None, o.checkout[q] # None,
                ~(SendsToCheckout(o, r, q) /\ o.folder[q] = None)
         PROVE  FALSE
    <2>1. o.folder[q] = None /\ o.checkout[p] = None
      BY <1>1, <1>12 DEF WellFormed, Present
    <2>2. CASE p \in Asked(o)
      <3>1. r.keep = Folder
        BY <1>5, <1>12, <2>2 DEF SendsToCheckout
      <3>2. q \notin Asked(o)
        BY <1>3, <1>5, <1>12, <2>1, <3>1 DEF SendsToCheckout, Differs
      <3>3. SendsToCheckout(o, r, q) <=> SendsToCheckout(o, NoAnswer, q)
        BY <1>4, <1>5, <3>2 DEF SendsToCheckout
      <3>4. SendsToFolder(o, NoAnswer, q)
        BY <1>2, <1>6, <1>12, <2>1, <3>2, <3>3
      <3>5. Crossing(q, p)
        BY <1>12 DEF Crossing
      <3>6. SendsToFolder(o, NoAnswer, p) /\ o.checkout[p] = None
        BY <1>2, <1>9, <1>12, <2>1, <3>2, <3>4, <3>5
      <3>q. QED BY <1>10, <2>2, <3>6
    <2>3. CASE p \notin Asked(o)
      <3>1. SendsToCheckout(o, NoAnswer, p)
        BY <1>4, <1>5, <1>12, <2>3 DEF SendsToCheckout
      <3>2. SendsToCheckout(o, NoAnswer, q) /\ o.folder[q] = None
        BY <1>2, <1>9, <1>12, <2>3, <3>1
      <3>3. q \notin Asked(o)
        BY <1>10, <3>2
      <3>q. QED BY <1>4, <1>5, <1>12, <3>2, <3>3 DEF SendsToCheckout
    <2>q. QED BY <2>2, <2>3
  \* Two puts to one side never cross: the other side holds both.
  <1>13. \A p \in Clashes(Present(o.folder) \cup o.unseen, down) : FALSE
    <2> SUFFICES ASSUME NEW u \in Puts(down),
                        NEW q \in After(Present(o.folder) \cup o.unseen, down),
                        Crossing(u.path, q)
                 PROVE  FALSE
      BY DEF Clashes, Paths
    <2>1. CASE q \in Paths(Puts(down))
      <3>1. /\ u.path \in Path /\ o.checkout[u.path] # None
            /\ q \in Path /\ o.checkout[q] # None
        BY <1>7, <2>1 DEF Puts, Paths
      <3>q. QED BY <1>1, <3>1 DEF WellFormed, Present
    <2>2. CASE q \notin Paths(Puts(down))
      <3>1. q \in Present(o.folder) /\ q \notin Paths(Removals(down))
        BY <2>2 DEF After
      <3>2. q \in Path /\ o.folder[q] # None /\ u.path \in Path
            /\ SendsToFolder(o, r, u.path) /\ o.checkout[u.path] # None
        BY <1>7, <3>1 DEF Present, Puts
      <3>3. ~(SendsToFolder(o, r, q) /\ o.checkout[q] = None)
        BY <1>8, <3>1, <3>2 DEF Paths, Removals
      <3>q. QED BY <1>11, <3>2, <3>3
    <2>q. QED BY <2>1, <2>2
  <1>14. \A p \in Clashes(Present(o.checkout), up) : FALSE
    <2> SUFFICES ASSUME NEW u \in Puts(up), NEW q \in After(Present(o.checkout), up),
                        Crossing(u.path, q)
                 PROVE  FALSE
      BY DEF Clashes, Paths
    <2>1. CASE q \in Paths(Puts(up))
      <3>1. /\ u.path \in Path /\ o.folder[u.path] # None
            /\ q \in Path /\ o.folder[q] # None
        BY <1>7, <2>1 DEF Puts, Paths
      <3>q. QED BY <1>1, <3>1 DEF WellFormed, Present
    <2>2. CASE q \notin Paths(Puts(up))
      <3>1. q \in Present(o.checkout) /\ q \notin Paths(Removals(up))
        BY <2>2 DEF After
      <3>2. q \in Path /\ o.checkout[q] # None /\ u.path \in Path
            /\ SendsToCheckout(o, r, u.path) /\ o.folder[u.path] # None
        BY <1>7, <3>1 DEF Present, Puts
      <3>3. ~(SendsToCheckout(o, r, q) /\ o.folder[q] = None)
        BY <1>8, <3>1, <3>2 DEF Paths, Removals
      <3>q. QED BY <1>12, <3>2, <3>3
    <2>q. QED BY <2>1, <2>2
  <1>q. QED BY <1>13, <1>14 DEF Clashing

LEMMA AnswerSettlesHere ==
    PassTypeOK => AnswerSettles
PROOF
  <1> SUFFICES ASSUME PassTypeOK, input.unseen = {}, input.scope = Path, NEW side \in Side
               PROVE  Planned(input, [keep |-> side, paths |-> Asked(input)]).conflicts = {}
    BY DEF AnswerSettles
  <1> DEFINE o == input
             r == [keep |-> side, paths |-> Asked(o)]
             clashing == Clashing(o, FolderWrites(o, r), CheckoutWrites(o, r))
  <1>1. o \in Observed /\ Sound(o)
    BY DEF PassTypeOK
  <1>2. r.keep \in Side /\ r.paths = Asked(o)
    OBVIOUS
  <1> HIDE DEF r
  <1>3. clashing = {}
    BY <1>1, <1>2, AnsweredFits
  <1>4. Planned(o, r).conflicts = {p \in o.scope : Conflicts(o, r, p)} \cup clashing
    BY DEF Planned
  <1>5. \A p \in o.scope : Conflicts(o, NoAnswer, p) => p \in Asked(o)
    BY DEF Asked, Planned
  <1>6. \A p \in o.scope : ~Conflicts(o, r, p)
    BY <1>2, <1>5 DEF Conflicts, Answered, NoAnswer
  <1>q. QED BY <1>3, <1>4, <1>6 DEF r

\* P2, for any copies: an answer to everything asked leaves nothing of it to
\* ask again, a conflict of kinds as surely as one of contents.
THEOREM AnAnswerSettles ==
    PassSpec => []AnswerSettles
PROOF BY TypeCorrect, AnswerSettlesHere, PTL

-----------------------------------------------------------------------------
(* A pass that lands whole settles.                                        *)

LEMMA SoundFits ==
    ASSUME NEW o, Sound(o)
    PROVE  Fitting(o)
PROOF BY DEF Sound, Fitting, MayBeUnseen, Crossing

\* The next observation, once all has landed.
LEMMA NextObserved ==
    ASSUME NEW o \in Observed, Sound(o), o.unseen \subseteq o.scope, NEW r,
           NEW n, n = Reobserved(Carried(o, Planned(o, r), Landed(o, r)))
    PROVE  /\ n.archive = ArchiveNow(o, r)
           /\ n.folder = FolderNow(o, r) /\ n.checkout = CheckoutNow(o, r)
           /\ n.scope = o.scope /\ n.unseen = o.unseen
PROOF
  <1> DEFINE plan == Planned(o, r)
             c == Carried(o, plan, Landed(o, r))
  <1>1. /\ Landed(o, r) \cap plan.toFolder = plan.toFolder
        /\ Landed(o, r) \cap plan.toCheckout = plan.toCheckout
    BY DEF Landed
  <1>2. /\ c.archive = AsTree(ArchiveNow(o, r))
        /\ c.folder = FolderNow(o, r) /\ c.checkout = CheckoutNow(o, r)
        /\ c.scope = o.scope /\ c.unseen = o.unseen
        /\ c \in [archive : {c.archive}, folder : {c.folder}, checkout : {c.checkout},
                  unseen : {c.unseen}, scope : {c.scope}]
    BY <1>1 DEF Carried, Observed, ArchiveNow, FolderNow, CheckoutNow
  <1>3. c.archive = ArchiveNow(o, r)
    BY <1>2, ArchiveFits, SoundFits
  <1> HIDE DEF c
  <1>4. n = [c EXCEPT !.unseen = o.unseen \cap MayBeUnseen(c.archive, c.folder, c.checkout)]
    BY <1>2 DEF Reobserved, c
  <1>5. /\ n.archive = c.archive /\ n.folder = c.folder /\ n.checkout = c.checkout
        /\ n.scope = c.scope
        /\ n.unseen = o.unseen \cap MayBeUnseen(c.archive, c.folder, c.checkout)
    BY <1>2, <1>4
  <1>6. o.unseen \subseteq MayBeUnseen(ArchiveNow(o, r), FolderNow(o, r), CheckoutNow(o, r))
    <2> SUFFICES ASSUME NEW q \in o.unseen
                 PROVE  q \in MayBeUnseen(ArchiveNow(o, r), FolderNow(o, r), CheckoutNow(o, r))
      OBVIOUS
    <2>1. /\ q \in MayBeUnseen(o.archive, o.folder, o.checkout)
          /\ q \in Path /\ q \in o.scope
      BY DEF Sound, MayBeUnseen, Present
    <2>2. Untouched(o, r, q)
      BY <2>1, PathByPath
    <2>3. /\ ArchiveNow(o, r)[q] = o.archive[q]
          /\ FolderNow(o, r)[q] = o.folder[q] /\ CheckoutNow(o, r)[q] = o.checkout[q]
      BY <2>1, <2>2, PathByPath
    <2>4. \A p \in Present(FolderNow(o, r)) : ~Crossing(q, p)
      BY SidesFit, SoundFits DEF Crossing
    <2>q. QED BY <2>1, <2>3, <2>4 DEF MayBeUnseen, Present
  <1>q. QED BY <1>2, <1>3, <1>5, <1>6

\* What would still be written was dropped by this pass as a put that
\* clashes, and clashes with something that is there yet.
LEMMA OnlyDroppedRemain ==
    ASSUME NEW o \in Observed, Sound(o), NEW r \in Resolve,
           r.paths \in {{}, Asked(o)},
           NEW p \in Path, Untouched(o, r, p)
    PROVE  /\ SendsToFolder(o, NoAnswer, p) =>
                /\ p \in Planned(o, r).conflicts
                /\ o.checkout[p] # None
                /\ \E q \in Present(FolderNow(o, r)) \cup o.unseen : Crossing(p, q)
           /\ SendsToCheckout(o, NoAnswer, p) =>
                /\ p \in Planned(o, r).conflicts
                /\ FolderEntry(o, p) # None
                /\ \E q \in Present(CheckoutNow(o, r)) : Crossing(p, q)
PROOF
  <1> DEFINE down == FolderWrites(o, r)
             up == CheckoutWrites(o, r)
             down0 == FolderWrites(o, NoAnswer)
             up0 == CheckoutWrites(o, NoAnswer)
             clashing == Clashing(o, down, up)
             clashing0 == Clashing(o, down0, up0)
  <1>1. /\ o.archive \in Copy /\ o.folder \in Copy /\ o.checkout \in Copy
        /\ WellFormed(o.folder) /\ WellFormed(o.checkout)
        /\ \A x \in Present(o.folder), y \in o.unseen : ~Crossing(y, x)
        /\ p \in o.scope /\ o.scope \subseteq Path
    BY DEF Observed, Sound, Untouched, MayBeUnseen
  <1>2. /\ Planned(o, r).toFolder = Kept(o, r, down)
        /\ Planned(o, r).toCheckout = Kept(o, r, up)
        /\ Planned(o, r).toFolder \in SUBSET Write
        /\ Planned(o, r).toCheckout \in SUBSET Write
        /\ clashing \subseteq Planned(o, r).conflicts
    BY PlannedType DEF PlanType, Planned
  <1>3. \A w \in down \cup up : w.path = p => p \in clashing
    BY <1>2 DEF Untouched, Landed, Paths, Kept, Without
  <1>4. Asked(o) = {q \in o.scope : Conflicts(o, NoAnswer, q)} \cup clashing0
    BY DEF Asked, Planned
  <1>5. ~Answered(o, NoAnswer, p)
    BY DEF Answered, NoAnswer
  <1>6. /\ \A w \in down \cup down0 :
                /\ w.path \in Path /\ w.path \notin o.unseen
                /\ w.entry = o.checkout[w.path]
        /\ \A w \in up \cup up0 :
                /\ w.path \in Path /\ w.path \notin o.unseen
                /\ w.entry = o.folder[w.path] /\ w.entry = FolderEntry(o, w.path)
    BY <1>1 DEF FolderWrites, CheckoutWrites, SendsToFolder, SendsToCheckout,
                Answered, FolderChanged, FolderEntry
  \* A clashing path is a put of one list or of the other.
  <1>7. /\ \A x \in clashing :
                \E w \in Puts(down) \cup Puts(up) : w.path = x
        /\ \A x \in clashing0 :
                \E w \in Puts(down0) \cup Puts(up0) : w.path = x
    BY DEF Clashing, Clashes, Paths
  \* What a dropped put clashes with is neither put nor removed by this pass.
  <1>8. ASSUME NEW w \in down, w.path = p
        PROVE  /\ o.checkout[p] # None /\ o.folder[p] = None
               /\ \E q \in Present(FolderNow(o, r)) \cup o.unseen : Crossing(p, q)
    <2>1. p \in clashing
      BY <1>3, <1>8
    <2>2. p \in Paths(Puts(down))
      <3>1. PICK v \in Puts(down) \cup Puts(up) : v.path = p
        BY <1>7, <2>1
      <3>2. v = w
        BY <1>8, <3>1, WritesAreUnique DEF Puts
      <3>3. v \in Puts(down)
        BY <1>8, <3>1, <3>2 DEF Puts
      <3>q. QED BY <3>1, <3>3 DEF Paths
    <2>3. p \in Clashes(Present(o.folder) \cup o.unseen, down)
      <3>1. \A v \in up : v.path # p
        BY <1>8, WritesAreUnique
      <3>q. QED BY <2>1, <3>1 DEF Clashing, Clashes, Paths, Puts
    <2>4. PICK q \in After(Present(o.folder) \cup o.unseen, down) : Crossing(p, q)
      BY <2>3 DEF Clashes
    <2>5. o.checkout[p] # None
      BY <1>6, <2>2 DEF Paths, Puts
    <2>6. q \notin Paths(Puts(down))
      <3>1. ASSUME q \in Paths(Puts(down)) PROVE o.checkout[q] # None /\ q \in Path
        BY <1>6, <3>1 DEF Paths, Puts
      <3>q. QED BY <1>1, <2>4, <2>5, <3>1 DEF WellFormed, Present
    <2>7. q \in Present(o.folder) \cup o.unseen /\ q \notin Paths(down)
      BY <2>4, <2>6 DEF After, Paths, Puts, Removals
    <2>8. q \in Present(FolderNow(o, r)) \cup o.unseen
      <3>1. ASSUME q \in Present(o.folder) PROVE q \in Present(FolderNow(o, r))
        <4>1. q \in Path /\ o.folder[q] # None
          BY <3>1 DEF Present
        <4>2. q \notin Paths(Planned(o, r).toFolder)
          BY <1>2, <2>7 DEF Kept, Without, Paths
        <4>3. FolderNow(o, r)[q] = o.folder[q]
          BY <4>1, <4>2 DEF FolderNow, Applied
        <4>q. QED BY <4>1, <4>3 DEF Present
      <3>q. QED BY <2>7, <3>1
    <2>9. o.folder[p] = None
      <3>1. Crossing(q, p)
        BY <2>4 DEF Crossing
      <3>q. QED BY <1>1, <2>4, <2>7, <3>1 DEF WellFormed, Present
    <2>q. QED BY <2>4, <2>5, <2>8, <2>9
  <1>9. ASSUME NEW w \in up, w.path = p
        PROVE  /\ FolderEntry(o, p) # None /\ o.checkout[p] = None
               /\ \E q \in Present(CheckoutNow(o, r)) : Crossing(p, q)
    <2>1. p \in clashing
      BY <1>3, <1>9
    <2>2. p \in Paths(Puts(up))
      <3>1. PICK v \in Puts(down) \cup Puts(up) : v.path = p
        BY <1>7, <2>1
      <3>2. v = w
        BY <1>9, <3>1, WritesAreUnique DEF Puts
      <3>3. v \in Puts(up)
        BY <1>9, <3>1, <3>2 DEF Puts
      <3>q. QED BY <3>1, <3>3 DEF Paths
    <2>3. p \in Clashes(Present(o.checkout), up)
      <3>1. \A v \in down : v.path # p
        BY <1>9, WritesAreUnique
      <3>q. QED BY <2>1, <3>1 DEF Clashing, Clashes, Paths, Puts
    <2>4. PICK q \in After(Present(o.checkout), up) : Crossing(p, q)
      BY <2>3 DEF Clashes
    <2>5. o.folder[p] # None /\ FolderEntry(o, p) # None
      BY <1>6, <2>2 DEF Paths, Puts
    <2>6. q \notin Paths(Puts(up))
      <3>1. ASSUME q \in Paths(Puts(up)) PROVE o.folder[q] # None /\ q \in Path
        BY <1>6, <3>1 DEF Paths, Puts
      <3>q. QED BY <1>1, <2>4, <2>5, <3>1 DEF WellFormed, Present
    <2>7. q \in Present(o.checkout) /\ q \notin Paths(up)
      BY <2>4, <2>6 DEF After, Paths, Puts, Removals
    <2>8. q \in Present(CheckoutNow(o, r))
      <3>1. q \in Path /\ o.checkout[q] # None
        BY <2>7 DEF Present
      <3>2. q \notin Paths(Planned(o, r).toCheckout)
        BY <1>2, <2>7 DEF Kept, Without, Paths
      <3>3. CheckoutNow(o, r)[q] = o.checkout[q]
        BY <3>1, <3>2 DEF CheckoutNow, Applied
      <3>q. QED BY <3>1, <3>3 DEF Present
    <2>9. o.checkout[p] = None
      BY <1>1, <2>4, <2>7 DEF WellFormed, Present
    <2>q. QED BY <2>4, <2>5, <2>8, <2>9
  \* An answered path that is asked is a put where it is to be written.
  <1>10. Answered(o, r, p) =>
            /\ SendsToFolder(o, NoAnswer, p) => o.checkout[p] # None
            /\ SendsToCheckout(o, NoAnswer, p) => o.folder[p] # None
            /\ Differs(o, p) => SendsToFolder(o, r, p) \/ SendsToCheckout(o, r, p)
    <2> SUFFICES ASSUME Answered(o, r, p)
                 PROVE  /\ SendsToFolder(o, NoAnswer, p) => o.checkout[p] # None
                        /\ SendsToCheckout(o, NoAnswer, p) => o.folder[p] # None
                        /\ Differs(o, p) => SendsToFolder(o, r, p) \/ SendsToCheckout(o, r, p)
      OBVIOUS
    <2>1. p \in Asked(o)
      BY DEF Answered
    <2>2. Conflicts(o, NoAnswer, p) =>
              ~SendsToFolder(o, NoAnswer, p) /\ ~SendsToCheckout(o, NoAnswer, p)
      BY <1>5 DEF Conflicts, SendsToFolder, SendsToCheckout
    <2>3. ASSUME p \in clashing0
          PROVE  /\ SendsToFolder(o, NoAnswer, p) => o.checkout[p] # None
                 /\ SendsToCheckout(o, NoAnswer, p) => o.folder[p] # None
      <3>1. PICK v \in Puts(down0) \cup Puts(up0) : v.path = p
        BY <1>7, <2>3
      <3>2. /\ v \in down0 => ~SendsToCheckout(o, NoAnswer, p)
            /\ v \in up0 => ~SendsToFolder(o, NoAnswer, p)
        BY <1>1, <3>1, SentIsListed, WritesAreUnique
      <3>q. QED BY <1>6, <3>1, <3>2 DEF Puts
    <2>4. r.keep \in {Folder, Checkout}
      BY DEF Resolve, Side
    <2>5. Differs(o, p) => SendsToFolder(o, r, p) \/ SendsToCheckout(o, r, p)
      BY <2>4 DEF SendsToFolder, SendsToCheckout
    <2>q. QED BY <1>4, <2>1, <2>2, <2>3, <2>5
  <1>11. ASSUME SendsToFolder(o, NoAnswer, p)
         PROVE  /\ p \in Planned(o, r).conflicts /\ o.checkout[p] # None
                /\ \E q \in Present(FolderNow(o, r)) \cup o.unseen : Crossing(p, q)
    <2>1. Differs(o, p) /\ p \notin o.unseen
      BY <1>5, <1>11 DEF SendsToFolder, FolderChanged, CheckoutChanged, Differs
    <2>2. SendsToFolder(o, r, p) \/ SendsToCheckout(o, r, p)
      <3>1. CASE Answered(o, r, p)
        BY <1>10, <2>1, <3>1
      <3>2. CASE ~Answered(o, r, p)
        BY <1>5, <1>11, <3>2 DEF SendsToFolder
      <3>q. QED BY <3>1, <3>2
    <2>3. CASE SendsToFolder(o, r, p)
      <3>1. PICK w \in down : w.path = p
        BY <1>1, <2>3, SentIsListed
      <3>q. QED BY <1>2, <1>3, <1>8, <3>1
    <2>4. CASE SendsToCheckout(o, r, p) /\ ~SendsToFolder(o, r, p)
      <3>1. PICK w \in up : w.path = p
        BY <1>1, <2>4, SentIsListed
      <3>2. Answered(o, r, p)
        BY <1>5, <1>11, <2>4 DEF SendsToFolder
      <3>3. o.checkout[p] # None
        BY <1>10, <1>11, <3>2
      <3>q. QED BY <1>9, <3>1, <3>3
    <2>q. QED BY <2>2, <2>3, <2>4
  <1>12. ASSUME SendsToCheckout(o, NoAnswer, p)
         PROVE  /\ p \in Planned(o, r).conflicts /\ FolderEntry(o, p) # None
                /\ \E q \in Present(CheckoutNow(o, r)) : Crossing(p, q)
    <2>1. Differs(o, p) /\ p \notin o.unseen
      BY <1>5, <1>12 DEF SendsToCheckout, FolderChanged, CheckoutChanged, Differs, FolderEntry
    <2>2. SendsToFolder(o, r, p) \/ SendsToCheckout(o, r, p)
      <3>1. CASE Answered(o, r, p)
        BY <1>10, <2>1, <3>1
      <3>2. CASE ~Answered(o, r, p)
        BY <1>5, <1>12, <3>2 DEF SendsToCheckout
      <3>q. QED BY <3>1, <3>2
    <2>3. CASE SendsToCheckout(o, r, p)
      <3>1. PICK w \in up : w.path = p
        BY <1>1, <2>3, SentIsListed
      <3>q. QED BY <1>2, <1>3, <1>9, <3>1
    <2>4. CASE SendsToFolder(o, r, p) /\ ~SendsToCheckout(o, r, p)
      <3>1. PICK w \in down : w.path = p
        BY <1>1, <2>4, SentIsListed
      <3>2. Answered(o, r, p)
        BY <1>5, <1>12, <2>4 DEF SendsToCheckout
      <3>3. o.folder[p] # None
        BY <1>10, <1>12, <3>2
      <3>q. QED BY <1>8, <3>1, <3>3
    <2>q. QED BY <2>2, <2>3, <2>4
  <1>q. QED BY <1>11, <1>12

LEMMA SettlesHere ==
    PassTypeOK => Settles
PROOF
  <1> DEFINE o == input
             r == reply
             n == Reobserved(Carried(o, Planned(o, r), Landed(o, r)))
             down == FolderWrites(n, NoAnswer)
             up == CheckoutWrites(n, NoAnswer)
             clashing == Clashing(n, down, up)
             again == Planned(n, NoAnswer)
  <1> SUFFICES ASSUME PassTypeOK, r.paths \in {{}, Asked(o)}, o.unseen \subseteq o.scope
               PROVE  /\ again.toFolder = {} /\ again.toCheckout = {}
                      /\ again.agreed = {} /\ again.forget = {}
                      /\ again.conflicts \subseteq Planned(o, r).conflicts
    BY DEF Settles, Landed
  <1>1. o \in Observed /\ Sound(o) /\ r \in Resolve
    BY DEF PassTypeOK
  <1>2. o.scope \subseteq Path
    BY <1>1 DEF Observed
  <1>3. /\ n.archive = ArchiveNow(o, r)
        /\ n.folder = FolderNow(o, r) /\ n.checkout = CheckoutNow(o, r)
        /\ n.scope = o.scope /\ n.unseen = o.unseen
    BY <1>1, NextObserved
  <1> HIDE DEF n
  <1>4. \A p : ~Answered(n, NoAnswer, p) /\ ~Answered(o, NoAnswer, p)
    BY DEF Answered, NoAnswer
  \* What was written or agreed is the same everywhere.
  <1>5. \A p \in o.scope : ~Untouched(o, r, p) =>
            /\ FolderEntry(n, p) = n.archive[p] /\ n.checkout[p] = n.archive[p]
    BY <1>1, <1>2, <1>3, PathByPath DEF FolderEntry
  <1>6. \A p \in o.scope : Untouched(o, r, p) =>
            /\ FolderEntry(n, p) = FolderEntry(o, p)
            /\ n.checkout[p] = o.checkout[p] /\ n.archive[p] = o.archive[p]
    BY <1>1, <1>2, <1>3, PathByPath DEF FolderEntry
  <1>7. \A p \in o.scope :
            /\ SendsToFolder(n, NoAnswer, p) =>
                 Untouched(o, r, p) /\ SendsToFolder(o, NoAnswer, p)
            /\ SendsToCheckout(n, NoAnswer, p) =>
                 Untouched(o, r, p) /\ SendsToCheckout(o, NoAnswer, p)
            /\ Conflicts(n, NoAnswer, p) =>
                 Untouched(o, r, p) /\ Conflicts(o, NoAnswer, p)
            /\ ~Agrees(n, p)
    <2> TAKE p \in o.scope
    <2>1. CASE ~Untouched(o, r, p)
      BY <1>4, <1>5, <2>1 DEF SendsToFolder, SendsToCheckout, Conflicts, Agrees,
                              FolderChanged, CheckoutChanged, Differs
    <2>2. CASE Untouched(o, r, p)
      <3>1. /\ FolderEntry(n, p) = FolderEntry(o, p)
            /\ n.checkout[p] = o.checkout[p] /\ n.archive[p] = o.archive[p]
        BY <1>6, <2>2
      <3>2. /\ FolderChanged(n, p) <=> FolderChanged(o, p)
            /\ CheckoutChanged(n, p) <=> CheckoutChanged(o, p)
            /\ Differs(n, p) <=> Differs(o, p)
        BY <3>1 DEF FolderChanged, CheckoutChanged, Differs
      <3>q. QED BY <1>3, <1>4, <2>2, <3>2
                DEF SendsToFolder, SendsToCheckout, Conflicts, Agrees, Untouched
    <2>q. QED BY <2>1, <2>2
  <1>8. /\ \A p \in o.scope : SendsToFolder(n, NoAnswer, p) =>
                /\ p \in Planned(o, r).conflicts /\ n.checkout[p] # None
                /\ \E q \in Present(n.folder) \cup n.unseen : Crossing(p, q)
        /\ \A p \in o.scope : SendsToCheckout(n, NoAnswer, p) =>
                /\ p \in Planned(o, r).conflicts /\ FolderEntry(n, p) # None
                /\ \E q \in Present(n.checkout) : Crossing(p, q)
    BY <1>1, <1>2, <1>3, <1>6, <1>7, OnlyDroppedRemain
  <1>9. /\ \A w \in down : /\ w.path \in o.scope /\ SendsToFolder(n, NoAnswer, w.path)
                           /\ w.entry = n.checkout[w.path]
        /\ \A w \in up : /\ w.path \in o.scope /\ SendsToCheckout(n, NoAnswer, w.path)
                         /\ w.entry = FolderEntry(n, w.path)
    BY <1>3 DEF FolderWrites, CheckoutWrites
  <1>10. Puts(down) = down /\ Puts(up) = up /\ Removals(down) = {} /\ Removals(up) = {}
    BY <1>8, <1>9 DEF Puts, Removals
  <1>11. \A w \in down \cup up : w.path \in clashing
    <2>1. ASSUME NEW w \in down PROVE w.path \in clashing
      <3>1. PICK q \in Present(n.folder) \cup n.unseen : Crossing(w.path, q)
        BY <1>8, <1>9
      <3>2. q \in After(Present(n.folder) \cup n.unseen, down) /\ w.path \in Paths(Puts(down))
        BY <1>10, <3>1 DEF After, Paths
      <3>q. QED BY <3>1, <3>2 DEF Clashing, Clashes
    <2>2. ASSUME NEW w \in up PROVE w.path \in clashing
      <3>1. PICK q \in Present(n.checkout) : Crossing(w.path, q)
        BY <1>8, <1>9
      <3>2. q \in After(Present(n.checkout), up) /\ w.path \in Paths(Puts(up))
        BY <1>10, <3>1 DEF After, Paths
      <3>q. QED BY <3>1, <3>2 DEF Clashing, Clashes
    <2>q. QED BY <2>1, <2>2
  <1>12. /\ again.toFolder = Without(down, clashing) /\ again.toCheckout = Without(up, clashing)
         /\ again.agreed = {p \in n.scope : Agrees(n, p)}
         /\ again.forget = Present(n.archive) \ n.scope
         /\ again.conflicts = {p \in n.scope : Conflicts(n, NoAnswer, p)} \cup clashing
    BY DEF Planned
  <1>13. again.toFolder = {} /\ again.toCheckout = {}
    BY <1>11, <1>12 DEF Without
  <1>14. again.agreed = {}
    BY <1>3, <1>7, <1>12
  <1>15. again.forget = {}
    BY <1>1, <1>3, <1>12, PathByPath DEF Present
  <1>16. clashing \subseteq Planned(o, r).conflicts
    BY <1>8, <1>9 DEF Clashing, Clashes, Paths, Puts
  <1>17. ASSUME NEW p \in o.scope, Conflicts(n, NoAnswer, p)
         PROVE  p \in Planned(o, r).conflicts
    <2>1. Untouched(o, r, p) /\ Conflicts(o, NoAnswer, p)
      BY <1>7, <1>17
    <2>2. /\ Planned(o, r).conflicts = {q \in o.scope : Conflicts(o, r, q)}
                \cup Clashing(o, FolderWrites(o, r), CheckoutWrites(o, r))
          /\ Planned(o, r).toFolder = Kept(o, r, FolderWrites(o, r))
          /\ Planned(o, r).toCheckout = Kept(o, r, CheckoutWrites(o, r))
      BY <1>1, PlannedType DEF Planned
    <2>3. CASE ~Answered(o, r, p)
      BY <2>1, <2>2, <2>3 DEF Conflicts
    <2>4. CASE Answered(o, r, p)
      <3>1. r.keep \in {Folder, Checkout} /\ Differs(o, p)
        BY <1>1, <2>1 DEF Resolve, Side, Conflicts
      <3>2. PICK w \in FolderWrites(o, r) \cup CheckoutWrites(o, r) : w.path = p
        BY <2>4, <3>1, SentIsListed DEF SendsToFolder, SendsToCheckout
      <3>3. p \in Clashing(o, FolderWrites(o, r), CheckoutWrites(o, r))
        BY <2>1, <2>2, <3>2 DEF Untouched, Landed, Paths, Kept, Without
      <3>q. QED BY <2>2, <3>3
    <2>q. QED BY <2>3, <2>4
  <1>q. QED BY <1>3, <1>12, <1>13, <1>14, <1>15, <1>16, <1>17

\* P3, P4, for any copies, scope, unseen files in scope, and no answer or one
\* to everything asked: once all of a plan has landed, a further pass writes
\* nothing, records nothing and asks nothing new.
THEOREM AWholePassSettles ==
    PassSpec => []Settles
PROOF BY TypeCorrect, SettlesHere, PTL

=============================================================================
