------------------------------- MODULE Issues --------------------------------
(***************************************************************************)
(* The issue queue (crates/taste-git/src/issues.rs, issues/rebase.rs,      *)
(* refs.rs): a git ref that every machine has a copy of.  Writes on one    *)
(* machine are transactions that compare and swap its ref; a fetch that    *)
(* finds the remote's queue moved as well replays this machine's commits   *)
(* on top of the remote's, with a rule for each place two machines can     *)
(* touch; a push only ever fast-forwards the remote.                       *)
(*                                                                         *)
(* A ref is its history, a sequence of commits, and no ref the empty one;  *)
(* what a commit writes is told apart by the number of the write.  An      *)
(* issue's id is drawn at random: here, the number of the write that filed *)
(* it.  The title stands for all the fields merged as it is.               *)
(***************************************************************************)
EXTENDS Naturals, Sequences, FiniteSets, SequencesExt

CONSTANTS
    Machine,
    Writer,        \* who writes to the queue on one machine at once
    Attachments,   \* the names of the files one edit may bring
    CasAttempts,   \* CAS_ATTEMPTS
    Budget,        \* how often each kind of write happens
    MaxWrites      \* how many writes happen in all

Kind == {"file", "edit", "comment", "attach", "delete", "move", "first"}

ASSUME IssuesAssumption ==
    /\ \A names \in Attachments : names \in Seq(STRING)
    /\ CasAttempts \in Nat \ {0}
    /\ Budget \in [Kind -> Nat]
    /\ MaxWrites \in Nat

VARIABLES
    remote,    \* the remote's queue
    local,     \* refs/issues/queue of each machine
    writing,   \* the transaction of each writer of each machine
    syncing,   \* the reconcile of each machine, with the queue it fetched
    clock,     \* the number of the last write
    deleted,   \* ghost: the issues somebody has deleted
    budget     \* what is left of Budget

vars == <<remote, local, writing, syncing, clock, deleted, budget>>

NoTree == [issues |-> << >>, order |-> << >>]
Tip(history) == IF history = << >> THEN NoTree ELSE Last(history).tree
Held(history) == DOMAIN Tip(history).issues

Idle == [at |-> "idle"]

\* f with y at x; and with what g has beside.
With(f, x, y) == [z \in DOMAIN f \cup {x} |-> IF z = x THEN y ELSE f[z]]
Beside(f, g) == [z \in DOMAIN f \cup DOMAIN g |-> IF z \in DOMAIN f THEN f[z] ELSE g[z]]

-----------------------------------------------------------------------------
(* The tree of a commit, and what each write makes of it.                  *)

CommentPath(seq) == [dir |-> "comments", seq |-> seq, name |-> "md"]
AttachmentPath(seq, name) == [dir |-> "attachments", seq |-> seq, name |-> name]

Numbers(files, dir) == {p.seq : p \in {q \in DOMAIN files : q.dir = dir}}
LastNumber(files, dir) == Max({0} \cup Numbers(files, dir))

\* The files an edit brings, numbered on, each with its reference in the
\* body.
WithAttachments(issue, names, n) ==
    LET first == LastNumber(issue.files, "attachments")
        path(i) == AttachmentPath(first + i, names[i])
        paths == {path(i) : i \in DOMAIN names}
    IN [issue EXCEPT
           !.files = Beside(@, [p \in paths |-> <<n, p.seq>>]),
           !.body = [text |-> n, refs |-> @.refs \cup paths]]

NewIssue(n) == [title |-> n, body |-> [text |-> n, refs |-> {}], files |-> << >>]

\* The order in effect: what the file lists and there is, then the rest by
\* age.
Ordered(tree) ==
    SelectSeq(tree.order, LAMBDA id : id \in DOMAIN tree.issues)
    \o SetToSortSeq(DOMAIN tree.issues \ ToSet(tree.order), LAMBDA i, j : i < j)

Moved(order, id, to) == InsertAt(Remove(order, id), to, id)

Placed(tree, id, issue) == [tree EXCEPT !.issues = With(@, id, issue)]

Filed(tree, n, names) == Placed(tree, n, WithAttachments(NewIssue(n), names, n))

Updated(tree, op, n) ==
    LET issue == tree.issues[op.id]
        comment == CommentPath(LastNumber(issue.files, "comments") + 1)
    IN Placed(tree, op.id,
              CASE op.kind = "edit" /\ op.field = "title" -> [issue EXCEPT !.title = n]
                [] op.kind = "edit" /\ op.field = "body" -> [issue EXCEPT !.body.text = n]
                [] op.kind = "comment" -> [issue EXCEPT !.files = With(@, comment, <<n, 0>>)]
                [] op.kind = "attach" -> WithAttachments(issue, op.names, n))

Deleted(tree, id) ==
    [issues |-> [i \in DOMAIN tree.issues \ {id} |-> tree.issues[i]],
     order |-> Remove(tree.order, id)]

Reordered(tree, id, to) == [tree EXCEPT !.order = Moved(Ordered(tree), id, to)]

\* The tree the write n makes of the one it decides on.
Written(op, tree, n) ==
    CASE op.kind = "file" -> Filed(tree, n, op.names)
      [] op.kind = "delete" -> Deleted(tree, op.id)
      [] op.kind = "move" -> Reordered(tree, op.id, op.to)
      [] OTHER -> Updated(tree, op, n)

\* What may be asked for on a queue.
Writes(tree) ==
    LET ids == DOMAIN tree.issues
    IN [kind : {"file"}, names : {<< >>} \cup Attachments]
       \cup [kind : {"edit"}, id : ids, field : {"title", "body"}]
       \cup [kind : {"comment", "delete"}, id : ids]
       \cup [kind : {"attach"}, id : ids, names : Attachments]
       \cup [kind : {"move"}, id : ids, to : 1 .. Cardinality(ids)]

-----------------------------------------------------------------------------
(* The replay of this machine's commits on the remote's.                   *)

Common(a, b) ==
    Cardinality({n \in 1 .. Min({Len(a), Len(b)}) : SubSeq(a, 1, n) = SubSeq(b, 1, n)})
Ahead(a, b) == Len(a) - Common(a, b)

\* Files of one kind, in the order of their numbers.
ByPath(files) ==
    CHOOSE s \in [1 .. Cardinality(files) -> files] :
        \A i, j \in DOMAIN s : i < j => s[i].seq < s[j].seq

\* Mutant: only the very path is looked for.
RenumberedByPath(files, path) ==
    IF path \in DOMAIN files
    THEN [path EXCEPT !.seq = LastNumber(files, path.dir) + 1]
    ELSE path

\* Where a new file goes whose number is taken.
Renumbered(files, path) ==
    IF path.seq \in Numbers(files, path.dir)
    THEN [path EXCEPT !.seq = LastNumber(files, path.dir) + 1]
    ELSE path

\* The commit's new files put one by one; r.moved is where each went.
PutFiles(paths, blobs, r) ==
    FoldLeft(LAMBDA acc, p :
                 LET to == Renumbered(acc.files, p)
                 IN [files |-> With(acc.files, to, blobs[p]),
                     moved |-> IF to = p THEN acc.moved ELSE With(acc.moved, p, to)],
             r, ByPath(paths))

\* Mutant: the remote's change wins.
PickTheirs(base, ours, theirs) == IF theirs # base THEN theirs ELSE ours

Pick(base, ours, theirs) == IF ours # base THEN ours ELSE theirs

\* Mutant: references stay.
FollowedNot(refs, moved) == refs

\* References follow what was renumbered, one text replacement after another.
Followed(refs, moved) ==
    FoldLeft(LAMBDA acc, p : {IF q = p THEN moved[p] ELSE q : q \in acc},
             refs, ByPath({p \in DOMAIN moved : p.dir = "attachments"}))

Merged(base, ours, theirs) ==
    [title |-> Pick(base.title, ours.title, theirs.title),
     body |-> Pick(base.body, ours.body, theirs.body)]

Text(issue) == [title |-> issue.title, body |-> issue.body]

\* One issue of one commit: before and after the commit as this machine made
\* it, and what the replay has of it so far.  No commit changes or removes a
\* file of an issue that stays.
ReplayIssue(before, after, theirs, moved) ==
    LET new == DOMAIN after.files \ DOMAIN before.files
        put == PutFiles(new, after.files, [files |-> theirs.files, moved |-> moved])
        text == IF Text(theirs) # Text(before)
                THEN Merged(Text(before), Text(after), Text(theirs))
                ELSE Text(after)
    IN [issue |-> [title |-> text.title,
                   body |-> [text.body EXCEPT !.refs = Followed(@, put.moved)],
                   files |-> put.files],
        moved |-> put.moved]

\* Mutant: the remote's order, and this machine's additions after it.
MergedOrderTheirs(base, ours, theirs) ==
    theirs \o SelectSeq(ours, LAMBDA id : id \notin ToSet(theirs) \cup ToSet(base))

\* This machine's order over the remote's: an id of theirs alone goes after
\* the one it follows there.
MergedOrder(base, ours, theirs) ==
    LET kept == SelectSeq(ours, LAMBDA id : id \in ToSet(theirs) \/ id \notin ToSet(base))
        place(acc, at) ==
            LET listed == {k \in 1 .. at - 1 : theirs[k] \in ToSet(acc)}
                to == IF listed = {} THEN 1
                      ELSE 1 + (CHOOSE j \in DOMAIN acc : acc[j] = theirs[Max(listed)])
            IN IF theirs[at] \in ToSet(base) \cup ToSet(acc)
               THEN acc ELSE InsertAt(acc, to, theirs[at])
    IN FoldLeft(place, kept, [k \in DOMAIN theirs |-> k])

\* Mutant: they bring the issue back.
DroppedNever(id, before, theirs) == FALSE

\* What has nowhere to go: changes to an issue the remote deleted.
Dropped(id, before, theirs) ==
    id \in DOMAIN before.issues /\ id \notin DOMAIN theirs.issues

\* One commit replayed: the tree so far, and what was renumbered of each
\* issue.
ReplayCommit(before, after, r) ==
    LET changed == {id \in DOMAIN after.issues :
                       id \notin DOMAIN before.issues
                       \/ after.issues[id] # before.issues[id]}
        gone == DOMAIN before.issues \ DOMAIN after.issues
        put == {id \in changed : ~Dropped(id, before, r.tree)}
        movedOf(id) == IF id \in DOMAIN r.moved THEN r.moved[id] ELSE << >>
        replayed(id) ==
            IF id \in DOMAIN r.tree.issues
            THEN ReplayIssue(before.issues[id], after.issues[id],
                             r.tree.issues[id], movedOf(id))
            ELSE [issue |-> after.issues[id], moved |-> << >>]
        done == [id \in put |-> replayed(id)]
    IN [tree |->
           [issues |-> [id \in (DOMAIN r.tree.issues \cup put) \ gone |->
                           IF id \in put THEN done[id].issue ELSE r.tree.issues[id]],
            order |-> IF after.order = before.order THEN r.tree.order
                      ELSE MergedOrder(before.order, after.order, r.tree.order)],
        moved |-> Beside([id \in put |-> done[id].moved], r.moved)]

\* Every commit this machine has and the remote's does not, oldest first, on
\* top of the remote's; one of which nothing is left is dropped.
Replayed(ours, theirs) ==
    LET from == Common(ours, theirs)
        step(r, k) ==
            LET done == ReplayCommit(Tip(SubSeq(ours, 1, k - 1)), ours[k].tree, r)
            IN [tree |-> done.tree, moved |-> done.moved,
                history |-> IF done.tree = r.tree THEN r.history
                            ELSE Append(r.history, [n |-> ours[k].n, tree |-> done.tree])]
    IN FoldLeft(step, [tree |-> Tip(theirs), moved |-> << >>, history |-> theirs],
                [k \in 1 .. Len(ours) - from |-> from + k]).history

-----------------------------------------------------------------------------
\* The remote's queue has issues 1 and 2; one machine may have none yet, one
\* of its own, begun with issue 3, or an edit of issue 1 not pushed yet.
First(n) == << [n |-> n, tree |-> Placed(NoTree, n, NewIssue(n))] >>
Shared == Append(First(1), [n |-> 2, tree |-> Placed(Tip(First(1)), 2, NewIssue(2))])
Unpushed(n) ==
    LET edit == [kind |-> "attach", id |-> 1, names |-> <<"draft">>]
    IN Append(Shared, [n |-> n, tree |-> Written(edit, Tip(Shared), n)])
NewestAtFirst == 3

Init ==
    /\ remote = Shared
    /\ \E m \in Machine, queue \in {Shared, First(NewestAtFirst), Unpushed(NewestAtFirst), << >>} :
           local = [l \in Machine |-> IF l = m THEN queue ELSE Shared]
    /\ writing = [m \in Machine |-> [w \in Writer |-> Idle]]
    /\ syncing = [m \in Machine |-> Idle]
    /\ clock = NewestAtFirst
    /\ deleted = {}
    /\ budget = Budget

Spend(kind) == /\ budget[kind] > 0
               /\ budget' = [budget EXCEPT ![kind] = @ - 1]

-----------------------------------------------------------------------------
(* A write: read, decide, commit; the ref moved meanwhile, again.          *)

WriterTo(m, w, job) == writing' = [writing EXCEPT ![m][w] = job]

Begins(m, w) ==
    /\ writing[m][w] = Idle
    /\ clock < NewestAtFirst + MaxWrites
    /\ WriterTo(m, w, [at |-> "read", base |-> local[m], tries |-> 1])
    /\ UNCHANGED <<remote, local, syncing, clock, deleted, budget>>

\* What is written is decided on the tree read, on each try anew.
\* CommitsBlindly, alone, sets the ref whatever it has come to hold.
CommitsBlindly(m, w) ==
    LET job == writing[m][w]
        n == clock + 1
    IN /\ job.at = "read"
       /\ n <= NewestAtFirst + MaxWrites
       /\ \E op \in Writes(Tip(job.base)) :
             /\ Written(op, Tip(job.base), n) # Tip(job.base)
             /\ IF job.base = << >> THEN Spend("first") ELSE Spend(op.kind)
             /\ local' = [local EXCEPT ![m] =
                    Append(job.base, [n |-> n, tree |-> Written(op, Tip(job.base), n)])]
             /\ deleted' = IF op.kind = "delete" THEN deleted \cup {op.id} ELSE deleted
       /\ clock' = n
       /\ WriterTo(m, w, Idle)
       /\ UNCHANGED <<remote, syncing>>

Commits(m, w) ==
    /\ writing[m][w].at = "read"
    /\ local[m] = writing[m][w].base
    /\ CommitsBlindly(m, w)

\* Refused for what was read - there is no such issue -, or needless.
EndsUnwritten(m, w) ==
    /\ writing[m][w].at = "read"
    /\ WriterTo(m, w, Idle)
    /\ UNCHANGED <<remote, local, syncing, clock, deleted, budget>>

\* The swap fails: read again, up to CAS_ATTEMPTS times.
Retries(m, w) ==
    LET job == writing[m][w]
    IN /\ job.at = "read"
       /\ local[m] # job.base
       /\ WriterTo(m, w, IF job.tries < CasAttempts
                         THEN [job EXCEPT !.base = local[m], !.tries = @ + 1]
                         ELSE Idle)
       /\ UNCHANGED <<remote, local, syncing, clock, deleted, budget>>

-----------------------------------------------------------------------------
(* The user's sync: a fetch, and what it brought reconciled.               *)

SyncTo(m, job) == syncing' = [syncing EXCEPT ![m] = job]

\* The fetched queue, and this machine's as read after, say what to do.
Fetches(m) ==
    LET ours == local[m]
        ahead == Ahead(ours, remote)
        behind == Ahead(remote, ours)
        to(at) == SyncTo(m, [at |-> at, theirs |-> remote, ours |-> ours, tries |-> 1])
    IN /\ syncing[m] = Idle
       /\ behind > 0
       /\ \/ ours = << >> /\ to("adopting")
          \/ ours # << >> /\ ahead = 0 /\ to("forwarding")
          \/ ours # << >> /\ ahead > 0 /\ to("rebasing")
       /\ UNCHANGED <<remote, local, writing, clock, deleted, budget>>

\* libgit2 looks whether there is a ref before it locks it, and then writes
\* over one made meanwhile (refs.rs says so of Repository::reference).
LooksForRef(m) ==
    /\ syncing[m].at = "adopting"
    /\ SyncTo(m, IF local[m] = << >> THEN [syncing[m] EXCEPT !.at = "creating"] ELSE Idle)
    /\ UNCHANGED <<remote, local, writing, clock, deleted, budget>>

Adopts(m) ==
    /\ syncing[m].at = "creating"
    /\ local' = [local EXCEPT ![m] = syncing[m].theirs]
    /\ SyncTo(m, Idle)
    /\ UNCHANGED <<remote, writing, clock, deleted, budget>>

\* Forced, but only from the ref as compared; else an error.
FastForwards(m) ==
    /\ syncing[m].at = "forwarding"
    /\ local' = IF local[m] = syncing[m].ours
                THEN [local EXCEPT ![m] = syncing[m].theirs] ELSE local
    /\ SyncTo(m, Idle)
    /\ UNCHANGED <<remote, writing, clock, deleted, budget>>

\* Mutant: the ref set whatever it has come to hold.
RebasesBlindly(m) ==
    /\ syncing[m].at = "rebasing"
    /\ local' = [local EXCEPT ![m] = Replayed(syncing[m].ours, syncing[m].theirs)]
    /\ SyncTo(m, Idle)
    /\ UNCHANGED <<remote, writing, clock, deleted, budget>>

\* The swap fails: this machine's queue is read and replayed again.
RereadsToRebase(m) ==
    LET job == syncing[m]
    IN /\ job.at = "rebasing"
       /\ local[m] # job.ours
       /\ SyncTo(m, IF job.tries < CasAttempts
                    THEN [job EXCEPT !.ours = local[m], !.tries = @ + 1]
                    ELSE Idle)
       /\ UNCHANGED <<remote, local, writing, clock, deleted, budget>>

Rebases(m) ==
    /\ syncing[m].at = "rebasing"
    /\ local[m] = syncing[m].ours
    /\ RebasesBlindly(m)

\* The user's push, an ordinary one: refused unless a fast-forward.
Pushes(m) ==
    /\ Ahead(local[m], remote) > 0
    /\ Ahead(remote, local[m]) = 0
    /\ remote' = local[m]
    /\ UNCHANGED <<local, writing, syncing, clock, deleted, budget>>

-----------------------------------------------------------------------------
Next ==
    \E m \in Machine :
        \/ \E w \in Writer : \/ Begins(m, w)
                             \/ Commits(m, w)
                             \/ EndsUnwritten(m, w)
                             \/ Retries(m, w)
        \/ Fetches(m)
        \/ LooksForRef(m)
        \/ Adopts(m)
        \/ FastForwards(m)
        \/ RereadsToRebase(m)
        \/ Rebases(m)
        \/ Pushes(m)

Spec == Init /\ [][Next]_vars

-----------------------------------------------------------------------------
(* Properties.                                                             *)

Blobs(issue) == {issue.files[p] : p \in DOMAIN issue.files}
Issue(history, id) == Tip(history).issues[id]

TypeOK ==
    /\ clock \in Nat
    /\ deleted \subseteq 1 .. clock
    /\ \A h \in {remote} \cup {local[m] : m \in Machine} :
           \A id \in Held(h) :
               /\ id \in 1 .. clock
               /\ Issue(h, id).body.refs \subseteq DOMAIN Issue(h, id).files
    /\ \A m \in Machine, w \in Writer :
           writing[m][w] # Idle => writing[m][w].tries \in 1 .. CasAttempts
    /\ budget \in [Kind -> Nat]

\* "no way to clobber a comment or a body edit" (issues.rs): an issue filed
\* and a file given to it stay in the queue of the machine they were made
\* on, or have come to, until the issue is deleted: whoever else writes, and
\* whatever is fetched and replayed meanwhile.
NothingLost ==
    [][\A m \in Machine : \A id \in Held(local[m]) \ deleted' :
           /\ id \in Held(local'[m])
           /\ Blobs(Issue(local[m], id)) \subseteq Blobs(Issue(local'[m], id))]_vars

\* "A deletion wins": an issue gone from a machine's queue does not come
\* back there, in whole or in pieces.
Gone(history) ==
    (UNION {DOMAIN history[k].tree.issues : k \in DOMAIN history}) \ Held(history)
DeletionWins ==
    [][\A m \in Machine : Gone(local[m]) \cap Held(local'[m]) = {}]_vars

\* A number names one comment, or one attachment, of an issue.
NumbersUnique ==
    \A m \in Machine : \A id \in Held(local[m]) :
        LET held == Issue(local[m], id).files
        IN \A p, q \in DOMAIN held : p.dir = q.dir /\ p.seq = q.seq => p = q

\* A rebase done: what the two machines held before it.
Rebased(m) == syncing[m].at = "rebasing" /\ local'[m] # local[m] /\ syncing'[m] = Idle
Base(m) == SubSeq(local[m], 1, Common(local[m], syncing[m].theirs))
HeldOn(m) == Held(local[m]) \cap Held(local'[m])
ChangedHere(m, id) ==
    id \notin Held(Base(m)) \/ Text(Issue(Base(m), id)) # Text(Issue(local[m], id))

\* "Whatever this machine changed wins, everything else is the remote's",
\* however many commits it was changed in.
MergedByField ==
    [][\A m \in Machine : Rebased(m) =>
           \A id \in HeldOn(m) \cap Held(syncing[m].theirs) \cap Held(Base(m)) :
               LET base == Issue(Base(m), id)
                   ours == Issue(local[m], id)
                   theirs == Issue(syncing[m].theirs, id)
                   now == Issue(local'[m], id)
                   keeps(was, mine, other, is) ==
                       (mine # was => is = mine) /\ (mine = was => is = other)
               IN /\ keeps(base.title, ours.title, theirs.title, now.title)
                  /\ keeps(base.body.text, ours.body.text, theirs.body.text,
                           now.body.text)]_vars

\* "The body's references to a renumbered attachment follow it": a body of
\* this machine's refers after the rebase to the files it referred to before.
Referred(issue) == {issue.files[p] : p \in issue.body.refs \cap DOMAIN issue.files}
ReferencesFollow ==
    [][\A m \in Machine : Rebased(m) =>
           \A id \in HeldOn(m) :
               \/ /\ id \in Held(Base(m))
                  /\ Issue(Base(m), id).body = Issue(local[m], id).body
               \/ Referred(Issue(local[m], id)) \subseteq Referred(Issue(local'[m], id))]_vars

\* "Every id this machine listed stays where it put it", each once.
Places(order, i, j) == \E a, b \in DOMAIN order : a < b /\ order[a] = i /\ order[b] = j
OrderKept ==
    [][\A m \in Machine : Rebased(m) =>
           LET base == Tip(Base(m)).order
               ours == Tip(local[m]).order
               now == Tip(local'[m]).order
           IN /\ IsInjective(now)
              /\ ours # base =>
                    \A i, j \in ToSet(now) \cap ToSet(ours) :
                        Places(ours, i, j) => Places(now, i, j)]_vars
=============================================================================
