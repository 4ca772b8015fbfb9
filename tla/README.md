# Verifying taste-ide in TLA+

taste-ide is an IDE whose agents work in environments of their own: a primary one, *Personal*,
whose checkout of the user's repository lives in a virtual machine, and agents' ones beside it.
The user keeps a plain folder on the host. What the program must never do is lose a version of a
file or a commit, and the part that could is the two-way sync between that folder and Personal's
checkout. This project starts there: the sync's decision, its pass over the files, its pass over
the branches, what starts the passes, what a close leaves of the VM, the issue queue that several machines
write, and the messages between a chat and its agent are modelled, checked by TLC and, where stated
below, proved by TLAPS. The rest of the system is inventoried and planned.

Paths below are in the repository; `G` is `crates/taste-git/src`, `D` is
`crates/taste-devcontainer/src`, and P1 ... P12 are the properties `docs/SYNC.md` names.

## 1. The system

### Components

| part | state it keeps | operations | hard behaviours | what makes it correct |
|---|---|---|---|---|
| **Planner** `G/plan.rs` | none; a function of three trees (folder, checkout, archive), scope and the user's answer | `plan`, `after`, `clashes`, `applied`, `archived` | files against directories, ignored files in the way, narrowed passes | writes that fit; nothing out of scope; one undisturbed pass is enough; an answer settles |
| **Mirror pass** `G/mirror.rs`, `G/snapshot.rs`, `G/beneath.rs`, `D/peer.rs` | the archive ref (what both last agreed on, and which snapshot that was seen in), the snapshot ref in the checkout, the two working copies | snapshot, fetch, read, decide, send (a script run in the VM), receive, record | actors edit at every moment; any step may be the last; writes fail or go unreported; another snapshot races | P1 no version lost, P2 asked not guessed, P3-P6 propagation, convergence, no resurrection, no echo, P7 scope, P10 crashes |
| **Sync scheduling** `D/supervisor.rs` (1398-1552, 1864-2415), `D/registry.rs` 1861-2150, `taste-app` close | `folder_sync` (lock), `folder_changes`, `folder_settled`, `folder_conflicts`, `folder_passes`, burst marks | `set_keeper`, `watch_folder`, `sync_peer_blocking`, `resolve_folder_conflict`, `sync_peer_for_publish`, `folder_in_step` | lost wake-ups, counts read too early or late, passes starting passes, watches that come up late or die | in step is true when said; every change carried, asked or explained; passes end; a publish is fresh |
| **Positions** `D/peer.rs`, `G/mirror.rs`, `G/refs.rs`, `G/merge.rs`, `G/transport.rs` | branches and HEAD of both sides, the fetched refs, the position recorded | fetch, follow, send, switch, place, record | commits, rebases, switches and detached HEADs at every moment; scripts that check and then move | no commit lost; what is recorded as agreed was shared; the two come to stand at one place or say why not |
| **Disposable** `D/disposable.rs`, `D/provision.rs`, `taste-app` close | the marker and its re-check, the deferred shutdown, the clean returns | open, close, look, mark, re-check, shut down, clear | a relaunch within the grace; jobs that run on after the close; another IDE that clears | a VM goes, or is overwritten, only over what this machine holds; no window's VM is shut down under it |
| **Ignored but synced** `G/sync_ignored.rs` | a rules file, the RulesSeen cache | add, remove, merge | caches going stale | P7 |
| **Issues** `G/issues.rs`, `G/issues/rebase.rs`, `G/refs.rs` | issues, their files and their order as commits under a ref, the fetched queue | file, edit, comment, attach, delete, reorder; adopt, fast-forward, rebase; push | concurrent writers on one machine and on several; compare-and-swap, a rebase racing a write | nothing filed lost; a deletion wins; each merge rule over any two queues |
| **Branch plumbing** `G/merge.rs` ... `G/review.rs` | git's | merge, review, mediate | sequential | git's |
| **Environment lifecycle** `D/supervisor.rs`, `D/provision.rs` | the phase of one environment, its container or VM | provision, start, stop, rebuild, recheck | cancellation, late results | one container; a stop that was asked happens |
| **Registry** `D/registry.rs`, `D/worktree.rs`, `D/migration.rs` | environments, placements, keepers | create, place, move, remove, revive | two placements at once, restarts | an environment lives in one place |
| **Pool and reconcile** `D/pool.rs`, `D/reconcile.rs`, `D/golden.rs` | VMs and their claims | claim, release, reconcile | crash between claim and use | capacity; no VM in use is removed |
| **Keeper and channel** `D/keeper.rs`, `D/channel.rs` | requests in flight, watches | call, watch, death | lost answers | every caller answered or failed |
| **Chat and session** `taste-app/src/chat.rs`, `taste-acp/src/session.rs` | the pane's `pending_prompts`, `revive_queue`, cards and Stop; the task's turn and queue; a channel each way | send, hold, flush, withdraw, expedite, stop, take within the turn; end, refuse, die, reconnect | two copies of one queue changed from both ends; a prompt racing the turn's end, its agent's death, its environment's move | no message lost or had twice; a card says what is so; the order written is the order had |
| **The rest of `taste-acp`** | terminals, permissions, the proxy | run, answer, relocate | an answer racing the end | a terminal's end is reported once |
| **Shared state** `taste-core` (tasks, shells, instance, quota) | tasks, instance lock, standing | start, finish, claim | two instances | one window a workspace |
| **Credential proxy** `taste-authproxy` | the credential files it holds, quota, machines asleep | forward, re-read after a 401, wake | many requests at one sleeping host | one attempt to wake in flight a host; every request answered |
| **MCP server** `taste-mcp` | waits on the others | tools | watchdogs | - |
| **Fleet link, cloud, window, helpers** | I/O and presentation | - | - | - |

### How they interact

The keeper's watch on the checkout and inotify on the folder call closures that count a change and
start a thread; the thread waits two quiet seconds and asks for a pass. A pass runs under
`folder_sync`: over the keeper it takes a snapshot of the checkout into a ref, fetches it, reads
the folder, asks the planner, sends the folder's changes as a script run in the VM, writes the
checkout's into the folder, and records what both now hold as one ref update. Its result is stored
in the supervisor's counts and conflicts and published as events; the window asks the user, and
the answer is a pass of its own. Turns, closes, publishes, the tree and the snapshot timer call in
from other threads. The writes of a pass are seen by both watches as anyone's are.

## 2. Modules

| module | models | composed with |
|---|---|---|
| `Plan` | the decision, as operators | - |
| `PlanPass` | undisturbed rounds of it over every input, full and narrowed | EXTENDS Plan |
| `Mirror` | one pass at a time, step by step, with everyone who acts beside it | EXTENDS Plan, implements Reconcile |
| `Reconcile` | what the sync promises of the two copies, in four actions | - |
| `Position` | the pass over branches and HEADs, with everyone who acts beside it | the files pass one long step of it |
| `FolderSync` | what starts passes and what is said of them | a pass abstracted to what it carries |
| `Disposable` | a VM between its windows | a sync abstracted to what it brings here |
| `Issues` | the issue queue on several machines and their remote | - |
| `Chat` | a chat pane, its session's task and the two channels between them | an agent and an environment of one action each |
| `PlanProofs` | what the decision's operators do, in lemmas, and the theorems about it | EXTENDS PlanPass |
| `MirrorProofs` | the theorems about a pass: what it keeps safe; what it brings about and where its own writes end | EXTENDS Mirror, PlanProofs |
| `FolderSyncProofs`, `PositionProofs`, `DisposableProofs` | the theorems about each | - |
| `IssuesProofs` | what the folds of a replay compute, in lemmas, and the theorems about the queue | EXTENDS Issues |
| `ChatProofs`, `ChatCards` | what the pane's copy of the queue becomes as events are heard, in lemmas, and the theorems about Stop and the copy; that the cards say truly what became of each message, and that messages reach the agent in the order written | `ChatCards` EXTENDS `ChatProofs` EXTENDS Chat |
| `MCPlan`, `MCMirror`, `MCFolderSync`, `MCPosition`, `MCDisposable`, `MCIssues`, `MCChat` | instances for TLC | - |

### Plan, PlanPass

A working copy is a function from `Path` to an entry or `None`; `Above` is the pairs of a path and
one beneath its name. An entry stands for content, mode and kind together, as the code compares
them (an object id and a mode). `Observed` is the record of plan.rs: the archive, both copies, scope
and what the folder holds unseen. `Planned(observed, answer)` is `plan`: each path in scope is
decided alone (`SendsToCheckout`, `SendsToFolder`, `Agrees`, `Conflicts`), then the writes whose
result would not fit are turned into conflicts (`Clashing`, once: that the code's loop drops nothing
in a second round is lemma `OneRound`). `PlanPass` lands the whole plan, records it with `Archived` and looks
again, for a full pass and beside it for the narrowed one (`Changed`, `Narrowed`). `WellFormed` says of a copy that it could be on a disk, `Fits` that
nothing in it stands in a path's way.

### Mirror

| variables | in the code |
|---|---|
| `disk`, `ignored` | both working copies, and each side's ignore rules, per path |
| `archive`, `observation` | the archive ref: its tree, and the snapshot it was seen in with whether the pass wrote the checkout |
| `snapRef`, `look` | the checkout's snapshot ref, and the snapshot script's locals, one for a pass and one for a turn |
| `pc`, `answer`, `snapshot`, `seen`, `observed`, `plan`, `left`, `landed` | the pass's locals |
| `orphan` | writes of a script whose pass is gone and which may run on in the VM |
| `asked`, `dialog` | `folder_conflicts`, and the paths the question on screen names |
| `replaced`, `byActor`, `calm` | ghosts: versions an actor (or an answer) replaced, paths an actor wrote since the last agreement, no disturbance in this pass |

`BeginUnasked`/`BeginAnswered` start a pass and its look (the script's tree); `Publish` is the
script's compare-and-swap of the ref and its retry, which reads the ref again and not the tree;
`Fetch`, `FetchStale` adopt the snapshot, or give up on one the last pass is known to have written
over; `ReadFolder`, `Decide`, `Pause`, `Send`, `Sent`, `Receive`, `Record` follow `mirror_at`; `Stop`
is an end at any step, by an error or a killed process; `OrphanWrites` is the script running on.
`TurnEnds`, `Publish("turn")`, `TurnTaken` are `snapshot_blocking`, outside the lock. `Carry` lands a
write only while its side holds what was observed (`Lands`), may fail, and in the VM may land
unreported.

### Reconcile

The abstract sync: `copy` of each side, what the two `agreed` on, and the versions `retired`,
which somebody replaced or an answer gave up. People edit; the sync carries a version over one that
is retired or nothing, and never one of its own making; it records as agreed only what each side
holds or has moved on from. `Mirror` maps `disk`, `archive` and `replaced` onto these
(`R == INSTANCE Reconcile WITH ...`); everything else of a pass - snapshots, plans, scripts, orphans,
questions - is a stutter. A pass may stop anywhere in it: the abstract sync needs no order.

### Position

A commit is the set of ids in its history, so ancestry is inclusion, and `ahead` and `behind` are
differences. `tip`, `head` and `op` are each side's branches, HEAD and rebase under way; `fetched`
and `pinned` are `refs/taste/vm/*` and `VM_HEAD`; `recorded` is the position in the archive ref's
message; `mover` is what the reflog says of who moved a branch of the folder last. The pass
is `sync_primary_peer_pass` in its order: `StandDown` or `Look`, `ReadHead`, `Fetch`, then each
fetched branch by `Decides` (nothing, followed, left to the mirror, said) or `Sends` with the two
halves of the script in the VM (`ScriptChecks`, `ScriptMoves`), `FollowHead` with `SwitchScript` and
`RecordSwitch`, and the mirror's `Settle`, `Place`, `Record`. Everyone commits, amends, rebases and
switches on both sides between any two of them.

The sync has windows: where it has checked a side and moves it without looking again (`Window`). A
commit made in one, or under a detached HEAD of the folder, may be dropped by the move, and
the ghost `given` takes it out of the properties. They are in the code and listed with the hazards.

### Disposable

`disk` is the work written in the VM, `here` what this machine holds of it; a sync adds the first
to the second. `marked` and `recheck` are the two files beside the domain's disk; `window`,
`sleeper`, `check` and `clearer` are the processes: the window from its opening (`bring_up` step by
step) to its close's look and mark, the `setsid` shell the close leaves behind, the re-check that
shell runs, and another IDE between listing, judging and destroying. Work is written whenever
containers run, windows or none. `unsure` and `given` follow what goes by a marker whose re-check has
not run.

The two files are written and removed one after the other: `Marks` and then `LeavesRecheck`, or at a
withdrawal the re-check first (`WithdrawsRecheck`, `Keeps`) and then the marker (`WithdrawsMarker`,
`KeepsUnmarked`), and everyone else acts between (`Between`). The re-check is four steps -
`StopsContainers`, `Rechecks`, `Unmarks`, `RecheckRemoves` - and a process of its own: `timeout` puts
it in a group that the cancelling of its sleeper (`CancelsShutdown`) does not reach, and it runs on
under the window. What leaves a marker standing with no re-check to come, which everybody goes by,
spends a `slip`:

- a process that ends between the two files, or a close cut short there (`Dies`, `HostRestarts`,
  `ClosesNow`);
- a re-check that cannot be written after its marker (`LeavesRecheck`; disposable.rs 455-456);
- a marker that cannot be removed, which is warned of (`RemovesMarker`; disposable.rs 139);
- a re-check that ran on, which removes the file that has its name by then: the next close's
  (`RecheckRemoves`).

### Issues

A ref is its history, a sequence of commits each with its tree: issues with a title (for all
fields merged as it is), a body with the attachments it refers to, files numbered in two
directories, and an order. A writer reads (`Begins`), decides and swaps (`Commits`) or reads again
(`Retries`); the reconcile after a fetch adopts, fast-forwards or rebases, in two steps around its
own swap. `Replayed` is `replay_issues`: commit by commit, issue by issue, with
`Renumbered`, `Followed`, `Merged`, `Dropped` and `MergedOrder` the rule for each place two machines
can touch. Folds, not recursion, walk the commits and the paths in the order the code's maps do.

### FolderSync

`dirty` says of each side whether it holds a change the other lacks, and whether the pass has seen
it; `clash` that the two are to one path; `unheard`, `pending` and `queue` follow a change from the
watch through the burst's thread to a pass waiting for the lock; `pass` is the pass under
`folder_sync`. The counters are kept as what is asked of them: `settled` is `folder_settled =
folder_changes`, `pass.seen` that `folder_changes` has not moved since this pass read it,
`publish.passed` that `folder_passes` has. Since the counters only grow this is exact. `told` is
the badge saying why the folder was left as it is.

A snapshot is a tree, of which `trees` says what it lacks of the checkout as it now is: changes to its
files, or the commits since (`Newer`). There are three: the one the ref names, the one the pass's script
has taken and not yet published, and the same of a snapshot beside the passes. `LookCheckout` takes
the pass's tree, `PublishSnapshot` makes it the ref's, and `FetchCheckout` goes by the ref, whatever it
names by then; a script that finds the ref naming its tree already publishes nothing. `TurnLooks`
and `TurnPublishes` are `snapshot_blocking`, outside `folder_sync`, and `TurnEnters` the pass it asks for
when it wrote. A script outlives the keeper or the pass it was for (`LeavesScript`, turn "orphan"). A
pass that has fetched a snapshot of an older commit than the branches' decides nothing, and is a
success (`Stale`). Two budgets name what such a snapshot can do: `stale`, an older tree published between
the pass's publish and its fetch (`Outdates`); `late`, one published for nobody over a newer one
(`Hides`).

### Chat

The session's task has the `turn` and the `queue` behind it; the pane has `pending`
(`pending_prompts`), its own copy of both, `held` (`revive_queue`), the `card` of each message and
`stop`. `commands` and `events` are the channels, each in order. Sending (`Send`, `RequestText`)
starts an agent if there is none; a message waits in `held` while the environment moves or others
wait before it, and `Flushes` hands all of them over: at the agent's `Ready`, when the environment
has settled, or with the next message. The task takes its queue front first, the named messages
behind the front in the same turn (`Joined`, the `Leading` places that may); during a turn it serves the commands (`Serves`). The
hook `Asks` for what waits, `Reads` it, or has given up (`GivesBack`). Each `Hears...` is an arm of
`handle_event`. The agent may refuse a turn (`TurnFails`), die (`Dies`), or go down with its
environment (`EnvMoves`); the pane then holds what is unfinished and reconnects (`Reconnects`) or
waits for the environment (`EnvSettles`).

Messages leave a sequence by their places: `At` is what stands at some of them, in order.

The pane changes its copy by what it hears, and what it hears may be of a queue it has changed
since. Where that goes wrong the action spends a `slip`:

- Ctrl+Stop's answer is a number, counted from the end of the copy (`withdraw_queued`): a message
  sent before the answer is heard is taken for a dropped one (`Dropping`).
- A refused turn hides Stop, though the session goes on with what waits (`Failing`, `TurnFails`).
- A fast-forward drops the prompts without a name and tells nobody (`Expedites`).
- `reset_session` leaves `pending_prompts` to the next session (`Replaces`).
- The front of the copy is taken for the turn's when the environment takes the agent, started or
  not, and whatever a refusal popped before (`Loses`).
- A hook's give-back offers no Stop, and may come before its taking is heard (`GivesBack`).
- A prompt of the IDE's own is shown as sent, and its row appended, before it is sent: to a task that has
  ended it is not, and the row stays. If the environment took that task, the front it takes for
  the turn's is this one (`RequestText`, `Passing`).

With `slips = 0` all else happens in every order; with `slips = 1` each of the seven breaks a
property, and run `lost` is the shortest. Each clause of a guard is needed: without it a property
fails with `slips = 0`.

### What the models leave out

- The check before a write and the rename after it are one step. `docs/SYNC.md`, "What remains",
  names the window between them.
- Reading the folder, and taking the checkout's tree, are one step each; the code does both file by
  file. A file changed meanwhile is an edit before or after.
- Mirror keeps one branch at one commit, no submodules, and entries that are equal or not: links,
  modes and empty directories are entries or nothing. Ignore rules are per path and not themselves
  files that are carried. One question is on screen at a time.
- The hash and rules caches are not there: each pass reads everything afresh. Narrowing is
  checked in `PlanPass` on what it is told changed.
- Mirror's passes keep coming under its fairness; that something starts them is FolderSync's.
- Position leaves the files to Mirror: what is uncommitted is a script's or git's refusal, by a
  fault of the budget. No tags, no unrelated histories, one folder.
- Disposable has one VM and one workspace; what a look compares is the set of works. One re-check
  runs at a time: the next sleeper's grace, 120 s, outlasts the 60 a re-check has.
- Issues has no claims, links or labels (they merge as the title does), and a fetch and a push are
  single steps of the remote. A commit is one kind of edit; `issue_update` (issues.rs 1159-1276) may
  bring a title, a body, a comment and attachments in one. The replay
  decides each of these by itself; a commit that brings files and the body that refers to them
  is there, one that brings more at once is not.
- Chat has no plain Cancel (a turn may end at any time), no modes, questions or permissions, no
  sign-in, no record of the conversation and no restoring of it, and a deaf agent is one whose turn
  has not ended. A message whose turn died with its agent may be had twice (`undone`). The cap of
  three reconnects is the bound on deaths. `Update`'s marking of the front as taken is folded into
  the turn's end, and a hook whose turn is over has given up.
- FolderSync carries all of a side's change at once, asks about all or nothing, and makes commits
  in the checkout only. The two seconds and the five minutes of a burst are no times, only steps. What a
  pass that goes by an older tree undoes in the folder is Mirror's; one pane takes snapshots, and of
  the scripts that outlive their pass or keeper at most one runs on.
- The repository's own models (`docs/models`) were not used. They leave kinds and scope out, which
  `Plan` and `Mirror` have.

## 3. What TLC checks

Every `Budget` bounds how often a kind of event happens, per run; nothing else is bounded.
Entries are symmetric and so are tried as a symmetry set in the runs without liveness properties.

| run | instance | shows |
|---|---|---|
| plan | `a`, `a/b`, `c`, two entries, every archive and both copies, all scopes that leave out at most one path, no answer or either side kept | what lands fits (`NoClashLeft`); narrowed equals full (`NarrowedIsExact`); a second round writes nothing (`Settles`); an answered conflict is gone (`AnswerSettles`) |
| safe | `a`, `a/b`; 2 edits, 1 rule change, 1 failed, 1 unreported write, 1 stop, 1 answer | `NoVersionLost`; `ArchiveBacked`; `OnlyOverAgreed`: a path nobody answered about is written only over what was agreed; `UnseenKept`: no ignored file is taken for a removed one; `Reconciles`: every step is one of the abstract sync's, or none; types |
| beside | one path, 3 edits, 1 turn, 1 answer, 1 failed write, no stop | a stale snapshot alone never takes the last copy (`HeldSomewhere`) |
| live | 2 edits, 1 stop, 1 failed write, 1 answer | `Converges`, `Quiesces`; `CalmMeansAgreed`: the order of the writes lets all land; `NoEcho`: until a pass is stopped, the sync's own writes are nobody's change (save one case, below) |
| step | 2 edits, 1 commit, 1 answer, 1 call, 1 publish, turns' snapshots, none stale | `InStepHonest`: in step is never said while a reported change is not on both sides; `PublishAlone`: a publish that met no pass finds its branches home |
| follow | 2 edits, any number of errors, 1 failed write, 1 operation, 1 keeper's death, 1 answer, turns' snapshots, none late | `CarriedOrTold`, `Rests`, `ComesInStep` |
| position | two branches, 4 commits, 3 acts on either side, 1 fault | `NoCommitLost`: what is committed stays reachable on one side; `AgreedWasShared`: what is recorded as agreed was in Personal; `Meets`, `StandsStill`: the two come to one place or are told why not, and passes come to move nothing |
| disposable | 3 works, 3 openings, 1 slow close, 2 clearings, 1 fault, no slip | `NothingLost`, `ConfirmedIsTrue`, `NotUnderAWindow` |
| issues | 2 machines, one writer each, 2 writes of any kind after one that may not be pushed; an unrelated queue, an empty one | `NothingLost`, `DeletionWins`, `NumbersUnique`, `MergedByField`, `ReferencesFollow`, `OrderKept` |
| chat | a message, one with an attachment, one of the IDE's own; 1 act on a card or Stop, 1 taking, 1 death, refusal or move, 1 replacement, no slip | `SaidTruly`: a card never says of a message what is not so, and none is had twice; `OrderKept`: messages are had in the order written, through queue, hold and reconnect; `StopTells`: Stop is offered exactly while the agent works; `ComesToRest`: none waits for ever |

Why these bounds are enough to mean something. A clash needs a path and one beneath it. To lose a version takes a change on one side and another
on the other in the middle of the pass that carries the first: two edits; a third returns a side to
what it held before, and runs in `beside`. In FolderSync two edits
meet at one path or not, and the second falls at every step of the pass of the first; one commit is
made before, in or after the pass a publish waits for. In Position a rewrite meets a commit of the
other side with three acts (a rebase is two), on a root and the branch's commits: four ids; the
second branch is what switches and what a branch elsewhere needs. In Disposable the third window is
the first that meets a sleeper, a marker and a clearer left by two closes. In Issues a merge needs a
base, one commit here and one there; the third commit is the first to touch what a replayed one
renumbered. In Chat three messages are a turn, one waiting behind it and one that comes in
between; the attachment and the unnamed prompt are what a taking and a joining stop at. Two plain
messages with two acts, takings and deaths pass as well.

### Disagreements found

Each is a run TLC must fail, on one property, in words of the repository.

| run | property | in short |
|---|---|---|
| turn | `HeldSomewhere` | a turn's snapshot that lost its ref update publishes its old tree; the pass works from it and stops; the last copy of a version goes (P1) |
| lost | `SaidTruly` | a message is sent to an agent still starting when the environment takes it down; its card says taken, and nobody has it |

More were met on the way. The properties that state them are in the modules, and the runs that
would show them are changes of a bound or of the property; they are listed with the hazards:

- `Mirror!ConflictsAreActors`, one stop: a pass stopped before its record; the folder changes again;
  the user is asked about a path the sync itself wrote (P6, P10).
- `Mirror!NoEchoAtAll`: the folder removes `a/b` and makes a file `a`; the pass sends both; an agent
  has just removed `a/b` too, so the removal misses and the file lands. The archive still
  names `a/b`, and its tree cannot hold `a` beside it (mirror.rs 925-1060), so `a` goes
  unrecorded, and the checkout's, which the sync wrote, counts as made there: if the user
  removes `a` before the next pass, it comes back (docs/SYNC.md 110-118, P5 and P6). `NoEcho`
  excepts exactly this, and is proved.
- `Mirror!AnswerOnlyAsked`, four edits and an answer: an answer decides a path that came into
  conflict after the question was put (supervisor.rs 2386-2388 says it does not).
- `FolderSync!InStepHonest` with an operation in progress: a pass that stands down for a rebase
  returns as one that succeeded, and settles what it never compared (peer.rs 1196, supervisor.rs
  2086 against 2333-2336).
- `Disposable!DiffersOnThisSide`: a job writes after the close's look; the workspace is opened again
  within the grace; its return is taken for a clean one and Personal is made the folder's over the
  job's work (disposable.rs 114, against peer.rs 2442-2443).
- `Disposable!ConfirmedIsTrue` and `NothingLost` with `slips = 1`: the window's process ends, or a write or a
  removal fails, between the marker and its re-check (disposable.rs 447 and 455, 135 and 136). The
  marker stands with nothing to confirm it, work is written under it, and the VM is cleared for room
  or made the folder's.
- `Disposable!ContainersLeft`, under `MCDisposable.cfg` as it is: a window opened while the last one's re-check
  runs cancels the sleeper and not the re-check, which stops the containers under it; it "must not go
  on doing that under the window that cancelled it" (provision.rs 1880-1882, against `timeout` in 1825).
- `Chat` with `slips = 1`: the seven of section 2. A message sent between Ctrl+Stop and its answer is
  said never to be sent and is; Stop is hidden under an agent at work, or left under one at rest;
  messages pending at a replacement are lost and later said to be taken; and so is a prompt of the IDE's
  own that was shown to a task ended by a moving environment (chat.rs 4205-4230, 9716).
- `FolderSync!InStepHonest` with `stales = 1`: a file changes in the checkout; a turn's script takes its tree;
  a commit follows, and is reported; a pass takes its own tree and publishes it; the turn's script, which
  lost the ref update, publishes the tree it has (snapshot.rs 470-489); the pass fetches that, finds it
  against another commit, decides nothing (mirror.rs 415-418) and settles what was reported
  (supervisor.rs 2086). In step is said over a change the folder has not, until the pass of that turn
  comes (supervisor.rs 2333-2336).
- `FolderSync!CarriedOrTold` with `lates = 1`: such a script outlives its keeper and publishes, after the next
  keeper's pass has settled, a tree that has a change no watch heard. No pass comes of it, and each later
  snapshot finds nothing to write (snapshot.rs 472): the change stays in the checkout until something else is heard.
- `FolderSync!PublishFresh`: a publish waits out a pass that fetched before the commit, and is told
  its branches are home (supervisor.rs 2012).
- `Position!MirrorsInAgreement`: the user detaches the folder's HEAD; `switched_here` (mirror.rs
  683) knows branches only, and the mirror takes the folder off it (docs/SYNC.md 60-64).
- `Issues!NothingLost` with `firsts = 1`: a machine's first issue, filed while the remote's queue is
  being adopted, is dropped: `Repository::reference` (issues.rs 1567) tests for the ref before it
  takes the lock, which refs.rs 271-274 says of that very call.
- `Issues!ReferencesFollow` with `attaches = 2`: two edits each bring a file of one name, both are
  renumbered, and the renames are applied one after another (rebase.rs 318-330), so the first
  reference follows both.
- With `early = 1` or a keeper that dies, `InStepHonest` fails: a change between the placement's
  pass and the first watch (registry.rs 1931, 2139), or while the keeper is gone, is nobody's.
- With `fails = 1`, `InStepHonest` fails: an answer's pass whose write failed takes the question
  away while the count says settled (supervisor.rs 2187).
- With `fails = 3`, `CarriedOrTold` fails: a write that fails in all three rounds is left, with
  nothing on the badge (supervisor.rs 2208, 6141).
- `CarriedOrTold` holds over an operation only because the pass that stood down said so: the end
  of one in the folder starts no pass (supervisor.rs 2284), and the folder follows again at the
  next change anywhere, not "once it is finished or aborted" (mirror.rs 668-671).
- A file made in the checkout where the folder has a directory of ignored files only is written in
  vain by every pass and asked about by none (mirror.rs 511, 1175), which P3 does not allow.

The passing runs say how far the rest goes: without a stop the stale snapshot loses nothing
(`beside`), without an operation, a failed write, an early edit or a stale fetch in step is honest, and a
publish that met no pass is fresh unless that pass fails (`step`); fewer than three failures are made up
for (`follow`); and while every marker gets its re-check, nothing is lost by one that is confirmed
(`disposable`).

### Fairness

Mirror's `FairSpec`: a pass begun goes on - its code is straight-line over calls that return or
fail - and there is always another one, as long as the sides are watched; not fair are the actors,
the stops, the answers, the failures, a turn's snapshots. FolderSync's: threads run, the watches
report, a placement begun raises its watches, the snapshot timer fires while the keeper answers,
and a pass waiting for a dead keeper fails. A snapshot's script comes to an end, or to nothing if its keeper is
gone. Not fair: passes that err on their own, edits, operations beginning or ending, a
dead keeper coming back, answers, publishes. Position's: the pass as a whole, weakly - each step
follows the one before, and passes follow one another as Mirror's do; no act and no fault is fair.
Chat's: the task, the pane and the hook go on, a turn ends, an environment settles, a
reconnect's timer fires; nobody has to send, to press, to take or to fail.
Disposable and Issues state no liveness: what ends a shutdown or brings a fetch is the host's and
the user's.

## 4. What is proved

For every set of paths, entries, `Above`, and every budget, and checked to the last leaf:

| theorem | states | from |
|---|---|---|
| `TypeCorrect` (PlanProofs) | `PassTypeOK`: the rounds keep their types, and what they go on from could be on some disk | inductive as it stands |
| `PlanFits` | `NoClashLeft` | lemma `OneRound`: dropping clashing puts only shrinks what a side will hold, so one round leaves no clash and the code's loop ends there |
| `NarrowedExact` | `NarrowedIsExact` | a path that changed nowhere decides as it did, so leaving it out changes no write, agreement or conflict |
| `AnAnswerSettles` | `AnswerSettles` | lemma `AnsweredFits`: what stands in the way of the side kept was asked about too, or was to be removed anyway, so an answer to everything asked drops no put |
| `AWholePassSettles` | `Settles` | lemma `OnlyDroppedRemain`: what the next round would still write was dropped by this one as a put that clashes, and clashes with something that is there yet, so the next round drops it too |
| `TypeKept` (MirrorProofs) | Mirror's types | `TypeInv` |
| `OnlyOverTheAgreed` | `OnlyOverAgreed` | `Decided`: the writes left expect what the decision observed |
| `NeverRemovedUnseen` | `UnseenKept` | `Decided` |
| `ArchiveAlwaysBacked` | `ArchiveBacked` | `SafeInv`, assuming `Budget["turn"] = 0` |
| `NoneLost` | `NoVersionLost` | the same |
| `MirrorReconciles` | `Reconciles`: Mirror implements Reconcile | the same, one case for each action that is not a stutter |
| `CalmAgrees` | `CalmMeansAgreed` | `FitInv` and `CalmInv`, assuming `Budget["rule"] = 0` and `Budget["turn"] = 0` |
| `NothingEchoes` | `NoEcho` | `EchoInv`, assuming `Budget["unsaid"] = 0` as well |
| `OneSideHolds` | `HeldSomewhere` | `HeldInv`, assuming `Budget["stop"] = 0` alone |
| `TypeKept` (FolderSyncProofs) | FolderSync's types; a pass goes again twice at most | inductive as it stands |
| `InStepIsHonest` | `InStepHonest` | `StepInv`, assuming `Reported` and `Undisturbed` |
| `PublishAloneIsFresh` | `PublishAlone` | `AloneInv`, assuming `Unfailing` |
| `TypeCorrect` (PositionProofs) | `TypeOK` | `IInv` |
| `NoCommitIsLost` | `NoCommitLost` | the same, each commit followed through the pass |
| `AgreedIsShared` | `AgreedWasShared` | the same |
| `TypeCorrect` (DisposableProofs) | `TypeOK` | inductive as it stands |
| `NothingIsLost` | `NothingLost` | `IInv`, assuming `Budget["slip"] = 0` |
| `ConfirmedMarkersAreTrue` | `ConfirmedIsTrue` | the same |
| `NeverUnderAWindow` | `NotUnderAWindow` | `WindowInv`, assuming nothing |
| `TypeCorrect` (ChatProofs) | `TypeOK` | inductive as it stands, over lemmas about `At` and `Leading` |
| `StopIsOffered` | `StopTells` | `IInv`, assuming `Budget["slip"] = 0` |
| `CopyComesTrue` | `CopyIsTrue`: the pane's rows are, once all is told and heard, the turn and then the queue; nothing is in them twice, or held as well | the same |
| `CardsSayTruly` (ChatCards) | `SaidTruly` | `TInv` over `IInv`, on the same assumption |
| `OrderIsKept` | `OrderKept` | `OInv` over `IInv`, on the same assumption |
| `TypeCorrect` (IssuesProofs) | Issues' types; a body refers to attachments its issue has | `IInv` |
| `Unique` | `NumbersUnique` | the same |
| `DeletionIsLast` | `DeletionWins` | the same, over what each step makes of a queue (`Lasting`) |
| `NothingIsLost` | `NothingLost` | the same and `FInv`, assuming `Budget["first"] = 0` |

`ArchiveBacked` is not inductive: the archive is written from a plan made steps earlier, over
copies that have moved since. `SafeInv` carries it through the pass: nobody publishes a snapshot
but the pass (`PassAlone`); what the pass's look and read hold was on that side, and has since been
replaced if it is gone (`LookedFaithfully`, `ReadFaithfully`); what is planned will, when carried,
leave the path backed by the archive or by a version an actor replaced (`Carriable`); and what
landed is backed now (`LandsSafely`). The hypothesis on turns is needed: with one, TLC finds the loss
(run `turn`).

Whether a pass lands what it planned depends on what a disk can hold. `FitInv` says that both copies,
every snapshot and the archive are trees some disk could hold, and that the plan is
`Planned` of what was observed; then no write of it finds a file above or beneath its path when its
turn comes (`EveryWriteLands`). `CalmInv` follows one undisturbed pass: what it looked
at is what the sides hold, and each side is `Applied` of what is written so far. `EchoInv` follows each
path no actor has been at: the pass has seen what is there (`SeesOwn`), or put it
there (`WritesOwn`, `HoldsOwn`), and a file that landed met nothing that the archive could keep
against it, save what an actor moved from beneath it (`LandsApart`). These two suppose what the
runs supposed: a change of rules hides a path from the next comparison, a turn's snapshot may publish
what the pass has since written over, and a write that landed unreported is not recorded, so that
the side it landed on differs from the archive by the sync's doing. `HeldInv` is for stale
snapshots, and needs none of this: a pass that works from one may take from the folder what
nobody replaced, but then the checkout holds it (`ArchiveHeld`, `PlanHeld`), and from the checkout it
takes only what was replaced. It needs that no pass is stopped, as run `turn` shows.

In step says nothing of a pass under way, so `InStepHonest` alone is not inductive either.
`StepInv` follows each change through the pass: while every change a watch saw is counted, a
settled workspace holds no new one and has asked about what it holds (`SettledSeen`), a pass that
has seen all knows each as it looks (`PassSeen`), and carries it, asks, or has the answer in hand
(`PassCarries`). Its hypotheses bound what section 3 shows to break it: `Reported` (no change
before the watches are up, no keeper's death, no older tree between a pass's publish and its fetch) and `Undisturbed` (no operation, no write failing
that could land); a write that misses because its side moved, and a pass that errs, are allowed.
`AloneInv` says of a publish that called while the lock was free that a pass which has looked since
brought its commits home (`Brought`). `Unfailing` excludes the passes that end without having
looked: those that err, that a dead keeper fails, that stand down.

Position's `NoCommitLost` says nothing of a pass under way either: a branch is moved over what was
read steps before. `IInv` says what each thing the pass holds still stands for, but for what
somebody gave: a fetched branch, one only the IDE moved, and the record are all still in the
checkout's copy (`FetchedKept`, `IdesKept`, `RecordedKept`), and the fetch has what the record has
(`RecordedFetched`), so that no move of the folder takes away what the checkout lacks; what a
script was given holds what it found (`StagedKept`, `CheckedKept`, `SwitchBegun`, `SwitchDone`);
and a detached HEAD is held through the pass by whatever the pass last knew it by (`Anchor`), or,
left by a switch, by the folder, which the record says it was (`RecordedHeadKept`). What actors do
is reduced to one shape, `ActsOn`, and the moves of each side to one (`CheckoutGoes`,
`FolderGoes`). There is no assumption on the budget.

Disposable's invariant says of each moment of a marker's life what it vouches for: confirmed, the
whole disk, with nothing running; unconfirmed, what the close's look saw; and of each process,
between its look and its act, that the marker it goes by is still of the one kind or the other
(`unsure` if not). While the marker is written or withdrawn (`Between`) it vouches for nothing: after the mark,
for what the look saw; and that the step ends with both files or neither is the assumption on slips. A
re-check that ran on under a window can only take a marker back (`CheckInv`). That the sleeper is none
once a window has cancelled it, and none is begun before that window closes (`WindowInv`), is what
`NeverUnderAWindow` needs, and holds whatever slips.

What leaves one of Chat's sequences leaves it by its places, and that what is left is a sequence again
(`AtFacts`) rests on there being a k-th of a finite set of numbers. The induction it takes is had
from the order of the numbers being well founded (`LeastOf`), which the library states without an
operator for a parameter; `Leading` is the least number whose successor is not in.

`StopTells` speaks of empty channels only, and says nothing of how they empty. `IInv` says what the
events on their way do to the pane's copy. A view is a sequence of messages of which the first k are
the turn's; the rows show one, and the task's turn, its queue and what it is asked on the channel
are another (`NowOf`). `Matched` is that the events lead from the first view to the second: there
is a view for the moment before each event (`Replays`), and each event takes its view to the next as the
pane's handler takes the rows. A step of the pane changes the first view, a step of the task adds an event
at the end, and what is sent goes to the end of every view at once. It does not hold by itself:

- an event that names messages must find them where the task had them, so each is waited on in one
  place (`Apart`), and of what a hook was answered with the taking is still to be heard while a view has it
  (`Hooked`, and `Taking` in `Replays`);
- Ctrl+Stop and a refusal are told by number and not by name, and are taken from the end of the copy: right
  as long as nothing has been sent behind them (`Drops`);
- a fast-forward takes names only, so what waits behind the message it is for has one (`Named`), and
  what the pane believes to wait by name does (`Waits`);
- the last event of a task is that it ended, nothing is offered to one that has, and a new one starts with empty
  channels (`Life`); Stop goes with the copy (`Stops`).

The assumption is the one the run makes: a slip is where an action of Chat is named as a way out of
step, and section 2 lists the seven; nothing else is bounded. Each of `Drops` and `Named` holds because a slip
that would break it is counted where it happens.

`SaidTruly` compares what a card says with what the agent had, and the two meet only in events: a
card turns when one is heard, steps after the agent had its message, or did not. `TInv` says of each event
on its way what has become so of the messages of its view (`Fates`): those of a turn that ended have reached the
agent; one taken by a hook has, or is in its hands; one dropped or withdrawn is in no hook's hands and has not
reached the agent, unless its agent died with it; where a task ended under a moving environment, its turn has. A
fate is told of a view, and a step may change what
the agent had before the event is heard; lemma `FatesOn` says what keeps one: what newly reaches the agent
was on its way in the last view, so in none from which an event took it, and no agent is
given a message after its task's end was told. `FatesTold`, `FatesFrom` and `FatesBehind` are the event told, the
event heard and the message sent behind. That the agent has nothing twice is `NotYet`: what is asked, queued, held or
taken has not reached it, unless its agent died with it. A prompt of the
IDE's own shown to a task already ended is on its way to nobody, and must not be at the front when the pane
hears of that end under a moving environment: while it stands there, so does something the
task had before it (`Kept`). Each action is then a step of one of two shapes: what reaches the
agent was on its way and is no longer (`Reaches`), or each card says something newly that is so, or what
it said and is still so (`SaysSo`). The views that events lead through are the only ones
(`SamePlay`), so a fate proved of one history is of any.

`OrderKept` compares only what the agent had with what was written, so no step keeps it of itself.
`Lined` says it of the whole line to the agent (`Line`): what it had, what a hook was answered with while
its turn lasts (`InHand`), what waits in the queue and then in the channel (`Behind`), and what the pane
holds. Once a task has ended its queue and channel are gone, and their place in the line is what the pane
will have left of the queue when it has heard everything (`LeftOver`, read off the history `InStep` gives).
Each action leaves a line that follows the one before (`Follows`): it holds nothing new but what is
written at that moment, which goes to the end, and reorders nothing but what is out of order anyway
(`Out`: the IDE's own prompts, what was moved, what an agent died with). Beside it `OInv` needs that what
was written has a card, so nothing is written twice (`Noted`), and that a hook's answer is some turn's (`InTurn`).
The hard steps are the ends: the event that ends a task must lead the pane to a queue in the line's
order (`EndsLeave`), and hearing it must put that queue ahead of what was held in the meantime.

Of Issues the properties compare a queue with what it was, and a replay builds a new one; so its `IInv` is about
histories and not tips. Every queue is a chain of commits, each of another number, that files at most the issue of
that number, takes away only what was deleted, and only adds files to what stays, of one kind at a time
(`HistoryOK`, `Continues`). Two queues that share a commit share all before it (`Agree`), and what two machines
both have the remote has; so what a machine has beyond the remote's prefix is of numbers the remote has none of
(`Apart`), and no commit replayed meets an issue that is another's. A reconcile under way may count on what it
fetched being a prefix of the remote's queue still, and, if it is to rebase, on the two differing somewhere
(`SyncedOK`, `Diverge`). Of the replay, after x commits (`ReplayOK`): what is built is such a chain; every issue of the
machine's own tree at x is in it but the deleted, each file where it was moved (`Carried`, `LandedAll`); and what
that tree had before and has no more is not in it. `ReplayBegins`, `ReplaySteps` and `ReplayedOK` are the
induction. Under it, `ReplayIssueIs` and `ReplayCommitIs` are one commit, and `PutFilesIs` and `FollowedIs` the two
folds it makes: new files of one kind, put in the order of their numbers, each land at a free one and displace
nothing; references replaced one after another end at files there are. The folds are unrolled by induction over
sets of numbers (`Inducted`, from `Least`), so no operator is a parameter; a fold's value for the positions up
to k is read off the function that defines it (`PutFolds`, `FollowFolds`, `ReplayFolds`). The assumption of
`NothingIsLost` is needed: section 3 has the issue an adoption writes over. It says that no queue is begun on a
machine without one; `FInv` is that an adoption past its look then still finds none.

The constants' assumptions: `None` is no entry, and `Above` relates paths, none to itself
(`PlanAssumption`); the scopes are sets of paths and the answers are answers
(`PlanPassAssumption`); `NoSnapshot` is none, and `Budget` a natural number for each kind
(`MirrorAssumption`); the same of its own `Budget` (`FolderSyncAssumption`, `DisposableAssumption`);
ids are numbers, and no set of them is a branch or `None` (`PositionAssumption`); `None` is no
message and nothing a card says, and the IDE's own prompts attach nothing (`ChatAssumption`); the names one
edit brings are a list of strings, and a swap is tried at least once (`IssuesAssumption`).

Model-checked only: `Converges`, `Quiesces`, `CarriedOrTold`, `Rests`, `ComesInStep`, `Meets`,
`StandsStill` and `ComesToRest` (temporal under fairness); and, of Issues, `MergedByField`, `OrderKept` and `ReferencesFollow`.
The last is false beyond the run's bounds (section 3). `MergedByField` speaks of the end of a rebase of many commits,
and needs the base, both tips and every tree between them followed field by field. `OrderKept` is about
`SelectSeq`, which the library defines by a recursive function local to the definition, of which it proves nothing.

## 5. Plan, and what is not modelled

Next, in this order: what can lose a user's work first, then what can hang, then what can only be
wrong on the screen.

1. Of `Issues`, what the rules for fields and for the order keep.
2. Position and Mirror composed: a files pass in the place of `Place`'s one step, so that a commit
   made in a window meets the files it was made of.
3. The rules and hash caches (`RulesSeen`, `hashed_before`), over a clock with a grain.
4. `Lifecycle`, `Pool` with `reconcile`, `Wake`; each against an abstract promise (one container,
   one claim, a sleeper woken).

Not modelled: the branch plumbing is libgit2's own and sequential; submodule pairs repeat the pass
over trees of their own; the keeper's channel is used through what it promises (a dead keeper
answers nothing); repair, configuration, keys, archives, search and voice are sequential helpers;
the MCP server and the fleet link hold no state but the calls they wait for; cloud machines are a
service's; the window is presentation, but for its close, its answers and its turns, which are
actions of `Disposable`, `Mirror` and `FolderSync`, and the chat's messages, which are `Chat`'s. The
rest of `taste-acp`, `taste-authproxy` and the environments' lifecycle have protocols of their own,
not modelled yet.
