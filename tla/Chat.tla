--------------------------------- MODULE Chat ---------------------------------
(***************************************************************************)
(* A chat's messages between its pane and its agent's session              *)
(* (crates/taste-app/src/chat.rs, crates/taste-acp/src/session.rs).        *)
(*                                                                         *)
(* The session's task runs one turn at a time and queues the messages that *)
(* come meanwhile.  The pane keeps a copy of that queue, `pending`, which  *)
(* it changes by what it sends and by what the task tells it: commands go  *)
(* one way and events the other, each in order, and neither waits for the  *)
(* other.  The agent may refuse a turn or die under it, its environment    *)
(* may take it down, and a hook of it may take messages out of the queue.  *)
(***************************************************************************)
EXTENDS Naturals, FiniteSets, Sequences, SequencesExt

CONSTANTS
    Message,
    Attached,   \* the messages with more than text in them
    Utility,    \* the prompts the IDE sends for an answer of its own
    None,
    Budget      \* how often each thing that may keep happening happens

\* What a card says of a message.
Waiting == {"Sent", "Queued", "Held"}
Settled == {"Taken", "WithinTurn", "Refused", "NotSent", "Lost"}

Kind == {"act", "take", "fault", "replace", "slip"}

ASSUME ChatAssumption ==
    /\ Attached \subseteq Message /\ Utility \subseteq Message
    /\ Attached \cap Utility = {}
    /\ None \notin Message \cup Waiting \cup Settled
    /\ Budget \in [Kind -> Nat]

VARIABLES
    pending,   \* pending_prompts: what the agent has not finished with
    held,      \* revive_queue: messages held for an agent to come up
    card,      \* what each message's card says of it
    stop,      \* whether Stop is offered
    client,    \* whether the pane has an agent's client
    reconnect, \* whether the reconnect's timer runs
    env,       \* the environment: up, or moving
    commands,  \* the channel to the session's task
    events,    \* the channel back
    session,   \* the task: none, starting, or serving
    turn,      \* the messages of the prompt the agent is on
    queue,     \* what waits behind the turn
    hook,      \* the hook that takes messages: none, asked, or answered
    taken,     \* what it was answered
    reading,   \* whether the turn it belongs to goes on
    written,   \* ghost: the messages in the order they were sent
    got,       \* ghost: the messages in the order they reached the agent
    undone,    \* ghost: the messages whose turn died with its agent
    moved,     \* ghost: the messages put out of their order
    budget

paneVars == <<pending, held, card, stop, client, reconnect>>
taskVars == <<session, turn, queue>>
hookVars == <<hook, taken, reading>>
ghosts == <<written, got, undone, moved>>
vars == <<paneVars, env, commands, events, taskVars, hookVars, ghosts, budget>>

\* A prompt's row in the pane: whether it was sent to wait behind a turn, and
\* whether it went out inside the prompt ahead of it.
Row == [msg: Message, waits: BOOLEAN, joined: BOOLEAN]

\* One sent to wait is named, and its command can be found by its name.
Entry == [msg: Message, named: BOOLEAN]

Command == [do: {"prompt"}, msg: Message, named: BOOLEAN]
           \cup [do: {"cancelAll", "take"}]
           \cup [do: {"withdraw", "expedite"}, msg: Message]

\* Joined and dropped messages are told by their number only.
Event == [is: {"ready", "ended", "failed", "closed"}]
         \cup [is: {"joined", "dropped", "withdrawn", "taken"}, of: Seq(Message) \ {<<>>}]

Tells(is) == [is |-> is]
TellsOf(is, ms) == [is |-> is, of |-> ms]

\* Mutant: told all the same.
ToldOfAny(is, ms) == Append(events, TellsOf(is, ms))

\* Nothing is told of no messages.
ToldOf(is, ms) == IF ms = <<>> THEN events ELSE Append(events, TellsOf(is, ms))

Messages(rows) == [i \in DOMAIN rows |-> rows[i].msg]

\* What stands at some places of a sequence, in its order.
At(rows, places) ==
    LET nth(k) == CHOOSE i \in places : Cardinality({j \in places : j <= i}) = k
    IN  [k \in 1..Cardinality(places) |-> rows[nth(k)]]

\* How many places, from the first on, are among some.
Leading(places) ==
    CHOOSE n \in 0..Cardinality(places) : 1..n \subseteq places /\ n + 1 \notin places

Without(rows, ms) == At(rows, {i \in DOMAIN rows : rows[i].msg \notin ms})
Less(ms, m) == At(ms, {i \in DOMAIN ms : ms[i] # m})

\* What is now said of some messages.
Cards(ms, says) == [m \in Message |-> IF m \in ms THEN says ELSE card[m]]

Spends(kinds) == /\ \A k \in kinds : budget[k] > 0
                 /\ budget' = [k \in Kind |-> IF k \in kinds THEN budget[k] - 1 ELSE budget[k]]

\* What takes the pane's copy of the queue, or its Stop, out of step with the
\* session: each is bounded, and how it comes about is said where it does.
Slips(how) == IF how THEN {"slip"} ELSE {}

Init ==
    /\ pending = <<>> /\ held = <<>> /\ card = [m \in Message |-> None]
    /\ stop = FALSE /\ client = FALSE /\ reconnect = FALSE
    /\ env = "up"
    /\ commands = <<>> /\ events = <<>>
    /\ session = "none" /\ turn = <<>> /\ queue = <<>>
    /\ hook = "none" /\ taken = <<>> /\ reading = FALSE
    /\ written = <<>> /\ got = <<>> /\ undone = {} /\ moved = {}
    /\ budget = Budget

-----------------------------------------------------------------------------
(* The pane: sending.                                                      *)

\* Ctrl+Stop is out, and its answer is not in: the answer counts from the
\* end, and a message sent meanwhile would be counted for one it dropped.
Dropping == \/ \E i \in DOMAIN commands : commands[i].do = "cancelAll"
            \/ \E i \in DOMAIN events : events[i].is = "dropped"

\* A refusal is out: it takes Stop away, whatever was sent meanwhile.
Failing == \E i \in DOMAIN events : events[i].is = "failed"

\* An agent is asked for, and started if there is none.
Activated == IF client THEN session ELSE "starting"

\* Handed to the agent, in order.  The first waits behind a turn if Stop is
\* offered, the rest behind the first.  To a task that has ended nothing can
\* be handed: the cards say so.
HandsOver(ms, named) ==
    /\ client' = TRUE /\ session' = Activated
    /\ \/ /\ Activated = "none"
          /\ card' = Cards(ToSet(ms), "NotSent")
          /\ UNCHANGED <<pending, stop, commands>>
       \/ /\ Activated # "none"
          /\ card' = [Cards(ToSet(ms), "Queued") EXCEPT
                        ![Head(ms)] = IF stop THEN "Queued" ELSE "Sent"]
          /\ pending' = pending \o [i \in DOMAIN ms |->
                            [msg |-> ms[i], waits |-> named, joined |-> FALSE]]
          /\ commands' = commands \o [i \in DOMAIN ms |->
                            [do |-> "prompt", msg |-> ms[i], named |-> named]]
          /\ stop' = TRUE

\* flush_revive_queue: what is held goes to the agent there is, or is started
\* for it, but not while the environment is moving.
Flushes(ms, at, otherwise) ==
    IF ms # <<>> /\ at = "up"
    THEN HandsOver(ms, TRUE) /\ held' = <<>>
    ELSE /\ held' = ms /\ card' = otherwise
         /\ UNCHANGED <<pending, stop, client, session, commands>>

\* Sent by a person, or for an orchestrator: behind what is held; to the
\* agent; or, a person's while the environment is moving, held.
Send(m) ==
    /\ m \notin Utility /\ card[m] = None
    /\ written' = Append(written, m)
    /\ \/ /\ held = <<>> /\ (client \/ env = "up")
          /\ HandsOver(<<m>>, stop)
          /\ UNCHANGED held
       \/ /\ held # <<>> \/ env = "moving"
          /\ Flushes(Append(held, m), env, Cards({m}, "Held"))
    /\ Spends(Slips(commands' # commands /\ (Dropping \/ Failing)))
    /\ UNCHANGED <<reconnect, env, events, turn, queue, hookVars, got, undone, moved>>

\* The environment took an agent down with nothing in hand: a prompt shown
\* before the pane hears of it is taken for the one that was.
Passing == session = "none" /\ client /\ env = "moving" /\ pending = <<>>

\* request_text: never held and never named, and shown as sent before it is.
\* To a task that has ended it is not sent: that is noted in the log alone,
\* and its row and its card stay as they are until the pane hears of the end.
RequestText(m) ==
    /\ m \in Utility /\ card[m] = None
    /\ client \/ env = "up"
    /\ written' = Append(written, m)
    /\ client' = TRUE /\ session' = Activated
    /\ card' = Cards({m}, "Sent")
    /\ pending' = Append(pending, [msg |-> m, waits |-> FALSE, joined |-> FALSE])
    /\ IF Activated = "none"
       THEN UNCHANGED <<stop, commands>>
       ELSE /\ stop' = TRUE
            /\ commands' = Append(commands, [do |-> "prompt", msg |-> m, named |-> FALSE])
    /\ Spends(Slips(Dropping \/ Failing \/ Passing))
    /\ UNCHANGED <<held, reconnect, env, events, turn, queue, hookVars, got, undone, moved>>

-----------------------------------------------------------------------------
(* The pane: Stop, and the buttons on a card.                              *)

Commands(do, m) == commands' = IF client /\ session # "none"
                               THEN Append(commands, [do |-> do, msg |-> m])
                               ELSE commands

\* Ctrl+Stop.
StopsAll ==
    /\ stop
    /\ Spends({"act"})
    /\ held' = <<>> /\ card' = Cards(ToSet(held), "NotSent")
    /\ commands' = IF session # "none" THEN Append(commands, [do |-> "cancelAll"]) ELSE commands
    /\ UNCHANGED <<pending, stop, client, reconnect, env, events, taskVars, hookVars, ghosts>>

Withdraws(m) ==
    /\ card[m] \in {"Queued", "Held"}
    /\ Spends({"act"})
    /\ IF Contains(held, m)
       THEN held' = Less(held, m) /\ card' = Cards({m}, "NotSent") /\ UNCHANGED commands
       ELSE Commands("withdraw", m) /\ UNCHANGED <<held, card>>
    /\ UNCHANGED <<pending, stop, client, reconnect, env, events, taskVars, hookVars, ghosts>>

\* Fast-forward held: this one next, and no other.  Prompts without a name
\* are dropped with the rest, and nothing is told of them.
Expedites(m) ==
    /\ card[m] \in {"Queued", "Held"}
    /\ moved' = moved \cup {m}
    /\ IF Contains(held, m)
       THEN /\ held' = <<m>>
            /\ card' = Cards(ToSet(held) \ {m}, "NotSent")
            /\ Spends({"act"})
            /\ UNCHANGED commands
       ELSE /\ Commands("expedite", m)
            /\ Spends({"act"} \cup Slips(\E i \in 2..Len(pending) :
                                            ~pending[i].waits /\ ~pending[i].joined))
            /\ UNCHANGED <<held, card>>
    /\ UNCHANGED <<pending, stop, client, reconnect, env, events, taskVars, hookVars,
                   written, got, undone>>

\* Fast-forward on a held message.
GoesFirst(m) ==
    /\ Contains(held, m)
    /\ Spends({"act"})
    /\ held' = <<m>> \o Less(held, m)
    /\ moved' = moved \cup {m}
    /\ UNCHANGED <<pending, card, stop, client, reconnect, env, commands, events, taskVars,
                   hookVars, written, got, undone>>

\* The session's row, another agent, a relocation, a sign-in: the task is
\* dropped with its channels, and another started; what is pending stays.
Replaces ==
    /\ client
    /\ Spends({"replace"} \cup Slips(pending # <<>>))
    /\ session' = "starting" /\ turn' = <<>> /\ queue' = <<>>
    /\ commands' = <<>> /\ events' = <<>>
    /\ stop' = FALSE
    /\ hook' = (IF hook = "asked" THEN "none" ELSE hook) /\ reading' = FALSE
    /\ undone' = undone \cup ToSet(turn)
    /\ UNCHANGED <<pending, held, card, client, reconnect, env, taken, written, got, moved>>

-----------------------------------------------------------------------------
(* The hook.                                                               *)

\* After a tool call of the agent's, when something waits.
Asks ==
    /\ hook = "none" /\ turn # <<>> /\ client /\ Len(pending) > 1
    /\ Spends({"take"})
    /\ hook' = "asked" /\ reading' = TRUE
    /\ commands' = Append(commands, [do |-> "take"])
    /\ UNCHANGED <<paneVars, env, events, taskVars, taken, ghosts>>

\* It reads what it got beside its tool's result.
Reads ==
    /\ hook = "answered" /\ (reading \/ taken = <<>>)
    /\ hook' = "none" /\ taken' = <<>> /\ reading' = FALSE
    /\ got' = got \o taken
    /\ UNCHANGED <<paneVars, env, commands, events, taskVars, written, undone, moved, budget>>

\* It gave up waiting: what it got is sent again, to go after the turn.  That
\* offers no Stop, and may be over before the pane hears of the taking.
Overtakes == \E i \in DOMAIN events : events[i].is = "taken"

GivesBack ==
    /\ hook = "answered" /\ taken # <<>>
    /\ hook' = "none" /\ taken' = <<>> /\ reading' = FALSE
    /\ moved' = moved \cup ToSet(taken)
    /\ IF client /\ session # "none"
       THEN /\ pending' = pending \o [i \in DOMAIN taken |->
                                [msg |-> taken[i], waits |-> TRUE, joined |-> FALSE]]
            /\ commands' = commands \o [i \in DOMAIN taken |->
                                [do |-> "prompt", msg |-> taken[i], named |-> TRUE]]
            /\ card' = Cards(ToSet(taken), "Queued")
            /\ Spends(Slips(~stop \/ Overtakes \/ Dropping \/ Failing))
       ELSE /\ card' = Cards(ToSet(taken), "NotSent")
            /\ Spends(Slips(Overtakes))
            /\ UNCHANGED <<pending, commands>>
    /\ UNCHANGED <<held, stop, client, reconnect, env, events, taskVars, written, got, undone>>

-----------------------------------------------------------------------------
(* The session's task.                                                     *)

\* run_session, up to the loop.
Readies ==
    /\ session = "starting"
    /\ session' = "serving"
    /\ events' = Append(events, Tells("ready"))
    /\ UNCHANGED <<paneVars, env, commands, turn, queue, hookVars, ghosts, budget>>

Begins(ms) == turn' = ms /\ got' = got \o ms

\* join_waiting: the named messages at the front go with the one ahead.
Joined(q) == Messages(SubSeq(q, 1, Leading({i \in DOMAIN q : q[i].named})))

\* Between turns: the next of what waits, and all that joins it.
TakesNext ==
    /\ session = "serving" /\ turn = <<>> /\ queue # <<>>
    /\ LET joined == IF Head(queue).named THEN Joined(Tail(queue)) ELSE <<>>
       IN  /\ Begins(<<Head(queue).msg>> \o joined)
           /\ queue' = SubSeq(queue, Len(joined) + 2, Len(queue))
           /\ events' = ToldOf("joined", joined)
    /\ UNCHANGED <<paneVars, env, commands, session, hookVars, written, undone, moved, budget>>

\* Idle: a prompt begins a turn, and the rest has nothing to act on.
Receives ==
    /\ session = "serving" /\ turn = <<>> /\ queue = <<>> /\ commands # <<>>
    /\ LET command == Head(commands)
       IN  /\ IF command.do = "prompt" THEN Begins(<<command.msg>>) ELSE UNCHANGED <<turn, got>>
           /\ hook' = IF command.do = "take" THEN "answered" ELSE hook
    /\ commands' = Tail(commands)
    /\ UNCHANGED <<paneVars, env, events, session, queue, taken, reading, written, undone, moved, budget>>

\* take_waiting: from the front, up to the first that has no name, or more
\* than text in it.
Takeable(q) == Messages(SubSeq(q, 1,
                   Leading({i \in DOMAIN q : q[i].named /\ q[i].msg \notin Attached})))

\* During a turn.
Serves ==
    /\ turn # <<>> /\ commands # <<>>
    /\ LET command == Head(commands)
           out == IF command.do \in {"withdraw", "expedite"} THEN {command.msg} ELSE {}
           known == At(queue, {i \in DOMAIN queue : queue[i].msg \in out /\ queue[i].named})
           others == Without(queue, out)
           takes == Takeable(queue)
       IN  \/ /\ command.do = "prompt"
              /\ queue' = Append(queue, [msg |-> command.msg, named |-> command.named])
              /\ UNCHANGED <<events, hookVars>>
           \/ /\ command.do = "cancelAll"
              /\ queue' = <<>>
              /\ events' = ToldOf("dropped", Messages(queue))
              /\ UNCHANGED hookVars
           \/ /\ command.do = "withdraw" /\ known # <<>>
              /\ queue' = others
              /\ events' = ToldOf("withdrawn", Messages(known))
              /\ UNCHANGED hookVars
           \/ /\ command.do = "expedite" /\ known # <<>>
              /\ queue' = known
              /\ events' = ToldOf("withdrawn",
                               Messages(At(others, {i \in DOMAIN others : others[i].named})))
              /\ UNCHANGED hookVars
           \/ /\ command.do \in {"withdraw", "expedite"} /\ known = <<>>
              /\ UNCHANGED <<queue, events, hookVars>>
           \/ /\ command.do = "take"
              /\ queue' = SubSeq(queue, Len(takes) + 1, Len(queue))
              /\ events' = ToldOf("taken", takes)
              /\ hook' = "answered" /\ taken' = takes /\ UNCHANGED reading
    /\ commands' = Tail(commands)
    /\ UNCHANGED <<paneVars, env, session, turn, ghosts, budget>>

\* By itself or cancelled.
TurnEnds ==
    /\ turn # <<>>
    /\ turn' = <<>> /\ reading' = FALSE
    /\ events' = Append(events, Tells("ended"))
    /\ UNCHANGED <<paneVars, env, commands, session, queue, hook, taken, ghosts, budget>>

\* The agent refuses: the task goes on with what waits.
TurnFails ==
    /\ turn # <<>>
    /\ Spends({"fault"} \cup Slips(Len(pending) > 1 \/ held # <<>>))
    /\ turn' = <<>> /\ reading' = FALSE
    /\ events' = Append(events, Tells("failed"))
    /\ UNCHANGED <<paneVars, env, commands, session, queue, hook, taken, ghosts>>

\* The task ends, with the agent's process or after it refused a turn for
\* want of a sign-in; the turn may be told to have failed first.
Ends(failed) ==
    /\ session # "none"
    /\ session' = "none" /\ turn' = <<>> /\ queue' = <<>>
    /\ commands' = <<>>
    /\ events' = events \o (IF failed THEN <<Tells("failed")>> ELSE <<>>)
                        \o <<Tells("closed")>>
    /\ hook' = (IF hook = "asked" THEN "none" ELSE hook) /\ reading' = FALSE
    /\ undone' = undone \cup ToSet(turn)
    /\ UNCHANGED <<paneVars, taken, written, got, moved>>

\* What is at the front when the pane hears of it is taken for the turn's,
\* if the environment is moving: it may be none's, or the next.
Loses(failed) == pending # <<>> /\ (turn = <<>> \/ failed)

Dies(failed) ==
    /\ failed => turn # <<>>
    /\ Spends({"fault"} \cup Slips(env = "moving" /\ Loses(failed)))
    /\ Ends(failed)
    /\ UNCHANGED env

\* A rebuild, or a stop, with the agent in the container or outside it.
EnvMoves(failed) ==
    /\ env = "up" /\ env' = "moving"
    /\ failed => turn # <<>>
    /\ \/ /\ Ends(failed)
          /\ Spends({"fault"} \cup Slips(Loses(failed)))
       \/ /\ ~failed
          /\ Spends({"fault"} \cup Slips(session = "none" /\ Loses(FALSE)))
          /\ UNCHANGED <<paneVars, commands, events, taskVars, hookVars, ghosts>>

\* on_environment_state: what is held goes, and an agent is started for it,
\* or for the conversation there was.
EnvSettles ==
    /\ env = "moving" /\ env' = "up"
    /\ \/ Flushes(held, "up", card)
       \/ /\ held = <<>> /\ ~client
          /\ client' = TRUE /\ session' = "starting"
          /\ UNCHANGED <<pending, held, card, stop, commands>>
    /\ Spends(Slips(held # <<>> /\ (Dropping \/ Failing)))
    /\ UNCHANGED <<reconnect, events, turn, queue, hookVars, ghosts>>

-----------------------------------------------------------------------------
(* The pane: hearing.                                                      *)

Hears(is) ==
    /\ events # <<>> /\ Head(events).is = is
    /\ events' = Tail(events)

\* Mutant: the front only, whatever went out in it.
PoppedAlone(rows) == IF rows = <<>> THEN 0 ELSE 1

\* pop_turn: the prompt at the front, and those that went out in it.
Popped(rows) == IF rows = <<>> THEN 0
                ELSE Leading({1} \cup {i \in DOMAIN rows : rows[i].joined})

Turn(rows) == {rows[i].msg : i \in 1..Popped(rows)}
Rest(rows) == SubSeq(rows, Popped(rows) + 1, Len(rows))

\* accept_queued: one that waited, and waits no more.
Accepts(rows, says) ==
    /\ pending' = [i \in DOMAIN rows |-> IF i = 1 THEN [rows[i] EXCEPT !.waits = FALSE] ELSE rows[i]]
    /\ card' = [m \in Message |->
                  IF rows # <<>> /\ rows[1].waits /\ m = rows[1].msg THEN "Taken" ELSE says[m]]

\* Mutant: an agent come up gets nothing.
HearsReadyOnly ==
    /\ Hears("ready")
    /\ UNCHANGED <<paneVars, commands, session, env, turn, queue, hookVars, ghosts, budget>>

HearsReady ==
    /\ Hears("ready")
    /\ Flushes(held, env, card)
    /\ UNCHANGED <<reconnect, env, turn, queue, hookVars, ghosts, budget>>

HearsEnded ==
    /\ Hears("ended")
    /\ Accepts(Rest(pending), Cards(Turn(pending), "Taken"))
    /\ stop' = (stop /\ Rest(pending) # <<>>)
    /\ UNCHANGED <<held, client, reconnect, env, commands, taskVars, hookVars, ghosts, budget>>

HearsFailed ==
    /\ Hears("failed")
    /\ pending' = Rest(pending)
    /\ card' = Cards(Turn(pending), IF env = "moving" THEN "Taken" ELSE "Refused")
    /\ stop' = FALSE
    /\ UNCHANGED <<held, client, reconnect, env, commands, taskVars, hookVars, ghosts, budget>>

HearsJoined ==
    /\ Hears("joined")
    /\ LET last == Len(Head(events).of) + 1
           Goes(i) == i \in 2..last
       IN  /\ pending' = [i \in DOMAIN pending |->
                            IF Goes(i) THEN [pending[i] EXCEPT !.waits = FALSE, !.joined = TRUE]
                            ELSE pending[i]]
           /\ card' = Cards({pending[i].msg : i \in {j \in DOMAIN pending :
                                                  Goes(j) /\ pending[j].waits}}, "Taken")
    /\ UNCHANGED <<held, stop, client, reconnect, env, commands, taskVars, hookVars, ghosts, budget>>

\* withdraw_queued: as many as were dropped, from the end.
HearsDropped ==
    /\ Hears("dropped")
    /\ LET from == Len(pending) - Len(Head(events).of) + 1
           Goes(i) == i > 1 /\ i >= from /\ ~pending[i].joined
           gone == {pending[i].msg : i \in {j \in DOMAIN pending : Goes(j)}}
       IN  pending' = Without(pending, gone) /\ card' = Cards(gone, "NotSent")
    /\ UNCHANGED <<held, stop, client, reconnect, env, commands, taskVars, hookVars, ghosts, budget>>

\* Mutant: told by their number, as the dropped ones are.
HearsGoneByNumber(is, says) ==
    /\ Hears(is)
    /\ LET from == Len(pending) - Len(Head(events).of) + 1
           gone == {pending[i].msg : i \in {j \in 2..Len(pending) :
                                       j >= from /\ ~pending[j].joined}}
       IN  pending' = Without(pending, gone) /\ card' = Cards(gone, says)
    /\ UNCHANGED <<held, stop, client, reconnect, env, commands, taskVars, hookVars, ghosts, budget>>

\* withdraw_prompts, taken_within_turn: never the turn's own.
HearsGone(is, says) ==
    /\ Hears(is)
    /\ LET named == ToSet(Head(events).of)
           gone == {pending[i].msg : i \in {j \in 2..Len(pending) :
                                       pending[j].msg \in named /\ ~pending[j].joined}}
       IN  pending' = Without(pending, gone) /\ card' = Cards(gone, says)
    /\ UNCHANGED <<held, stop, client, reconnect, env, commands, taskVars, hookVars, ghosts, budget>>

\* Mutant: the rest waits behind what was held since.
HearsClosedBehind ==
    /\ Hears("closed")
    /\ LET rows == IF env = "moving" THEN Rest(pending) ELSE pending
           left == Messages(rows)
       IN  /\ held' = held \o Messages(Without(rows, Utility))
           /\ card' = [m \in Message |->
                         CASE m \in ToSet(left) \cap Utility -> "Lost"
                           [] m \in ToSet(left) \ Utility -> "Held"
                           [] env = "moving" /\ m \in Turn(pending) -> "Taken"
                           [] OTHER -> card[m]]
    /\ pending' = <<>> /\ stop' = FALSE /\ client' = FALSE
    /\ reconnect' = (env # "moving")
    /\ UNCHANGED <<env, commands, taskVars, hookVars, ghosts, budget>>

\* What the environment took the agent from is delivered; the rest waits
\* again, ahead of what was held since.
HearsClosed ==
    /\ Hears("closed")
    /\ LET delivered == IF env = "moving" THEN Turn(pending) ELSE {}
           rows == IF env = "moving" THEN Rest(pending) ELSE pending
           left == Messages(rows)
           lost == ToSet(left) \cap Utility
       IN  /\ held' = Messages(Without(rows, Utility)) \o held
           /\ card' = [m \in Message |->
                         CASE m \in delivered -> "Taken"
                           [] m \in lost -> "Lost"
                           [] m \in ToSet(left) \ lost -> "Held"
                           [] OTHER -> card[m]]
    /\ pending' = <<>> /\ stop' = FALSE /\ client' = FALSE
    /\ reconnect' \in IF env = "moving" THEN {FALSE} ELSE IF held' # <<>> THEN {TRUE} ELSE BOOLEAN
    /\ UNCHANGED <<env, commands, taskVars, hookVars, ghosts, budget>>

HearsAny ==
    \/ HearsReady \/ HearsEnded \/ HearsFailed \/ HearsJoined \/ HearsDropped \/ HearsClosed
    \/ HearsGone("withdrawn", "NotSent") \/ HearsGone("taken", "WithinTurn")

\* schedule_reconnect's timer: unless something has started an agent since.
Reconnects ==
    /\ reconnect /\ reconnect' = FALSE
    /\ client' = TRUE /\ session' = Activated
    /\ UNCHANGED <<pending, held, card, stop, env, commands, events, turn, queue, hookVars,
                   ghosts, budget>>

-----------------------------------------------------------------------------
Next ==
    \/ \E m \in Message : Send(m) \/ RequestText(m) \/ Withdraws(m) \/ Expedites(m) \/ GoesFirst(m)
    \/ StopsAll \/ Replaces
    \/ Asks \/ Reads \/ GivesBack
    \/ Readies \/ TakesNext \/ Receives \/ Serves \/ TurnEnds \/ TurnFails
    \/ \E failed \in BOOLEAN : Dies(failed) \/ EnvMoves(failed)
    \/ EnvSettles
    \/ HearsAny \/ Reconnects

Spec == Init /\ [][Next]_vars

\* The task and the pane go on, a turn ends, an environment settles, a timer
\* fires; nobody has to send, to press or to fail.
FairSpec ==
    /\ Spec
    /\ WF_vars(Readies \/ TakesNext \/ Receives \/ Serves)
    /\ WF_vars(TurnEnds)
    /\ WF_vars(HearsAny) /\ WF_vars(Reconnects) /\ WF_vars(EnvSettles) /\ WF_vars(Reads)

-----------------------------------------------------------------------------
(* Properties.                                                             *)

\* Every variable has its type; an event that names messages names one at
\* least (session.rs's sends behind `is_empty`).
TypeOK ==
    /\ pending \in Seq(Row) /\ held \in Seq(Message)
    /\ card \in [Message -> Waiting \cup Settled \cup {None}]
    /\ stop \in BOOLEAN /\ client \in BOOLEAN /\ reconnect \in BOOLEAN
    /\ env \in {"up", "moving"}
    /\ commands \in Seq(Command) /\ events \in Seq(Event)
    /\ session \in {"none", "starting", "serving"}
    /\ turn \in Seq(Message) /\ queue \in Seq(Entry)
    /\ hook \in {"none", "asked", "answered"} /\ taken \in Seq(Message) /\ reading \in BOOLEAN
    /\ written \in Seq(Message) /\ got \in Seq(Message)
    /\ undone \subseteq Message /\ moved \subseteq Message
    /\ budget \in [Kind -> Nat]

\* Somewhere from which the agent may yet have it.
OnItsWay(m) ==
    \/ \E i \in DOMAIN commands : commands[i].do = "prompt" /\ commands[i].msg = m
    \/ m \in ToSet(Messages(queue)) \cup ToSet(held) \cup ToSet(taken)

WaitedOn == ToSet(Messages(pending)) \cup ToSet(held)

\* What a card says is so: a message said never to be sent has not reached
\* the agent, and will not; one said to be taken has, or the pane waits on it
\* still; one said to wait is waited on; and the agent has none twice, unless
\* it died with it.
SaidTruly ==
    /\ \A m \in Message :
         /\ card[m] = "NotSent" /\ m \notin undone => m \notin ToSet(got) /\ ~OnItsWay(m)
         /\ card[m] \in {"Taken", "WithinTurn"} => m \in ToSet(got) \cup ToSet(taken) \cup WaitedOn
         /\ card[m] \in Waiting => m \in WaitedOn
    /\ \A i, j \in DOMAIN got : i < j /\ got[i] = got[j] => got[i] \in undone

Before(m, n, ms) == \E i, j \in DOMAIN ms : i < j /\ ms[i] = m /\ ms[j] = n

\* Messages reach the agent as they were written, through every queue, hold
\* and hook, but for those a person or a hook put out of order and those an
\* agent died with.
OrderKept ==
    \A m, n \in Message \ (Utility \cup moved \cup undone) :
        Before(m, n, got) => ~Before(n, m, written)

\* When all is heard, Stop is offered exactly while the agent is at work.
StopTells ==
    client /\ session = "serving" /\ commands = <<>> /\ events = <<>>
        => (stop <=> turn # <<>> \/ queue # <<>>)

\* Every message comes to rest.
ComesToRest == \A m \in Message : card[m] \in Waiting ~> card[m] \notin Waiting
=============================================================================
