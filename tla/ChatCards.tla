------------------------------ MODULE ChatCards ------------------------------
(***************************************************************************)
(* That a chat's cards say truly what became of its messages, and that the *)
(* messages reach the agent in the order they were written.                *)
(*                                                                         *)
(* Each event on its way to the pane has a fate: what it says of the       *)
(* messages it names is so when it is told, and stays so however many      *)
(* steps pass before it is heard (Fated).  What is on its way to the agent *)
(* has not reached it, unless its agent died with it (NotYet), and only    *)
(* what was sent reaches it (Sent).  Where a moving environment took the   *)
(* agent, a prompt shown since is behind something it had (Kept).          *)
(*                                                                         *)
(* What the agent had, what a hook holds for its turn, what waits and what *)
(* is held make one line (Line), and a step only takes messages out of it, *)
(* moves it on, or adds what is written behind it (Lined).                 *)
(*                                                                         *)
(* Proved where nothing slips, as the theorems of ChatProofs are.          *)
(***************************************************************************)
EXTENDS ChatProofs

-----------------------------------------------------------------------------
(* The views that the events lead through are the only ones.                *)

LEMMA SameView ==
  ASSUME NEW rows \in Seq(Row), NEW v, Proper(v), Shows(rows, v), NEW w, Proper(w), Shows(rows, w)
  PROVE  v = w
<1>1. v \in View /\ w \in View /\ v.ms = w.ms
  BY DEF Proper, Shows
<1>2. v.k = w.k
  <2>1. CASE rows # <<>>
    BY <2>1, PoppedIs
  <2>2. CASE rows = <<>>
    <3>1. Len(rows) = 0
      BY <2>2
    <3>2. /\ v.k = 1 \/ v.k \in 2..Len(rows)
          /\ w.k = 1 \/ w.k \in 2..Len(rows)
      BY ShownFacts
    <3>. QED BY <3>1, <3>2
  <2>. QED BY <2>1, <2>2
<1>. QED BY <1>1, <1>2 DEF View

LEMMA SamePlay ==
  ASSUME NEW es \in Seq(Event), NEW h, Plays(h, es), NEW fs \in Seq(Event), NEW g, Plays(g, fs),
         NEW n \in Nat, n <= Len(es), n <= Len(fs), \A i \in 1..n : es[i] = fs[i], h[1] = g[1]
  PROVE  \A i \in 1..(n + 1) : h[i] = g[i]
<1>. DEFINE T == {i \in 1..(n + 1) : h[i] # g[i]}
<1>1. /\ Len(es) \in Nat /\ Len(fs) \in Nat
      /\ \A i \in 1..n : i \in 1..Len(es) /\ i \in 1..Len(fs)
  OBVIOUS
<1>2. \A i \in 1..n : h[i + 1] = After(h[i], es[i]) /\ g[i + 1] = After(g[i], es[i])
  BY <1>1, PlaysTypes
<1>3. SUFFICES ASSUME T # {} PROVE FALSE
  BY <1>3
<1>4. PICK x \in T : \A y \in T : x <= y
  <2>1. T \subseteq Nat
    OBVIOUS
  <2>. QED BY <1>3, <2>1, LeastOf
<1>5. x # 1 /\ x \in 1..(n + 1) /\ h[x] # g[x]
  OBVIOUS
<1>6. x - 1 \in 1..n /\ (x - 1) + 1 = x
  BY <1>5
<1>7. h[x - 1] = g[x - 1]
  BY <1>4, <1>6
<1>8. h[(x - 1) + 1] = g[(x - 1) + 1]
  BY <1>2, <1>6, <1>7
<1>. QED BY <1>5, <1>6, <1>8

-----------------------------------------------------------------------------
(* What has become of the messages that an event is about.                  *)

Fate(v, e, had, gone, tk, moving) ==
    /\ e.is \in {"ended", "failed"} => \A p \in 1..v.k : v.ms[p] \in had
    /\ e.is = "taken" => ToSet(e.of) \subseteq had \cup tk
    /\ e.is \in {"dropped", "withdrawn"} => ToSet(e.of) \cap had \subseteq gone /\ ToSet(e.of) \cap tk = {}
    /\ e.is = "closed" => /\ ToSet(v.ms) \cap had \subseteq gone
                          /\ moving => \A p \in 1..Len(v.ms) : p <= v.k => v.ms[p] \in had

Fates(h, es, had, gone, tk, moving) == \A i \in 1..Len(es) : Fate(h[i], es[i], had, gone, tk, moving)

LEMMA FatesOn ==
  ASSUME NEW es \in Seq(Event), NEW h, Plays(h, es),
         NEW had, NEW gone, NEW tk, NEW moving, Fates(h, es, had, gone, tk, moving),
         NEW more, had \subseteq more, NEW lost, gone \subseteq lost, NEW now, NEW moves,
         (\A i \in 1..Len(es) : es[i].is # "taken") \/ had \cup tk \subseteq more \cup now,
         now \subseteq tk \cup ToSet(h[Len(es) + 1].ms),
         more \subseteq had \cup tk \cup ToSet(h[Len(es) + 1].ms),
         \A i \in 1..Len(es) : es[i].is = "closed" => ToSet(h[i].ms) \cap more \subseteq had,
         moves /\ ~moving => \A i \in 1..Len(es) : es[i].is = "closed" => h[i].ms = <<>>
  PROVE  Fates(h, es, more, lost, now, moves)
<1>. SUFFICES ASSUME NEW i \in 1..Len(es) PROVE Fate(h[i], es[i], more, lost, now, moves)
  BY DEF Fates
<1>1. Fate(h[i], es[i], had, gone, tk, moving)
  BY DEF Fates
<1>2. es[i].is \in {"ended", "failed"} => \A p \in 1..h[i].k : h[i].ms[p] \in more
  BY <1>1 DEF Fate
<1>3. es[i].is = "taken" => ToSet(es[i].of) \subseteq more \cup now
  BY <1>1 DEF Fate
<1>4. ASSUME es[i].is \in {"dropped", "withdrawn"}
      PROVE  ToSet(es[i].of) \cap more \subseteq lost /\ ToSet(es[i].of) \cap now = {}
  <2>1. ToSet(es[i].of) \cap ToSet(h[Len(es) + 1].ms) = {}
    <3>1. /\ Len(es) \in Nat /\ h[i] \in View /\ h[i + 1] = After(h[i], es[i]) /\ i + 1 \in 1..(Len(es) + 1)
          /\ i + 1 <= Len(es) + 1 /\ Len(es) + 1 \in 1..(Len(es) + 1)
          /\ \A k, j \in 1..(Len(es) + 1) : k <= j => Within(h[j], h[k])
      <4>1. Len(es) \in Nat /\ i \in 1..(Len(es) + 1)
        OBVIOUS
      <4>2. i + 1 \in 1..(Len(es) + 1) /\ i + 1 <= Len(es) + 1 /\ Len(es) + 1 \in 1..(Len(es) + 1)
        BY <4>1
      <4>. QED BY <4>1, <4>2, PlaysTypes
    <3>2. h[i + 1].ms = Minus(h[i].ms, ToSet(es[i].of))
      BY <1>4, <3>1 DEF After
    <3>3. ToSet(h[i + 1].ms) = ToSet(h[i].ms) \ ToSet(es[i].of)
      BY <3>1, <3>2, MinusFacts DEF View
    <3>4. ToSet(h[Len(es) + 1].ms) \subseteq ToSet(h[i + 1].ms)
      BY <3>1 DEF Within
    <3>. QED BY <3>3, <3>4
  <2>. QED BY <1>1, <1>4, <2>1 DEF Fate
<1>5. ASSUME es[i].is = "closed"
      PROVE  /\ ToSet(h[i].ms) \cap more \subseteq lost
             /\ moves => \A p \in 1..Len(h[i].ms) : p <= h[i].k => h[i].ms[p] \in more
  <2>1. ToSet(h[i].ms) \cap more \subseteq lost
    BY <1>1, <1>5 DEF Fate
  <2>2. CASE moves /\ moving
    BY <1>1, <1>5, <2>1, <2>2 DEF Fate
  <2>3. CASE moves /\ ~moving
    <3>1. h[i].ms = <<>>
      BY <1>5, <2>3
    <3>2. Len(h[i].ms) = 0
      BY <3>1
    <3>. QED BY <2>1, <3>2
  <2>. QED BY <2>1, <2>2, <2>3
<1>. QED BY <1>2, <1>3, <1>4, <1>5 DEF Fate

LEMMA FatesTold ==
  ASSUME NEW es \in Seq(Event), NEW h, Plays(h, es),
         NEW had, NEW gone, NEW tk, NEW moving, Fates(h, es, had, gone, tk, moving),
         NEW e \in Event, Fate(h[Len(es) + 1], e, had, gone, tk, moving),
         NEW g, Plays(g, Append(es, e)), g[1] = h[1]
  PROVE  /\ Fates(g, Append(es, e), had, gone, tk, moving)
         /\ g[Len(es) + 2] = After(h[Len(es) + 1], e)
<1>1. /\ Len(es) \in Nat /\ Append(es, e) \in Seq(Event) /\ Len(Append(es, e)) = Len(es) + 1
      /\ \A i \in 1..Len(es) : Append(es, e)[i] = es[i]
      /\ Append(es, e)[Len(es) + 1] = e
  OBVIOUS
<1>. DEFINE fs == Append(es, e)
            n == Len(es)
<1>2. \A i \in 1..(n + 1) : h[i] = g[i]
  <2>1. fs \in Seq(Event) /\ Plays(g, fs) /\ n \in Nat /\ n <= Len(es) /\ n <= Len(fs)
        /\ \A i \in 1..n : es[i] = fs[i]
    BY <1>1
  <2>. HIDE DEF fs, n
  <2>. QED BY <2>1, SamePlay
<1>3. ASSUME NEW i \in 1..Len(Append(es, e))
      PROVE  Fate(g[i], Append(es, e)[i], had, gone, tk, moving)
  <2>1. CASE i \in 1..Len(es)
    <3>1. g[i] = h[i] /\ Append(es, e)[i] = es[i]
      BY <1>1, <1>2, <2>1
    <3>. QED BY <2>1, <3>1 DEF Fates
  <2>2. CASE i = Len(es) + 1
    <3>1. g[i] = h[i] /\ Append(es, e)[i] = e
      BY <1>1, <1>2, <2>2
    <3>. QED BY <2>2, <3>1
  <2>. QED BY <1>1, <2>1, <2>2
<1>4. g[Len(es) + 2] = After(h[Len(es) + 1], e)
  <2>1. n + 1 \in 1..Len(fs) /\ (n + 1) + 1 = Len(es) + 2 /\ g[n + 1] = h[n + 1] /\ fs[n + 1] = e
    BY <1>1, <1>2
  <2>2. g[(n + 1) + 1] = After(g[n + 1], fs[n + 1])
    <3>1. fs \in Seq(Event) /\ Plays(g, fs)
      BY <1>1
    <3>. HIDE DEF fs, n
    <3>. QED BY <2>1, <3>1, PlaysTypes
  <2>. QED BY <2>1, <2>2
<1>. QED BY <1>3, <1>4 DEF Fates

LEMMA FatesFrom ==
  ASSUME NEW es \in Seq(Event), es # <<>>, NEW h, Plays(h, es),
         NEW had, NEW gone, NEW tk, NEW moving, Fates(h, es, had, gone, tk, moving)
  PROVE  \E g : /\ Plays(g, Tail(es)) /\ g[1] = After(h[1], Head(es))
                /\ g[Len(es)] = h[Len(es) + 1]
                /\ Fates(g, Tail(es), had, gone, tk, moving)
<1>1. PICK g : Plays(g, Tail(es)) /\ \A i \in 1..Len(es) : g[i] = h[i + 1]
  BY PlaysFrom
<1>2. /\ Len(es) \in Nat /\ Len(es) >= 1 /\ Len(Tail(es)) = Len(es) - 1 /\ Head(es) = es[1]
      /\ \A i \in 1..Len(Tail(es)) : Tail(es)[i] = es[i + 1] /\ i + 1 \in 1..Len(es)
  BY TailAt, SMTT(60)
<1>3. ASSUME NEW i \in 1..Len(Tail(es))
      PROVE  Fate(g[i], Tail(es)[i], had, gone, tk, moving)
  <2>1. g[i] = h[i + 1] /\ Tail(es)[i] = es[i + 1] /\ i + 1 \in 1..Len(es)
    BY <1>1, <1>2
  <2>. QED BY <2>1 DEF Fates
<1>4. g[1] = After(h[1], Head(es)) /\ g[Len(es)] = h[Len(es) + 1]
  <2>1. h[1 + 1] = After(h[1], es[1])
    BY <1>2, PlaysTypes
  <2>. QED BY <1>1, <1>2, <2>1
<1>. QED BY <1>1, <1>3, <1>4 DEF Fates

LEMMA FatesBehind ==
  ASSUME NEW es \in Seq(Event), NEW h, Plays(h, es),
         NEW had, NEW gone, NEW tk, NEW moving, Fates(h, es, had, gone, tk, moving),
         \A i \in 1..Len(es) : es[i].is \notin {"dropped", "failed", "closed"},
         NEW new, Fresh(h[1], new)
  PROVE  \E g : /\ Plays(g, es) /\ g[1] = Extended(h[1], new)
                /\ Fates(g, es, had, gone, tk, moving)
<1>1. PICK g : Plays(g, es) /\ \A i \in 1..(Len(es) + 1) : g[i] = Extended(h[i], new)
  BY PlaysBehind
<1>2. Len(es) \in Nat
  OBVIOUS
<1>3. ASSUME NEW i \in 1..Len(es)
      PROVE  Fate(g[i], es[i], had, gone, tk, moving)
  <2>1. g[i] = Extended(h[i], new) /\ Fate(h[i], es[i], had, gone, tk, moving)
        /\ Proper(h[i]) /\ Meant(h[i], es[i])
    BY <1>1, <1>2, PlaysTypes DEF Fates
  <2>2. g[i].k = h[i].k /\ g[i].ms = h[i].ms \o new /\ h[i].ms \in Seq(Message) /\ new \in Seq(Message)
        /\ h[i].k \in Nat
    BY <2>1 DEF Extended, Proper, View, Fresh
  <2>3. es[i].is = "ended" => \A p \in 1..g[i].k : g[i].ms[p] \in had
    <3>. SUFFICES ASSUME es[i].is = "ended", NEW p \in 1..g[i].k PROVE g[i].ms[p] \in had
      OBVIOUS
    <3>1. h[i].ms # <<>>
      BY <2>1 DEF Meant
    <3>2. Len(h[i].ms) \in Nat /\ Len(h[i].ms) >= 1
      BY <2>2, <3>1
    <3>3. h[i].k <= Len(h[i].ms)
      BY <2>1, <3>2 DEF Proper
    <3>4. p \in 1..Len(h[i].ms) /\ p \in 1..h[i].k
      BY <2>2, <3>2, <3>3
    <3>5. g[i].ms[p] = h[i].ms[p]
      BY <2>2, <3>4, ConcatFacts
    <3>. QED BY <2>1, <3>4, <3>5 DEF Fate
  <2>. QED BY <2>1, <2>3 DEF Fate
<1>4. g[1] = Extended(h[1], new)
  BY <1>1, <1>2
<1>. QED BY <1>1, <1>3, <1>4 DEF Fates

\* Every event on its way tells what has become so.
Fated ==
    \A h : Plays(h, events) /\ Shows(pending, h[1]) =>
              Fates(h, events, ToSet(got), undone, ToSet(taken), env = "moving")

\* All that OnItsWay tells of.
Way == ToSet(AskedOf(commands)) \cup ToSet(Messages(queue)) \cup ToSet(held) \cup ToSet(taken)

\* What is on its way to the agent has not reached it, but where its agent died.
NotYet == ToSet(turn) \subseteq ToSet(got) /\ Way \cap ToSet(got) \subseteq undone

\* Only what was sent reaches the agent.
Sent == \A m \in ToSet(got) : card[m] # None

TInv == Fated /\ NotYet /\ Sent /\ SaidTruly

LEMMA AskedIs ==
  ASSUME NEW cs \in Seq(Command)
  PROVE  \A m : m \in ToSet(AskedOf(cs)) <=> \E i \in DOMAIN cs : cs[i].do = "prompt" /\ cs[i].msg = m
<1>1. AskedOf(cs) \in Seq(Message) /\ DOMAIN cs = 1..Len(cs) /\ Len(cs) \in Nat
  BY PromptsFacts
<1>2. ASSUME NEW i \in DOMAIN cs, cs[i].do = "prompt"
      PROVE  cs[i].msg \in ToSet(AskedOf(cs))
  BY <1>1, <1>2, AskedAt, ToSetIs
<1>3. ASSUME NEW m \in ToSet(AskedOf(cs))
      PROVE  \E i \in DOMAIN cs : cs[i].do = "prompt" /\ cs[i].msg = m
  <2>1. PICK k \in 1..Len(AskedOf(cs)) : AskedOf(cs)[k] = m
    BY <1>1, ToSetIs
  <2>2. Prompts(cs) \subseteq 1..Len(cs) /\ k \in 1..Cardinality(Prompts(cs))
        /\ cs[Nth(Prompts(cs), k)].msg = m
    BY <1>1, <2>1, PromptsFacts DEF Prompts
  <2>3. Nth(Prompts(cs), k) \in Prompts(cs)
    BY <1>1, <2>2, NthFacts
  <2>. QED BY <2>2, <2>3 DEF Prompts
<1>. QED BY <1>2, <1>3

LEMMA WayIs ==
  ASSUME TypeOK
  PROVE  \A m : OnItsWay(m) <=> m \in Way
<1>1. commands \in Seq(Command)
  BY DEF TypeOK
<1>. QED BY <1>1, AskedIs DEF OnItsWay, Way

LEMMA WayNext ==
  ASSUME TypeOK'
  PROVE  \A m : OnItsWay(m)' <=> m \in Way'
<1>1. commands' \in Seq(Command)
  BY DEF TypeOK
<1>. QED BY <1>1, AskedIs DEF OnItsWay, Way

LEMMA WayFacts ==
  ASSUME TypeOK
  PROVE  /\ ToSet(NowOf(turn, queue, commands).ms)
                = ToSet(turn) \cup ToSet(Messages(queue)) \cup ToSet(AskedOf(commands))
         /\ ToSet(held) \subseteq Message /\ ToSet(taken) \subseteq Message /\ ToSet(got) \subseteq Message
         /\ ToSet(turn) \subseteq Message /\ ToSet(Messages(queue)) \subseteq Message
         /\ ToSet(AskedOf(commands)) \subseteq Message /\ ToSet(Messages(pending)) \subseteq Message
         /\ Way \subseteq Message
<1>1. turn \in Seq(Message) /\ queue \in Seq(Entry) /\ commands \in Seq(Command)
      /\ held \in Seq(Message) /\ taken \in Seq(Message) /\ got \in Seq(Message) /\ pending \in Seq(Row)
  BY DEF TypeOK
<1>2. NowOf(turn, queue, commands).ms = (turn \o Messages(queue)) \o AskedOf(commands)
      /\ Messages(queue) \in Seq(Message) /\ AskedOf(commands) \in Seq(Message)
      /\ Messages(pending) \in Seq(Message)
  BY <1>1, NowFacts, RowsFacts
<1>3. turn \o Messages(queue) \in Seq(Message)
  BY <1>1, <1>2, ConcatFacts
<1>4. ToSet(NowOf(turn, queue, commands).ms)
                = ToSet(turn) \cup ToSet(Messages(queue)) \cup ToSet(AskedOf(commands))
  <2>1. ToSet(turn \o Messages(queue)) = ToSet(turn) \cup ToSet(Messages(queue))
    BY <1>1, <1>2, ToSetConcat
  <2>2. ToSet((turn \o Messages(queue)) \o AskedOf(commands))
            = ToSet(turn \o Messages(queue)) \cup ToSet(AskedOf(commands))
    BY <1>2, <1>3, ToSetConcat
  <2>. QED BY <1>2, <2>1, <2>2
<1>5. \A s \in Seq(Message) : ToSet(s) \subseteq Message
  BY ToSetType
<1>. QED BY <1>1, <1>2, <1>4, <1>5 DEF Way

\* What stands where, and what does not.
LEMMA Places ==
  ASSUME TypeOK, IInv
  PROVE  /\ ToSet(turn) \cup ToSet(Messages(queue)) \cup ToSet(AskedOf(commands)) \subseteq ToSet(Messages(pending))
         /\ ToSet(turn) \cap ToSet(Messages(queue)) = {}
         /\ ToSet(turn) \cap ToSet(AskedOf(commands)) = {}
         /\ ToSet(Messages(queue)) \cap ToSet(AskedOf(commands)) = {}
         /\ ToSet(Messages(pending)) \cap ToSet(held) = {} /\ ToSet(held) \cap ToSet(taken) = {}
         /\ (ToSet(turn) \cup ToSet(Messages(queue)) \cup ToSet(AskedOf(commands))) \cap ToSet(taken) = {}
         /\ \A m \in ToSet(Messages(pending)) \cup ToSet(held) \cup ToSet(taken) : card[m] # None
         /\ Once(turn) /\ Once(Messages(queue)) /\ Once(AskedOf(commands)) /\ Once(held) /\ Once(taken)
<1>1. turn \in Seq(Message) /\ queue \in Seq(Entry) /\ commands \in Seq(Command) /\ events \in Seq(Event)
  BY DEF TypeOK
<1>2. Proper(NowOf(turn, queue, commands))
      /\ ToSet(NowOf(turn, queue, commands).ms) \subseteq ToSet(Messages(pending))
  BY InvFacts
<1>3. Once(NowOf(turn, queue, commands).ms)
  BY <1>2 DEF Proper
<1>4. ToSet(NowOf(turn, queue, commands).ms) \cap ToSet(taken) = {}
  <2>1. PICK h : /\ Plays(h, events) /\ h[Len(events) + 1] = NowOf(turn, queue, commands)
                 /\ Taking(h, events, ToSet(taken))
    BY DEF IInv, Matched, Replays
  <2>2. Len(events) \in Nat
    BY <1>1
  <2>3. Len(events) + 1 \in 1..(Len(events) + 1) /\ ~\E j \in (Len(events) + 1)..Len(events) : TRUE
    BY <2>2
  <2>. QED BY <2>1, <2>3 DEF Taking
<1>5. /\ ToSet(turn) \cap ToSet(Messages(queue)) = {}
      /\ ToSet(turn) \cap ToSet(AskedOf(commands)) = {}
      /\ ToSet(Messages(queue)) \cap ToSet(AskedOf(commands)) = {}
      /\ Once(turn) /\ Once(Messages(queue)) /\ Once(AskedOf(commands))
      /\ ToSet(NowOf(turn, queue, commands).ms)
            = ToSet(turn) \cup ToSet(Messages(queue)) \cup ToSet(AskedOf(commands))
  BY <1>1, <1>3, NowParts
<1>. QED BY <1>2, <1>4, <1>5 DEF IInv, Apart

LEMMA PlayIs ==
  ASSUME TypeOK, IInv, Fated
  PROVE  \E h : /\ Plays(h, events) /\ Shows(pending, h[1]) /\ h[Len(events) + 1] = NowOf(turn, queue, commands)
                /\ Lasts(h, events, session) /\ Taking(h, events, ToSet(taken))
                /\ Fates(h, events, ToSet(got), undone, ToSet(taken), env = "moving")
BY DEF IInv, Matched, Replays, Fated

LEMMA FatedBy ==
  ASSUME TypeOK', NEW h, Plays(h, events'), Shows(pending', h[1]),
         Fates(h, events', ToSet(got'), undone', ToSet(taken'), env' = "moving")
  PROVE  Fated'
<1>1. events' \in Seq(Event) /\ pending' \in Seq(Row) /\ Len(events') \in Nat
  BY DEF TypeOK
<1>2. ASSUME NEW g, Plays(g, events'), Shows(pending', g[1])
      PROVE  Fates(g, events', ToSet(got'), undone', ToSet(taken'), env' = "moving")
  <2>1. 1 \in 1..(Len(events') + 1)
    BY <1>1
  <2>2. Proper(g[1]) /\ Proper(h[1])
    BY <1>1, <1>2, <2>1, PlaysTypes
  <2>3. h[1] = g[1]
    BY <1>1, <1>2, <2>2, SameView
  <2>4. \A i \in 1..(Len(events') + 1) : h[i] = g[i]
    <3>1. Len(events') <= Len(events') /\ \A i \in 1..Len(events') : events'[i] = events'[i]
      BY <1>1
    <3>. QED BY <1>1, <1>2, <2>3, <3>1, SamePlay
  <2>5. \A i \in 1..Len(events') : h[i] = g[i]
    BY <1>1, <2>4
  <2>. QED BY <2>5 DEF Fates
<1>. QED BY <1>2 DEF Fated

-----------------------------------------------------------------------------
(* What the cards say.                                                      *)

\* What is newly said is so.
Newly(m) ==
    /\ card'[m] # None
    /\ card'[m] = "NotSent" /\ m \notin undone' => m \notin ToSet(got') /\ m \notin Way'
    /\ card'[m] \in {"Taken", "WithinTurn"} => m \in ToSet(got') \cup ToSet(taken') \cup WaitedOn'
    /\ card'[m] \in Waiting => m \in WaitedOn'

\* What was said is so still.
AsBefore(m) ==
    /\ card'[m] = card[m]
    /\ m \in Way' => m \in Way
    /\ m \in ToSet(taken) \cup WaitedOn => m \in ToSet(got') \cup ToSet(taken') \cup WaitedOn'
    /\ m \in WaitedOn /\ card[m] \in Waiting => m \in WaitedOn'

LEMMA SaysSo ==
  ASSUME TypeOK, TypeOK', NotYet, Sent, SaidTruly,
         got' = got, undone \subseteq undone', turn' = turn \/ turn' = <<>>,
         \A m \in Message : m \in Way' => m \in Way \/ m \notin ToSet(got) \/ m \in undone',
         \A m \in Message : Newly(m) \/ AsBefore(m)
  PROVE  NotYet' /\ Sent' /\ SaidTruly'
<1>1. /\ ToSet(got) \subseteq Message
      /\ \A m : OnItsWay(m) <=> m \in Way
      /\ \A m : OnItsWay(m)' <=> m \in Way'
  BY WayFacts, WayIs, WayNext
<1>2. NotYet'
  <2>1. ToSet(turn') \subseteq ToSet(got)
    <3>1. ToSet(<<>>) = {}
      BY DEF ToSet
    <3>. QED BY <3>1 DEF NotYet
  <2>. QED BY <1>1, <2>1 DEF NotYet
<1>3. Sent'
  BY <1>1 DEF Sent, Newly, AsBefore
<1>4. ASSUME NEW m \in Message
      PROVE  /\ card'[m] = "NotSent" /\ m \notin undone' => m \notin ToSet(got') /\ ~OnItsWay(m)'
             /\ card'[m] \in {"Taken", "WithinTurn"} => m \in ToSet(got') \cup ToSet(taken') \cup WaitedOn'
             /\ card'[m] \in Waiting => m \in WaitedOn'
  <2>1. CASE Newly(m)
    BY <1>1, <2>1 DEF Newly
  <2>2. CASE AsBefore(m)
    <3>1. /\ card[m] = "NotSent" /\ m \notin undone => m \notin ToSet(got) /\ m \notin Way
          /\ card[m] \in {"Taken", "WithinTurn"} => m \in ToSet(got) \cup ToSet(taken) \cup WaitedOn
          /\ card[m] \in Waiting => m \in WaitedOn
      BY <1>1 DEF SaidTruly
    <3>. QED BY <1>1, <2>2, <3>1 DEF AsBefore
  <2>. QED BY <2>1, <2>2
<1>5. \A i, j \in DOMAIN got' : i < j /\ got'[i] = got'[j] => got'[i] \in undone'
  BY DEF SaidTruly
<1>. QED BY <1>2, <1>3, <1>4, <1>5 DEF SaidTruly

LEMMA Reaches ==
  ASSUME TypeOK, TypeOK', IInv, NotYet, Sent, SaidTruly,
         UNCHANGED <<card, pending, held, undone>>,
         NEW new \in Seq(Message), Once(new), got' = got \o new,
         ToSet(new) \subseteq Way, ToSet(new) \cap Way' = {}, Way' \subseteq Way,
         turn' = turn \/ turn' = new, ToSet(taken) \subseteq ToSet(taken') \cup ToSet(new)
  PROVE  NotYet' /\ Sent' /\ SaidTruly'
<1>1. /\ ToSet(got) \subseteq Message /\ Way \subseteq Message
      /\ \A m : OnItsWay(m) <=> m \in Way
      /\ \A m : OnItsWay(m)' <=> m \in Way'
  BY WayFacts, WayIs, WayNext
<1>2. got \in Seq(Message)
  BY DEF TypeOK
<1>3. ToSet(got') = ToSet(got) \cup ToSet(new)
  BY <1>2, ToSetConcat
<1>4. NotYet'
  BY <1>3 DEF NotYet
<1>5. Sent'
  <2>1. \A m \in Way : card[m] # None
    BY Places DEF Way
  <2>. QED BY <1>3, <2>1 DEF Sent
<1>6. WaitedOn' = WaitedOn
  BY DEF WaitedOn
<1>7. ASSUME NEW m \in Message
      PROVE  /\ card'[m] = "NotSent" /\ m \notin undone' => m \notin ToSet(got') /\ ~OnItsWay(m)'
             /\ card'[m] \in {"Taken", "WithinTurn"} => m \in ToSet(got') \cup ToSet(taken') \cup WaitedOn'
             /\ card'[m] \in Waiting => m \in WaitedOn'
  <2>1. /\ card[m] = "NotSent" /\ m \notin undone => m \notin ToSet(got) /\ m \notin Way
        /\ card[m] \in {"Taken", "WithinTurn"} => m \in ToSet(got) \cup ToSet(taken) \cup WaitedOn
        /\ card[m] \in Waiting => m \in WaitedOn
    BY <1>1 DEF SaidTruly
  <2>. QED BY <1>1, <1>3, <1>6, <2>1
<1>8. ASSUME NEW i \in DOMAIN got', NEW j \in DOMAIN got', i < j, got'[i] = got'[j]
      PROVE  got'[i] \in undone'
  <2>1. /\ DOMAIN got' = 1..(Len(got) + Len(new)) /\ Len(got) \in Nat /\ Len(new) \in Nat
        /\ DOMAIN got = 1..Len(got) /\ DOMAIN new = 1..Len(new)
        /\ \A p \in 1..(Len(got) + Len(new)) : got'[p] = IF p <= Len(got) THEN got[p] ELSE new[p - Len(got)]
    BY <1>2, ConcatFacts
  <2>2. CASE j <= Len(got)
    <3>1. i \in DOMAIN got /\ j \in DOMAIN got /\ got'[i] = got[i] /\ got'[j] = got[j]
      BY <1>8, <2>1, <2>2
    <3>. QED BY <1>8, <3>1 DEF SaidTruly
  <2>3. CASE i <= Len(got) /\ ~(j <= Len(got))
    <3>1. i \in 1..Len(got) /\ j - Len(got) \in 1..Len(new) /\ got'[i] = got[i] /\ got'[j] = new[j - Len(got)]
      BY <1>8, <2>1, <2>3
    <3>2. got[i] \in ToSet(got) /\ new[j - Len(got)] \in ToSet(new)
      BY <1>2, <3>1, ToSetIs
    <3>. QED BY <1>8, <3>1, <3>2 DEF NotYet
  <2>4. CASE ~(i <= Len(got))
    <3>1. /\ i - Len(got) \in 1..Len(new) /\ j - Len(got) \in 1..Len(new)
          /\ got'[i] = new[i - Len(got)] /\ got'[j] = new[j - Len(got)]
          /\ i - Len(got) # j - Len(got)
      BY <1>8, <2>1, <2>4
    <3>. QED BY <1>8, <2>1, <3>1 DEF Once
  <2>. QED BY <2>2, <2>3, <2>4
<1>. QED BY <1>4, <1>5, <1>7, <1>8 DEF SaidTruly

LEMMA FatedGoes ==
  ASSUME TypeOK, TypeOK', IInv, Fated, events' = events, pending' = pending,
         ToSet(got) \subseteq ToSet(got'), undone \subseteq undone',
         \/ \A i \in 1..Len(events) : events[i].is # "taken"
         \/ ToSet(got) \cup ToSet(taken) \subseteq ToSet(got') \cup ToSet(taken'),
         ToSet(taken') \subseteq ToSet(taken) \cup ToSet(NowOf(turn, queue, commands).ms),
         ToSet(got') \subseteq ToSet(got) \cup ToSet(taken) \cup ToSet(NowOf(turn, queue, commands).ms),
         Closing => ToSet(got') \subseteq ToSet(got) \cup ToSet(taken),
         Closing /\ env' = "moving" /\ env # "moving" => pending = <<>>
  PROVE  Fated'
<1>1. events \in Seq(Event) /\ Len(events) \in Nat /\ pending \in Seq(Row)
  BY DEF TypeOK
<1>2. PICK h : /\ Plays(h, events) /\ Shows(pending, h[1]) /\ h[Len(events) + 1] = NowOf(turn, queue, commands)
               /\ Taking(h, events, ToSet(taken))
               /\ Fates(h, events, ToSet(got), undone, ToSet(taken), env = "moving")
  BY PlayIs
<1>3. ASSUME NEW i \in 1..Len(events), events[i].is = "closed"
      PROVE  /\ ToSet(h[i].ms) \cap ToSet(got') \subseteq ToSet(got)
             /\ env' = "moving" /\ env # "moving" => h[i].ms = <<>>
  <2>1. i = Len(events) /\ Closing
    BY <1>3 DEF IInv, Life, Closing
  <2>2. ToSet(h[i].ms) \cap ToSet(taken) = {}
    <3>1. \A j \in i..Len(events) : j = i
      BY <1>1, <2>1
    <3>2. i \in 1..(Len(events) + 1)
      BY <1>1
    <3>. QED BY <1>2, <1>3, <3>1, <3>2 DEF Taking
  <2>3. ASSUME env' = "moving", env # "moving"
        PROVE  h[i].ms = <<>>
    <3>1. pending = <<>>
      BY <2>1, <2>3
    <3>2. 1 \in 1..(Len(events) + 1) /\ i \in 1..(Len(events) + 1) /\ 1 <= i
      BY <1>1
    <3>3. Within(h[i], h[1]) /\ h[i] \in View /\ h[1] \in View
      BY <1>1, <1>2, <3>2, PlaysTypes
    <3>4. Len(h[1].ms) = 0
      BY <1>1, <1>2, <3>1, RowsFacts DEF Shows
    <3>. QED BY <3>3, <3>4 DEF Within, View
  <2>. QED BY <2>1, <2>2, <2>3
<1>. DEFINE moving == env = "moving"
            moves == env' = "moving"
            had == ToSet(got)
            more == ToSet(got')
            tk == ToSet(taken)
            now == ToSet(taken')
            last == h[Len(events) + 1]
            lost == undone'
<1>4. Fates(h, events, more, lost, now, moves)
  <2>1. /\ (\A i \in 1..Len(events) : events[i].is # "taken") \/ had \cup tk \subseteq more \cup now
        /\ now \subseteq tk \cup ToSet(last.ms) /\ more \subseteq had \cup tk \cup ToSet(last.ms)
        /\ \A i \in 1..Len(events) : events[i].is = "closed" => ToSet(h[i].ms) \cap more \subseteq had
        /\ moves /\ ~moving => \A i \in 1..Len(events) : events[i].is = "closed" => h[i].ms = <<>>
        /\ Fates(h, events, had, undone, tk, moving) /\ had \subseteq more /\ undone \subseteq lost
    BY <1>2, <1>3
  <2>. HIDE DEF moving, moves, had, more, tk, now, lost
  <2>. QED BY <1>1, <1>2, <2>1, FatesOn
<1>. QED BY <1>2, <1>4, FatedBy

\* The views that lead to what the task has are the only ones.
LEMMA PlaysAlike ==
  ASSUME TypeOK, TypeOK', IInv, Fated, pending' = pending, NEW g, Shows(pending', g[1]), Plays(g, events')
  PROVE  \E h : /\ Plays(h, events) /\ h[1] = g[1] /\ h[Len(events) + 1] = NowOf(turn, queue, commands)
                /\ Fates(h, events, ToSet(got), undone, ToSet(taken), env = "moving")
<1>1. /\ events \in Seq(Event) /\ Len(events) \in Nat /\ pending \in Seq(Row)
      /\ events' \in Seq(Event) /\ Len(events') \in Nat
  BY DEF TypeOK
<1>2. PICK h : /\ Plays(h, events) /\ Shows(pending, h[1]) /\ h[Len(events) + 1] = NowOf(turn, queue, commands)
               /\ Fates(h, events, ToSet(got), undone, ToSet(taken), env = "moving")
  BY PlayIs
<1>3. 1 \in 1..(Len(events) + 1) /\ 1 \in 1..(Len(events') + 1)
  BY <1>1
<1>4. Proper(h[1]) /\ Proper(g[1])
  BY <1>1, <1>2, <1>3, PlaysTypes
<1>5. h[1] = g[1]
  BY <1>1, <1>2, <1>4, SameView
<1>. QED BY <1>2, <1>5

\* What the task does changes nothing that the events on their way tell.
LEMMA FatesStay ==
  ASSUME TypeOK, TypeOK', IInv, session # "none",
         ToSet(got) \subseteq ToSet(got'), undone \subseteq undone',
         ToSet(got) \cup ToSet(taken) \subseteq ToSet(got') \cup ToSet(taken'),
         ToSet(taken') \subseteq ToSet(taken) \cup ToSet(NowOf(turn, queue, commands).ms),
         ToSet(got') \subseteq ToSet(got) \cup ToSet(taken) \cup ToSet(NowOf(turn, queue, commands).ms),
         NEW h, Plays(h, events), h[Len(events) + 1] = NowOf(turn, queue, commands),
         Fates(h, events, ToSet(got), undone, ToSet(taken), env = "moving")
  PROVE  Fates(h, events, ToSet(got'), undone', ToSet(taken'), env' = "moving")
<1>1. events \in Seq(Event)
  BY DEF TypeOK
<1>2. \A i \in 1..Len(events) : events[i].is # "closed"
  BY <1>1 DEF IInv, Life, Closing
<1>. DEFINE moving == env = "moving"
            moves == env' = "moving"
            had == ToSet(got)
            more == ToSet(got')
            tk == ToSet(taken)
            now == ToSet(taken')
            last == h[Len(events) + 1]
            lost == undone'
<1>3. /\ had \cup tk \subseteq more \cup now
      /\ now \subseteq tk \cup ToSet(last.ms) /\ more \subseteq had \cup tk \cup ToSet(last.ms)
      /\ \A i \in 1..Len(events) : events[i].is # "closed"
      /\ Fates(h, events, had, undone, tk, moving) /\ had \subseteq more /\ undone \subseteq lost
  BY <1>2
<1>4. Fates(h, events, more, lost, now, moves)
  <2>. HIDE DEF moving, moves, had, more, tk, now, lost
  <2>. QED BY <1>1, <1>3, FatesOn
<1>. QED BY <1>4

LEMMA FatedTold ==
  ASSUME TypeOK, TypeOK', IInv, Fated, session # "none", pending' = pending,
         NEW e \in Event, events' = Append(events, e),
         ToSet(got) \subseteq ToSet(got'), undone \subseteq undone',
         ToSet(got) \cup ToSet(taken) \subseteq ToSet(got') \cup ToSet(taken'),
         ToSet(taken') \subseteq ToSet(taken) \cup ToSet(NowOf(turn, queue, commands).ms),
         ToSet(got') \subseteq ToSet(got) \cup ToSet(taken) \cup ToSet(NowOf(turn, queue, commands).ms),
         Fate(NowOf(turn, queue, commands), e, ToSet(got'), undone', ToSet(taken'), env' = "moving")
  PROVE  Fated'
<1>1. events \in Seq(Event)
  BY DEF TypeOK
<1>2. ASSUME NEW g, Plays(g, events'), Shows(pending', g[1])
      PROVE  Fates(g, events', ToSet(got'), undone', ToSet(taken'), env' = "moving")
  <2>1. PICK h : /\ Plays(h, events) /\ h[1] = g[1] /\ h[Len(events) + 1] = NowOf(turn, queue, commands)
                 /\ Fates(h, events, ToSet(got), undone, ToSet(taken), env = "moving")
    BY <1>2, PlaysAlike
  <2>2. Fates(h, events, ToSet(got'), undone', ToSet(taken'), env' = "moving")
    BY <2>1, FatesStay
  <2>. DEFINE moves == env' = "moving"
              more == ToSet(got')
              now == ToSet(taken')
              lost == undone'
  <2>3. /\ Fates(h, events, more, lost, now, moves) /\ Fate(h[Len(events) + 1], e, more, lost, now, moves)
        /\ Plays(g, Append(events, e))
    BY <1>2, <2>1, <2>2
  <2>. HIDE DEF moves, more, now, lost
  <2>4. Fates(g, Append(events, e), more, lost, now, moves)
    BY <1>1, <2>1, <2>3, FatesTold
  <2>. QED BY <2>4 DEF moves, more, now, lost
<1>. QED BY <1>2 DEF Fated

LEMMA FatedToldOf ==
  ASSUME TypeOK, TypeOK', IInv, Fated, session # "none", pending' = pending,
         NEW is \in {"joined", "dropped", "withdrawn", "taken"}, NEW of \in Seq(Message), events' = ToldOf(is, of),
         ToSet(got) \subseteq ToSet(got'), undone \subseteq undone',
         ToSet(got) \cup ToSet(taken) \subseteq ToSet(got') \cup ToSet(taken'),
         ToSet(taken') \subseteq ToSet(taken) \cup ToSet(NowOf(turn, queue, commands).ms),
         ToSet(got') \subseteq ToSet(got) \cup ToSet(taken) \cup ToSet(NowOf(turn, queue, commands).ms),
         is = "taken" => ToSet(of) \subseteq ToSet(got') \cup ToSet(taken'),
         is \in {"dropped", "withdrawn"} => /\ ToSet(of) \cap ToSet(got') \subseteq undone'
                                            /\ ToSet(of) \cap ToSet(taken') = {}
  PROVE  Fated'
<1>1. CASE of = <<>>
  <2>1. events' = events
    BY <1>1 DEF ToldOf
  <2>2. ~Closing
    BY DEF IInv, Life, Closing
  <2>. QED BY <2>1, <2>2, FatedGoes
<1>2. CASE of # <<>>
  <2>. DEFINE e == TellsOf(is, of)
              now == NowOf(turn, queue, commands)
  <2>1. e.is = is /\ e.of = of /\ e \in Event
    BY <1>2 DEF TellsOf, Event
  <2>2. events' = Append(events, e)
    BY <1>2 DEF ToldOf
  <2>3. Fate(now, e, ToSet(got'), undone', ToSet(taken'), env' = "moving")
    BY <2>1 DEF Fate
  <2>. HIDE DEF e
  <2>. QED BY <2>1, <2>2, <2>3, FatedTold
<1>. QED BY <1>1, <1>2

LEMMA FatedHeard ==
  ASSUME TypeOK, TypeOK', IInv, Fated, events # <<>>, events' = Tail(events), UNCHANGED <<got, undone, taken, env>>,
         NEW v, Proper(v), Shows(pending, v), Shows(pending', After(v, Head(events)))
  PROVE  Fated'
<1>1. events \in Seq(Event) /\ Len(events) \in Nat /\ pending \in Seq(Row)
  BY DEF TypeOK
<1>2. PICK h : /\ Plays(h, events) /\ Shows(pending, h[1])
               /\ Fates(h, events, ToSet(got), undone, ToSet(taken), env = "moving")
  BY PlayIs
<1>3. h[1] = v
  <2>1. 1 \in 1..(Len(events) + 1)
    BY <1>1
  <2>. QED BY <1>1, <1>2, <2>1, PlaysTypes, SameView
<1>4. PICK g : /\ Plays(g, Tail(events)) /\ g[1] = After(h[1], Head(events))
               /\ Fates(g, Tail(events), ToSet(got), undone, ToSet(taken), env = "moving")
  BY <1>1, <1>2, FatesFrom
<1>5. /\ Plays(g, events') /\ Shows(pending', g[1])
      /\ Fates(g, events', ToSet(got'), undone', ToSet(taken'), env' = "moving")
  BY <1>3, <1>4
<1>. QED BY <1>5, FatedBy

\* The pane has heard nothing, or that the agent is ready.
HearsLittle == events' = events \/ Hears("ready")

LEMMA FatedSent ==
  ASSUME TypeOK, TypeOK', IInv, Fated, HearsLittle,
         \A i \in 1..Len(events') : events'[i].is \notin {"dropped", "failed", "closed"},
         NEW ms \in Seq(Message), Once(ms), NEW named \in BOOLEAN, ToSet(Messages(pending)) \cap ToSet(ms) = {},
         pending' = pending \o RowsOf(ms, named), UNCHANGED <<got, undone>>,
         \/ taken' = taken
         \/ taken' = <<>> /\ events' = events /\ \A i \in 1..Len(events) : events[i].is # "taken"
  PROVE  Fated'
<1>1. events \in Seq(Event) /\ Len(events) \in Nat /\ pending \in Seq(Row) /\ events' \in Seq(Event)
      /\ Len(events') \in Nat
  BY DEF TypeOK
<1>. DEFINE moving == env = "moving"
            had == ToSet(got)
            tk == ToSet(taken)
<1>2. PICK h : Plays(h, events') /\ Shows(pending, h[1]) /\ Fates(h, events', had, undone, tk, moving)
  <2>1. PICK f : /\ Plays(f, events) /\ Shows(pending, f[1])
                 /\ Fates(f, events, had, undone, tk, moving)
    BY PlayIs
  <2>2. CASE events' = events
    BY <2>1, <2>2
  <2>3. CASE Hears("ready")
    <3>1. events # <<>> /\ events' = Tail(events) /\ Head(events).is = "ready"
      BY <2>3 DEF Hears
    <3>2. PICK g : /\ Plays(g, Tail(events)) /\ g[1] = After(f[1], Head(events))
                   /\ Fates(g, Tail(events), had, undone, tk, moving)
      BY <1>1, <2>1, <3>1, FatesFrom
    <3>3. g[1] = f[1]
      BY <3>1, <3>2 DEF After
    <3>. QED BY <2>1, <3>1, <3>2, <3>3
  <2>. QED BY <2>2, <2>3 DEF HearsLittle
<1>3. Fates(h, events', had, undone, ToSet(taken'), env' = "moving")
  <2>1. \/ \A i \in 1..Len(events') : events'[i].is # "taken"
        \/ had \cup tk \subseteq had \cup ToSet(taken')
    OBVIOUS
  <2>2. ToSet(taken') \subseteq tk
    <3>1. ToSet(<<>>) = {}
      BY DEF ToSet
    <3>. QED BY <3>1
  <2>3. \A i \in 1..Len(events') : events'[i].is # "closed"
    OBVIOUS
  <2>. DEFINE moves == env' = "moving"
              es == events'
              now == ToSet(taken')
  <2>4. /\ es \in Seq(Event) /\ Plays(h, es) /\ Fates(h, es, had, undone, tk, moving)
        /\ (\A i \in 1..Len(es) : es[i].is # "taken") \/ had \cup tk \subseteq had \cup now
        /\ now \subseteq tk /\ \A i \in 1..Len(es) : es[i].is # "closed"
    BY <1>1, <1>2, <2>1, <2>2, <2>3
  <2>. HIDE DEF moves, moving, had, tk, es, now
  <2>5. Fates(h, es, had, undone, now, moves)
    BY <2>4, FatesOn
  <2>. QED BY <2>5 DEF es, moves, now
<1>4. Proper(h[1])
  <2>1. 1 \in 1..(Len(events') + 1)
    BY <1>1
  <2>. QED BY <1>1, <1>2, <2>1, PlaysTypes
<1>5. Fresh(h[1], ms)
  BY <1>2 DEF Fresh, Shows
<1>6. PICK g : /\ Plays(g, events') /\ g[1] = Extended(h[1], ms)
               /\ Fates(g, events', had, undone, ToSet(taken'), env' = "moving")
  <2>. DEFINE moves == env' = "moving"
              es == events'
              now == ToSet(taken')
  <2>1. es \in Seq(Event) /\ Plays(h, es) /\ Fates(h, es, had, undone, now, moves)
        /\ \A i \in 1..Len(es) : es[i].is \notin {"dropped", "failed", "closed"}
    BY <1>1, <1>2, <1>3
  <2>. HIDE DEF moves, had, es, now
  <2>2. \E g : Plays(g, es) /\ g[1] = Extended(h[1], ms) /\ Fates(g, es, had, undone, now, moves)
    BY <1>5, <2>1, FatesBehind, SMTT(60)
  <2>. QED BY <2>2 DEF es, moves, now
<1>7. Shows(pending', g[1])
  BY <1>1, <1>2, <1>4, <1>6, RowsSent DEF Sends
<1>8. Fates(g, events', ToSet(got'), undone', ToSet(taken'), env' = "moving")
  BY <1>6
<1>. QED BY <1>6, <1>7, <1>8, FatedBy

LEMMA FatedNothing ==
  ASSUME events' = <<>>
  PROVE  Fated'
<1>1. Len(events') = 0
  OBVIOUS
<1>2. 1..Len(events') = {}
  BY <1>1
<1>. QED BY <1>2 DEF Fated, Fates

LEMMA NowSets ==
  ASSUME NEW t \in Seq(Message), NEW q \in Seq(Entry), NEW cs \in Seq(Command)
  PROVE  ToSet(NowOf(t, q, cs).ms) = ToSet(t) \cup ToSet(Messages(q)) \cup ToSet(AskedOf(cs))
<1>1. /\ NowOf(t, q, cs).ms = (t \o Messages(q)) \o AskedOf(cs)
      /\ Messages(q) \in Seq(Message) /\ AskedOf(cs) \in Seq(Message)
  BY NowFacts
<1>2. t \o Messages(q) \in Seq(Message)
  BY <1>1, ConcatFacts
<1>3. \A a, b \in Seq(Message) : ToSet(a \o b) = ToSet(a) \cup ToSet(b)
  BY ToSetConcat
<1>. QED BY <1>1, <1>2, <1>3, Zenon

LEMMA NothingIn == ToSet(<<>>) = {} /\ ToSet(Messages(<<>>)) = {} /\ ToSet(AskedOf(<<>>)) = {}
<1>1. \A f : ToSet(<<>>) = {}
  BY DEF ToSet
<1>2. Messages(<<>>) = <<>>
  BY DEF Messages
<1>3. AskedOf(<<>>) = <<>>
  <2>1. <<>> \in Seq(Command) /\ \A i \in 1..Len(<<>>) : <<>>[i].do # "prompt"
    OBVIOUS
  <2>. QED BY <2>1, AskedNone
<1>. QED BY <1>1, <1>2, <1>3

LEMMA EndsFated ==
  ASSUME TypeOK, TypeOK', IInv, Fated, NotYet, NEW failed \in BOOLEAN, failed => turn # <<>>, Ends(failed),
         env' = "moving" => ~Loses(failed)
  PROVE  Fated'
<1>. DEFINE now == NowOf(turn, queue, commands)
            rest == NowOf(<<>>, queue, commands)
            f == Tells("failed")
            c == Tells("closed")
            mid == IF failed THEN Append(events, f) ELSE events
            last == IF failed THEN rest ELSE now
            tk == ToSet(taken')
            had == ToSet(got')
            gone == undone'
            moves == env' = "moving"
<1>1. /\ turn \in Seq(Message) /\ queue \in Seq(Entry) /\ commands \in Seq(Command)
      /\ events \in Seq(Event)
  BY Prepared
<1>2. f \in Event /\ c \in Event /\ f.is = "failed" /\ c.is = "closed"
  BY TellsType DEF Tells
<1>3. /\ session # "none" /\ UNCHANGED <<pending, got, taken>> /\ undone' = undone \cup ToSet(turn)
      /\ events' = Endings(failed)
  BY DEF Ends, Endings, paneVars
<1>4. Endings(failed) = Append(mid, c) /\ mid \in Seq(Event)
  <2>1. events \o <<f>> = Append(events, f) /\ events \o <<>> = events
        /\ Append(events, f) \in Seq(Event)
    BY <1>1, <1>2
  <2>2. mid \in Seq(Event) /\ mid \o <<c>> = Append(mid, c)
    <3>1. mid \in Seq(Event)
      BY <1>1, <2>1
    <3>. HIDE DEF mid, c
    <3>. QED BY <1>2, <3>1
  <2>. HIDE DEF f, c
  <2>3. mid = events \o (IF failed THEN <<f>> ELSE <<>>)
    BY <2>1
  <2>. HIDE DEF mid
  <2>. QED BY <2>2, <2>3 DEF f, c, Endings
<1>5. /\ now \in View /\ rest \in View
      /\ ToSet(now.ms) = ToSet(turn) \cup ToSet(Messages(queue)) \cup ToSet(AskedOf(commands))
      /\ ToSet(rest.ms) = ToSet(Messages(queue)) \cup ToSet(AskedOf(commands))
      /\ now.k = IF turn = <<>> THEN 1 ELSE Len(turn)
  <2>1. now \in View /\ rest \in View /\ now.k = IF turn = <<>> THEN 1 ELSE Len(turn)
    BY <1>1, EmptyTyped, NowFacts
  <2>2. \A t \in Seq(Message) : ToSet(NowOf(t, queue, commands).ms)
                                  = ToSet(t) \cup ToSet(Messages(queue)) \cup ToSet(AskedOf(commands))
    BY <1>1, NowSets
  <2>3. <<>> \in Seq(Message) /\ ToSet(<<>>) = {}
    BY EmptyTyped, NothingIn
  <2>4. ToSet(rest.ms) = {} \cup ToSet(Messages(queue)) \cup ToSet(AskedOf(commands))
    BY <2>2, <2>3, Zenon
  <2>5. ToSet(now.ms) = ToSet(turn) \cup ToSet(Messages(queue)) \cup ToSet(AskedOf(commands))
    BY <1>1, <2>2, Zenon
  <2>. HIDE DEF now, rest
  <2>. QED BY <2>1, <2>4, <2>5
<1>6. /\ ToSet(turn) \subseteq had /\ ToSet(turn) \subseteq gone
      /\ (ToSet(Messages(queue)) \cup ToSet(AskedOf(commands))) \cap had \subseteq gone
  BY <1>3 DEF NotYet, Way
<1>7. ASSUME moves
      PROVE  ~failed /\ \A p \in 1..Len(now.ms) : p <= now.k => now.ms[p] \in had
  <2>1. pending # <<>> => turn # <<>> /\ ~failed
    BY <1>7 DEF Loses
  <2>2. Len(now.ms) <= Len(pending) /\ Len(now.ms) \in Nat
    BY <1>5, InvFacts DEF View
  <2>3. CASE pending = <<>>
    <3>1. Len(now.ms) = 0
      <4>1. Len(pending) = 0
        BY <2>3
      <4>. HIDE DEF now
      <4>. QED BY <2>2, <4>1
    <3>2. turn = <<>>
      <4>1. Len(now.ms) = Len(turn) + Len(queue) + Len(AskedOf(commands))
            /\ Len(turn) \in Nat /\ Len(queue) \in Nat /\ Len(AskedOf(commands)) \in Nat
        BY <1>1, NowPlaces
      <4>. HIDE DEF now
      <4>2. Len(turn) = 0
        BY <3>1, <4>1
      <4>. QED BY <1>1, <4>2
    <3>. HIDE DEF now
    <3>. QED BY <3>1, <3>2
  <2>4. CASE turn # <<>> /\ ~failed
    <3>1. \A p \in 1..Len(turn) : now.ms[p] = turn[p] /\ turn[p] \in ToSet(turn)
      BY <1>1, NowPlaces, ToSetIs
    <3>2. now.k = Len(turn) /\ Len(turn) \in Nat
      BY <1>1, <1>5, <2>4
    <3>. HIDE DEF now
    <3>3. \A p \in 1..Len(now.ms) : p <= now.k => p \in 1..Len(turn)
      BY <2>2, <3>2
    <3>. QED BY <1>6, <2>4, <3>1, <3>3
  <2>. QED BY <2>1, <2>3, <2>4
<1>8. Fate(last, c, had, gone, tk, moves)
  <2>1. ToSet(last.ms) \cap had \subseteq gone
    BY <1>5, <1>6
  <2>2. moves => \A p \in 1..Len(last.ms) : p <= last.k => last.ms[p] \in had
    BY <1>7
  <2>. HIDE DEF last, had, gone, tk, moves, c
  <2>. QED BY <1>2, <2>1, <2>2 DEF Fate
<1>9. ASSUME NEW g, Plays(g, events'), Shows(pending', g[1])
      PROVE  Fates(g, events', had, gone, tk, moves)
  <2>1. PICK h : /\ Plays(h, events) /\ h[1] = g[1] /\ h[Len(events) + 1] = now
                 /\ Fates(h, events, ToSet(got), undone, ToSet(taken), env = "moving")
    BY <1>3, <1>9, PlaysAlike
  <2>2. Fates(h, events, had, gone, tk, moves)
    BY <1>3, <2>1, FatesStay
  <2>3. \E m : /\ Plays(m, mid) /\ m[1] = h[1] /\ m[Len(mid) + 1] = last
               /\ Fates(m, mid, had, gone, tk, moves)
    <3>1. CASE ~failed
      BY <2>1, <2>2, <3>1
    <3>2. CASE failed
      <4>1. Meant(now, f) /\ After(now, f) = rest
        BY <1>1, <1>2, <3>2, NowEnded
      <4>2. Fate(now, f, had, gone, tk, moves)
        <5>1. \A p \in 1..Len(turn) : now.ms[p] = turn[p] /\ turn[p] \in ToSet(turn)
          BY <1>1, NowPlaces, ToSetIs
        <5>2. now.k = Len(turn)
          BY <1>5, <3>2
        <5>. HIDE DEF now, f, had, gone, tk, moves
        <5>. QED BY <1>2, <1>6, <5>1, <5>2 DEF Fate
      <4>3. mid = Append(events, f) /\ last = rest
        BY <3>2
      <4>. HIDE DEF now, rest, f, mid, last, had, gone, tk, moves
      <4>4. PICK m : /\ Plays(m, Append(events, f))
                     /\ \A i \in 1..(Len(events) + 1) : m[i] = h[i]
                     /\ m[Len(events) + 2] = After(now, f)
        <5>1. Meant(h[Len(events) + 1], f)
          BY <2>1, <4>1
        <5>2. \E m : /\ Plays(m, Append(events, f))
                     /\ \A i \in 1..(Len(events) + 1) : m[i] = h[i]
                     /\ m[Len(events) + 2] = After(h[Len(events) + 1], f)
          BY <1>1, <1>2, <2>1, <5>1, PlaysOn
        <5>. QED BY <2>1, <5>2
      <4>5. m[1] = h[1] /\ Len(Append(events, f)) + 1 = Len(events) + 2
        <5>1. Len(events) \in Nat /\ Len(Append(events, f)) = Len(events) + 1
          BY <1>1, <1>2
        <5>. QED BY <4>4, <5>1
      <4>6. Fates(m, Append(events, f), had, gone, tk, moves)
        BY <1>1, <1>2, <2>1, <2>2, <4>2, <4>4, <4>5, FatesTold
      <4>7. m[Len(mid) + 1] = last
        BY <4>1, <4>3, <4>4, <4>5
      <4>. QED BY <4>3, <4>4, <4>5, <4>6, <4>7
    <3>. QED BY <3>1, <3>2
  <2>4. PICK m : /\ Plays(m, mid) /\ m[1] = h[1] /\ m[Len(mid) + 1] = last
                 /\ Fates(m, mid, had, gone, tk, moves)
    BY <2>3
  <2>5. Plays(g, Append(mid, c)) /\ g[1] = m[1]
    BY <1>3, <1>4, <1>9, <2>1, <2>4
  <2>. HIDE DEF mid, last, had, gone, tk, moves, c
  <2>6. Fates(g, Append(mid, c), had, gone, tk, moves)
    BY <1>2, <1>4, <1>8, <2>4, <2>5, FatesTold
  <2>. QED BY <1>3, <1>4, <2>6
<1>. QED BY <1>9 DEF Fated

-----------------------------------------------------------------------------
(* The task.                                                                *)

LEMMA TaskSays ==
  ASSUME TypeOK, TypeOK', TInv, UNCHANGED <<pending, held, card, got>>, undone \subseteq undone',
         turn' = turn \/ turn' = <<>>, Way' \subseteq Way, ToSet(taken) \subseteq ToSet(taken')
  PROVE  NotYet' /\ Sent' /\ SaidTruly'
<1>1. WaitedOn' = WaitedOn
  BY DEF WaitedOn
<1>2. \A m \in Message : AsBefore(m)
  BY <1>1 DEF AsBefore
<1>3. \A m \in Message : m \in Way' => m \in Way \/ m \notin ToSet(got) \/ m \in undone'
  OBVIOUS
<1>4. NotYet /\ Sent /\ SaidTruly
  BY DEF TInv
<1>. QED BY <1>2, <1>3, <1>4, SaysSo

LEMMA ReadiesTruly == ASSUME TypeOK, TypeOK', IInv, TInv, Readies PROVE TInv'
<1>. DEFINE e == Tells("ready")
            now == NowOf(turn, queue, commands)
<1>1. /\ UNCHANGED <<pending, held, card, got, undone, turn, queue, taken, commands>> /\ session # "none"
      /\ events' = Append(events, e)
  BY DEF Readies, paneVars, hookVars, ghosts
<1>2. e \in Event /\ e.is = "ready"
  BY TellsType DEF Tells
<1>. HIDE DEF e
<1>3. Fate(now, e, ToSet(got'), undone', ToSet(taken'), env' = "moving")
  BY <1>2 DEF Fate
<1>4. Fated'
  BY <1>1, <1>2, <1>3, FatedTold DEF TInv
<1>5. Way' = Way
  BY <1>1 DEF Way
<1>. QED BY <1>1, <1>4, <1>5, TaskSays DEF TInv

LEMMA TurnIsHad ==
  ASSUME TypeOK, IInv, NotYet, turn # <<>>, NEW e, e.is \in {"ended", "failed"}, NEW gone, NEW tk, NEW moves
  PROVE  Fate(NowOf(turn, queue, commands), e, ToSet(got), gone, tk, moves)
<1>. DEFINE now == NowOf(turn, queue, commands)
            had == ToSet(got)
<1>1. /\ turn \in Seq(Message) /\ queue \in Seq(Entry) /\ commands \in Seq(Command)
  BY Prepared
<1>2. \A p \in 1..Len(turn) : now.ms[p] = turn[p] /\ turn[p] \in ToSet(turn)
  BY <1>1, NowPlaces, ToSetIs
<1>3. now.k = Len(turn)
  BY <1>1, NowFacts
<1>4. ToSet(turn) \subseteq had
  BY DEF NotYet
<1>. HIDE DEF now, had
<1>5. Fate(now, e, had, gone, tk, moves)
  BY <1>2, <1>3, <1>4 DEF Fate
<1>. QED BY <1>5 DEF now, had

\* A turn is over, however it went.
LEMMA TurnTruly ==
  ASSUME TypeOK, TypeOK', IInv, TInv, NEW is \in {"ended", "failed"}, turn # <<>>, turn' = <<>>,
         events' = Append(events, Tells(is)),
         UNCHANGED <<paneVars, env, commands, session, queue, hook, taken, ghosts>>
  PROVE  TInv'
<1>. DEFINE e == Tells(is)
            now == NowOf(turn, queue, commands)
<1>1. UNCHANGED <<pending, held, card, got, undone, env, queue, taken, commands>>
  BY DEF paneVars, ghosts
<1>2. session # "none"
  BY Prepared
<1>3. e \in Event /\ e.is = is /\ events' = Append(events, e)
  BY TellsType DEF Tells
<1>. HIDE DEF e
<1>4. Fate(now, e, ToSet(got), undone, ToSet(taken), env = "moving")
  BY <1>3, TurnIsHad DEF TInv
<1>5. Fate(now, e, ToSet(got'), undone', ToSet(taken'), env' = "moving")
  BY <1>1, <1>4
<1>6. Fated'
  BY <1>1, <1>2, <1>3, <1>5, FatedTold DEF TInv
<1>7. Way' = Way
  BY <1>1 DEF Way
<1>. QED BY <1>1, <1>6, <1>7, TaskSays DEF TInv

LEMMA TurnEndsTruly == ASSUME TypeOK, TypeOK', IInv, TInv, TurnEnds PROVE TInv'
<1>1. UNCHANGED <<paneVars, env, commands, session, queue, hook, taken, ghosts>>
      /\ events' = Append(events, Tells("ended"))
  BY DEF TurnEnds
<1>2. turn # <<>> /\ turn' = <<>> /\ "ended" \in {"ended", "failed"}
  BY DEF TurnEnds
<1>. QED BY <1>1, <1>2, TurnTruly

LEMMA TurnFailsTruly == ASSUME TypeOK, TypeOK', IInv, TInv, TurnFails PROVE TInv'
<1>1. UNCHANGED <<paneVars, env, commands, session, queue, hook, taken, ghosts>>
      /\ events' = Append(events, Tells("failed"))
  BY DEF TurnFails
<1>2. turn # <<>> /\ turn' = <<>> /\ "failed" \in {"ended", "failed"}
  BY DEF TurnFails
<1>. QED BY <1>1, <1>2, TurnTruly

LEMMA EndsTruly ==
  ASSUME TypeOK, TypeOK', IInv, TInv, NEW failed \in BOOLEAN, failed => turn # <<>>, Ends(failed),
         env' = "moving" => ~Loses(failed)
  PROVE  TInv'
<1>1. /\ UNCHANGED <<pending, held, card, got, taken>> /\ undone \subseteq undone'
      /\ turn' = <<>> /\ commands' = <<>> /\ queue' = <<>>
  BY DEF Ends, paneVars
<1>2. Fated'
  BY EndsFated DEF TInv
<1>3. Way' \subseteq Way
  BY <1>1, NothingIn DEF Way
<1>. QED BY <1>1, <1>2, <1>3, TaskSays DEF TInv

LEMMA DiesTruly == ASSUME TypeOK, TypeOK', IInv, TInv, NoSlip, NEW failed \in BOOLEAN, Dies(failed) PROVE TInv'
<1>1. ~(env = "moving" /\ Loses(failed)) /\ env' = env /\ Ends(failed) /\ (failed => turn # <<>>)
  BY SlipsNot DEF Dies
<1>. QED BY <1>1, EndsTruly

LEMMA EnvMovesTruly == ASSUME TypeOK, TypeOK', IInv, TInv, NoSlip, NEW failed \in BOOLEAN, EnvMoves(failed) PROVE TInv'
<1>1. env' = "moving" /\ env = "up" /\ (failed => turn # <<>>)
  BY DEF EnvMoves
<1>2. CASE Ends(failed) /\ Spends({"fault"} \cup Slips(Loses(failed)))
  BY <1>1, <1>2, SlipsNot, EndsTruly
<1>3. CASE /\ ~failed
           /\ Spends({"fault"} \cup Slips(session = "none" /\ Loses(FALSE)))
           /\ UNCHANGED <<paneVars, commands, events, taskVars, hookVars, ghosts>>
  <2>1. UNCHANGED <<pending, held, card, got, taken, undone, turn, commands, queue, events>>
    BY <1>3 DEF paneVars, taskVars, hookVars, ghosts
  <2>2. Closing => pending = <<>>
    <3>1. Closing => client /\ session = "none" /\ turn = <<>>
      <4>1. Len(<<>>) = 0
        OBVIOUS
      <4>2. Closing => events # <<>>
        BY <4>1 DEF Closing
      <4>. QED BY <4>2 DEF IInv, Life
    <3>2. ~(session = "none" /\ Loses(FALSE))
      BY <1>3, SlipsNot
    <3>. QED BY <3>1, <3>2 DEF Loses
  <2>3. Fated'
    BY <2>1, <2>2, FatedGoes DEF TInv
  <2>4. Way' = Way
    BY <2>1 DEF Way
  <2>. QED BY <2>1, <2>3, <2>4, TaskSays DEF TInv
<1>. QED BY <1>2, <1>3 DEF EnvMoves

LEMMA AskedPasses ==
  ASSUME NEW cs \in Seq(Command), cs # <<>>
  PROVE  /\ Head(cs).do # "prompt" => ToSet(AskedOf(Tail(cs))) = ToSet(AskedOf(cs))
         /\ Head(cs).do = "prompt" =>
               /\ ToSet(AskedOf(cs)) = {Head(cs).msg} \cup ToSet(AskedOf(Tail(cs)))
               /\ Once(AskedOf(cs)) => Head(cs).msg \notin ToSet(AskedOf(Tail(cs)))
<1>1. Tail(cs) \in Seq(Command) /\ Head(cs) \in Command
  BY TailAt
<1>2. AskedOf(Tail(cs)) \in Seq(Message)
  BY <1>1, PromptsFacts
<1>3. ASSUME Head(cs).do = "prompt"
      PROVE  /\ ToSet(AskedOf(cs)) = {Head(cs).msg} \cup ToSet(AskedOf(Tail(cs)))
             /\ Once(AskedOf(cs)) => Head(cs).msg \notin ToSet(AskedOf(Tail(cs)))
  <2>. DEFINE m == Head(cs).msg
              one == <<m>>
              rest == AskedOf(Tail(cs))
  <2>1. m \in Message
    BY <1>1, <1>3, CommandTypes
  <2>2. AskedOf(cs) = one \o rest
    BY <1>3, AskedHead
  <2>3. one \in Seq(Message) /\ rest \in Seq(Message) /\ ToSet(one) = {m}
    BY <1>2, <2>1, OneOnly
  <2>. HIDE DEF one, rest, m
  <2>4. ToSet(one \o rest) = ToSet(one) \cup ToSet(rest)
    BY <2>3, ToSetConcat
  <2>5. Once(one \o rest) => ToSet(one) \cap ToSet(rest) = {}
    BY <2>3, OnceConcat
  <2>. QED BY <2>2, <2>3, <2>4, <2>5 DEF m, rest
<1>. QED BY <1>3, AskedHead

LEMMA ReceivesTruly == ASSUME TypeOK, TypeOK', IInv, TInv, Receives PROVE TInv'
<1>1. /\ UNCHANGED <<pending, held, card, undone, queue, taken, env, events>>
      /\ session # "none" /\ commands # <<>> /\ commands' = Tail(commands)
  BY DEF Receives, paneVars
<1>2. commands \in Seq(Command) /\ got \in Seq(Message) /\ turn \in Seq(Message)
  BY DEF TypeOK
<1>3. ~Closing
  BY <1>1 DEF IInv, Life, Closing
<1>4. CASE Head(commands).do = "prompt"
  <2>. DEFINE m == Head(commands).msg
              new == <<m>>
  <2>1. turn' = new /\ got' = got \o new
    BY <1>4 DEF Receives, Begins
  <2>2. m \in Message
    <3>1. Head(commands) \in Command
      BY <1>1, <1>2, TailAt
    <3>. QED BY <1>4, <3>1, CommandTypes
  <2>3. new \in Seq(Message) /\ Once(new) /\ ToSet(new) = {m}
    BY <2>2, OneOnly
  <2>4. /\ ToSet(AskedOf(commands)) = {m} \cup ToSet(AskedOf(commands'))
        /\ m \notin ToSet(AskedOf(commands'))
    BY <1>1, <1>2, <1>4, AskedPasses, Places
  <2>. HIDE DEF m, new
  <2>5. ToSet(got') = ToSet(got) \cup {m}
    BY <1>2, <2>1, <2>3, ToSetConcat
  <2>6. m \in ToSet(NowOf(turn, queue, commands).ms)
    BY <2>4, WayFacts
  <2>7. Fated'
    BY <1>1, <1>3, <2>5, <2>6, FatedGoes DEF TInv
  <2>8. /\ m \notin ToSet(Messages(queue)) /\ m \notin ToSet(held) /\ m \notin ToSet(taken)
    BY <2>4, Places
  <2>9. Way' \subseteq Way /\ m \in Way /\ m \notin Way'
    BY <1>1, <2>4, <2>8 DEF Way
  <2>10. NotYet' /\ Sent' /\ SaidTruly'
    BY <1>1, <2>1, <2>3, <2>9, Reaches DEF TInv
  <2>. QED BY <2>7, <2>10 DEF TInv
<1>5. CASE Head(commands).do # "prompt"
  <2>1. turn' = turn /\ got' = got
    BY <1>5 DEF Receives
  <2>2. ToSet(AskedOf(commands')) = ToSet(AskedOf(commands))
    BY <1>1, <1>2, <1>5, AskedPasses
  <2>3. Way' = Way
    BY <1>1, <2>2 DEF Way
  <2>4. Fated'
    BY <1>1, <1>3, <2>1, FatedGoes DEF TInv
  <2>. QED BY <1>1, <2>1, <2>3, <2>4, TaskSays DEF TInv
<1>. QED BY <1>4, <1>5

LEMMA TakesNextTruly == ASSUME TypeOK, TypeOK', IInv, TInv, TakesNext PROVE TInv'
<1>1. /\ session = "serving" /\ turn = <<>> /\ queue # <<>>
      /\ UNCHANGED <<paneVars, env, commands, session, hook, taken>>
      /\ got' = got \o turn'
      /\ turn' \in Seq(Message) /\ queue' \in Seq(Entry)
      /\ Messages(queue) = turn' \o Messages(queue')
  BY TakesNextIs
<1>2. PICK joined \in Seq(Message) : events' = ToldOf("joined", joined)
  BY TakesNextIs
<1>3. UNCHANGED <<pending, held, card, undone>> /\ session # "none"
  BY <1>1 DEF TakesNext, paneVars
<1>4. Messages(queue') \in Seq(Message) /\ got \in Seq(Message) /\ queue \in Seq(Entry)
  BY <1>1, EntriesFacts DEF TypeOK
<1>5. /\ ToSet(Messages(queue)) = ToSet(turn') \cup ToSet(Messages(queue'))
      /\ ToSet(got') = ToSet(got) \cup ToSet(turn')
  BY <1>1, <1>4, ToSetConcat
<1>6. Once(turn') /\ ToSet(turn') \cap ToSet(Messages(queue')) = {}
  BY <1>1, <1>4, OnceConcat, Places
<1>7. Fated'
  <2>1. ToSet(turn') \subseteq ToSet(NowOf(turn, queue, commands).ms)
    BY <1>5, WayFacts
  <2>. QED BY <1>1, <1>2, <1>3, <1>5, <2>1, FatedToldOf DEF TInv
<1>8. ToSet(turn') \subseteq Way /\ ToSet(turn') \cap Way' = {} /\ Way' \subseteq Way
  BY <1>1, <1>3, <1>5, <1>6, Places DEF Way
<1>9. NotYet' /\ Sent' /\ SaidTruly'
  BY <1>1, <1>3, <1>6, <1>8, Reaches DEF TInv
<1>. QED BY <1>7, <1>9 DEF TInv

\* A message goes from the channel to the queue, or out of the queue.
LEMMA ServedTruly ==
  ASSUME TypeOK, TypeOK', IInv, TInv, UNCHANGED <<pending, held, card, got, undone, env, turn, taken>>,
         session # "none",
         NEW of \in Seq(Message), NEW is \in {"dropped", "withdrawn"}, events' = ToldOf(is, of),
         ToSet(of) \subseteq ToSet(Messages(queue)), Way' \subseteq Way
  PROVE  TInv'
<1>1. ToSet(of) \cap ToSet(got) \subseteq undone /\ ToSet(of) \cap ToSet(taken) = {}
  BY Places DEF TInv, NotYet, Way
<1>2. Fated'
  BY <1>1, FatedToldOf DEF TInv
<1>. QED BY <1>2, TaskSays DEF TInv

LEMMA ServesTruly == ASSUME TypeOK, TypeOK', IInv, TInv, Serves PROVE TInv'
<1>. DEFINE command == Head(commands)
            out == IF command.do \in {"withdraw", "expedite"} THEN {command.msg} ELSE {}
            known == At(queue, {i \in DOMAIN queue : queue[i].msg \in out /\ queue[i].named})
            others == Without(queue, out)
            takes == Takeable(queue)
            m == command.msg
<1>1. /\ turn # <<>> /\ commands # <<>> /\ commands' = Tail(commands)
      /\ UNCHANGED <<pending, held, card, got, undone, env, turn>> /\ session # "none"
  BY Prepared DEF Serves, paneVars, ghosts
<1>2. queue \in Seq(Entry) /\ commands \in Seq(Command) /\ command \in Command
      /\ Asking(commands, hook) /\ (hook # "answered" => taken = <<>>)
  BY <1>1, Prepared, TailAt
<1>3. command.do \in {"withdraw", "expedite"} =>
         m \in Message /\ known = Known(m) /\ others = Others(m)
  BY <1>2, CommandTypes DEF Known, Others
<1>. HIDE DEF known, others
<1>4. command.do # "prompt" => ToSet(AskedOf(commands')) = ToSet(AskedOf(commands))
  BY <1>1, <1>2, AskedPasses
<1>5. ~Closing
  BY <1>1 DEF IInv, Life, Closing
<1>6. CASE /\ command.do = "prompt"
           /\ queue' = Append(queue, [msg |-> command.msg, named |-> command.named])
           /\ UNCHANGED <<events, hookVars>>
  <2>. DEFINE entry == [msg |-> m, named |-> command.named]
  <2>1. m \in Message /\ entry \in Entry /\ entry.msg = m
    BY <1>2, <1>6, CommandTypes DEF Entry
  <2>2. queue' = Append(queue, entry)
    BY <1>6
  <2>. HIDE DEF entry
  <2>3. ToSet(Messages(queue')) \subseteq ToSet(Messages(queue)) \cup {m}
    <3>1. /\ Append(queue, entry) \in Seq(Entry) /\ Len(Append(queue, entry)) = Len(queue) + 1
          /\ \A i \in 1..Len(queue) : Append(queue, entry)[i] = queue[i]
          /\ Append(queue, entry)[Len(queue) + 1] = entry /\ Len(queue) \in Nat
      BY <1>2, <2>1, AppendAt
    <3>2. /\ Messages(queue) \in Seq(Message) /\ Messages(queue') \in Seq(Message)
          /\ Len(Messages(queue)) = Len(queue) /\ Len(Messages(queue')) = Len(queue')
          /\ \A i \in 1..Len(queue) : Messages(queue)[i] = queue[i].msg
          /\ \A i \in 1..Len(queue') : Messages(queue')[i] = queue'[i].msg
      BY <1>2, <2>2, <3>1, EntriesFacts, MessagesFacts DEF Entry
    <3>3. ASSUME NEW x \in ToSet(Messages(queue')), x # m PROVE x \in ToSet(Messages(queue))
      <4>1. PICK i \in 1..Len(queue') : Messages(queue')[i] = x
        BY <3>2, ToSetIs
      <4>2. i \in 1..Len(queue) /\ queue'[i] = queue[i]
        BY <2>1, <2>2, <3>1, <3>2, <3>3, <4>1
      <4>. QED BY <3>2, <4>1, <4>2, ToSetIs
    <3>. QED BY <3>3
  <2>4. ToSet(AskedOf(commands)) = {m} \cup ToSet(AskedOf(commands'))
    BY <1>1, <1>2, <1>6, AskedPasses
  <2>5. Way' \subseteq Way /\ taken' = taken /\ events' = events
    BY <1>1, <1>6, <2>3, <2>4 DEF Way, hookVars
  <2>6. Fated'
    BY <1>1, <1>5, <2>5, FatedGoes DEF TInv
  <2>. QED BY <1>1, <2>5, <2>6, TaskSays DEF TInv
<1>7. CASE /\ command.do = "cancelAll"
           /\ queue' = <<>>
           /\ events' = ToldOf("dropped", Messages(queue))
           /\ UNCHANGED hookVars
  <2>1. Messages(queue) \in Seq(Message) /\ taken' = taken /\ Way' \subseteq Way
    BY <1>1, <1>2, <1>4, <1>7, EntriesFacts, NothingIn DEF Way, hookVars
  <2>. QED BY <1>1, <1>7, <2>1, ServedTruly
<1>8. CASE /\ command.do = "withdraw" /\ known # <<>>
           /\ queue' = others
           /\ events' = ToldOf("withdrawn", Messages(known))
           /\ UNCHANGED hookVars
  <2>1. m \in Message /\ Known(m) # <<>> /\ queue' = Others(m) /\ events' = ToldOf("withdrawn", Messages(Known(m)))
    BY <1>3, <1>8
  <2>2. /\ Messages(Known(m)) \in Seq(Message)
        /\ ToSet(Messages(Others(m))) = ToSet(Messages(queue)) \ {m}
        /\ ToSet(Messages(Known(m))) = {m} /\ m \in ToSet(Messages(queue))
    BY <1>1, <2>1, KnownFacts
  <2>3. taken' = taken /\ Way' \subseteq Way
    BY <1>1, <1>4, <1>8, <2>1, <2>2 DEF Way, hookVars
  <2>4. ToSet(Messages(Known(m))) \subseteq ToSet(Messages(queue))
    BY <2>2
  <2>. QED BY <1>1, <2>1, <2>2, <2>3, <2>4, ServedTruly
<1>9. CASE /\ command.do = "expedite" /\ known # <<>>
           /\ queue' = known
           /\ events' = ToldOf("withdrawn", Messages(At(others, {i \in DOMAIN others : others[i].named})))
           /\ UNCHANGED hookVars
  <2>1. m \in Message /\ Known(m) # <<>> /\ queue' = Known(m) /\ command.do = "expedite"
    BY <1>3, <1>9
  <2>2. NamedOf(Others(m)) = Others(m)
    BY <1>1, <2>1, ExpeditedFacts
  <2>3. events' = ToldOf("withdrawn", Messages(Others(m)))
    <3>1. events' = ToldOf("withdrawn", Messages(NamedOf(others))) /\ others = Others(m)
      BY <1>3, <1>9 DEF NamedOf
    <3>. QED BY <2>2, <3>1
  <2>4. /\ Messages(Others(m)) \in Seq(Message)
        /\ ToSet(Messages(Others(m))) = ToSet(Messages(queue)) \ {m}
        /\ ToSet(Messages(Known(m))) = {m} /\ m \in ToSet(Messages(queue))
    BY <1>1, <2>1, KnownFacts
  <2>5. taken' = taken /\ Way' \subseteq Way
    BY <1>1, <1>4, <1>9, <2>1, <2>4 DEF Way, hookVars
  <2>6. ToSet(Messages(Others(m))) \subseteq ToSet(Messages(queue))
    BY <2>4
  <2>. QED BY <1>1, <2>3, <2>4, <2>5, <2>6, ServedTruly
<1>10. CASE /\ command.do \in {"withdraw", "expedite"} /\ known = <<>>
            /\ UNCHANGED <<queue, events, hookVars>>
  <2>1. taken' = taken /\ events' = events /\ Way' \subseteq Way
    BY <1>1, <1>4, <1>10 DEF Way, hookVars
  <2>2. Fated'
    BY <1>1, <1>5, <2>1, FatedGoes DEF TInv
  <2>. QED BY <1>1, <2>1, <2>2, TaskSays DEF TInv
<1>11. CASE /\ command.do = "take"
            /\ queue' = SubSeq(queue, Len(takes) + 1, Len(queue))
            /\ events' = ToldOf("taken", takes)
            /\ hook' = "answered" /\ taken' = takes /\ UNCHANGED reading
  <2>. DEFINE n == Len(takes)
  <2>1. taken = <<>> /\ ToSet(taken) = {}
    <3>1. hook = "asked"
      BY <1>1, <1>2, <1>11, TailAt DEF Asking
    <3>. QED BY <1>2, <3>1, NothingIn
  <2>2. takes \in Seq(Message) /\ n \in 0..Len(queue) /\ takes = Messages(SubSeq(queue, 1, n))
    <3>. DEFINE places == {i \in DOMAIN queue : queue[i].named /\ queue[i].msg \notin Attached}
    <3>1. places \subseteq DOMAIN queue
      OBVIOUS
    <3>2. takes = Messages(SubSeq(queue, 1, Leading(places)))
      BY DEF Takeable
    <3>. HIDE DEF places
    <3>3. Len(Messages(SubSeq(queue, 1, Leading(places)))) = Leading(places)
      BY <1>2, <3>1, FrontType
    <3>4. Takeable(queue) \in Seq(Message) /\ Len(Takeable(queue)) \in 0..Len(queue)
      BY <1>2, TakeableType
    <3>. QED BY <3>2, <3>3, <3>4
  <2>. HIDE DEF takes
  <2>3. /\ Messages(queue) = takes \o Messages(queue') /\ queue' \in Seq(Entry)
    BY <1>2, <1>11, <2>2, SplitMessages, SplitAt
  <2>4. Messages(queue') \in Seq(Message)
    BY <2>3, EntriesFacts
  <2>5. ToSet(Messages(queue)) = ToSet(takes) \cup ToSet(Messages(queue'))
    BY <2>2, <2>3, <2>4, ToSetConcat
  <2>6. ToSet(taken') \subseteq ToSet(NowOf(turn, queue, commands).ms) /\ taken' = takes
    BY <1>11, <2>5, WayFacts
  <2>7. Fated'
    BY <1>1, <1>11, <2>1, <2>2, <2>6, FatedToldOf DEF TInv
  <2>8. Way' \subseteq Way /\ ToSet(taken) \subseteq ToSet(taken')
    BY <1>1, <1>4, <1>11, <2>1, <2>5, <2>6 DEF Way
  <2>. QED BY <1>1, <2>7, <2>8, TaskSays DEF TInv
<1>. QED BY <1>6, <1>7, <1>8, <1>9, <1>10, <1>11 DEF Serves, known, others

-----------------------------------------------------------------------------
(* The pane: what a person orders, and the stop hook's asking.              *)

\* Some of what is held is let go of, and the cards say so.
LEMMA PaneTruly ==
  ASSUME TypeOK, TypeOK', IInv, TInv,
         UNCHANGED <<pending, env, events, turn, queue, taken, got, undone>>,
         ToSet(AskedOf(commands')) = ToSet(AskedOf(commands)), ToSet(held') \subseteq ToSet(held),
         \A m \in Message : \/ card'[m] = "NotSent" /\ m \in ToSet(held) /\ m \notin ToSet(held')
                            \/ card'[m] = card[m] /\ (m \in ToSet(held) => m \in ToSet(held'))
  PROVE  TInv'
<1>1. Way' \subseteq Way
  BY DEF Way
<1>2. Fated'
  BY FatedGoes DEF TInv
<1>3. ASSUME NEW m \in Message PROVE Newly(m) \/ AsBefore(m)
  <2>1. CASE card'[m] = "NotSent" /\ m \in ToSet(held) /\ m \notin ToSet(held')
    <3>1. /\ m \notin ToSet(Messages(queue)) /\ m \notin ToSet(AskedOf(commands)) /\ m \notin ToSet(taken)
      BY <2>1, Places
    <3>2. m \notin Way' /\ m \in Way
      BY <2>1, <3>1 DEF Way
    <3>3. m \notin undone' => m \notin ToSet(got')
      BY <3>2 DEF TInv, NotYet
    <3>4. "NotSent" # None /\ "NotSent" \notin Waiting
      BY ChatAssumption DEF Waiting, Settled
    <3>. QED BY <2>1, <3>2, <3>3, <3>4 DEF Newly
  <2>2. CASE card'[m] = card[m] /\ (m \in ToSet(held) => m \in ToSet(held'))
    <3>1. m \in WaitedOn => m \in WaitedOn'
      BY <2>2 DEF WaitedOn
    <3>. QED BY <1>1, <2>2, <3>1 DEF AsBefore
  <2>. QED BY <2>1, <2>2
<1>4. \A m \in Message : m \in Way' => m \in Way \/ m \notin ToSet(got) \/ m \in undone'
  BY <1>1
<1>5. NotYet' /\ Sent' /\ SaidTruly'
  BY <1>3, <1>4, SaysSo DEF TInv
<1>. QED BY <1>2, <1>5 DEF TInv

LEMMA CardsAre == \A ms, says : \A m \in Message : Cards(ms, says)[m] = IF m \in ms THEN says ELSE card[m]
BY DEF Cards

LEMMA CommandAsks ==
  ASSUME TypeOK, NEW c \in Command, c.do # "prompt", commands' = commands \/ commands' = Append(commands, c)
  PROVE  ToSet(AskedOf(commands')) = ToSet(AskedOf(commands))
<1>1. commands \in Seq(Command)
  BY DEF TypeOK
<1>2. AskedOf(Append(commands, c)) = AskedOf(commands)
  BY <1>1, AskedOther
<1>. QED BY <1>2

LEMMA StopsAllTruly == ASSUME TypeOK, TypeOK', IInv, TInv, StopsAll PROVE TInv'
<1>. DEFINE c == [do |-> "cancelAll"]
<1>1. c \in Command /\ c.do # "prompt"
  BY DEF Command
<1>2. /\ held' = <<>> /\ card' = Cards(ToSet(held), "NotSent")
      /\ commands' = commands \/ commands' = Append(commands, c)
      /\ UNCHANGED <<pending, env, events, turn, queue, taken, got, undone>>
  BY DEF StopsAll, taskVars, hookVars, ghosts
<1>. HIDE DEF c
<1>3. ToSet(AskedOf(commands')) = ToSet(AskedOf(commands))
  BY <1>1, <1>2, CommandAsks
<1>4. ToSet(held') = {}
  BY <1>2, NothingIn
<1>. QED BY <1>2, <1>3, <1>4, CardsAre, PaneTruly

LEMMA OrderAsks ==
  ASSUME TypeOK, NEW do \in {"withdraw", "expedite"}, NEW m \in Message, Commands(do, m)
  PROVE  ToSet(AskedOf(commands')) = ToSet(AskedOf(commands))
<1>. DEFINE c == [do |-> do, msg |-> m]
<1>1. c \in Command /\ c.do # "prompt"
  BY DEF Command
<1>2. commands' = commands \/ commands' = Append(commands, c)
  BY DEF Commands
<1>. HIDE DEF c
<1>. QED BY <1>1, <1>2, CommandAsks

LEMMA WithdrawsTruly == ASSUME TypeOK, TypeOK', IInv, TInv, NEW m \in Message, Withdraws(m) PROVE TInv'
<1>1. UNCHANGED <<pending, env, events, turn, queue, taken, got, undone>>
  BY DEF Withdraws, taskVars, hookVars, ghosts
<1>2. held \in Seq(Message)
  BY DEF TypeOK
<1>3. CASE Contains(held, m)
  <2>1. held' = Less(held, m) /\ card' = Cards({m}, "NotSent") /\ commands' = commands /\ m \in ToSet(held)
    BY <1>2, <1>3, ContainsIs DEF Withdraws
  <2>2. ToSet(held') = ToSet(held) \ {m}
    BY <1>2, <2>1, LessFacts
  <2>. QED BY <1>1, <2>1, <2>2, CardsAre, PaneTruly
<1>4. CASE ~Contains(held, m)
  <2>1. Commands("withdraw", m) /\ UNCHANGED <<held, card>>
    BY <1>4 DEF Withdraws
  <2>2. ToSet(AskedOf(commands')) = ToSet(AskedOf(commands))
    BY <2>1, OrderAsks
  <2>. QED BY <1>1, <2>1, <2>2, PaneTruly
<1>. QED BY <1>3, <1>4

LEMMA ExpeditesTruly == ASSUME TypeOK, TypeOK', IInv, TInv, NEW m \in Message, Expedites(m) PROVE TInv'
<1>1. UNCHANGED <<pending, env, events, turn, queue, taken, got, undone>>
  BY DEF Expedites, taskVars, hookVars
<1>2. held \in Seq(Message)
  BY DEF TypeOK
<1>3. CASE Contains(held, m)
  <2>1. held' = <<m>> /\ card' = Cards(ToSet(held) \ {m}, "NotSent") /\ commands' = commands /\ m \in ToSet(held)
    BY <1>2, <1>3, ContainsIs DEF Expedites
  <2>2. ToSet(held') = {m}
    BY <2>1, OneOnly
  <2>. QED BY <1>1, <2>1, <2>2, CardsAre, PaneTruly
<1>4. CASE ~Contains(held, m)
  <2>1. Commands("expedite", m) /\ UNCHANGED <<held, card>>
    BY <1>4 DEF Expedites
  <2>2. ToSet(AskedOf(commands')) = ToSet(AskedOf(commands))
    BY <2>1, OrderAsks
  <2>. QED BY <1>1, <2>1, <2>2, PaneTruly
<1>. QED BY <1>3, <1>4

LEMMA GoesFirstTruly == ASSUME TypeOK, TypeOK', IInv, TInv, NEW m \in Message, GoesFirst(m) PROVE TInv'
<1>1. UNCHANGED <<pending, card, env, commands, events, turn, queue, taken, got, undone>>
      /\ held' = <<m>> \o Less(held, m)
  BY DEF GoesFirst, taskVars, hookVars
<1>2. held \in Seq(Message) /\ m \in ToSet(held)
  BY ContainsIs DEF TypeOK, GoesFirst
<1>3. ToSet(held') = ToSet(held)
  <2>. DEFINE one == <<m>>
  <2>1. one \in Seq(Message) /\ ToSet(one) = {m} /\ held' = one \o Less(held, m)
    BY <1>1, OneOnly
  <2>. HIDE DEF one
  <2>2. Less(held, m) \in Seq(Message) /\ ToSet(Less(held, m)) = ToSet(held) \ {m}
    BY <1>2, LessFacts
  <2>3. ToSet(one \o Less(held, m)) = ToSet(one) \cup ToSet(Less(held, m))
    BY <2>1, <2>2, ToSetConcat
  <2>. QED BY <1>2, <2>1, <2>2, <2>3
<1>. QED BY <1>1, <1>3, PaneTruly

LEMMA AsksTruly == ASSUME TypeOK, TypeOK', IInv, TInv, Asks PROVE TInv'
<1>. DEFINE c == [do |-> "take"]
<1>1. /\ UNCHANGED <<pending, held, card, env, events, turn, queue, taken, got, undone>>
      /\ commands' = Append(commands, c)
  BY DEF Asks, paneVars, taskVars, ghosts
<1>2. c \in Command /\ c.do # "prompt"
  BY DEF Command
<1>. HIDE DEF c
<1>3. ToSet(AskedOf(commands')) = ToSet(AskedOf(commands))
  BY <1>1, <1>2, CommandAsks
<1>. QED BY <1>1, <1>3, PaneTruly

LEMMA ReconnectsTruly == ASSUME TypeOK, TypeOK', IInv, TInv, Reconnects PROVE TInv'
<1>1. UNCHANGED <<pending, held, card, env, commands, events, turn, queue, taken, got, undone>>
  BY DEF Reconnects, hookVars, ghosts
<1>. QED BY <1>1, PaneTruly

LEMMA ReadsTruly == ASSUME TypeOK, TypeOK', IInv, TInv, Reads PROVE TInv'
<1>1. /\ UNCHANGED <<pending, held, card, env, commands, events, turn, queue, undone>>
      /\ taken' = <<>> /\ got' = got \o taken
  BY DEF Reads, paneVars, taskVars
<1>2. taken \in Seq(Message) /\ got \in Seq(Message) /\ Once(taken)
  BY Places DEF TypeOK
<1>3. ToSet(got') = ToSet(got) \cup ToSet(taken) /\ ToSet(taken') = {}
  BY <1>1, <1>2, ToSetConcat, NothingIn
<1>4. Fated'
  BY <1>1, <1>3, FatedGoes DEF TInv
<1>5. ToSet(taken) \subseteq Way /\ ToSet(taken) \cap Way' = {} /\ Way' \subseteq Way
  BY <1>1, <1>3, Places DEF Way
<1>6. NotYet' /\ Sent' /\ SaidTruly'
  BY <1>1, <1>2, <1>5, Reaches DEF TInv
<1>. QED BY <1>4, <1>6 DEF TInv

-----------------------------------------------------------------------------
(* Messages are handed to the task, or held.                                *)

\* Nothing is heard but that the agent is ready, or nothing but that the environment is up.
Calm == HearsLittle /\ UNCHANGED <<got, undone>> /\ (env' = env \/ (events' = events /\ env' = "up"))

LEMMA CalmFated ==
  ASSUME TypeOK, TypeOK', IInv, Fated, Calm, UNCHANGED <<pending, taken>>
  PROVE  Fated'
<1>1. CASE events' = events
  <2>1. env' = "moving" => env = "moving"
    BY <1>1 DEF Calm
  <2>. QED BY <1>1, <2>1, FatedGoes DEF Calm
<1>2. CASE Hears("ready") /\ ~(events' = events)
  <2>1. PICK v : Shows(pending, v) /\ Proper(v)
    BY <1>2, HearsView
  <2>2. events # <<>> /\ events' = Tail(events) /\ Head(events).is = "ready"
    BY <1>2 DEF Hears
  <2>3. After(v, Head(events)) = v
    BY <2>2 DEF After
  <2>4. UNCHANGED <<got, undone, taken, env>> /\ Shows(pending', After(v, Head(events)))
    BY <1>2, <2>1, <2>3 DEF Calm
  <2>. QED BY <2>1, <2>2, <2>4, FatedHeard
<1>. QED BY <1>1, <1>2 DEF Calm, HearsLittle

LEMMA LittleIsHeard ==
  ASSUME TypeOK, TypeOK', HearsLittle
  PROVE  \A i \in 1..Len(events') : \E j \in 1..Len(events) : events'[i] = events[j]
<1>1. CASE events' = events
  BY <1>1
<1>2. CASE Hears("ready")
  <2>1. events # <<>> /\ events' = Tail(events) /\ events \in Seq(Event)
    BY <1>2 DEF Hears, TypeOK
  <2>2. \A i \in 1..Len(Tail(events)) : Tail(events)[i] = events[i + 1] /\ i + 1 \in 1..Len(events)
    BY <2>1, TailAt
  <2>. QED BY <2>1, <2>2
<1>. QED BY <1>1, <1>2 DEF HearsLittle

LEMMA NothingClosed ==
  ASSUME TypeOK, TypeOK', IInv, HearsLittle, ~client \/ session # "none"
  PROVE  \A i \in 1..Len(events') : events'[i].is # "closed"
<1>1. \A i \in 1..Len(events) : events[i].is # "closed"
  <2>1. CASE ~client
    <3>1. Len(events) = 0
      BY <2>1 DEF IInv, Life
    <3>. QED BY <3>1
  <2>2. CASE client /\ session # "none"
    BY <2>2 DEF IInv, Life, Closing
  <2>. QED BY <2>1, <2>2
<1>. QED BY <1>1, LittleIsHeard

\* The messages were held, all of them or none, or are new.
Parted(ms) ==
    /\ ms \in Seq(Message) /\ Once(ms)
    /\ \A m \in ToSet(ms) : card[m] = None \/ m \in ToSet(held)
    /\ \/ held' = <<>> /\ ToSet(held) \subseteq ToSet(ms)
       \/ held' = held /\ ToSet(ms) \cap ToSet(held) = {}

LEMMA PartedFacts ==
  ASSUME TypeOK, IInv, TInv, NEW ms, Parted(ms)
  PROVE  /\ ToSet(ms) \cap ToSet(Messages(pending)) = {} /\ ToSet(ms) \cap ToSet(taken) = {}
         /\ ToSet(ms) \cap ToSet(held') = {} /\ ToSet(held') \subseteq ToSet(held)
         /\ ToSet(held) \subseteq ToSet(held') \cup ToSet(ms)
         /\ ToSet(ms) \cap ToSet(got) \subseteq undone
         /\ ToSet(ms) \subseteq Message
<1>1. ToSet(ms) \subseteq Message
  BY ToSetType DEF Parted
<1>2. ASSUME NEW m \in ToSet(ms)
      PROVE  m \notin ToSet(Messages(pending)) /\ m \notin ToSet(taken) /\ (m \in ToSet(got) => m \in undone)
  <2>1. CASE card[m] = None
    BY <2>1, SentIsApart DEF TInv, Sent
  <2>2. CASE m \in ToSet(held)
    BY <2>2, Places DEF TInv, NotYet, Way
  <2>. QED BY <2>1, <2>2 DEF Parted
<1>3. ToSet(<<>>) = {}
  BY NothingIn
<1>. QED BY <1>1, <1>2, <1>3 DEF Parted

\* What is handed to a task is waited on, and on its way.
LEMMA SentTruly ==
  ASSUME TypeOK, TypeOK', IInv, TInv, Calm, NEW ms, ms # <<>>, Parted(ms),
         NEW named \in BOOLEAN, Activated # "none", UNCHANGED <<turn, queue, taken>>,
         pending' = pending \o RowsOf(ms, named), commands' = commands \o PromptsOf(ms, named),
         \A m \in Message : IF m \in ToSet(ms) THEN card'[m] \in {"Queued", "Sent"} ELSE card'[m] = card[m],
         \A i \in 1..Len(events') : events'[i].is \notin {"dropped", "failed"}
  PROVE  TInv'
<1>1. /\ ms \in Seq(Message) /\ Once(ms) /\ commands \in Seq(Command) /\ pending \in Seq(Row)
      /\ UNCHANGED <<got, undone>> /\ HearsLittle
  BY DEF Parted, TypeOK, Calm
<1>2. /\ ToSet(ms) \cap ToSet(Messages(pending)) = {} /\ ToSet(ms) \cap ToSet(taken) = {}
      /\ ToSet(ms) \cap ToSet(held') = {} /\ ToSet(held') \subseteq ToSet(held)
      /\ ToSet(held) \subseteq ToSet(held') \cup ToSet(ms)
      /\ ToSet(ms) \cap ToSet(got) \subseteq undone
      /\ ToSet(ms) \subseteq Message
  BY PartedFacts
<1>3. \A i \in 1..Len(events') : events'[i].is \notin {"dropped", "failed", "closed"}
  <2>1. ~client \/ session # "none"
    BY DEF Activated
  <2>. QED BY <1>1, <2>1, NothingClosed
<1>4. Fated'
  BY <1>1, <1>2, <1>3, FatedSent DEF TInv
<1>5. /\ ToSet(Messages(pending')) = ToSet(Messages(pending)) \cup ToSet(ms)
      /\ ToSet(AskedOf(commands')) = ToSet(AskedOf(commands)) \cup ToSet(ms)
  <2>1. PromptsOf(ms, named) \in Seq(Command) /\ AskedOf(PromptsOf(ms, named)) = ms
    BY <1>1, RowsOfFacts, AskedAll
  <2>2. Messages(pending') = Messages(pending) \o ms /\ Messages(pending) \in Seq(Message)
    BY <1>1, RowsSent, RowsFacts
  <2>3. AskedOf(commands') = AskedOf(commands) \o ms /\ AskedOf(commands) \in Seq(Message)
    BY <1>1, <2>1, AskedConcat, PromptsFacts
  <2>. QED BY <1>1, <2>2, <2>3, ToSetConcat
<1>6. Way' \subseteq Way \cup ToSet(ms)
  BY <1>2, <1>5 DEF Way
<1>7. ASSUME NEW m \in Message PROVE Newly(m) \/ AsBefore(m)
  <2>1. CASE m \in ToSet(ms)
    <3>1. card'[m] \in {"Queued", "Sent"}
      BY <2>1
    <3>2. m \in WaitedOn'
      BY <1>5, <2>1 DEF WaitedOn
    <3>3. card'[m] # None /\ card'[m] \notin {"NotSent", "Taken", "WithinTurn"}
      BY <3>1, ChatAssumption DEF Waiting
    <3>. QED BY <3>2, <3>3 DEF Newly
  <2>2. CASE m \notin ToSet(ms)
    <3>1. card'[m] = card[m]
      BY <2>2
    <3>2. m \in WaitedOn => m \in WaitedOn'
      BY <1>2, <1>5, <2>2 DEF WaitedOn
    <3>. QED BY <1>6, <2>2, <3>1, <3>2 DEF AsBefore
  <2>. QED BY <2>1, <2>2
<1>8. \A m \in Message : m \in Way' => m \in Way \/ m \notin ToSet(got) \/ m \in undone'
  BY <1>1, <1>2, <1>6
<1>9. NotYet' /\ Sent' /\ SaidTruly'
  BY <1>1, <1>7, <1>8, SaysSo DEF TInv
<1>. QED BY <1>4, <1>9 DEF TInv

LEMMA HandsOverTruly ==
  ASSUME TypeOK, TypeOK', IInv, TInv, Calm, NEW ms, ms # <<>>, Parted(ms),
         NEW named \in BOOLEAN, HandsOver(ms, named), UNCHANGED <<turn, queue, taken>>,
         commands' # commands => \A i \in 1..Len(events') : events'[i].is \notin {"dropped", "failed"}
  PROVE  TInv'
<1>1. /\ ms \in Seq(Message) /\ Once(ms) /\ commands \in Seq(Command) /\ pending \in Seq(Row)
      /\ UNCHANGED <<got, undone>> /\ HearsLittle
      /\ card \in [Message -> Said]
  BY CardIsSaid DEF Parted, TypeOK, Calm
<1>2. /\ ToSet(ms) \cap ToSet(Messages(pending)) = {} /\ ToSet(ms) \cap ToSet(taken) = {}
      /\ ToSet(ms) \cap ToSet(held') = {} /\ ToSet(held') \subseteq ToSet(held)
      /\ ToSet(held) \subseteq ToSet(held') \cup ToSet(ms)
      /\ ToSet(ms) \cap ToSet(got) \subseteq undone
      /\ ToSet(ms) \subseteq Message
  BY PartedFacts
<1>3. CASE /\ Activated = "none"
           /\ card' = Cards(ToSet(ms), "NotSent")
           /\ UNCHANGED <<pending, stop, commands>>
  <2>1. Fated'
    BY <1>3, CalmFated DEF TInv
  <2>2. Way' \subseteq Way /\ ToSet(ms) \cap Way' = {}
    BY <1>2, <1>3, Places DEF Way
  <2>3. ASSUME NEW m \in Message PROVE Newly(m) \/ AsBefore(m)
    <3>1. CASE m \in ToSet(ms)
      <4>1. card'[m] = "NotSent"
        BY <1>3, <3>1, CardsAre
      <4>2. "NotSent" # None /\ "NotSent" \notin Waiting
        BY ChatAssumption DEF Waiting, Settled
      <4>. QED BY <1>1, <1>2, <2>2, <3>1, <4>1, <4>2 DEF Newly
    <3>2. CASE m \notin ToSet(ms)
      <4>1. card'[m] = card[m]
        BY <1>3, <3>2, CardsAre
      <4>2. m \in WaitedOn => m \in WaitedOn'
        BY <1>2, <1>3, <3>2 DEF WaitedOn
      <4>. QED BY <2>2, <4>1, <4>2 DEF AsBefore
    <3>. QED BY <3>1, <3>2
  <2>4. NotYet' /\ Sent' /\ SaidTruly'
    BY <1>1, <2>2, <2>3, SaysSo DEF TInv
  <2>. QED BY <2>1, <2>4 DEF TInv
<1>4. CASE /\ Activated # "none"
           /\ card' = [Cards(ToSet(ms), "Queued") EXCEPT
                        ![Head(ms)] = IF stop THEN "Queued" ELSE "Sent"]
           /\ pending' = pending \o RowsOf(ms, named)
           /\ commands' = commands \o PromptsOf(ms, named)
  <2>1. /\ PromptsOf(ms, named) \in Seq(Command) /\ Len(PromptsOf(ms, named)) = Len(ms)
        /\ AskedOf(PromptsOf(ms, named)) = ms
    BY <1>1, RowsOfFacts, AskedAll
  <2>2. commands' # commands
    <3>1. Len(commands') = Len(commands) + Len(ms) /\ Len(commands) \in Nat /\ Len(ms) \in Nat
      <4>1. Len(commands \o PromptsOf(ms, named)) = Len(commands) + Len(PromptsOf(ms, named)) /\ Len(commands) \in Nat
        BY <1>1, <2>1, ConcatFacts
      <4>2. Len(ms) \in Nat
        BY <1>1
      <4>. QED BY <1>4, <2>1, <4>1, <4>2
    <3>2. Len(ms) # 0
      BY <1>1
    <3>3. commands' = commands => Len(commands') = Len(commands)
      OBVIOUS
    <3>. QED BY <3>1, <3>2, <3>3, SMTT(30)
  <2>3. \A m \in Message : IF m \in ToSet(ms) THEN card'[m] \in {"Queued", "Sent"} ELSE card'[m] = card[m]
    <3>1. /\ \A m \in Message : Cards(ToSet(ms), "Queued")[m] = IF m \in ToSet(ms) THEN "Queued" ELSE card[m]
          /\ DOMAIN Cards(ToSet(ms), "Queued") = Message
      BY DEF Cards
    <3>2. Head(ms) \in ToSet(ms)
      BY <1>1, TailAt, ToSetIs
    <3>. QED BY <1>4, <3>1, <3>2
  <2>. QED BY <1>4, <2>2, <2>3, SentTruly
<1>. QED BY <1>3, <1>4 DEF HandsOver, RowsOf, PromptsOf

LEMMA FlushesTruly ==
  ASSUME TypeOK, TypeOK', IInv, TInv, Calm, NEW ms \in Seq(Message), Once(ms),
         ToSet(held) \subseteq ToSet(ms), \A m \in ToSet(ms) : card[m] = None \/ m \in ToSet(held),
         NEW at, NEW otherwise, Flushes(ms, at, otherwise), UNCHANGED <<turn, queue, taken>>,
         \A m \in Message : otherwise[m] = IF m \in ToSet(ms) /\ m \notin ToSet(held) THEN "Held" ELSE card[m],
         ms # <<>> /\ at = "up" /\ commands' # commands =>
             \A i \in 1..Len(events') : events'[i].is \notin {"dropped", "failed"}
  PROVE  TInv'
<1>1. CASE ms # <<>> /\ at = "up"
  <2>1. HandsOver(ms, TRUE) /\ held' = <<>>
    BY <1>1 DEF Flushes
  <2>2. Parted(ms)
    BY <2>1 DEF Parted
  <2>. QED BY <1>1, <2>1, <2>2, HandsOverTruly
<1>2. CASE ~(ms # <<>> /\ at = "up")
  <2>1. held' = ms /\ card' = otherwise /\ UNCHANGED <<pending, stop, client, session, commands>>
    BY <1>2 DEF Flushes
  <2>2. Fated'
    BY <2>1, CalmFated DEF TInv
  <2>3. Way' = Way \cup ToSet(ms)
    BY <2>1 DEF Way
  <2>4. ToSet(ms) \subseteq Message /\ ToSet(ms) \subseteq WaitedOn' /\ WaitedOn \subseteq WaitedOn'
    BY <2>1, ToSetType DEF WaitedOn
  <2>5. ASSUME NEW m \in Message PROVE Newly(m) \/ AsBefore(m)
    <3>1. CASE m \in ToSet(ms) /\ m \notin ToSet(held)
      <4>1. card'[m] = "Held" /\ "Held" # None
        BY <2>1, <3>1, ChatAssumption DEF Waiting
      <4>. QED BY <2>4, <3>1, <4>1 DEF Newly
    <3>2. CASE ~(m \in ToSet(ms) /\ m \notin ToSet(held))
      <4>1. card'[m] = card[m]
        BY <2>1, <3>2
      <4>2. m \in Way' => m \in Way
        BY <2>3, <3>2 DEF Way
      <4>. QED BY <2>1, <2>4, <4>1, <4>2 DEF AsBefore
    <3>. QED BY <3>1, <3>2
  <2>6. \A m \in Message : m \in Way' => m \in Way \/ m \notin ToSet(got) \/ m \in undone'
    <3>1. \A m \in ToSet(ms) : m \in Way \/ m \notin ToSet(got)
      <4>1. \A m \in ToSet(got) : card[m] # None
        BY DEF TInv, Sent
      <4>. QED BY <4>1 DEF Way
    <3>. QED BY <2>3, <3>1
  <2>7. NotYet' /\ Sent' /\ SaidTruly'
    BY <2>1, <2>5, <2>6, SaysSo DEF TInv, Calm
  <2>. QED BY <2>2, <2>7 DEF TInv
<1>. QED BY <1>1, <1>2

LEMMA SendTruly == ASSUME TypeOK, TypeOK', IInv, TInv, NoSlip, NEW m \in Message, Send(m) PROVE TInv'
<1>1. m \notin ToSet(Messages(pending)) \cup ToSet(held) \cup ToSet(taken) /\ card[m] = None
  BY SentIsApart DEF Send
<1>2. commands' # commands => \A i \in 1..Len(events') : events'[i].is \notin {"dropped", "failed"}
  <2>1. Spends({} \cup Slips(commands' # commands /\ (Dropping \/ Failing)))
    BY DEF Send
  <2>2. ~(commands' # commands /\ (Dropping \/ Failing))
    BY <2>1, SlipsNot
  <2>. QED BY <2>2, Outlook DEF Send
<1>3. Calm /\ UNCHANGED <<turn, queue, taken>>
  BY DEF Send, Calm, HearsLittle, hookVars
<1>4. held \in Seq(Message) /\ Once(held) /\ stop \in BOOLEAN
  BY Places DEF TypeOK
<1>5. CASE HandsOver(<<m>>, stop) /\ UNCHANGED held
  <2>. DEFINE ms == <<m>>
  <2>1. ms \in Seq(Message) /\ ms # <<>> /\ Once(ms) /\ ToSet(ms) = {m} /\ HandsOver(ms, stop)
    BY <1>5, OneOnly
  <2>. HIDE DEF ms
  <2>2. Parted(ms)
    BY <1>1, <1>5, <2>1 DEF Parted
  <2>. QED BY <1>2, <1>3, <1>4, <2>1, <2>2, HandsOverTruly
<1>6. CASE Flushes(Append(held, m), env, Cards({m}, "Held"))
  <2>. DEFINE ms == Append(held, m)
              otherwise == Cards({m}, "Held")
  <2>1. ms \in Seq(Message) /\ Once(ms) /\ ToSet(ms) = ToSet(held) \cup {m}
    BY <1>1, <1>4, AppendedOnce
  <2>2. Flushes(ms, env, otherwise)
    BY <1>6
  <2>3. \A n \in Message : otherwise[n] = IF n \in {m} THEN "Held" ELSE card[n]
    BY CardsAre
  <2>. HIDE DEF ms, otherwise
  <2>4. \A n \in Message : otherwise[n] = IF n \in ToSet(ms) /\ n \notin ToSet(held) THEN "Held" ELSE card[n]
    BY <1>1, <2>1, <2>3
  <2>5. \A n \in ToSet(ms) : card[n] = None \/ n \in ToSet(held)
    BY <1>1, <2>1
  <2>. QED BY <1>2, <1>3, <2>1, <2>2, <2>4, <2>5, FlushesTruly
<1>. QED BY <1>5, <1>6 DEF Send

LEMMA EnvSettlesTruly == ASSUME TypeOK, TypeOK', IInv, TInv, NoSlip, EnvSettles PROVE TInv'
<1>1. Calm /\ UNCHANGED <<turn, queue, taken>>
  BY DEF EnvSettles, Calm, HearsLittle, hookVars, ghosts
<1>2. held \in Seq(Message) /\ Once(held)
  BY Places DEF TypeOK
<1>3. CASE Flushes(held, "up", card)
  <2>1. held # <<>> => \A i \in 1..Len(events') : events'[i].is \notin {"dropped", "failed"}
    <3>1. Spends({} \cup Slips(held # <<>> /\ (Dropping \/ Failing)))
      BY DEF EnvSettles
    <3>2. ~(held # <<>> /\ (Dropping \/ Failing))
      BY <3>1, SlipsNot
    <3>. QED BY <3>2, Outlook DEF EnvSettles
  <2>. QED BY <1>1, <1>2, <1>3, <2>1, FlushesTruly
<1>4. CASE /\ held = <<>> /\ ~client
           /\ client' = TRUE /\ session' = "starting"
           /\ UNCHANGED <<pending, held, card, stop, commands>>
  <2>1. Fated'
    BY <1>1, <1>4, CalmFated DEF TInv
  <2>2. Way' = Way
    BY <1>1, <1>4 DEF Way
  <2>. QED BY <1>1, <1>4, <2>1, <2>2, TaskSays DEF TInv, Calm
<1>. QED BY <1>3, <1>4 DEF EnvSettles

LEMMA HearsReadyTruly == ASSUME TypeOK, TypeOK', IInv, TInv, HearsReady PROVE TInv'
<1>1. Hears("ready") /\ Flushes(held, env, card)
  BY DEF HearsReady
<1>2. Calm /\ UNCHANGED <<turn, queue, taken>>
  BY <1>1 DEF HearsReady, Calm, HearsLittle, hookVars, ghosts
<1>3. held \in Seq(Message) /\ Once(held)
  BY Places DEF TypeOK
<1>4. held # <<>> /\ env = "up" /\ commands' # commands =>
         \A i \in 1..Len(events') : events'[i].is \notin {"dropped", "failed"}
  <2>. SUFFICES ASSUME held # <<>>, env = "up", commands' # commands
                PROVE  \A i \in 1..Len(events') : events'[i].is \notin {"dropped", "failed"}
    OBVIOUS
  <2>1. session # "none"
    <3>1. client
      BY <1>1 DEF IInv, Life, Hears
    <3>2. Activated # "none"
      BY <1>1 DEF Flushes, HandsOver
    <3>. QED BY <3>1, <3>2 DEF Activated
  <2>2. /\ \A i \in 1..Len(events) : events[i].is # "dropped"
        /\ \A i \in 1..Len(events) : events[i].is # "failed"
    BY <2>1 DEF IInv, Drops
  <2>. QED BY <1>2, <2>2, LittleIsHeard DEF Calm
<1>. QED BY <1>1, <1>2, <1>3, <1>4, FlushesTruly

LEMMA ReplacesTruly == ASSUME TypeOK, TypeOK', IInv, TInv, Replaces PROVE TInv'
<1>1. /\ UNCHANGED <<pending, held, card, got, taken>> /\ undone' = undone \cup ToSet(turn) /\ events' = <<>>
      /\ turn' = <<>> /\ commands' = <<>> /\ queue' = <<>>
  BY DEF Replaces
<1>2. Fated'
  BY <1>1, FatedNothing
<1>3. Way' \subseteq Way
  BY <1>1, NothingIn DEF Way
<1>. QED BY <1>1, <1>2, <1>3, TaskSays DEF TInv

LEMMA GivesBackTruly == ASSUME TypeOK, TypeOK', IInv, TInv, NoSlip, GivesBack PROVE TInv'
<1>1. /\ taken \in Seq(Message) /\ commands \in Seq(Command) /\ events \in Seq(Event) /\ pending \in Seq(Row)
      /\ Once(taken) /\ ToSet(held) \cap ToSet(taken) = {}
      /\ (ToSet(turn) \cup ToSet(Messages(queue)) \cup ToSet(AskedOf(commands))) \cap ToSet(taken) = {}
  BY Places DEF TypeOK
<1>2. UNCHANGED <<held, env, events, turn, queue, got, undone>> /\ taken' = <<>> /\ ToSet(taken') = {}
  BY NothingIn DEF GivesBack, taskVars
<1>3. ~Overtakes
  <2>1. \E how : Spends({} \cup Slips(how)) /\ (Overtakes => how)
    <3>1. CASE client /\ session # "none"
      BY <3>1 DEF GivesBack
    <3>2. CASE ~(client /\ session # "none")
      BY <3>2 DEF GivesBack
    <3>. QED BY <3>1, <3>2
  <2>. QED BY <2>1, SlipsNot
<1>4. \A i \in 1..Len(events) : events[i].is # "taken"
  <2>1. DOMAIN events = 1..Len(events)
    BY <1>1
  <2>. QED BY <1>3, <2>1 DEF Overtakes
<1>5. CASE client /\ session # "none"
  <2>1. /\ pending' = pending \o RowsOf(taken, TRUE)
        /\ commands' = commands \o PromptsOf(taken, TRUE)
        /\ card' = Cards(ToSet(taken), "Queued")
        /\ Spends({} \cup Slips(~stop \/ Overtakes \/ Dropping \/ Failing))
    BY <1>5 DEF GivesBack, RowsOf, PromptsOf
  <2>2. \A i \in 1..Len(events) : events[i].is \notin {"dropped", "failed"}
    BY <2>1, SlipsNot, Outlook
  <2>3. \A i \in 1..Len(events) : events[i].is # "closed"
    BY <1>5 DEF IInv, Life, Closing
  <2>4. ToSet(Messages(pending)) \cap ToSet(taken) = {}
    <3>1. Replays(pending, events, ToSet(taken), NowOf(turn, queue, commands), session)
      BY DEF IInv, Matched
    <3>. QED BY <1>1, <1>4, <3>1, ReplaysFacts
  <2>5. Fated'
    <3>1. HearsLittle /\ \A i \in 1..Len(events') : events'[i].is \notin {"dropped", "failed", "closed"}
      BY <1>2, <2>2, <2>3 DEF HearsLittle
    <3>. QED BY <1>1, <1>2, <1>4, <2>1, <2>4, <3>1, FatedSent DEF TInv
  <2>6. /\ ToSet(Messages(pending')) = ToSet(Messages(pending)) \cup ToSet(taken)
        /\ ToSet(AskedOf(commands')) = ToSet(AskedOf(commands)) \cup ToSet(taken)
    <3>1. Messages(pending') = Messages(pending) \o taken /\ Messages(pending) \in Seq(Message)
      BY <1>1, <2>1, RowsSent, RowsFacts
    <3>2. AskedOf(commands') = AskedOf(commands) \o taken /\ AskedOf(commands) \in Seq(Message)
      <4>1. PromptsOf(taken, TRUE) \in Seq(Command) /\ AskedOf(PromptsOf(taken, TRUE)) = taken
        BY <1>1, RowsOfFacts, AskedAll
      <4>. QED BY <1>1, <2>1, <4>1, AskedConcat, PromptsFacts
    <3>. QED BY <1>1, <3>1, <3>2, ToSetConcat
  <2>7. Way' \subseteq Way
    BY <1>2, <2>6 DEF Way
  <2>8. ASSUME NEW m \in Message PROVE Newly(m) \/ AsBefore(m)
    <3>1. m \in WaitedOn \cup ToSet(taken) => m \in WaitedOn'
      BY <1>2, <2>6 DEF WaitedOn
    <3>2. card'[m] = IF m \in ToSet(taken) THEN "Queued" ELSE card[m]
      BY <2>1, CardsAre
    <3>3. "Queued" # None
      BY ChatAssumption DEF Waiting
    <3>4. CASE m \in ToSet(taken)
      BY <3>1, <3>2, <3>3, <3>4 DEF Newly
    <3>5. CASE m \notin ToSet(taken)
      BY <2>7, <3>1, <3>2, <3>5 DEF AsBefore
    <3>. QED BY <3>4, <3>5
  <2>9. \A m \in Message : m \in Way' => m \in Way \/ m \notin ToSet(got) \/ m \in undone'
    BY <2>7
  <2>10. NotYet' /\ Sent' /\ SaidTruly'
    BY <1>2, <2>8, <2>9, SaysSo DEF TInv
  <2>. QED BY <2>5, <2>10 DEF TInv
<1>6. CASE ~(client /\ session # "none")
  <2>1. card' = Cards(ToSet(taken), "NotSent") /\ UNCHANGED <<pending, commands>>
    BY <1>6 DEF GivesBack
  <2>2. Fated'
    BY <1>2, <1>4, <2>1, FatedGoes DEF TInv
  <2>3. Way' \subseteq Way /\ ToSet(taken) \cap Way' = {}
    BY <1>1, <1>2, <2>1 DEF Way
  <2>4. ASSUME NEW m \in Message PROVE Newly(m) \/ AsBefore(m)
    <3>1. m \in WaitedOn => m \in WaitedOn'
      BY <1>2, <2>1 DEF WaitedOn
    <3>2. card'[m] = IF m \in ToSet(taken) THEN "NotSent" ELSE card[m]
      BY <2>1, CardsAre
    <3>3. "NotSent" # None /\ "NotSent" \notin Waiting
      BY ChatAssumption DEF Waiting, Settled
    <3>4. CASE m \in ToSet(taken)
      <4>1. m \in ToSet(got) => m \in undone
        BY <3>4 DEF TInv, NotYet, Way
      <4>. QED BY <1>2, <2>3, <3>2, <3>3, <3>4, <4>1 DEF Newly
    <3>5. CASE m \notin ToSet(taken)
      BY <2>3, <3>1, <3>2, <3>5 DEF AsBefore
    <3>. QED BY <3>4, <3>5
  <2>5. \A m \in Message : m \in Way' => m \in Way \/ m \notin ToSet(got) \/ m \in undone'
    BY <2>3
  <2>6. NotYet' /\ Sent' /\ SaidTruly'
    BY <1>2, <2>4, <2>5, SaysSo DEF TInv
  <2>. QED BY <2>2, <2>6 DEF TInv
<1>. QED BY <1>5, <1>6

-----------------------------------------------------------------------------
(* The pane: hearing.                                                       *)

\* The fate of what is heard.
LEMMA HearingFate ==
  ASSUME TypeOK, IInv, Fated, events # <<>>, NEW v, NEW e, Hearing(v, e)
  PROVE  /\ Fate(v, e, ToSet(got), undone, ToSet(taken), env = "moving")
         /\ v.ms = Messages(pending) /\ v.ms \in Seq(Message) /\ v \in View
<1>1. events \in Seq(Event) /\ pending \in Seq(Row) /\ e = events[1] /\ 1 \in 1..Len(events)
  BY TailAt DEF TypeOK, Hearing
<1>2. PICK h : /\ Plays(h, events) /\ Shows(pending, h[1])
               /\ Fates(h, events, ToSet(got), undone, ToSet(taken), env = "moving")
  BY PlayIs
<1>3. h[1] = v
  <2>1. 1 \in 1..(Len(events) + 1)
    BY <1>1
  <2>. QED BY <1>1, <1>2, <2>1, PlaysTypes, SameView DEF Hearing
<1>. QED BY <1>1, <1>2, <1>3 DEF Fates, Hearing, Shows, Proper, View

\* What is on its way is waited on still, but for what is held or taken.
LEMMA HearingWay ==
  ASSUME TypeOK, TypeOK', IInv, NEW v, NEW e, Hearing(v, e), Shows(pending', After(v, e)),
         UNCHANGED <<held, commands, queue, taken>>
  PROVE  Way' = Way /\ Way' \subseteq ToSet(After(v, e).ms) \cup ToSet(held) \cup ToSet(taken)
<1>1. pending' \in Seq(Row) /\ events' \in Seq(Event)
  BY DEF TypeOK
<1>2. Replays(pending', events', ToSet(taken), NowOf(turn, queue, commands), session)
  BY <1>1, HearingShows
<1>3. ToSet(NowOf(turn, queue, commands).ms) \subseteq ToSet(Messages(pending'))
  BY <1>1, <1>2, ReplaysFacts
<1>4. Messages(pending') = After(v, e).ms
  BY DEF Shows
<1>5. /\ ToSet(Messages(queue)) \subseteq ToSet(After(v, e).ms)
      /\ ToSet(AskedOf(commands)) \subseteq ToSet(After(v, e).ms)
  BY <1>3, <1>4, WayFacts
<1>. QED BY <1>5 DEF Way

LEMMA HeardTruly ==
  ASSUME TypeOK, TypeOK', IInv, TInv, NEW is, Hears(is),
         UNCHANGED <<held, env, commands, turn, queue, taken, got, undone>>,
         NEW v, NEW e, Hearing(v, e), Shows(pending', After(v, e)),
         \A m \in Message : Newly(m) \/ (card'[m] = card[m] /\ (m \in ToSet(v.ms) => m \in ToSet(After(v, e).ms)))
  PROVE  TInv'
<1>1. events # <<>> /\ events' = Tail(events) /\ e = Head(events) /\ Proper(v) /\ Shows(pending, v)
  BY DEF Hears, Hearing
<1>2. Fated'
  BY <1>1, FatedHeard DEF TInv
<1>3. Way' = Way
  BY HearingWay
<1>4. Messages(pending) = v.ms /\ Messages(pending') = After(v, e).ms
  BY <1>1 DEF Shows
<1>5. ASSUME NEW m \in Message, ~Newly(m) PROVE AsBefore(m)
  <2>1. card'[m] = card[m] /\ (m \in WaitedOn => m \in WaitedOn')
    BY <1>4, <1>5 DEF WaitedOn
  <2>. QED BY <1>3, <2>1 DEF AsBefore
<1>6. \A m \in Message : m \in Way' => m \in Way \/ m \notin ToSet(got) \/ m \in undone'
  BY <1>3
<1>7. NotYet' /\ Sent' /\ SaidTruly'
  BY <1>5, <1>6, SaysSo DEF TInv
<1>. QED BY <1>2, <1>7 DEF TInv

LEMMA AfterSets ==
  ASSUME NEW v \in View, NEW e, Meant(v, e), v.k \in Nat
  PROVE  /\ e.is \in {"withdrawn", "taken", "dropped"} =>
              ToSet(After(v, e).ms) = ToSet(v.ms) \ ToSet(e.of) /\ ToSet(e.of) \subseteq ToSet(v.ms)
         /\ e.is = "joined" => After(v, e).ms = v.ms
         /\ e.is \in {"ended", "failed"} /\ v.k \in 1..Len(v.ms) =>
              ToSet(v.ms) \subseteq {v.ms[p] : p \in 1..v.k} \cup ToSet(After(v, e).ms)
<1>1. v.ms \in Seq(Message)
  BY DEF View
<1>2. ASSUME e.is \in {"withdrawn", "taken", "dropped"}
      PROVE  ToSet(After(v, e).ms) = ToSet(v.ms) \ ToSet(e.of) /\ ToSet(e.of) \subseteq ToSet(v.ms)
  <2>1. After(v, e).ms = Minus(v.ms, ToSet(e.of))
    BY <1>2 DEF After
  <2>2. ToSet(e.of) \subseteq ToSet(v.ms)
    <3>1. \A m \in ToSet(e.of) : \E i \in (v.k + 1)..Len(v.ms) : v.ms[i] = m
      BY <1>2 DEF Meant
    <3>2. Len(v.ms) \in Nat /\ \A i \in (v.k + 1)..Len(v.ms) : i \in 1..Len(v.ms)
      BY <1>1
    <3>. QED BY <1>1, <3>1, <3>2, ToSetIs
  <2>. QED BY <1>1, <2>1, <2>2, MinusFacts
<1>3. ASSUME e.is = "joined" PROVE After(v, e).ms = v.ms
  BY <1>3 DEF After
<1>4. ASSUME e.is \in {"ended", "failed"}, v.k \in 1..Len(v.ms)
      PROVE  ToSet(v.ms) \subseteq {v.ms[p] : p \in 1..v.k} \cup ToSet(After(v, e).ms)
  <2>. DEFINE rest == SubSeq(v.ms, v.k + 1, Len(v.ms))
  <2>1. After(v, e).ms = rest
    BY <1>4 DEF After
  <2>2. /\ rest \in Seq(Message) /\ Len(rest) = Len(v.ms) - v.k /\ Len(v.ms) \in Nat
        /\ \A i \in 1..(Len(v.ms) - v.k) : rest[i] = v.ms[v.k + i]
    BY <1>1, <1>4, BehindFacts, SMTT(60)
  <2>. HIDE DEF rest
  <2>3. ASSUME NEW m \in ToSet(v.ms), m \notin {v.ms[p] : p \in 1..v.k} PROVE m \in ToSet(rest)
    <3>1. PICK i \in 1..Len(v.ms) : v.ms[i] = m
      BY <1>1, ToSetIs
    <3>2. i \notin 1..v.k
      BY <2>3, <3>1
    <3>3. i - v.k \in 1..(Len(v.ms) - v.k) /\ v.k + (i - v.k) = i
      BY <1>4, <2>2, <3>2
    <3>4. rest[i - v.k] = m
      BY <2>2, <3>1, <3>3
    <3>. QED BY <2>2, <3>3, <3>4, ToSetIs
  <2>. QED BY <2>1, <2>3
<1>. QED BY <1>2, <1>3, <1>4

LEMMA HearsGoneTruly ==
  ASSUME TypeOK, TypeOK', IInv, TInv, NEW is, NEW says,
         \/ is = "withdrawn" /\ says = "NotSent"
         \/ is = "taken" /\ says = "WithinTurn",
         HearsGone(is, says)
  PROVE  TInv'
<1>1. Hears(is) /\ UNCHANGED <<held, env, commands, turn, queue, taken, got, undone>>
  BY DEF HearsGone, taskVars, hookVars, ghosts
<1>2. PICK v, e : Hearing(v, e) /\ e.is = is
  BY <1>1, HearingIs
<1>3. card' = Cards(ToSet(e.of), says) /\ Shows(pending', After(v, e))
  <2>1. is \in {"withdrawn", "taken"}
    OBVIOUS
  <2>. QED BY <1>2, <2>1, HearsGoneIs
<1>4. /\ Fate(v, e, ToSet(got), undone, ToSet(taken), env = "moving")
      /\ v.ms = Messages(pending) /\ v \in View /\ Meant(v, e) /\ v.k \in Nat
  BY <1>1, <1>2, HearingFate DEF TInv, Hears, Hearing, View
<1>5. ToSet(After(v, e).ms) = ToSet(v.ms) \ ToSet(e.of) /\ ToSet(e.of) \subseteq ToSet(v.ms)
  BY <1>2, <1>4, AfterSets
<1>6. Way' \subseteq ToSet(After(v, e).ms) \cup ToSet(held) \cup ToSet(taken)
  BY <1>1, <1>2, <1>3, HearingWay
<1>7. ASSUME NEW m \in Message, m \in ToSet(e.of) PROVE Newly(m)
  <2>1. card'[m] = says
    BY <1>3, <1>7, CardsAre
  <2>2. CASE is = "withdrawn" /\ says = "NotSent"
    <3>1. "NotSent" # None /\ "NotSent" \notin Waiting
      BY ChatAssumption DEF Waiting, Settled
    <3>2. m \notin ToSet(taken) /\ (m \in ToSet(got) => m \in undone)
      BY <1>2, <1>4, <1>7, <2>2 DEF Fate
    <3>3. m \notin Way'
      BY <1>4, <1>5, <1>6, <1>7, <3>2, Places
    <3>. QED BY <1>1, <2>1, <2>2, <3>1, <3>2, <3>3 DEF Newly
  <2>3. CASE is = "taken" /\ says = "WithinTurn"
    <3>1. "WithinTurn" # None /\ "WithinTurn" \notin Waiting
      BY ChatAssumption DEF Waiting, Settled
    <3>2. m \in ToSet(got) \cup ToSet(taken)
      BY <1>2, <1>4, <1>7, <2>3 DEF Fate
    <3>. QED BY <1>1, <2>1, <2>3, <3>1, <3>2 DEF Newly
  <2>. QED BY <2>2, <2>3
<1>8. \A m \in Message : m \notin ToSet(e.of) => card'[m] = card[m] /\ (m \in ToSet(v.ms) => m \in ToSet(After(v, e).ms))
  BY <1>3, <1>5, CardsAre
<1>. QED BY <1>1, <1>2, <1>3, <1>7, <1>8, HeardTruly

LEMMA HearsDroppedTruly == ASSUME TypeOK, TypeOK', IInv, TInv, HearsDropped PROVE TInv'
<1>1. Hears("dropped") /\ UNCHANGED <<held, env, commands, turn, queue, taken, got, undone>>
  BY DEF HearsDropped, taskVars, hookVars, ghosts
<1>2. PICK v, e : Hearing(v, e) /\ e.is = "dropped"
  BY <1>1, HearingIs
<1>3. card' = Cards(ToSet(e.of), "NotSent") /\ Shows(pending', After(v, e))
  BY <1>2, HearsDroppedIs
<1>4. /\ Fate(v, e, ToSet(got), undone, ToSet(taken), env = "moving")
      /\ v.ms = Messages(pending) /\ v \in View /\ Meant(v, e) /\ v.k \in Nat
  BY <1>1, <1>2, HearingFate DEF TInv, Hears, Hearing, View
<1>5. ToSet(After(v, e).ms) = ToSet(v.ms) \ ToSet(e.of) /\ ToSet(e.of) \subseteq ToSet(v.ms)
  BY <1>2, <1>4, AfterSets
<1>6. Way' \subseteq ToSet(After(v, e).ms) \cup ToSet(held) \cup ToSet(taken)
  BY <1>1, <1>2, <1>3, HearingWay
<1>7. ASSUME NEW m \in Message, m \in ToSet(e.of) PROVE Newly(m)
  <2>1. card'[m] = "NotSent" /\ "NotSent" # None /\ "NotSent" \notin Waiting
    BY <1>3, <1>7, CardsAre, ChatAssumption DEF Waiting, Settled
  <2>2. m \notin ToSet(taken) /\ (m \in ToSet(got) => m \in undone)
    BY <1>2, <1>4, <1>7 DEF Fate
  <2>3. m \notin Way'
    BY <1>4, <1>5, <1>6, <1>7, <2>2, Places
  <2>. QED BY <1>1, <2>1, <2>2, <2>3 DEF Newly
<1>8. \A m \in Message : m \notin ToSet(e.of) => card'[m] = card[m] /\ (m \in ToSet(v.ms) => m \in ToSet(After(v, e).ms))
  BY <1>3, <1>5, CardsAre
<1>. QED BY <1>1, <1>2, <1>3, <1>7, <1>8, HeardTruly

LEMMA HearsJoinedTruly == ASSUME TypeOK, TypeOK', IInv, TInv, HearsJoined PROVE TInv'
<1>1. Hears("joined") /\ UNCHANGED <<held, env, commands, turn, queue, taken, got, undone>>
  BY DEF HearsJoined, taskVars, hookVars, ghosts
<1>2. PICK v, e : Hearing(v, e) /\ e.is = "joined"
  BY <1>1, HearingIs
<1>3. Shows(pending', After(v, e))
  BY <1>2, HearsJoinedIs
<1>4. PICK gone : card' = Cards(gone, "Taken") /\ gone \subseteq ToSet(Messages(pending'))
  BY <1>2, HearsJoinedIs
<1>5. After(v, e).ms = v.ms
  BY <1>2 DEF After
<1>6. ASSUME NEW m \in Message, m \in gone PROVE Newly(m)
  <2>1. card'[m] = "Taken" /\ "Taken" # None /\ "Taken" \notin Waiting /\ m \in WaitedOn'
    BY <1>4, <1>6, CardsAre, ChatAssumption DEF Waiting, Settled, WaitedOn
  <2>. QED BY <2>1 DEF Newly
<1>7. \A m \in Message : m \notin gone => card'[m] = card[m]
  BY <1>4, CardsAre
<1>. QED BY <1>1, <1>2, <1>3, <1>5, <1>6, <1>7, HeardTruly

LEMMA HearsEndedTruly == ASSUME TypeOK, TypeOK', IInv, TInv, HearsEnded PROVE TInv'
<1>1. Hears("ended") /\ UNCHANGED <<held, env, commands, turn, queue, taken, got, undone>>
  BY DEF HearsEnded, taskVars, hookVars, ghosts
<1>2. PICK v, e : Hearing(v, e) /\ e.is = "ended"
  BY <1>1, HearingIs
<1>3. /\ \A m \in Message :
            \/ card'[m] = "Taken" /\ (m \in {v.ms[p] : p \in 1..v.k} \/ m \in ToSet(Messages(pending')))
            \/ card'[m] = card[m] /\ m \notin {v.ms[p] : p \in 1..v.k}
      /\ Shows(pending', After(v, e)) /\ pending # <<>>
  BY <1>2, HearsEndedIs
<1>4. /\ Fate(v, e, ToSet(got), undone, ToSet(taken), env = "moving")
      /\ v \in View /\ Meant(v, e) /\ v.k \in Nat /\ Shows(pending, v) /\ Proper(v)
  BY <1>1, <1>2, HearingFate DEF TInv, Hears, Hearing, View
<1>5. ToSet(v.ms) \subseteq {v.ms[p] : p \in 1..v.k} \cup ToSet(After(v, e).ms)
  <2>1. v.k \in 1..Len(v.ms)
    BY <1>3, <1>4, ShownFacts DEF TypeOK
  <2>. QED BY <1>2, <1>4, <2>1, AfterSets
<1>6. ASSUME NEW m \in Message, card'[m] = "Taken", m \in {v.ms[p] : p \in 1..v.k} \/ m \in ToSet(Messages(pending'))
      PROVE  Newly(m)
  <2>1. "Taken" # None /\ "Taken" \notin Waiting
    BY ChatAssumption DEF Waiting, Settled
  <2>2. m \in ToSet(got') \cup WaitedOn'
    BY <1>1, <1>2, <1>4, <1>6 DEF Fate, WaitedOn
  <2>. QED BY <1>6, <2>1, <2>2 DEF Newly
<1>. QED BY <1>1, <1>2, <1>3, <1>5, <1>6, HeardTruly

LEMMA HearsFailedTruly == ASSUME TypeOK, TypeOK', IInv, TInv, HearsFailed PROVE TInv'
<1>1. Hears("failed") /\ UNCHANGED <<held, env, commands, turn, queue, taken, got, undone>>
  BY DEF HearsFailed, taskVars, hookVars, ghosts
<1>2. PICK v, e : Hearing(v, e) /\ e.is = "failed"
  BY <1>1, HearingIs
<1>3. Shows(pending', After(v, e)) /\ pending # <<>>
  BY <1>2, HearsFailedIs
<1>4. PICK says \in {"Taken", "Refused"} : card' = Cards({v.ms[p] : p \in 1..v.k}, says)
  BY <1>2, HearsFailedIs
<1>5. /\ Fate(v, e, ToSet(got), undone, ToSet(taken), env = "moving")
      /\ v \in View /\ Meant(v, e) /\ v.k \in Nat /\ Shows(pending, v) /\ Proper(v)
  BY <1>1, <1>2, HearingFate DEF TInv, Hears, Hearing, View
<1>6. ToSet(v.ms) \subseteq {v.ms[p] : p \in 1..v.k} \cup ToSet(After(v, e).ms)
  <2>1. v.k \in 1..Len(v.ms)
    BY <1>3, <1>5, ShownFacts DEF TypeOK
  <2>. QED BY <1>2, <1>5, <2>1, AfterSets
<1>7. ASSUME NEW m \in Message, m \in {v.ms[p] : p \in 1..v.k} PROVE Newly(m)
  <2>1. card'[m] = says /\ says \in {"Taken", "Refused"}
    BY <1>4, <1>7, CardsAre
  <2>2. says # None /\ says \notin Waiting /\ says # "NotSent" /\ says # "WithinTurn"
    BY ChatAssumption DEF Waiting, Settled
  <2>3. m \in ToSet(got')
    BY <1>1, <1>2, <1>5, <1>7 DEF Fate
  <2>. QED BY <2>1, <2>2, <2>3 DEF Newly
<1>8. \A m \in Message : m \notin {v.ms[p] : p \in 1..v.k} => card'[m] = card[m]
  BY <1>4, CardsAre
<1>. QED BY <1>1, <1>2, <1>3, <1>6, <1>7, <1>8, HeardTruly

LEMMA HearsClosedTruly == ASSUME TypeOK, TypeOK', IInv, TInv, HearsClosed PROVE TInv'
<1>. DEFINE delivered == IF env = "moving" THEN Turn(pending) ELSE {}
            goes == Minus(Left, Utility)
<1>1. /\ events # <<>> /\ Head(events).is = "closed" /\ events' = <<>>
      /\ UNCHANGED <<env, commands, turn, queue, taken, got, undone>>
      /\ pending' = <<>>
      /\ Left \in Seq(Message) /\ ToSet(Left) \subseteq ToSet(Messages(pending))
      /\ env # "moving" => Left = Messages(pending)
      /\ env = "moving" => /\ ToSet(Messages(pending)) \subseteq Turn(pending) \cup ToSet(Left)
                           /\ Turn(pending) \cap ToSet(Left) = {}
      /\ held' = goes \o held
  BY HearsClosedIs DEF ghosts
<1>2. card' = [m \in Message |->
                 CASE m \in delivered -> "Taken"
                   [] m \in ToSet(Left) \cap Utility -> "Lost"
                   [] m \in ToSet(Left) \ (ToSet(Left) \cap Utility) -> "Held"
                   [] OTHER -> card[m]]
  BY HearsClosedIs
<1>3. PICK v, e : Hearing(v, e) /\ e.is = "closed"
  <2>1. Hears("closed")
    BY DEF HearsClosed
  <2>. QED BY <2>1, HearingIs
<1>4. /\ Fate(v, e, ToSet(got), undone, ToSet(taken), env = "moving")
      /\ v.ms = Messages(pending) /\ v.ms \in Seq(Message) /\ Shows(pending, v) /\ Proper(v)
  BY <1>1, <1>3, HearingFate DEF TInv, Hearing
<1>5. ToSet(Messages(pending)) \cap ToSet(got) \subseteq undone
  BY <1>3, <1>4 DEF Fate
<1>6. delivered \subseteq ToSet(got)
  <2>1. CASE env = "moving" /\ pending # <<>>
    <3>1. pending \in Seq(Row)
      BY DEF TypeOK
    <3>2. Turn(pending) = {v.ms[p] : p \in 1..v.k} /\ v.k \in 1..Len(pending) /\ Len(v.ms) = Len(pending)
          /\ Len(pending) \in Nat
      BY <1>4, <2>1, <3>1, TurnIs, ShownFacts
    <3>3. \A p \in 1..v.k : p \in 1..Len(v.ms) /\ p <= v.k
      BY <3>2
    <3>. QED BY <1>3, <1>4, <2>1, <3>2, <3>3 DEF Fate
  <2>2. CASE env = "moving" /\ pending = <<>>
    <3>1. Popped(pending) = 0 /\ 1..0 = {}
      BY <2>2 DEF Popped
    <3>2. Turn(pending) = {}
      BY <3>1 DEF Turn
    <3>. QED BY <3>2
  <2>. QED BY <2>1, <2>2
<1>7. ToSet(held') = (ToSet(Left) \ Utility) \cup ToSet(held)
  <2>1. goes \in Seq(Message) /\ ToSet(goes) = ToSet(Left) \ Utility /\ held \in Seq(Message)
    BY <1>1, MinusFacts DEF TypeOK
  <2>. HIDE DEF goes
  <2>. QED BY <1>1, <2>1, ToSetConcat
<1>8. Fated'
  BY <1>1, FatedNothing
<1>9. \A m \in Message : m \in Way' => m \in Way \/ m \notin ToSet(got) \/ m \in undone'
  BY <1>1, <1>5, <1>7 DEF Way
<1>10. ASSUME NEW m \in Message PROVE Newly(m) \/ AsBefore(m)
  <2>1. None \notin {"Taken", "Lost", "Held"} /\ {"Taken", "Lost"} \cap Waiting = {}
    BY ChatAssumption DEF Waiting, Settled
  <2>6. delivered \cap ToSet(Left) = {}
    BY <1>1
  <2>. HIDE DEF delivered
  <2>2. CASE m \in delivered
    <3>1. card'[m] = "Taken"
      BY <1>2, <2>2, <2>6
    <3>. QED BY <1>1, <1>6, <2>1, <2>2, <3>1 DEF Newly
  <2>3. CASE m \notin delivered /\ m \in ToSet(Left) \cap Utility
    <3>1. card'[m] = "Lost"
      BY <1>2, <2>3
    <3>. QED BY <2>1, <3>1 DEF Newly
  <2>4. CASE m \notin delivered /\ m \in ToSet(Left) \ Utility
    <3>1. card'[m] = "Held"
      BY <1>2, <2>4
    <3>2. m \in WaitedOn'
      BY <1>7, <2>4 DEF WaitedOn
    <3>. QED BY <2>1, <3>1, <3>2 DEF Newly
  <2>5. CASE m \notin delivered /\ m \notin ToSet(Left)
    <3>1. card'[m] = card[m]
      BY <1>2, <2>5
    <3>2. m \notin ToSet(Messages(pending))
      BY <1>1, <2>5 DEF delivered
    <3>3. m \in WaitedOn => m \in WaitedOn'
      BY <1>7, <3>2 DEF WaitedOn
    <3>4. m \in Way' => m \in Way
      BY <1>1, <1>7, <2>5 DEF Way
    <3>. QED BY <1>1, <3>1, <3>3, <3>4 DEF AsBefore
  <2>. QED BY <2>2, <2>3, <2>4, <2>5
<1>11. NotYet' /\ Sent' /\ SaidTruly'
  BY <1>1, <1>9, <1>10, SaysSo DEF TInv
<1>. QED BY <1>8, <1>11 DEF TInv

LEMMA HearsTruly == ASSUME TypeOK, TypeOK', IInv, TInv, HearsAny PROVE TInv'
<1>1. ASSUME HearsGone("withdrawn", "NotSent") PROVE TInv'
  BY <1>1, HearsGoneTruly
<1>2. ASSUME HearsGone("taken", "WithinTurn") PROVE TInv'
  BY <1>2, HearsGoneTruly
<1>. QED BY <1>1, <1>2, HearsReadyTruly, HearsEndedTruly, HearsFailedTruly, HearsJoinedTruly,
            HearsDroppedTruly, HearsClosedTruly DEF HearsAny

-----------------------------------------------------------------------------
(* What stands before what.                                                 *)

LEMMA BeforeIn ==
  ASSUME NEW m, NEW n, NEW s, Before(m, n, s)
  PROVE  m \in ToSet(s) /\ n \in ToSet(s)
BY DEF Before, ToSet

LEMMA BeforeConcat ==
  ASSUME NEW s \in Seq(Message), NEW t \in Seq(Message)
  PROVE  \A m, n : Before(m, n, s \o t) <=>
             Before(m, n, s) \/ Before(m, n, t) \/ (m \in ToSet(s) /\ n \in ToSet(t))
<1>1. /\ DOMAIN (s \o t) = 1..(Len(s) + Len(t)) /\ DOMAIN s = 1..Len(s) /\ DOMAIN t = 1..Len(t)
      /\ Len(s) \in Nat /\ Len(t) \in Nat
      /\ \A i \in 1..Len(s) : (s \o t)[i] = s[i]
      /\ \A i \in 1..Len(t) : (s \o t)[Len(s) + i] = t[i]
  BY ConcatFacts
<1>2. ASSUME NEW m, NEW n, Before(m, n, s) PROVE Before(m, n, s \o t)
  <2>1. PICK i \in 1..Len(s), j \in 1..Len(s) : i < j /\ s[i] = m /\ s[j] = n
    BY <1>1, <1>2 DEF Before
  <2>2. i \in DOMAIN (s \o t) /\ j \in DOMAIN (s \o t) /\ (s \o t)[i] = m /\ (s \o t)[j] = n
    BY <1>1, <2>1
  <2>. QED BY <2>1, <2>2 DEF Before
<1>3. ASSUME NEW m, NEW n, Before(m, n, t) PROVE Before(m, n, s \o t)
  <2>1. PICK i \in 1..Len(t), j \in 1..Len(t) : i < j /\ t[i] = m /\ t[j] = n
    BY <1>1, <1>3 DEF Before
  <2>2. /\ Len(s) + i \in DOMAIN (s \o t) /\ Len(s) + j \in DOMAIN (s \o t) /\ Len(s) + i < Len(s) + j
        /\ (s \o t)[Len(s) + i] = m /\ (s \o t)[Len(s) + j] = n
    BY <1>1, <2>1
  <2>. QED BY <2>2 DEF Before
<1>4. ASSUME NEW m \in ToSet(s), NEW n \in ToSet(t) PROVE Before(m, n, s \o t)
  <2>1. PICK i \in 1..Len(s) : s[i] = m
    BY ToSetIs
  <2>2. PICK j \in 1..Len(t) : t[j] = n
    BY ToSetIs
  <2>3. /\ i \in DOMAIN (s \o t) /\ Len(s) + j \in DOMAIN (s \o t) /\ i < Len(s) + j
        /\ (s \o t)[i] = m /\ (s \o t)[Len(s) + j] = n
    BY <1>1, <2>1, <2>2
  <2>. QED BY <2>3 DEF Before
<1>5. ASSUME NEW m, NEW n, Before(m, n, s \o t), ~Before(m, n, s), ~Before(m, n, t)
      PROVE  m \in ToSet(s) /\ n \in ToSet(t)
  <2>1. PICK i \in 1..(Len(s) + Len(t)), j \in 1..(Len(s) + Len(t)) : i < j /\ (s \o t)[i] = m /\ (s \o t)[j] = n
    BY <1>1, <1>5 DEF Before
  <2>2. ~(j <= Len(s))
    <3>1. ASSUME j <= Len(s) PROVE FALSE
      <4>1. i \in DOMAIN s /\ j \in DOMAIN s /\ s[i] = m /\ s[j] = n
        BY <1>1, <2>1, <3>1
      <4>. QED BY <1>5, <2>1, <4>1 DEF Before
    <3>. QED BY <3>1
  <2>3. i <= Len(s)
    <3>1. ASSUME ~(i <= Len(s)) PROVE FALSE
      <4>1. /\ i - Len(s) \in 1..Len(t) /\ j - Len(s) \in 1..Len(t) /\ i - Len(s) < j - Len(s)
            /\ Len(s) + (i - Len(s)) = i /\ Len(s) + (j - Len(s)) = j
        BY <1>1, <2>1, <2>2, <3>1
      <4>2. t[i - Len(s)] = m /\ t[j - Len(s)] = n
        BY <1>1, <2>1, <4>1
      <4>. QED BY <1>1, <1>5, <4>1, <4>2 DEF Before
    <3>. QED BY <3>1
  <2>4. i \in 1..Len(s) /\ s[i] = m
    BY <1>1, <2>1, <2>3
  <2>5. j - Len(s) \in 1..Len(t) /\ Len(s) + (j - Len(s)) = j
    BY <1>1, <2>1, <2>2
  <2>6. t[j - Len(s)] = n
    BY <1>1, <2>1, <2>5
  <2>. QED BY <2>4, <2>5, <2>6, ToSetIs
<1>. QED BY <1>2, <1>3, <1>4, <1>5

\* What t has stands there as it stands in s, but for what is out of order anyway.
Follows(t, s, out) ==
    /\ \A m \in ToSet(t) : m \in out \/ m \in ToSet(s)
    /\ \A m, n : m \notin out /\ n \notin out /\ Before(m, n, t) => Before(m, n, s)

LEMMA FollowsSelf == ASSUME NEW s, NEW out PROVE Follows(s, s, out)
BY DEF Follows

LEMMA FollowsOn ==
  ASSUME NEW s, NEW t, NEW u, NEW out, Follows(u, t, out), Follows(t, s, out)
  PROVE  Follows(u, s, out)
BY DEF Follows

LEMMA FollowsOut ==
  ASSUME NEW s, NEW t, NEW out, ToSet(t) \subseteq out
  PROVE  Follows(t, s, out)
BY BeforeIn DEF Follows

LEMMA FollowsConcat ==
  ASSUME NEW s \in Seq(Message), NEW t \in Seq(Message), NEW x \in Seq(Message), NEW y \in Seq(Message),
         NEW out, Follows(x, s, out), Follows(y, t, out)
  PROVE  Follows(x \o y, s \o t, out)
<1>1. ToSet(x \o y) = ToSet(x) \cup ToSet(y) /\ ToSet(s \o t) = ToSet(s) \cup ToSet(t)
  BY ToSetConcat
<1>2. \A m, n : Before(m, n, x \o y) <=>
                    Before(m, n, x) \/ Before(m, n, y) \/ (m \in ToSet(x) /\ n \in ToSet(y))
  BY BeforeConcat
<1>3. \A m, n : Before(m, n, s \o t) <=>
                    Before(m, n, s) \/ Before(m, n, t) \/ (m \in ToSet(s) /\ n \in ToSet(t))
  BY BeforeConcat
<1>. QED BY <1>1, <1>2, <1>3 DEF Follows

LEMMA FollowsNone == ASSUME NEW s, NEW out PROVE Follows(<<>>, s, out)
BY NothingIn, FollowsOut

\* What is left of a sequence is in its order.
LEMMA FollowsAt ==
  ASSUME NEW s \in Seq(Message), NEW places, places \subseteq DOMAIN s, NEW out
  PROVE  Follows(At(s, places), s, out)
<1>1. /\ At(s, places) \in Seq(Message) /\ Len(At(s, places)) = Cardinality(places)
      /\ \A k \in 1..Cardinality(places) : At(s, places)[k] = s[Nth(places, k)]
      /\ DOMAIN s = 1..Len(s) /\ Len(s) \in Nat
  BY AtFacts
<1>2. /\ \A k \in 1..Cardinality(places) : Nth(places, k) \in places
      /\ \A k, l \in 1..Cardinality(places) : k < l <=> Nth(places, k) < Nth(places, l)
  BY <1>1, NthFacts
<1>3. DOMAIN At(s, places) = 1..Cardinality(places)
  BY <1>1
<1>4. \A m \in ToSet(At(s, places)) : m \in ToSet(s)
  <2>. SUFFICES ASSUME NEW m \in ToSet(At(s, places)) PROVE m \in ToSet(s)
    OBVIOUS
  <2>1. PICK k \in 1..Cardinality(places) : At(s, places)[k] = m
    BY <1>1, ToSetIs
  <2>2. Nth(places, k) \in 1..Len(s) /\ s[Nth(places, k)] = m
    BY <1>1, <1>2, <2>1
  <2>. QED BY <2>2, ToSetIs
<1>5. ASSUME NEW m, NEW n, Before(m, n, At(s, places)) PROVE Before(m, n, s)
  <2>1. PICK k \in 1..Cardinality(places), l \in 1..Cardinality(places) :
                k < l /\ At(s, places)[k] = m /\ At(s, places)[l] = n
    BY <1>3, <1>5 DEF Before
  <2>2. /\ Nth(places, k) \in DOMAIN s /\ Nth(places, l) \in DOMAIN s /\ Nth(places, k) < Nth(places, l)
        /\ s[Nth(places, k)] = m /\ s[Nth(places, l)] = n
    BY <1>1, <1>2, <2>1
  <2>. QED BY <2>2 DEF Before
<1>. QED BY <1>4, <1>5 DEF Follows

LEMMA FollowsMinus ==
  ASSUME NEW s \in Seq(Message), NEW names, NEW out
  PROVE  Follows(Minus(s, names), s, out)
<1>1. {i \in DOMAIN s : s[i] \notin names} \subseteq DOMAIN s
  OBVIOUS
<1>. QED BY <1>1, FollowsAt DEF Minus

LEMMA FollowsLess ==
  ASSUME NEW s \in Seq(Message), NEW m, NEW out
  PROVE  Follows(Less(s, m), s, out)
<1>1. {i \in DOMAIN s : s[i] # m} \subseteq DOMAIN s
  OBVIOUS
<1>. QED BY <1>1, FollowsAt DEF Less

LEMMA FollowsEither ==
  ASSUME NEW s \in Seq(Message), NEW t \in Seq(Message), NEW out
  PROVE  Follows(s, s \o t, out) /\ Follows(t, s \o t, out)
<1>1. ToSet(s \o t) = ToSet(s) \cup ToSet(t)
  BY ToSetConcat
<1>2. \A m, n : Before(m, n, s) \/ Before(m, n, t) => Before(m, n, s \o t)
  BY BeforeConcat
<1>. QED BY <1>1, <1>2 DEF Follows

LEMMA FollowsOne ==
  ASSUME NEW s \in Seq(Message), NEW m \in ToSet(s), NEW out
  PROVE  Follows(<<m>>, s, out)
<1>1. m \in Message
  BY ToSetType
<1>2. <<m>> \in Seq(Message) /\ ToSet(<<m>>) = {m} /\ Once(<<m>>)
  BY <1>1, OneOnly
<1>3. ASSUME NEW x, NEW y PROVE ~Before(x, y, <<m>>)
  BY DEF Before
<1>. QED BY <1>2, <1>3 DEF Follows

-----------------------------------------------------------------------------
(* All that is on its way to the agent, behind what it had.                 *)

\* Put out of order, or never to be counted: the IDE's own prompts, what a
\* person or a hook moved, what an agent died with.
Out == Utility \cup moved \cup undone

\* What a task that has ended left waiting, as the pane will have it when it
\* hears of it.
LeftOver(rows, es) == (CHOOSE h : Plays(h, es) /\ Shows(rows, h[1]))[Len(es)].ms

\* What the hook was answered with, while its turn lasts.
InHand == IF reading THEN taken ELSE <<>>

\* What waits behind the turn, in the queue or in the channel to the task.
Behind == Messages(queue) \o AskedOf(commands)

Mid == IF Closing THEN LeftOver(pending, events) ELSE Behind

\* All there is, from what the agent has had to what is held.
Line == ((got \o InHand) \o Mid) \o held

\* What is in the line was written, and in its order.
Lined ==
    /\ \A m \in ToSet(Line) : m \in Out \/ m \in ToSet(written)
    /\ \A m, n : m \notin Out /\ n \notin Out /\ Before(m, n, Line) => ~Before(n, m, written)

\* What was written has a card.
Noted == \A m \in ToSet(written) : card[m] # None

\* A hook's turn is the agent's.
InTurn == reading => turn # <<>>

OInv == Lined /\ Noted /\ InTurn

\* No card is taken back.
CardsStay == \A m \in Message : card[m] # None => card'[m] # None

LEMMA LeftOverIs ==
  ASSUME NEW rows \in Seq(Row), NEW es \in Seq(Event), es # <<>>, NEW h, Plays(h, es), Shows(rows, h[1])
  PROVE  LeftOver(rows, es) = h[Len(es)].ms /\ LeftOver(rows, es) \in Seq(Message)
<1>. DEFINE g == CHOOSE f : Plays(f, es) /\ Shows(rows, f[1])
<1>1. Plays(g, es) /\ Shows(rows, g[1])
  OBVIOUS
<1>. HIDE DEF g
<1>2. Len(es) \in 1..(Len(es) + 1) /\ 1 \in 1..(Len(es) + 1) /\ Len(es) \in Nat
  OBVIOUS
<1>3. Proper(g[1]) /\ Proper(h[1]) /\ Proper(h[Len(es)])
  BY <1>1, <1>2, PlaysTypes
<1>4. h[1] = g[1]
  BY <1>1, <1>3, SameView
<1>5. \A i \in 1..(Len(es) + 1) : h[i] = g[i]
  <2>1. Len(es) <= Len(es) /\ \A i \in 1..Len(es) : es[i] = es[i]
    BY <1>2
  <2>. QED BY <1>1, <1>4, <2>1, SamePlay
<1>6. LeftOver(rows, es) = g[Len(es)].ms
  BY DEF LeftOver, g
<1>. QED BY <1>2, <1>3, <1>5, <1>6 DEF Proper, View

LEMMA ClosingHas == ASSUME Closing PROVE events # <<>>
<1>1. Len(<<>>) = 0
  OBVIOUS
<1>. QED BY <1>1 DEF Closing

LEMMA ClosingHasNext == ASSUME Closing' PROVE events' # <<>>
<1>1. Len(<<>>) = 0
  OBVIOUS
<1>. QED BY <1>1 DEF Closing

LEMMA LineTypes ==
  ASSUME TypeOK, IInv
  PROVE  /\ got \in Seq(Message) /\ InHand \in Seq(Message) /\ Mid \in Seq(Message) /\ held \in Seq(Message)
         /\ Behind \in Seq(Message) /\ Messages(queue) \in Seq(Message) /\ AskedOf(commands) \in Seq(Message)
         /\ Line \in Seq(Message)
<1>1. /\ got \in Seq(Message) /\ held \in Seq(Message) /\ taken \in Seq(Message) /\ queue \in Seq(Entry)
      /\ commands \in Seq(Command) /\ events \in Seq(Event) /\ pending \in Seq(Row)
  BY DEF TypeOK
<1>2. Messages(queue) \in Seq(Message) /\ AskedOf(commands) \in Seq(Message)
  BY <1>1, EntriesFacts, PromptsFacts
<1>3. Behind \in Seq(Message)
  BY <1>2, ConcatFacts DEF Behind
<1>4. InHand \in Seq(Message)
  BY <1>1 DEF InHand
<1>5. Mid \in Seq(Message)
  <2>1. CASE Closing
    <3>1. PICK h : Plays(h, events) /\ Shows(pending, h[1])
      BY DEF IInv, Matched, Replays
    <3>. QED BY <1>1, <2>1, <3>1, LeftOverIs, ClosingHas DEF Mid
  <2>. QED BY <1>3, <2>1 DEF Mid
<1>6. got \o InHand \in Seq(Message)
  BY <1>1, <1>4, ConcatFacts
<1>7. (got \o InHand) \o Mid \in Seq(Message)
  BY <1>5, <1>6, ConcatFacts
<1>8. Line \in Seq(Message)
  BY <1>1, <1>7, ConcatFacts DEF Line
<1>. QED BY <1>1, <1>2, <1>3, <1>4, <1>5, <1>8

LEMMA LineTypesNext ==
  ASSUME TypeOK', IInv'
  PROVE  /\ got' \in Seq(Message) /\ InHand' \in Seq(Message) /\ Mid' \in Seq(Message) /\ held' \in Seq(Message)
         /\ Behind' \in Seq(Message) /\ Messages(queue') \in Seq(Message)
         /\ AskedOf(commands') \in Seq(Message)
<1>1. /\ got' \in Seq(Message) /\ held' \in Seq(Message) /\ taken' \in Seq(Message) /\ queue' \in Seq(Entry)
      /\ commands' \in Seq(Command) /\ events' \in Seq(Event) /\ pending' \in Seq(Row)
  BY DEF TypeOK
<1>2. Messages(queue') \in Seq(Message) /\ AskedOf(commands') \in Seq(Message)
  BY <1>1, EntriesFacts, PromptsFacts
<1>3. Behind' \in Seq(Message)
  BY <1>2, ConcatFacts DEF Behind
<1>4. InHand' \in Seq(Message)
  BY <1>1 DEF InHand
<1>5. Mid' \in Seq(Message)
  <2>1. CASE Closing'
    <3>1. PICK h : Plays(h, events') /\ Shows(pending', h[1])
      BY DEF IInv, Matched, Replays
    <3>2. events' # <<>>
      BY <2>1, ClosingHasNext
    <3>. QED BY <1>1, <2>1, <3>1, <3>2, LeftOverIs DEF Mid
  <2>. QED BY <1>3, <2>1 DEF Mid
<1>. QED BY <1>1, <1>2, <1>3, <1>4, <1>5

\* A step that only lets the line go on keeps it.
LEMMA LineGoes ==
  ASSUME TypeOK, TypeOK', IInv, Lined, Noted, CardsStay, moved \subseteq moved', undone \subseteq undone',
         NEW sent \in Seq(Message), written' = written \o sent,
         sent = <<>> \/ \E m \in Message : sent = <<m>> /\ card[m] = None /\ card'[m] # None,
         Follows(Line', Line \o sent, Out')
  PROVE  Lined' /\ Noted'
<1>1. written \in Seq(Message) /\ Line \in Seq(Message) /\ ToSet(written) \subseteq Message
  BY LineTypes, ToSetType DEF TypeOK
<1>2. /\ ToSet(written') = ToSet(written) \cup ToSet(sent)
      /\ ToSet(Line \o sent) = ToSet(Line) \cup ToSet(sent)
      /\ \A m, n : Before(m, n, written') <=>
             Before(m, n, written) \/ Before(m, n, sent) \/ (m \in ToSet(written) /\ n \in ToSet(sent))
      /\ \A m, n : Before(m, n, Line \o sent) <=>
             Before(m, n, Line) \/ Before(m, n, sent) \/ (m \in ToSet(Line) /\ n \in ToSet(sent))
  BY <1>1, ToSetConcat, BeforeConcat
<1>3. /\ \A m, n : ~Before(m, n, sent)
      /\ \A m \in ToSet(sent) : m \notin ToSet(written) /\ card'[m] # None
      /\ \A m, n \in ToSet(sent) : m = n
  <2>1. CASE sent = <<>>
    <3>1. \A m, n : ~Before(m, n, sent)
      BY <2>1 DEF Before
    <3>. QED BY <2>1, <3>1, NothingIn
  <2>2. ASSUME NEW m \in Message, sent = <<m>>, card[m] = None, card'[m] # None
        PROVE  /\ \A x, n : ~Before(x, n, sent)
               /\ ToSet(sent) = {m} /\ m \notin ToSet(written)
    <3>1. \A x, n : ~Before(x, n, <<m>>)
      BY DEF Before
    <3>2. ToSet(<<m>>) = {m}
      BY OneOnly
    <3>. QED BY <2>2, <3>1, <3>2 DEF Noted
  <2>. QED BY <2>1, <2>2
<1>4. Out \subseteq Out'
  BY DEF Out
<1>5. Noted'
  BY <1>1, <1>2, <1>3 DEF Noted, CardsStay
<1>6. ASSUME NEW m \in ToSet(Line') PROVE m \in Out' \/ m \in ToSet(written')
  BY <1>2, <1>4, <1>6 DEF Follows, Lined
<1>7. ASSUME NEW m, NEW n, m \notin Out', n \notin Out', Before(m, n, Line')
      PROVE  ~Before(n, m, written')
  <2>1. m \notin Out /\ n \notin Out /\ Before(m, n, Line \o sent)
    BY <1>4, <1>7 DEF Follows
  <2>2. CASE Before(m, n, Line)
    <3>1. ~Before(n, m, written) /\ m \in ToSet(Line)
      BY <2>1, <2>2, BeforeIn DEF Lined
    <3>2. m \in ToSet(written)
      BY <2>1, <3>1 DEF Lined
    <3>. QED BY <1>2, <1>3, <3>1, <3>2
  <2>3. CASE m \in ToSet(Line) /\ n \in ToSet(sent)
    <3>1. m \in ToSet(written) /\ n \notin ToSet(written)
      BY <1>3, <2>1, <2>3 DEF Lined
    <3>2. ~Before(n, m, written)
      BY <3>1, BeforeIn
    <3>. QED BY <1>2, <1>3, <3>1, <3>2
  <2>. QED BY <1>2, <1>3, <2>1, <2>2, <2>3
<1>. QED BY <1>5, <1>6, <1>7 DEF Lined

\* The line follows what it was when each of its parts does.
LEMMA PartsFollow ==
  ASSUME TypeOK, TypeOK', IInv, IInv', NEW out,
         Follows(got', got, out), Follows(InHand', InHand, out), Follows(Mid', Mid, out), Follows(held', held, out)
  PROVE  Follows(Line', Line, out)
<1>1. /\ got \in Seq(Message) /\ InHand \in Seq(Message) /\ Mid \in Seq(Message) /\ held \in Seq(Message)
      /\ got' \in Seq(Message) /\ InHand' \in Seq(Message) /\ Mid' \in Seq(Message) /\ held' \in Seq(Message)
  BY LineTypes, LineTypesNext
<1>2. Follows(got' \o InHand', got \o InHand, out) /\ got \o InHand \in Seq(Message) /\ got' \o InHand' \in Seq(Message)
  BY <1>1, FollowsConcat, ConcatFacts
<1>3. /\ Follows((got' \o InHand') \o Mid', (got \o InHand) \o Mid, out)
      /\ (got \o InHand) \o Mid \in Seq(Message) /\ (got' \o InHand') \o Mid' \in Seq(Message)
  BY <1>1, <1>2, FollowsConcat, ConcatFacts
<1>. QED BY <1>1, <1>3, FollowsConcat DEF Line

LEMMA MidOpen == ASSUME IInv, session # "none" PROVE ~Closing /\ Mid = Behind
BY ClosingHas DEF Mid, IInv, Life

LEMMA MidOpenNext == ASSUME IInv', session' # "none" PROVE ~Closing' /\ Mid' = Behind'
BY ClosingHasNext DEF Mid, IInv, Life

LEMMA MidStays ==
  ASSUME UNCHANGED <<pending, events>>, Behind' = Behind
  PROVE  Mid' = Mid
<1>1. Closing' <=> Closing
  BY DEF Closing
<1>. QED BY <1>1 DEF Mid, LeftOver

LEMMA HearingMid ==
  ASSUME TypeOK, TypeOK', IInv, events # <<>>, events' = Tail(events), NEW v, NEW e, Hearing(v, e),
         e.is # "closed", Shows(pending', After(v, e)), UNCHANGED <<queue, commands>>
  PROVE  Mid' = Mid
<1>1. events \in Seq(Event) /\ pending \in Seq(Row) /\ events' \in Seq(Event) /\ pending' \in Seq(Row)
  BY DEF TypeOK
<1>2. /\ Len(events) \in Nat /\ Len(events) >= 1 /\ Len(events') = Len(events) - 1 /\ Head(events) = events[1]
      /\ \A i \in 1..Len(events') : events'[i] = events[i + 1] /\ i + 1 \in 1..Len(events)
  BY <1>1, TailAt, SMTT(60)
<1>3. e = events[1]
  BY <1>2 DEF Hearing
<1>4. Closing' <=> Closing
  <2>1. ASSUME NEW i \in 1..Len(events), events[i].is = "closed" PROVE \E j \in 1..Len(events') : events'[j].is = "closed"
    <3>1. i # 1
      BY <1>3, <2>1
    <3>2. i - 1 \in 1..Len(events') /\ (i - 1) + 1 = i
      BY <1>2, <3>1
    <3>. QED BY <1>2, <2>1, <3>2
  <2>2. ASSUME NEW i \in 1..Len(events'), events'[i].is = "closed" PROVE \E j \in 1..Len(events) : events[j].is = "closed"
    BY <1>2, <2>2
  <2>. QED BY <2>1, <2>2 DEF Closing
<1>5. ASSUME Closing PROVE LeftOver(pending', events') = LeftOver(pending, events)
  <2>1. PICK h : Plays(h, events) /\ Shows(pending, h[1])
    BY DEF IInv, Matched, Replays
  <2>2. PICK g : Plays(g, Tail(events)) /\ \A i \in 1..Len(events) : g[i] = h[i + 1]
    BY <1>1, <2>1, PlaysFrom
  <2>3. h[1] = v
    <3>1. 1 \in 1..(Len(events) + 1)
      BY <1>2
    <3>. QED BY <1>1, <2>1, <3>1, PlaysTypes, SameView DEF Hearing
  <2>4. g[1] = After(v, e)
    <3>1. h[1 + 1] = After(h[1], events[1]) /\ 1 \in 1..Len(events)
      BY <1>1, <1>2, <2>1, PlaysTypes
    <3>. QED BY <1>3, <2>2, <2>3, <3>1
  <2>5. events' # <<>>
    <3>1. Closing'
      BY <1>4, <1>5
    <3>. QED BY <3>1, ClosingHasNext
  <2>6. LeftOver(pending, events) = h[Len(events)].ms
    BY <1>1, <2>1, LeftOverIs
  <2>7. LeftOver(pending', events') = g[Len(events')].ms
    BY <1>1, <2>2, <2>4, <2>5, LeftOverIs
  <2>8. Len(events') \in 1..Len(events) /\ Len(events') + 1 = Len(events)
    <3>1. Len(events') # 0
      BY <1>1, <2>5
    <3>. QED BY <1>2, <3>1
  <2>. QED BY <2>2, <2>6, <2>7, <2>8
<1>6. Behind' = Behind
  BY DEF Behind
<1>. QED BY <1>4, <1>5, <1>6 DEF Mid

-----------------------------------------------------------------------------
(* The task.                                                                *)

LEMMA NoneBeside ==
  /\ \A s \in Seq(Message) : <<>> \o s = s /\ s \o <<>> = s
  /\ Messages(<<>>) = <<>> /\ <<>> \in Seq(Message)
<1>1. \A s \in Seq(Message) : <<>> \o s = s /\ s \o <<>> = s
  OBVIOUS
<1>2. Messages(<<>>) = <<>>
  BY DEF Messages
<1>. QED BY <1>1, <1>2

LEMMA TaskLine ==
  ASSUME TypeOK, TypeOK', IInv, IInv', NEW out, session # "none", session' # "none", UNCHANGED <<got, held>>,
         Follows(InHand', InHand, out), Follows(Behind', Behind, out)
  PROVE  Follows(Line', Line, out)
<1>1. Mid' = Behind' /\ Mid = Behind
  BY MidOpen, MidOpenNext
<1>2. Follows(got', got, out) /\ Follows(held', held, out) /\ Follows(Mid', Mid, out)
  BY <1>1, FollowsSelf
<1>. QED BY <1>2, PartsFollow

\* What begins a turn goes from what waits to what the agent had.
LEMMA BegunLine ==
  ASSUME TypeOK, TypeOK', IInv, IInv', session # "none", session' # "none", ~reading, UNCHANGED <<held, reading>>,
         NEW new \in Seq(Message), got' = got \o new, Behind = new \o Behind'
  PROVE  Line' = Line
<1>1. /\ got \in Seq(Message) /\ held \in Seq(Message) /\ Behind' \in Seq(Message)
      /\ InHand = <<>> /\ InHand' = <<>> /\ <<>> \in Seq(Message)
  BY LineTypes, LineTypesNext, NoneBeside DEF InHand
<1>2. Mid' = Behind' /\ Mid = Behind
  BY MidOpen, MidOpenNext
<1>. DEFINE b == Behind'
            g == got
            h == held
<1>3. b \in Seq(Message) /\ g \in Seq(Message) /\ h \in Seq(Message)
  BY <1>1
<1>4. g \o InHand = g /\ got' \o InHand' = g \o new
  <2>1. g \o new \in Seq(Message)
    BY <1>3, ConcatFacts
  <2>2. \A s \in Seq(Message) : s \o <<>> = s
    BY NoneBeside
  <2>3. \A s \in Seq(Message) : \A t : t = <<>> => s \o t = s
    BY <2>2
  <2>. QED BY <1>1, <1>3, <2>1, <2>3
<1>5. g \o (new \o b) = (g \o new) \o b
  <2>. HIDE DEF b, g, h
  <2>. QED BY <1>3, MessagesAssoc, Zenon
<1>6. Line = (g \o (new \o b)) \o h /\ Line' = ((g \o new) \o b) \o h
  BY <1>2, <1>4 DEF Line
<1>. QED BY <1>5, <1>6

LEMMA ReadiesInLine == ASSUME TypeOK, TypeOK', IInv, IInv', Readies PROVE Follows(Line', Line, Out')
<1>1. session # "none" /\ session' # "none" /\ UNCHANGED <<got, held, queue, commands, taken, reading>>
  BY DEF Readies, paneVars, hookVars, ghosts
<1>2. Behind' = Behind /\ InHand' = InHand
  BY <1>1 DEF Behind, InHand
<1>. QED BY <1>1, <1>2, TaskLine, FollowsSelf

LEMMA TurnOverInLine == ASSUME TypeOK, TypeOK', IInv, IInv', TurnEnds \/ TurnFails PROVE Follows(Line', Line, Out')
<1>1. session # "none" /\ session' # "none" /\ UNCHANGED <<got, held, queue, commands, taken>> /\ reading' = FALSE
  BY Prepared DEF TurnEnds, TurnFails, paneVars, ghosts
<1>2. Behind' = Behind /\ InHand' = <<>>
  BY <1>1 DEF Behind, InHand
<1>. QED BY <1>1, <1>2, TaskLine, FollowsSelf, FollowsNone

LEMMA ReceivesInLine == ASSUME TypeOK, TypeOK', IInv, IInv', InTurn, Receives PROVE Follows(Line', Line, Out')
<1>1. /\ UNCHANGED <<held, queue, session, reading, taken>> /\ session # "none" /\ turn = <<>> /\ queue = <<>>
      /\ commands # <<>> /\ commands' = Tail(commands) /\ ~reading
  BY DEF Receives, InTurn, paneVars
<1>2. commands \in Seq(Command) /\ AskedOf(commands) \in Seq(Message) /\ AskedOf(commands') \in Seq(Message)
  BY LineTypes, LineTypesNext DEF TypeOK
<1>3. Behind = AskedOf(commands) /\ Behind' = AskedOf(commands')
  BY <1>1, <1>2, NoneBeside DEF Behind
<1>4. CASE Head(commands).do = "prompt"
  <2>. DEFINE new == <<Head(commands).msg>>
  <2>1. got' = got \o new
    BY <1>4 DEF Receives, Begins
  <2>2. Head(commands).msg \in Message
    <3>1. Head(commands) \in Command
      BY <1>1, <1>2, TailAt
    <3>. QED BY <1>4, <3>1, CommandTypes
  <2>3. Behind = new \o Behind' /\ new \in Seq(Message)
    BY <1>1, <1>2, <1>3, <1>4, <2>2, AskedHead
  <2>. HIDE DEF new
  <2>4. Line' = Line
    BY <1>1, <2>1, <2>3, BegunLine
  <2>. QED BY <2>4, FollowsSelf
<1>5. CASE Head(commands).do # "prompt"
  <2>1. got' = got
    BY <1>5 DEF Receives
  <2>2. Behind' = Behind /\ InHand' = InHand
    BY <1>1, <1>2, <1>3, <1>5, AskedHead DEF InHand
  <2>. QED BY <1>1, <2>1, <2>2, TaskLine, FollowsSelf
<1>. QED BY <1>4, <1>5

LEMMA TakesNextInLine == ASSUME TypeOK, TypeOK', IInv, IInv', InTurn, TakesNext PROVE Follows(Line', Line, Out')
<1>1. /\ session = "serving" /\ turn = <<>>
      /\ UNCHANGED <<paneVars, env, commands, session, hook, taken>>
      /\ got' = got \o turn' /\ turn' \in Seq(Message)
      /\ Messages(queue) = turn' \o Messages(queue')
  BY TakesNextIs
<1>2. UNCHANGED <<held, reading>> /\ session # "none" /\ session' # "none" /\ ~reading
  BY <1>1 DEF TakesNext, paneVars, hookVars, InTurn
<1>3. Messages(queue') \in Seq(Message) /\ AskedOf(commands') \in Seq(Message)
  BY LineTypesNext
<1>4. Behind = turn' \o Behind'
  <2>1. (turn' \o Messages(queue')) \o AskedOf(commands') = turn' \o (Messages(queue') \o AskedOf(commands'))
    BY <1>1, <1>3, ConcatAssoc
  <2>. QED BY <1>1, <2>1 DEF Behind
<1>5. Line' = Line
  <2>. DEFINE new == turn'
  <2>1. new \in Seq(Message) /\ got' = got \o new /\ Behind = new \o Behind'
    BY <1>1, <1>4
  <2>. HIDE DEF new
  <2>. QED BY <1>2, <2>1, BegunLine
<1>. QED BY <1>5, FollowsSelf

LEMMA ServedInLine ==
  ASSUME TypeOK, TypeOK', IInv, IInv', NEW out, session # "none", session' # "none",
         UNCHANGED <<got, held, taken, reading>>, AskedOf(commands') = AskedOf(commands),
         Follows(Messages(queue'), Messages(queue), out)
  PROVE  Follows(Line', Line, out)
<1>1. /\ Messages(queue) \in Seq(Message) /\ Messages(queue') \in Seq(Message)
      /\ AskedOf(commands) \in Seq(Message)
  BY LineTypes, LineTypesNext
<1>2. Follows(AskedOf(commands), AskedOf(commands), out)
  BY FollowsSelf
<1>3. Follows(Messages(queue') \o AskedOf(commands), Messages(queue) \o AskedOf(commands), out)
  BY <1>1, <1>2, FollowsConcat
<1>4. Follows(Behind', Behind, out)
  BY <1>3 DEF Behind
<1>5. InHand' = InHand
  BY DEF InHand
<1>. QED BY <1>4, <1>5, TaskLine, FollowsSelf

LEMMA QueuesInLine ==
  ASSUME TypeOK, TypeOK', NEW entry \in Entry, queue' = Append(queue, entry),
         AskedOf(commands) = <<entry.msg>> \o AskedOf(commands')
  PROVE  Behind' = Behind
<1>. DEFINE a == AskedOf(commands')
            q == Messages(queue)
            new == <<entry.msg>>
<1>1. queue \in Seq(Entry) /\ q \in Seq(Message) /\ a \in Seq(Message) /\ new \in Seq(Message)
  <2>1. queue \in Seq(Entry) /\ commands' \in Seq(Command) /\ entry.msg \in Message
    BY DEF TypeOK, Entry
  <2>. QED BY <2>1, EntriesFacts, PromptsFacts
<1>2. Messages(queue') = q \o new
  <2>1. <<entry>> \in Seq(Entry) /\ queue' = queue \o <<entry>> /\ \A r \in Entry : r.msg \in Message
    BY <1>1 DEF Entry
  <2>2. Messages(queue \o <<entry>>) = Messages(queue) \o Messages(<<entry>>)
    BY <1>1, <2>1, MessagesConcat
  <2>3. Messages(<<entry>>) = <<entry.msg>>
    <3>. DEFINE one == <<entry>>
    <3>1. DOMAIN one = {1} /\ one[1] = entry
      OBVIOUS
    <3>2. Messages(one) = [i \in {1} |-> entry.msg]
      <4>. HIDE DEF one
      <4>1. \A i \in {1} : one[i].msg = entry.msg
        BY <3>1
      <4>. QED BY <3>1, <4>1 DEF Messages
    <3>3. [i \in {1} |-> entry.msg] = <<entry.msg>>
      OBVIOUS
    <3>. QED BY <3>2, <3>3
  <2>. QED BY <2>1, <2>2, <2>3
<1>3. (q \o new) \o a = q \o (new \o a)
  <2>. HIDE DEF q, new, a
  <2>. QED BY <1>1, MessagesAssoc, Zenon
<1>. QED BY <1>2, <1>3 DEF Behind

\* What is withdrawn or dropped goes out of the line; what a hook takes goes
\* on in it, or out of it if the hook's turn is over.
LEMMA ServesInLine == ASSUME TypeOK, TypeOK', IInv, IInv', Serves PROVE Follows(Line', Line, Out')
<1>. DEFINE command == Head(commands)
            out == IF command.do \in {"withdraw", "expedite"} THEN {command.msg} ELSE {}
            known == At(queue, {i \in DOMAIN queue : queue[i].msg \in out /\ queue[i].named})
            others == Without(queue, out)
            takes == Takeable(queue)
            m == command.msg
<1>1. /\ turn # <<>> /\ commands # <<>> /\ commands' = Tail(commands)
      /\ UNCHANGED <<held, got, turn>> /\ session # "none" /\ session' # "none"
  BY Prepared DEF Serves, paneVars, ghosts
<1>2. queue \in Seq(Entry) /\ commands \in Seq(Command) /\ command \in Command
      /\ Asking(commands, hook) /\ (hook # "answered" => taken = <<>>)
  BY <1>1, Prepared, TailAt
<1>3. command.do \in {"withdraw", "expedite"} =>
         m \in Message /\ known = Known(m) /\ others = Others(m)
  BY <1>2, CommandTypes DEF Known, Others
<1>. HIDE DEF known, others
<1>4. command.do # "prompt" => AskedOf(commands') = AskedOf(commands)
  BY <1>1, <1>2, AskedHead
<1>5. Messages(queue) \in Seq(Message) /\ AskedOf(commands) \in Seq(Message) /\ Messages(queue') \in Seq(Message)
  BY LineTypes, LineTypesNext
<1>6. CASE /\ command.do = "prompt"
           /\ queue' = Append(queue, [msg |-> command.msg, named |-> command.named])
           /\ UNCHANGED <<events, hookVars>>
  <2>. DEFINE entry == [msg |-> m, named |-> command.named]
  <2>1. m \in Message /\ entry \in Entry /\ entry.msg = m
    BY <1>2, <1>6, CommandTypes DEF Entry
  <2>2. queue' = Append(queue, entry) /\ UNCHANGED <<taken, reading>>
    BY <1>6 DEF hookVars
  <2>. HIDE DEF entry
  <2>3. AskedOf(commands) = <<entry.msg>> \o AskedOf(commands')
    BY <1>1, <1>2, <1>6, <2>1, AskedHead
  <2>4. Behind' = Behind
    BY <2>1, <2>2, <2>3, QueuesInLine
  <2>5. InHand' = InHand
    BY <2>2 DEF InHand
  <2>. QED BY <1>1, <2>4, <2>5, TaskLine, FollowsSelf
<1>7. CASE /\ command.do = "cancelAll"
           /\ queue' = <<>>
           /\ events' = ToldOf("dropped", Messages(queue))
           /\ UNCHANGED hookVars
  <2>1. UNCHANGED <<taken, reading>> /\ Messages(queue') = <<>>
    BY <1>7, NoneBeside DEF hookVars
  <2>. QED BY <1>1, <1>4, <1>7, <2>1, FollowsNone, ServedInLine
<1>8. CASE /\ command.do = "withdraw" /\ known # <<>>
           /\ queue' = others
           /\ events' = ToldOf("withdrawn", Messages(known))
           /\ UNCHANGED hookVars
  <2>1. m \in Message /\ queue' = Others(m) /\ UNCHANGED <<taken, reading>>
    BY <1>3, <1>8 DEF hookVars
  <2>2. Messages(queue') = Minus(Messages(queue), {m})
    BY <1>1, <2>1, KnownFacts
  <2>3. Follows(Messages(queue'), Messages(queue), Out')
    BY <1>5, <2>2, FollowsMinus
  <2>. QED BY <1>1, <1>4, <1>8, <2>1, <2>3, ServedInLine
<1>9. CASE /\ command.do = "expedite" /\ known # <<>>
           /\ queue' = known
           /\ events' = ToldOf("withdrawn", Messages(At(others, {i \in DOMAIN others : others[i].named})))
           /\ UNCHANGED hookVars
  <2>1. m \in Message /\ queue' = Known(m) /\ UNCHANGED <<taken, reading>> /\ command.do = "expedite"
    BY <1>3, <1>9 DEF hookVars
  <2>2. Messages(queue') = Minus(Messages(queue), ToSet(Messages(Others(m))))
    BY <1>1, <2>1, ExpeditedFacts
  <2>3. Follows(Messages(queue'), Messages(queue), Out')
    BY <1>5, <2>2, FollowsMinus
  <2>. QED BY <1>1, <1>4, <1>9, <2>1, <2>3, ServedInLine
<1>10. CASE /\ command.do \in {"withdraw", "expedite"} /\ known = <<>>
            /\ UNCHANGED <<queue, events, hookVars>>
  <2>1. UNCHANGED <<taken, reading, queue>>
    BY <1>10 DEF hookVars
  <2>2. Follows(Messages(queue'), Messages(queue), Out')
    BY <2>1, FollowsSelf
  <2>. QED BY <1>1, <1>4, <1>10, <2>1, <2>2, ServedInLine
<1>11. CASE /\ command.do = "take"
            /\ queue' = SubSeq(queue, Len(takes) + 1, Len(queue))
            /\ events' = ToldOf("taken", takes)
            /\ hook' = "answered" /\ taken' = takes /\ UNCHANGED reading
  <2>. DEFINE n == Len(takes)
  <2>1. taken = <<>>
    <3>1. hook = "asked"
      BY <1>1, <1>2, <1>11, TailAt DEF Asking
    <3>. QED BY <1>2, <3>1
  <2>2. takes \in Seq(Message) /\ n \in 0..Len(queue) /\ takes = Messages(SubSeq(queue, 1, n))
    <3>. DEFINE places == {i \in DOMAIN queue : queue[i].named /\ queue[i].msg \notin Attached}
    <3>1. places \subseteq DOMAIN queue
      OBVIOUS
    <3>2. takes = Messages(SubSeq(queue, 1, Leading(places)))
      BY DEF Takeable
    <3>. HIDE DEF places
    <3>3. Len(Messages(SubSeq(queue, 1, Leading(places)))) = Leading(places)
      BY <1>2, <3>1, FrontType
    <3>4. Takeable(queue) \in Seq(Message) /\ Len(Takeable(queue)) \in 0..Len(queue)
      BY <1>2, TakeableType
    <3>. QED BY <3>2, <3>3, <3>4
  <2>. HIDE DEF takes
  <2>3. Messages(queue) = takes \o Messages(queue')
    BY <1>2, <1>11, <2>2, SplitMessages
  <2>4. Behind = takes \o Behind'
    <3>1. (takes \o Messages(queue')) \o AskedOf(commands) = takes \o (Messages(queue') \o AskedOf(commands))
      BY <1>5, <2>2, MessagesAssoc, Zenon
    <3>. QED BY <1>4, <1>11, <2>3, <3>1 DEF Behind
  <2>5. /\ Behind' \in Seq(Message) /\ got \in Seq(Message) /\ held \in Seq(Message)
        /\ Mid' = Behind' /\ Mid = Behind /\ InHand = <<>>
    BY <1>1, <2>1, LineTypes, LineTypesNext, MidOpen, MidOpenNext DEF InHand
  <2>6. CASE reading
    <3>. DEFINE b == Behind'
    <3>1. InHand' = takes /\ got' = got
      BY <1>1, <1>11, <2>6 DEF InHand
    <3>2. Line = ((got \o <<>>) \o (takes \o b)) \o held /\ Line' = ((got \o takes) \o b) \o held
      BY <1>1, <2>4, <2>5, <3>1 DEF Line
    <3>3. got \o <<>> = got
      BY <2>5, NoneBeside
    <3>4. got \o (takes \o b) = (got \o takes) \o b
      <4>. HIDE DEF b
      <4>1. b \in Seq(Message)
        BY <2>5 DEF b
      <4>. QED BY <2>2, <2>5, <4>1, MessagesAssoc, Zenon
    <3>5. Line' = Line
      <4>. HIDE DEF b
      <4>. QED BY <3>2, <3>3, <3>4
    <3>. QED BY <3>5, FollowsSelf
  <2>7. CASE ~reading
    <3>1. InHand' = InHand
      BY <1>11, <2>5, <2>7 DEF InHand
    <3>2. Follows(Behind', Behind, Out')
      BY <2>2, <2>4, <2>5, FollowsEither
    <3>. QED BY <1>1, <3>1, <3>2, TaskLine, FollowsSelf
  <2>. QED BY <2>6, <2>7
<1>. QED BY <1>6, <1>7, <1>8, <1>9, <1>10, <1>11 DEF Serves, known, others

-----------------------------------------------------------------------------
(* The task's end.                                                          *)

\* What waits behind a turn, at its task's end, is what the pane will have.
LEMMA EndsLeave ==
  ASSUME TypeOK, TypeOK', IInv, IInv', NEW failed \in BOOLEAN, failed => turn # <<>>, Ends(failed)
  PROVE  Mid = Behind /\ Mid' = IF failed THEN Behind ELSE turn \o Behind
<1>. DEFINE f == Tells("failed")
            c == Tells("closed")
            now == NowOf(turn, queue, commands)
            rest == NowOf(<<>>, queue, commands)
            n == Len(events)
<1>1. /\ turn \in Seq(Message) /\ queue \in Seq(Entry) /\ commands \in Seq(Command) /\ events \in Seq(Event)
      /\ events' \in Seq(Event) /\ pending \in Seq(Row) /\ n \in Nat
  BY Prepared DEF TypeOK
<1>2. f \in Event /\ c \in Event /\ f.is = "failed" /\ c.is = "closed"
  BY TellsType DEF Tells
<1>3. session # "none" /\ pending' = pending /\ events' = Endings(failed)
  BY DEF Ends, Endings, paneVars
<1>4. Mid = Behind
  BY <1>3, MidOpen
<1>5. /\ Len(events') = IF failed THEN n + 2 ELSE n + 1
      /\ \A i \in 1..n : events'[i] = events[i]
      /\ failed => events'[n + 1] = f
      /\ events'[Len(events')] = c
  <2>. HIDE DEF f, c
  <2>1. CASE failed
    <3>1. Endings(failed) = Append(Append(events, f), c)
      <4>1. Endings(failed) = (events \o <<f>>) \o <<c>>
        BY <2>1 DEF Endings, f, c
      <4>2. events \o <<f>> = Append(events, f) /\ Append(events, f) \in Seq(Event)
        BY <1>1, <1>2
      <4>3. \A s \in Seq(Event) : s \o <<c>> = Append(s, c)
        BY <1>2
      <4>. QED BY <4>1, <4>2, <4>3
    <3>2. /\ Append(events, f) \in Seq(Event) /\ Len(Append(events, f)) = n + 1
          /\ \A i \in 1..n : Append(events, f)[i] = events[i]
          /\ Append(events, f)[n + 1] = f
      BY <1>1, <1>2, AppendAt
    <3>. DEFINE mid == Append(events, f)
    <3>. HIDE DEF mid
    <3>3. /\ Len(Append(mid, c)) = (n + 1) + 1
          /\ \A i \in 1..(n + 1) : Append(mid, c)[i] = mid[i]
          /\ Append(mid, c)[(n + 1) + 1] = c
      BY <1>2, <3>2, AppendAt DEF mid
    <3>4. events' = Append(mid, c) /\ \A i \in 1..n : i \in 1..(n + 1)
      BY <1>1, <1>3, <3>1 DEF mid
    <3>. QED BY <1>1, <2>1, <3>2, <3>3, <3>4 DEF mid
  <2>2. CASE ~failed
    <3>1. Endings(failed) = Append(events, c)
      <4>1. Endings(failed) = (events \o <<>>) \o <<c>>
        BY <2>2 DEF Endings, f, c
      <4>2. events \o <<>> = events
        BY <1>1
      <4>3. \A s \in Seq(Event) : s \o <<c>> = Append(s, c)
        BY <1>2
      <4>. QED BY <1>1, <4>1, <4>2, <4>3
    <3>2. /\ Len(Append(events, c)) = n + 1
          /\ \A i \in 1..n : Append(events, c)[i] = events[i]
          /\ Append(events, c)[n + 1] = c
      BY <1>1, <1>2, AppendAt
    <3>. QED BY <1>3, <2>2, <3>1, <3>2
  <2>. QED BY <2>1, <2>2
<1>6. PICK h : Plays(h, events) /\ Shows(pending, h[1]) /\ h[n + 1] = now
  BY DEF IInv, Matched, Replays
<1>7. PICK g : Plays(g, events') /\ Shows(pending, g[1])
  BY <1>3 DEF IInv, Matched, Replays
<1>8. g[n + 1] = now
  <2>1. 1 \in 1..(n + 1) /\ 1 \in 1..(Len(events') + 1) /\ n <= n /\ n <= Len(events') /\ n + 1 \in 1..(n + 1)
    BY <1>1, <1>5
  <2>2. g[1] = h[1]
    <3>1. Proper(g[1]) /\ Proper(h[1])
      BY <1>1, <1>6, <1>7, <2>1, PlaysTypes
    <3>. QED BY <1>1, <1>6, <1>7, <3>1, SameView
  <2>3. \A i \in 1..(n + 1) : h[i] = g[i]
    <3>. HIDE DEF now
    <3>1. \A i \in 1..n : events[i] = events'[i]
      BY <1>5
    <3>2. n <= Len(events) /\ n <= Len(events') /\ n \in Nat /\ events \in Seq(Event) /\ events' \in Seq(Event)
      BY <1>1, <2>1
    <3>3. Plays(h, events) /\ Plays(g, events') /\ h[1] = g[1]
      BY <1>6, <1>7, <2>2
    <3>. HIDE DEF n
    <3>. QED BY <3>1, <3>2, <3>3, SamePlay
  <2>. QED BY <1>6, <2>1, <2>3
<1>9. Closing' /\ events' # <<>>
  <2>1. Len(events') \in 1..Len(events')
    BY <1>1, <1>5
  <2>2. events'[Len(events')].is = "closed"
    <3>. HIDE DEF f, c
    <3>. QED BY <1>2, <1>5
  <2>3. Closing'
    BY <2>1, <2>2 DEF Closing
  <2>. QED BY <2>3, ClosingHasNext
<1>10. Mid' = g[Len(events')].ms
  <2>1. LeftOver(pending, events') = g[Len(events')].ms
    BY <1>1, <1>7, <1>9, LeftOverIs
  <2>. QED BY <1>3, <1>9, <2>1 DEF Mid
<1>11. now.ms = turn \o Behind /\ rest.ms = Behind
  <2>1. /\ now.ms = (turn \o Messages(queue)) \o AskedOf(commands)
        /\ rest.ms = (<<>> \o Messages(queue)) \o AskedOf(commands)
        /\ Messages(queue) \in Seq(Message) /\ AskedOf(commands) \in Seq(Message)
    BY <1>1, NoneBeside, NowFacts
  <2>2. (turn \o Messages(queue)) \o AskedOf(commands) = turn \o (Messages(queue) \o AskedOf(commands))
    BY <1>1, <2>1, MessagesAssoc, Zenon
  <2>3. <<>> \o Messages(queue) = Messages(queue)
    BY <2>1, NoneBeside
  <2>. HIDE DEF now, rest
  <2>. QED BY <2>1, <2>2, <2>3 DEF Behind
<1>12. CASE ~failed
  <2>1. Len(events') = n + 1
    BY <1>5, <1>12
  <2>. HIDE DEF now
  <2>. QED BY <1>4, <1>8, <1>10, <1>11, <1>12, <2>1
<1>13. CASE failed
  <2>1. Len(events') = (n + 1) + 1 /\ events'[n + 1] = f /\ n + 1 \in 1..Len(events')
    BY <1>1, <1>5, <1>13
  <2>2. After(now, f) = rest
    BY <1>1, <1>2, <1>13, NowEnded
  <2>. HIDE DEF now, rest, f
  <2>3. g[(n + 1) + 1] = After(g[n + 1], events'[n + 1])
    BY <1>1, <1>7, <2>1, PlaysTypes
  <2>. QED BY <1>4, <1>8, <1>10, <1>11, <1>13, <2>1, <2>2, <2>3
<1>. QED BY <1>12, <1>13

\* An agent's end puts what it was on out of order, and nothing else.
LEMMA EndsInLine ==
  ASSUME TypeOK, TypeOK', IInv, IInv', NEW failed \in BOOLEAN, failed => turn # <<>>, Ends(failed)
  PROVE  Follows(Line', Line, Out')
<1>1. /\ UNCHANGED <<got, held>> /\ reading' = FALSE /\ ToSet(turn) \subseteq Out'
  BY DEF Ends, paneVars, Out
<1>2. InHand' = <<>>
  BY <1>1 DEF InHand
<1>3. turn \in Seq(Message) /\ Behind \in Seq(Message) /\ <<>> \in Seq(Message) /\ <<>> \o Behind = Behind
  BY LineTypes, NoneBeside DEF TypeOK
<1>4. Follows(turn \o Behind, <<>> \o Behind, Out')
  <2>1. Follows(turn, <<>>, Out') /\ Follows(Behind, Behind, Out')
    BY <1>1, FollowsOut, FollowsSelf
  <2>. QED BY <1>3, <2>1, FollowsConcat
<1>5. Follows(Mid', Mid, Out')
  <2>1. Follows(turn \o Behind, Behind, Out') /\ Follows(Behind, Behind, Out')
    BY <1>3, <1>4, FollowsSelf
  <2>2. Mid = Behind /\ (Mid' = turn \o Behind \/ Mid' = Behind)
    BY EndsLeave
  <2>. QED BY <2>1, <2>2
<1>. QED BY <1>1, <1>2, <1>5, FollowsSelf, FollowsNone, PartsFollow

LEMMA DiesInLine ==
  ASSUME TypeOK, TypeOK', IInv, IInv', NEW failed \in BOOLEAN, Dies(failed)
  PROVE  Follows(Line', Line, Out')
BY EndsInLine DEF Dies

LEMMA EnvMovesInLine ==
  ASSUME TypeOK, TypeOK', IInv, IInv', NEW failed \in BOOLEAN, EnvMoves(failed)
  PROVE  Follows(Line', Line, Out')
<1>1. CASE Ends(failed)
  BY <1>1, EndsInLine DEF EnvMoves
<1>2. CASE UNCHANGED <<paneVars, commands, events, taskVars, hookVars, ghosts>>
  <2>1. UNCHANGED <<pending, held, events, commands, queue, taken, reading, got>>
    BY <1>2 DEF paneVars, taskVars, hookVars, ghosts
  <2>2. Mid' = Mid
    <3>1. Behind' = Behind
      BY <2>1 DEF Behind
    <3>. QED BY <2>1, <3>1, MidStays
  <2>3. InHand' = InHand
    BY <2>1 DEF InHand
  <2>. QED BY <2>1, <2>2, <2>3, FollowsSelf, PartsFollow
<1>. QED BY <1>1, <1>2 DEF EnvMoves

-----------------------------------------------------------------------------
(* What a person orders, and the hook.                                      *)

\* Nothing but what is held changes, and what the task is asked beside messages.
LEMMA PaneLine ==
  ASSUME TypeOK, TypeOK', IInv, IInv', NEW out, UNCHANGED <<pending, events, queue, got, taken, reading>>,
         AskedOf(commands') = AskedOf(commands), Follows(held', held, out)
  PROVE  Follows(Line', Line, out)
<1>1. Behind' = Behind /\ InHand' = InHand
  BY DEF Behind, InHand
<1>2. Mid' = Mid
  BY <1>1, MidStays
<1>. QED BY <1>1, <1>2, FollowsSelf, PartsFollow

LEMMA AsksAlike ==
  ASSUME TypeOK, NEW c \in Command, c.do # "prompt", commands' = commands \/ commands' = Append(commands, c)
  PROVE  AskedOf(commands') = AskedOf(commands)
<1>1. commands \in Seq(Command)
  BY DEF TypeOK
<1>. QED BY <1>1, AskedOther

LEMMA OrdersAlike ==
  ASSUME TypeOK, NEW do \in {"withdraw", "expedite"}, NEW m \in Message, Commands(do, m)
  PROVE  AskedOf(commands') = AskedOf(commands)
<1>. DEFINE c == [do |-> do, msg |-> m]
<1>1. c \in Command /\ c.do # "prompt"
  BY DEF Command
<1>2. commands' = commands \/ commands' = Append(commands, c)
  BY DEF Commands
<1>. HIDE DEF c
<1>. QED BY <1>1, <1>2, AsksAlike

LEMMA StopsAllInLine == ASSUME TypeOK, TypeOK', IInv, IInv', StopsAll PROVE Follows(Line', Line, Out')
<1>. DEFINE c == [do |-> "cancelAll"]
<1>1. c \in Command /\ c.do # "prompt"
  BY DEF Command
<1>2. /\ held' = <<>>
      /\ commands' = commands \/ commands' = Append(commands, c)
      /\ UNCHANGED <<pending, events, queue, got, taken, reading>>
  BY DEF StopsAll, taskVars, hookVars, ghosts
<1>. HIDE DEF c
<1>3. AskedOf(commands') = AskedOf(commands)
  BY <1>1, <1>2, AsksAlike
<1>4. Follows(held', held, Out')
  BY <1>2, FollowsNone
<1>. QED BY <1>2, <1>3, <1>4, PaneLine

LEMMA WithdrawsInLine ==
  ASSUME TypeOK, TypeOK', IInv, IInv', NEW m \in Message, Withdraws(m)
  PROVE  Follows(Line', Line, Out')
<1>1. UNCHANGED <<pending, events, queue, got, taken, reading>> /\ held \in Seq(Message)
  BY DEF Withdraws, taskVars, hookVars, ghosts, TypeOK
<1>2. CASE Contains(held, m)
  <2>1. held' = Less(held, m) /\ commands' = commands
    BY <1>2 DEF Withdraws
  <2>2. Follows(held', held, Out')
    BY <1>1, <2>1, FollowsLess
  <2>. QED BY <1>1, <2>1, <2>2, PaneLine
<1>3. CASE ~Contains(held, m)
  <2>1. Commands("withdraw", m) /\ held' = held
    BY <1>3 DEF Withdraws
  <2>. QED BY <1>1, <2>1, OrdersAlike, FollowsSelf, PaneLine
<1>. QED BY <1>2, <1>3

LEMMA ExpeditesInLine ==
  ASSUME TypeOK, TypeOK', IInv, IInv', NEW m \in Message, Expedites(m)
  PROVE  Follows(Line', Line, Out')
<1>1. UNCHANGED <<pending, events, queue, got, taken, reading>> /\ held \in Seq(Message)
  BY DEF Expedites, taskVars, hookVars, ghosts, TypeOK
<1>2. CASE Contains(held, m)
  <2>1. held' = <<m>> /\ commands' = commands /\ m \in ToSet(held)
    BY <1>1, <1>2, ContainsIs DEF Expedites
  <2>2. Follows(held', held, Out')
    BY <1>1, <2>1, FollowsOne
  <2>. QED BY <1>1, <2>1, <2>2, PaneLine
<1>3. CASE ~Contains(held, m)
  <2>1. Commands("expedite", m) /\ held' = held
    BY <1>3 DEF Expedites
  <2>. QED BY <1>1, <2>1, OrdersAlike, FollowsSelf, PaneLine
<1>. QED BY <1>2, <1>3

LEMMA GoesFirstInLine ==
  ASSUME TypeOK, TypeOK', IInv, IInv', NEW m \in Message, GoesFirst(m)
  PROVE  Follows(Line', Line, Out')
<1>1. /\ UNCHANGED <<pending, events, queue, got, taken, reading, commands>> /\ held \in Seq(Message)
      /\ held' = <<m>> \o Less(held, m) /\ {m} \subseteq Out'
  BY DEF GoesFirst, taskVars, hookVars, TypeOK, Out
<1>2. Less(held, m) \in Seq(Message) /\ <<m>> \in Seq(Message) /\ <<>> \in Seq(Message) /\ <<>> \o held = held
  BY <1>1, LessFacts, NoneBeside
<1>3. Follows(<<m>>, <<>>, Out') /\ Follows(Less(held, m), held, Out')
  <2>1. ToSet(<<m>>) = {m}
    BY OneOnly
  <2>. QED BY <1>1, <2>1, FollowsOut, FollowsLess
<1>4. Follows(<<m>> \o Less(held, m), <<>> \o held, Out')
  BY <1>1, <1>2, <1>3, FollowsConcat
<1>5. Follows(held', held, Out')
  BY <1>1, <1>2, <1>4
<1>. QED BY <1>1, <1>5, PaneLine

LEMMA AsksInLine == ASSUME TypeOK, TypeOK', IInv, IInv', Asks PROVE Follows(Line', Line, Out')
<1>. DEFINE c == [do |-> "take"]
<1>1. c \in Command /\ c.do # "prompt"
  BY DEF Command
<1>2. /\ hook = "none" /\ commands' = Append(commands, c)
      /\ UNCHANGED <<pending, held, events, queue, got, taken>>
  BY DEF Asks, paneVars, taskVars, ghosts
<1>. HIDE DEF c
<1>3. taken = <<>>
  BY <1>2 DEF IInv, Hooked
<1>4. InHand' = InHand
  BY <1>2, <1>3 DEF InHand
<1>5. AskedOf(commands') = AskedOf(commands)
  BY <1>1, <1>2, AsksAlike
<1>6. Mid' = Mid
  <2>1. Behind' = Behind
    BY <1>2, <1>5 DEF Behind
  <2>. QED BY <1>2, <2>1, MidStays
<1>. QED BY <1>2, <1>4, <1>6, FollowsSelf, PartsFollow

LEMMA ReadsInLine == ASSUME TypeOK, TypeOK', IInv, IInv', Reads PROVE Follows(Line', Line, Out')
<1>1. /\ reading \/ taken = <<>>
      /\ taken' = <<>> /\ got' = got \o taken
      /\ UNCHANGED <<pending, held, events, queue, commands>>
  BY DEF Reads, paneVars, taskVars
<1>2. Mid' = Mid
  <2>1. Behind' = Behind
    BY <1>1 DEF Behind
  <2>. QED BY <1>1, <2>1, MidStays
<1>3. InHand = taken /\ InHand' = <<>>
  BY <1>1 DEF InHand
<1>4. got \in Seq(Message) /\ taken \in Seq(Message) /\ got \o taken \in Seq(Message)
  <2>1. got \in Seq(Message) /\ taken \in Seq(Message)
    BY DEF TypeOK
  <2>. QED BY <2>1, ConcatFacts
<1>5. (got \o taken) \o <<>> = got \o taken
  BY <1>4, NoneBeside
<1>6. Line = ((got \o taken) \o Mid) \o held /\ Line' = (((got \o taken) \o <<>>) \o Mid) \o held
  BY <1>1, <1>2, <1>3 DEF Line
<1>7. Line' = Line
  BY <1>5, <1>6
<1>. QED BY <1>7, FollowsSelf

LEMMA GivesBackInLine == ASSUME TypeOK, TypeOK', IInv, IInv', GivesBack PROVE Follows(Line', Line, Out')
<1>1. /\ taken' = <<>> /\ ToSet(taken) \subseteq Out'
      /\ UNCHANGED <<held, got, queue, events, session>>
  BY DEF GivesBack, paneVars, taskVars, Out
<1>2. Follows(InHand', InHand, Out')
  <2>1. InHand' = <<>>
    BY <1>1 DEF InHand
  <2>. QED BY <2>1, FollowsNone
<1>3. CASE client /\ session # "none"
  <2>. DEFINE new == PromptsOf(taken, TRUE)
  <2>1. commands' = commands \o new
    BY <1>3 DEF GivesBack, PromptsOf
  <2>2. taken \in Seq(Message) /\ commands \in Seq(Command) /\ new \in Seq(Command)
    <3>1. taken \in Seq(Message) /\ commands \in Seq(Command)
      BY DEF TypeOK
    <3>. QED BY <3>1, RowsOfFacts
  <2>3. AskedOf(new) = taken
    BY <2>2, AskedAll
  <2>. HIDE DEF new
  <2>4. AskedOf(commands') = AskedOf(commands) \o taken
    BY <2>1, <2>2, <2>3, AskedConcat
  <2>5. Messages(queue) \in Seq(Message) /\ AskedOf(commands) \in Seq(Message) /\ Behind \in Seq(Message)
    BY LineTypes
  <2>6. Behind' = Behind \o taken
    <3>1. (Messages(queue) \o AskedOf(commands)) \o taken = Messages(queue) \o (AskedOf(commands) \o taken)
      BY <2>2, <2>5, MessagesAssoc, Zenon
    <3>. QED BY <1>1, <2>4, <3>1 DEF Behind
  <2>7. Follows(Behind \o taken, Behind \o <<>>, Out')
    <3>1. Follows(Behind, Behind, Out') /\ Follows(taken, <<>>, Out')
      BY <1>1, FollowsSelf, FollowsOut
    <3>. QED BY <2>2, <2>5, <3>1, NoneBeside, FollowsConcat
  <2>8. Behind \o <<>> = Behind
    BY <2>5, NoneBeside
  <2>9. Follows(Behind', Behind, Out')
    BY <2>6, <2>7, <2>8
  <2>. QED BY <1>1, <1>2, <1>3, <2>9, TaskLine
<1>4. CASE ~(client /\ session # "none")
  <2>1. UNCHANGED <<pending, commands>>
    BY <1>4 DEF GivesBack
  <2>2. Mid' = Mid
    <3>1. Behind' = Behind
      BY <1>1, <2>1 DEF Behind
    <3>. QED BY <1>1, <2>1, <3>1, MidStays
  <2>. QED BY <1>1, <1>2, <2>2, FollowsSelf, PartsFollow
<1>. QED BY <1>3, <1>4

LEMMA ReplacesInLine == ASSUME TypeOK, TypeOK', IInv, IInv', Replaces PROVE Follows(Line', Line, Out')
<1>1. /\ UNCHANGED <<held, got>> /\ reading' = FALSE /\ queue' = <<>> /\ commands' = <<>> /\ session' # "none"
  BY DEF Replaces
<1>2. InHand' = <<>>
  BY <1>1 DEF InHand
<1>3. AskedOf(<<>>) = <<>>
  <2>1. <<>> \in Seq(Command) /\ \A i \in 1..Len(<<>>) : FALSE
    BY EmptyTyped
  <2>. DEFINE none == <<>>
  <2>2. none \in Seq(Command) /\ \A i \in 1..Len(none) : none[i].do # "prompt"
    BY <2>1
  <2>. HIDE DEF none
  <2>3. AskedOf(none) = <<>>
    BY <2>2, AskedNone
  <2>. QED BY <2>3 DEF none
<1>4. Mid' = <<>>
  BY <1>1, <1>3, MidOpenNext, NoneBeside DEF Behind
<1>. QED BY <1>1, <1>2, <1>4, FollowsSelf, FollowsNone, PartsFollow

LEMMA ReconnectsInLine == ASSUME TypeOK, TypeOK', IInv, IInv', Reconnects PROVE Follows(Line', Line, Out')
<1>1. UNCHANGED <<pending, events, queue, got, taken, reading, commands, held>>
  BY DEF Reconnects, hookVars, ghosts
<1>. QED BY <1>1, FollowsSelf, PaneLine

-----------------------------------------------------------------------------
(* Messages are handed to the task, or held.                                *)

LEMMA LittleMid ==
  ASSUME TypeOK, TypeOK', IInv, HearsLittle, UNCHANGED <<pending, queue, commands>>
  PROVE  Mid' = Mid
<1>1. CASE events' = events
  <2>1. Behind' = Behind
    BY DEF Behind
  <2>. QED BY <1>1, <2>1, MidStays
<1>2. CASE Hears("ready")
  <2>1. PICK v, e : Hearing(v, e) /\ e.is = "ready"
    BY <1>2, HearingIs
  <2>2. After(v, e) = v /\ Shows(pending, v)
    BY <2>1 DEF After, Hearing
  <2>3. events # <<>> /\ events' = Tail(events)
    BY <1>2 DEF Hears
  <2>4. Shows(pending', After(v, e))
    BY <2>2
  <2>. QED BY <2>1, <2>3, <2>4, HearingMid
<1>. QED BY <1>1, <1>2 DEF HearsLittle

LEMMA HandedMid ==
  ASSUME TypeOK, TypeOK', IInv, IInv', HearsLittle, queue' = queue,
         NEW ms \in Seq(Message), NEW named \in BOOLEAN, HandsOver(ms, named)
  PROVE  Mid' = Mid \/ Mid' = Mid \o ms
<1>1. CASE UNCHANGED <<pending, commands>>
  BY <1>1, LittleMid
<1>2. CASE Activated # "none" /\ commands' = commands \o PromptsOf(ms, named)
  <2>1. session' # "none"
    BY <1>2 DEF HandsOver
  <2>2. Mid' = Behind'
    BY <2>1, MidOpenNext
  <2>3. Mid = Behind
    <3>1. CASE client
      BY <1>2, <3>1, MidOpen DEF Activated
    <3>2. CASE ~client
      <4>1. events = <<>>
        BY <3>2 DEF IInv, Life
      <4>. QED BY <4>1, ClosingHas DEF Mid
    <3>. QED BY <3>1, <3>2
  <2>4. commands \in Seq(Command) /\ PromptsOf(ms, named) \in Seq(Command)
    <3>1. commands \in Seq(Command)
      BY DEF TypeOK
    <3>. QED BY <3>1, RowsOfFacts
  <2>5. AskedOf(commands') = AskedOf(commands) \o ms
    BY <1>2, <2>4, AskedConcat, AskedAll
  <2>6. Messages(queue) \in Seq(Message) /\ AskedOf(commands) \in Seq(Message)
    BY LineTypes
  <2>7. (Messages(queue) \o AskedOf(commands)) \o ms = Messages(queue) \o (AskedOf(commands) \o ms)
    BY <2>6, MessagesAssoc, Zenon
  <2>. QED BY <2>2, <2>3, <2>5, <2>7 DEF Behind
<1>. QED BY <1>1, <1>2 DEF HandsOver, PromptsOf

\* What is handed over, or held, comes last in the line; what nobody is there for leaves it.
LEMMA HandedLine ==
  ASSUME TypeOK, TypeOK', IInv, IInv', NEW out, NEW sent \in Seq(Message), UNCHANGED <<got, taken, reading>>,
         \/ Mid' = Mid /\ held' = held \o sent
         \/ (Mid' = Mid \/ Mid' = Mid \o (held \o sent)) /\ held' = <<>>
  PROVE  Follows(Line', Line \o sent, out)
<1>. DEFINE p == got \o InHand
            mid == Mid
            h == held
<1>1. p \in Seq(Message) /\ mid \in Seq(Message) /\ h \in Seq(Message) /\ p \o mid \in Seq(Message)
      /\ (p \o mid) \o h \in Seq(Message) /\ h \o sent \in Seq(Message)
  <2>1. p \in Seq(Message) /\ mid \in Seq(Message) /\ h \in Seq(Message)
    BY LineTypes, ConcatFacts
  <2>. HIDE DEF p, mid, h
  <2>2. p \o mid \in Seq(Message) /\ h \o sent \in Seq(Message)
    BY <2>1, ConcatFacts
  <2>. QED BY <2>1, <2>2, ConcatFacts
<1>2. Line = (p \o mid) \o h /\ got' \o InHand' = p
  BY DEF Line, InHand
<1>3. ((p \o mid) \o h) \o sent = (p \o mid) \o (h \o sent)
  <2>. HIDE DEF p, mid, h
  <2>. QED BY <1>1, MessagesAssoc, Zenon
<1>4. (p \o mid) \o (h \o sent) = p \o (mid \o (h \o sent))
  <2>. DEFINE x == h \o sent
  <2>1. p \in Seq(Message) /\ mid \in Seq(Message) /\ x \in Seq(Message)
    BY <1>1
  <2>. HIDE DEF p, mid, x
  <2>2. (p \o mid) \o x = p \o (mid \o x)
    BY <2>1, MessagesAssoc, Zenon
  <2>. QED BY <2>2 DEF x
<1>5. CASE Mid' = mid /\ held' = h \o sent
  <2>1. Line' = (p \o mid) \o (h \o sent)
    BY <1>2, <1>5 DEF Line
  <2>. HIDE DEF p, mid, h
  <2>2. Line' = Line \o sent
    BY <1>2, <1>3, <2>1
  <2>. QED BY <2>2, FollowsSelf
<1>6. \A s \in Seq(Message) : s \o <<>> = s
  BY NoneBeside
<1>7. CASE Mid' = mid /\ held' = <<>>
  <2>1. Line' = (p \o mid) \o <<>>
    BY <1>2, <1>7 DEF Line
  <2>. HIDE DEF p, mid, h
  <2>2. Line' = p \o mid
    BY <1>1, <1>6, <2>1
  <2>3. Follows(p \o mid, (p \o mid) \o (h \o sent), out)
    BY <1>1, FollowsEither
  <2>. QED BY <1>2, <1>3, <2>2, <2>3
<1>8. CASE Mid' = mid \o (h \o sent) /\ held' = <<>>
  <2>1. Line' = (p \o (mid \o (h \o sent))) \o <<>>
    BY <1>2, <1>8 DEF Line
  <2>. HIDE DEF p, mid, h
  <2>2. p \o (mid \o (h \o sent)) \in Seq(Message)
    <3>1. mid \o (h \o sent) \in Seq(Message)
      BY <1>1, ConcatFacts
    <3>. QED BY <1>1, <3>1, ConcatFacts
  <2>3. Line' = p \o (mid \o (h \o sent))
    BY <1>6, <2>1, <2>2
  <2>4. Line' = Line \o sent
    BY <1>2, <1>3, <1>4, <2>3
  <2>. QED BY <2>4, FollowsSelf
<1>. QED BY <1>5, <1>7, <1>8

LEMMA FlushedLine ==
  ASSUME TypeOK, TypeOK', IInv, IInv', HearsLittle, UNCHANGED <<queue, got, taken, reading>>,
         NEW out, NEW sent \in Seq(Message), NEW at, NEW otherwise, Flushes(held \o sent, at, otherwise)
  PROVE  Follows(Line', Line \o sent, out)
<1>. DEFINE ms == held \o sent
<1>1. ms \in Seq(Message)
  BY LineTypes, ConcatFacts
<1>. HIDE DEF ms
<1>2. CASE HandsOver(ms, TRUE) /\ held' = <<>>
  <2>1. Mid' = Mid \/ Mid' = Mid \o ms
    BY <1>1, <1>2, HandedMid
  <2>. QED BY <1>2, <2>1, HandedLine DEF ms
<1>3. CASE held' = ms /\ UNCHANGED <<pending, commands>>
  <2>1. Mid' = Mid
    BY <1>3, LittleMid
  <2>. QED BY <1>3, <2>1, HandedLine DEF ms
<1>. QED BY <1>2, <1>3 DEF Flushes, ms

LEMMA SendInLine ==
  ASSUME TypeOK, TypeOK', IInv, IInv', NEW m \in Message, Send(m)
  PROVE  Follows(Line', Line \o <<m>>, Out')
<1>. DEFINE sent == <<m>>
<1>1. /\ UNCHANGED <<queue, got, taken, reading, events>> /\ HearsLittle
      /\ sent \in Seq(Message) /\ held \in Seq(Message) /\ stop \in BOOLEAN
  BY DEF Send, hookVars, HearsLittle, TypeOK
<1>2. CASE held = <<>> /\ HandsOver(<<m>>, stop) /\ UNCHANGED held
  <2>1. HandsOver(sent, stop)
    BY <1>2
  <2>. HIDE DEF sent
  <2>2. Mid' = Mid \/ Mid' = Mid \o sent
    BY <1>1, <2>1, HandedMid
  <2>3. held \o sent = sent
    BY <1>1, <1>2, NoneBeside
  <2>4. (Mid' = Mid \/ Mid' = Mid \o (held \o sent)) /\ held' = <<>>
    BY <1>2, <2>2, <2>3
  <2>5. Follows(Line', Line \o sent, Out')
    BY <1>1, <2>4, HandedLine
  <2>. QED BY <2>5 DEF sent
<1>3. CASE Flushes(Append(held, m), env, Cards({m}, "Held"))
  <2>1. held \o sent = Append(held, m)
    BY <1>1
  <2>. DEFINE otherwise == Cards({m}, "Held")
  <2>2. Flushes(held \o sent, env, otherwise)
    BY <1>3, <2>1
  <2>. HIDE DEF sent, otherwise
  <2>3. Follows(Line', Line \o sent, Out')
    BY <1>1, <2>2, FlushedLine
  <2>. QED BY <2>3 DEF sent
<1>. QED BY <1>2, <1>3 DEF Send

\* To a task that has ended a prompt is shown, and goes behind what it left.
LEMMA RequestedLeft ==
  ASSUME TypeOK, TypeOK', IInv, NoSlip, NEW m \in Message, RequestText(m), Activated = "none"
  PROVE  /\ client /\ session = "none" /\ Closing /\ Closing' /\ events # <<>>
         /\ UNCHANGED <<events, commands, session, client>>
         /\ env = "moving" => pending # <<>>
         /\ Messages(pending') = Messages(pending) \o <<m>>
         /\ \E h : \E g : /\ Plays(h, events) /\ Shows(pending, h[1])
                          /\ Plays(g, events') /\ Shows(pending', g[1])
                          /\ \A i \in 1..Len(events) : g[i] = Extended(h[i], <<m>>)
<1>. DEFINE ms == <<m>>
<1>1. client /\ session = "none" /\ events' = events /\ client' = client /\ session' = session
  BY DEF RequestText, Activated
<1>2. /\ pending' = pending \o RowsOf(ms, FALSE) /\ commands' = commands
      /\ ms \in Seq(Message) /\ Once(ms) /\ ToSet(ms) = {m}
  BY RequestTextIs, OneOnly
<1>3. events \in Seq(Event) /\ pending \in Seq(Row) /\ Len(events) \in Nat
  BY DEF TypeOK
<1>4. Closing /\ Closing' /\ events # <<>>
  BY <1>1, ClosingHas DEF IInv, Life, Closing
<1>5. events[Len(events)].is = "closed" /\ \A i \in 1..Len(events) : events[i].is = "closed" => i = Len(events)
  <2>1. \A i \in 1..Len(events) : events[i].is = "closed" => i = Len(events)
    BY DEF IInv, Life
  <2>. QED BY <1>4, <2>1 DEF Closing
<1>6. ~(Dropping \/ Failing \/ Passing)
  <2>1. Spends({} \cup Slips(Dropping \/ Failing \/ Passing))
    BY DEF RequestText
  <2>. QED BY <2>1, SlipsNot
<1>7. \A i \in 1..Len(events) : events[i].is \notin {"dropped", "failed"}
  BY <1>6, Outlook
<1>. HIDE DEF ms
<1>8. PICK h : Plays(h, events) /\ Shows(pending, h[1])
  BY DEF IInv, Matched, Replays
<1>9. Fresh(h[1], ms)
  <2>1. m \notin ToSet(Messages(pending))
    BY SentIsApart DEF RequestText
  <2>. QED BY <1>2, <1>8, <2>1 DEF Fresh, Shows
<1>10. PICK g : Plays(g, events) /\ \A i \in 1..Len(events) : g[i] = Extended(h[i], ms)
  <2>. DEFINE es == events
  <2>1. /\ es \in Seq(Event) /\ es # <<>> /\ Plays(h, es) /\ es[Len(es)].is = "closed"
        /\ \A i \in 1..Len(es) : es[i].is \notin {"dropped", "failed"}
        /\ \A i \in 1..Len(es) : es[i].is = "closed" => i = Len(es)
    BY <1>3, <1>4, <1>5, <1>7, <1>8
  <2>. HIDE DEF es
  <2>2. \E g : /\ Plays(g, es) /\ \A i \in 1..Len(es) : g[i] = Extended(h[i], ms)
              /\ g[Len(es) + 1] = h[Len(es) + 1]
    BY <1>9, <2>1, PlaysBefore, Zenon
  <2>. QED BY <2>2 DEF es
<1>11. Shows(pending', g[1])
  <2>1. 1 \in 1..Len(events) /\ 1 \in 1..(Len(events) + 1)
    BY <1>3, <1>4
  <2>2. Proper(h[1]) /\ g[1] = Extended(h[1], ms)
    BY <1>3, <1>8, <1>10, <2>1, PlaysTypes
  <2>3. Sends(pending, pending', ms)
    BY <1>2, <1>3, RowsSent
  <2>. QED BY <1>8, <2>2, <2>3 DEF Sends
<1>12. Messages(pending') = Messages(pending) \o ms
  BY <1>2, <1>3, RowsSent
<1>13. env = "moving" => pending # <<>>
  BY <1>1, <1>6 DEF Passing
<1>. QED BY <1>1, <1>2, <1>4, <1>8, <1>10, <1>11, <1>12, <1>13 DEF ms

\* Whether its prompt goes or not, a request's message comes last in what waits.
LEMMA RequestedMid ==
  ASSUME TypeOK, TypeOK', IInv, IInv', NoSlip, NEW m \in Message, RequestText(m)
  PROVE  Mid' = Mid \o <<m>>
<1>. DEFINE sent == <<m>>
<1>1. sent \in Seq(Message) /\ queue' = queue /\ events' = events /\ session' = Activated
  BY DEF RequestText
<1>2. commands' = IF Activated = "none" THEN commands ELSE commands \o PromptsOf(sent, FALSE)
  BY RequestTextIs
<1>3. CASE Activated # "none"
  <2>. HIDE DEF sent
  <2>1. Mid' = Behind'
    BY <1>1, <1>3, MidOpenNext
  <2>2. Mid = Behind
    <3>1. CASE client
      BY <1>3, <3>1, MidOpen DEF Activated
    <3>2. CASE ~client
      <4>1. events = <<>>
        BY <3>2 DEF IInv, Life
      <4>. QED BY <4>1, ClosingHas DEF Mid
    <3>. QED BY <3>1, <3>2
  <2>3. commands \in Seq(Command) /\ PromptsOf(sent, FALSE) \in Seq(Command)
    <3>1. commands \in Seq(Command)
      BY DEF TypeOK
    <3>. QED BY <1>1, <3>1, RowsOfFacts
  <2>4. AskedOf(commands') = AskedOf(commands) \o sent
    BY <1>1, <1>2, <1>3, <2>3, AskedConcat, AskedAll
  <2>5. Messages(queue) \in Seq(Message) /\ AskedOf(commands) \in Seq(Message)
    BY LineTypes
  <2>6. (Messages(queue) \o AskedOf(commands)) \o sent = Messages(queue) \o (AskedOf(commands) \o sent)
    BY <1>1, <2>5, MessagesAssoc, Zenon
  <2>7. Behind' = Messages(queue) \o AskedOf(commands')
    BY <1>1 DEF Behind
  <2>8. Mid' = Mid \o sent
    BY <2>1, <2>2, <2>4, <2>6, <2>7 DEF Behind
  <2>. QED BY <2>8 DEF sent
<1>4. CASE Activated = "none"
  <2>1. Closing /\ Closing' /\ events # <<>>
    BY <1>4, RequestedLeft
  <2>2. PICK h : \E g : /\ Plays(h, events) /\ Shows(pending, h[1])
                        /\ Plays(g, events') /\ Shows(pending', g[1])
                        /\ \A i \in 1..Len(events) : g[i] = Extended(h[i], sent)
    BY <1>4, RequestedLeft
  <2>3. PICK g : /\ Plays(h, events) /\ Shows(pending, h[1])
                 /\ Plays(g, events') /\ Shows(pending', g[1])
                 /\ \A i \in 1..Len(events) : g[i] = Extended(h[i], sent)
    BY <2>2
  <2>. HIDE DEF sent
  <2>4. events \in Seq(Event) /\ events' \in Seq(Event) /\ pending \in Seq(Row) /\ pending' \in Seq(Row)
    BY DEF TypeOK
  <2>5. Len(events) \in 1..Len(events)
    BY <2>1, <2>4
  <2>6. LeftOver(pending, events) = h[Len(events)].ms
    BY <2>1, <2>3, <2>4, LeftOverIs
  <2>7. LeftOver(pending', events') = g[Len(events')].ms
    BY <1>1, <2>1, <2>3, <2>4, LeftOverIs
  <2>8. g[Len(events)].ms = h[Len(events)].ms \o sent
    <3>1. g[Len(events)] = Extended(h[Len(events)], sent)
      BY <2>3, <2>5
    <3>2. Extended(h[Len(events)], sent).ms = h[Len(events)].ms \o sent
      BY DEF Extended
    <3>. QED BY <3>1, <3>2
  <2>9. Mid = LeftOver(pending, events) /\ Mid' = LeftOver(pending', events')
    BY <2>1 DEF Mid
  <2>10. Mid' = Mid \o sent
    BY <1>1, <2>6, <2>7, <2>8, <2>9
  <2>. QED BY <2>10 DEF sent
<1>. QED BY <1>3, <1>4

\* The IDE's own prompts are never held: they go ahead of what is.
LEMMA RequestTextInLine ==
  ASSUME TypeOK, TypeOK', IInv, IInv', NoSlip, NEW m \in Message, RequestText(m)
  PROVE  Follows(Line', Line \o <<m>>, Out')
<1>. DEFINE sent == <<m>>
<1>1. /\ UNCHANGED <<queue, got, taken, reading, held>>
      /\ sent \in Seq(Message) /\ ToSet(sent) \subseteq Out'
  BY OneOnly DEF RequestText, hookVars, Out
<1>2. Mid' = Mid \o sent
  BY RequestedMid
<1>. HIDE DEF sent
<1>4. Mid \in Seq(Message) /\ Line \in Seq(Message) /\ <<>> \in Seq(Message) /\ Mid \o <<>> = Mid
  BY LineTypes, NoneBeside
<1>5. Follows(Mid \o sent, Mid \o <<>>, Out')
  <2>1. Follows(Mid, Mid, Out') /\ Follows(sent, <<>>, Out')
    BY <1>1, FollowsSelf, FollowsOut
  <2>. QED BY <1>1, <1>4, <2>1, FollowsConcat
<1>6. Follows(Mid', Mid, Out')
  BY <1>2, <1>4, <1>5
<1>7. InHand' = InHand
  BY <1>1 DEF InHand
<1>8. Follows(Line', Line, Out')
  BY <1>1, <1>6, <1>7, FollowsSelf, PartsFollow
<1>9. Follows(Line, Line \o sent, Out')
  BY <1>1, <1>4, FollowsEither
<1>10. Follows(Line', Line \o sent, Out')
  BY <1>8, <1>9, FollowsOn
<1>. QED BY <1>10 DEF sent

LEMMA EnvSettlesInLine == ASSUME TypeOK, TypeOK', IInv, IInv', EnvSettles PROVE Follows(Line', Line, Out')
<1>1. UNCHANGED <<queue, got, taken, reading, events>> /\ HearsLittle
  BY DEF EnvSettles, hookVars, ghosts, HearsLittle
<1>2. held \o <<>> = held /\ Line \o <<>> = Line /\ <<>> \in Seq(Message)
  BY LineTypes, NoneBeside
<1>3. CASE Flushes(held, "up", card)
  <2>1. Follows(Line', Line \o <<>>, Out')
    <3>. DEFINE sent == <<>>
    <3>1. sent \in Seq(Message) /\ Flushes(held \o sent, "up", card)
      BY <1>2, <1>3
    <3>. HIDE DEF sent
    <3>2. Follows(Line', Line \o sent, Out')
      BY <1>1, <3>1, FlushedLine
    <3>. QED BY <3>2 DEF sent
  <2>. QED BY <1>2, <2>1
<1>4. CASE UNCHANGED <<pending, held, card, stop, commands>>
  BY <1>1, <1>4, FollowsSelf, PaneLine
<1>. QED BY <1>3, <1>4 DEF EnvSettles

LEMMA HearsReadyInLine == ASSUME TypeOK, TypeOK', IInv, IInv', HearsReady PROVE Follows(Line', Line, Out')
<1>1. UNCHANGED <<queue, got, taken, reading>> /\ HearsLittle
  BY DEF HearsReady, hookVars, ghosts, HearsLittle
<1>2. held \o <<>> = held /\ Line \o <<>> = Line /\ <<>> \in Seq(Message)
  BY LineTypes, NoneBeside
<1>. DEFINE sent == <<>>
<1>3. sent \in Seq(Message) /\ Flushes(held \o sent, env, card)
  BY <1>2 DEF HearsReady
<1>4. Follows(Line', Line \o sent, Out')
  <2>. HIDE DEF sent
  <2>. QED BY <1>1, <1>3, FlushedLine
<1>. QED BY <1>2, <1>4

-----------------------------------------------------------------------------
(* What the pane hears leaves the line as it is, but for the task's end.    *)

LEMMA HeardLine ==
  ASSUME TypeOK, TypeOK', IInv, IInv', NEW is, Hears(is), is # "closed",
         UNCHANGED <<held, commands, queue, taken, reading, got>>,
         \A v, e : Hearing(v, e) /\ e.is = is => Shows(pending', After(v, e))
  PROVE  Follows(Line', Line, Out')
<1>1. PICK v, e : Hearing(v, e) /\ e.is = is
  BY HearingIs
<1>2. events # <<>> /\ events' = Tail(events)
  BY DEF Hears
<1>3. Mid' = Mid
  BY <1>1, <1>2, HearingMid
<1>4. InHand' = InHand
  BY DEF InHand
<1>. QED BY <1>3, <1>4, FollowsSelf, PartsFollow

LEMMA HearsGoneInLine ==
  ASSUME TypeOK, TypeOK', IInv, IInv', NEW is \in {"withdrawn", "taken"}, NEW says, HearsGone(is, says)
  PROVE  Follows(Line', Line, Out')
<1>1. Hears(is) /\ is # "closed" /\ UNCHANGED <<held, commands, queue, taken, reading, got>>
  BY DEF HearsGone, taskVars, hookVars, ghosts
<1>2. \A v, e : Hearing(v, e) /\ e.is = is => Shows(pending', After(v, e))
  BY HearsGoneIs
<1>. QED BY <1>1, <1>2, HeardLine

LEMMA HearsDroppedInLine == ASSUME TypeOK, TypeOK', IInv, IInv', HearsDropped PROVE Follows(Line', Line, Out')
<1>1. Hears("dropped") /\ UNCHANGED <<held, commands, queue, taken, reading, got>>
  BY DEF HearsDropped, taskVars, hookVars, ghosts
<1>2. \A v, e : Hearing(v, e) /\ e.is = "dropped" => Shows(pending', After(v, e))
  BY HearsDroppedIs
<1>. QED BY <1>1, <1>2, HeardLine

LEMMA HearsJoinedInLine == ASSUME TypeOK, TypeOK', IInv, IInv', HearsJoined PROVE Follows(Line', Line, Out')
<1>1. Hears("joined") /\ UNCHANGED <<held, commands, queue, taken, reading, got>>
  BY DEF HearsJoined, taskVars, hookVars, ghosts
<1>2. \A v, e : Hearing(v, e) /\ e.is = "joined" => Shows(pending', After(v, e))
  BY HearsJoinedIs
<1>. QED BY <1>1, <1>2, HeardLine

LEMMA HearsEndedInLine == ASSUME TypeOK, TypeOK', IInv, IInv', HearsEnded PROVE Follows(Line', Line, Out')
<1>1. Hears("ended") /\ UNCHANGED <<held, commands, queue, taken, reading, got>>
  BY DEF HearsEnded, taskVars, hookVars, ghosts
<1>2. \A v, e : Hearing(v, e) /\ e.is = "ended" => Shows(pending', After(v, e))
  BY HearsEndedIs
<1>. QED BY <1>1, <1>2, HeardLine

LEMMA HearsFailedInLine == ASSUME TypeOK, TypeOK', IInv, IInv', HearsFailed PROVE Follows(Line', Line, Out')
<1>1. Hears("failed") /\ UNCHANGED <<held, commands, queue, taken, reading, got>>
  BY DEF HearsFailed, taskVars, hookVars, ghosts
<1>2. \A v, e : Hearing(v, e) /\ e.is = "failed" => Shows(pending', After(v, e))
  BY HearsFailedIs
<1>. QED BY <1>1, <1>2, HeardLine

\* What is left of what waited is held ahead of what was held since, where it
\* stood in the line.
LEMMA HearsClosedInLine == ASSUME TypeOK, TypeOK', IInv, IInv', HearsClosed PROVE Follows(Line', Line, Out')
<1>. DEFINE goes == Minus(Left, Utility)
            p == got \o InHand
            h == held
<1>1. /\ events # <<>> /\ Head(events).is = "closed" /\ events' = <<>>
      /\ commands = <<>> /\ queue = <<>> /\ UNCHANGED <<commands, queue, taken, got>>
      /\ Left \in Seq(Message) /\ held' = goes \o held
  BY HearsClosedIs DEF ghosts
<1>2. reading' = reading
  BY DEF HearsClosed, hookVars
<1>3. pending \in Seq(Row) /\ events \in Seq(Event)
  BY DEF TypeOK
<1>4. Mid' = <<>>
  <2>1. ~Closing'
    BY <1>1, ClosingHasNext
  <2>2. AskedOf(<<>>) = <<>>
    <3>. DEFINE none == <<>>
    <3>1. none \in Seq(Command) /\ \A i \in 1..Len(none) : none[i].do # "prompt"
      BY EmptyTyped
    <3>. HIDE DEF none
    <3>2. AskedOf(none) = <<>>
      BY <3>1, AskedNone
    <3>. QED BY <3>2 DEF none
  <2>3. Messages(queue') = <<>> /\ AskedOf(commands') = <<>>
    BY <1>1, <2>2, NoneBeside
  <2>4. Behind' = <<>>
    BY <2>3, NoneBeside DEF Behind
  <2>. QED BY <2>1, <2>4 DEF Mid
<1>5. Mid = Messages(pending)
  <2>1. Head(events) = events[1] /\ 1 \in 1..Len(events) /\ Len(events) \in Nat
    BY <1>1, <1>3, TailAt, SMTT(60)
  <2>2. events[1].is = "closed"
    BY <1>1, <2>1
  <2>3. Closing /\ Len(events) = 1
    BY <2>1, <2>2 DEF Closing, IInv, Life
  <2>4. PICK g : Plays(g, events) /\ Shows(pending, g[1])
    BY DEF IInv, Matched, Replays
  <2>5. LeftOver(pending, events) = g[Len(events)].ms
    BY <1>1, <1>3, <2>4, LeftOverIs
  <2>. QED BY <2>3, <2>4, <2>5 DEF Mid, Shows
<1>6. Messages(pending) \in Seq(Message) /\ Once(Messages(pending))
  BY InvFacts
<1>7. Follows(Left, Messages(pending), Out')
  <2>1. CASE env = "moving"
    <3>. DEFINE ms == Messages(pending)
                n == Popped(pending)
    <3>1. Left = SubSeq(ms, n + 1, Len(ms))
      BY <1>3, <1>6, <2>1, RestFacts DEF Left
    <3>2. n \in 0..Len(ms)
      <4>1. \A r \in Row : r.msg \in Message
        BY DEF Row
      <4>2. Len(ms) = Len(pending)
        BY <1>3, <4>1, MessagesFacts
      <4>. QED BY <1>3, <4>2, PoppedFacts
    <3>. HIDE DEF ms, n
    <3>3. ms \in Seq(Message)
      BY <1>6 DEF ms
    <3>4. SubSeq(ms, 1, n) \in Seq(Message) /\ SubSeq(ms, n + 1, Len(ms)) \in Seq(Message)
          /\ ms = SubSeq(ms, 1, n) \o SubSeq(ms, n + 1, Len(ms))
      BY <3>2, <3>3, SplitAt
    <3>5. Follows(SubSeq(ms, n + 1, Len(ms)), SubSeq(ms, 1, n) \o SubSeq(ms, n + 1, Len(ms)), Out')
      BY <3>4, FollowsEither
    <3>6. Follows(Left, ms, Out')
      BY <3>1, <3>4, <3>5
    <3>. QED BY <3>6 DEF ms
  <2>2. CASE env # "moving"
    BY <2>2, FollowsSelf DEF Left
  <2>. QED BY <2>1, <2>2
<1>8. goes \in Seq(Message) /\ Follows(goes, Mid, Out')
  <2>1. goes \in Seq(Message) /\ Follows(goes, Left, Out')
    BY <1>1, MinusFacts, FollowsMinus
  <2>. HIDE DEF goes
  <2>. QED BY <1>5, <1>7, <2>1, FollowsOn
<1>9. p \in Seq(Message) /\ Mid \in Seq(Message) /\ h \in Seq(Message)
  BY LineTypes, ConcatFacts
<1>10. InHand' = InHand
  BY <1>1, <1>2 DEF InHand
<1>11. Line = (p \o Mid) \o h /\ Line' = (p \o <<>>) \o (goes \o h)
  BY <1>1, <1>4, <1>10 DEF Line
<1>. HIDE DEF goes, p, h
<1>12. p \o <<>> = p
  BY <1>9, NoneBeside
<1>13. p \o (goes \o h) = (p \o goes) \o h
  BY <1>8, <1>9, MessagesAssoc, Zenon
<1>14. Follows((p \o goes) \o h, (p \o Mid) \o h, Out')
  <2>1. Follows(p, p, Out') /\ Follows(h, h, Out')
    BY FollowsSelf
  <2>2. Follows(p \o goes, p \o Mid, Out') /\ p \o goes \in Seq(Message) /\ p \o Mid \in Seq(Message)
    BY <1>8, <1>9, <2>1, FollowsConcat, ConcatFacts
  <2>. QED BY <1>9, <2>1, <2>2, FollowsConcat
<1>. QED BY <1>11, <1>12, <1>13, <1>14

LEMMA HearsInLine == ASSUME TypeOK, TypeOK', IInv, IInv', HearsAny PROVE Follows(Line', Line, Out')
<1>1. ASSUME HearsGone("withdrawn", "NotSent") PROVE Follows(Line', Line, Out')
  BY <1>1, HearsGoneInLine
<1>2. ASSUME HearsGone("taken", "WithinTurn") PROVE Follows(Line', Line, Out')
  BY <1>2, HearsGoneInLine
<1>. QED BY <1>1, <1>2, HearsReadyInLine, HearsEndedInLine, HearsFailedInLine, HearsJoinedInLine,
            HearsDroppedInLine, HearsClosedInLine DEF HearsAny

-----------------------------------------------------------------------------
(* What a moving environment's task left.                                   *)

\* Where the environment took an agent down, the turn it was on is told to the
\* pane with what else was left: the end finds one at the front of the rest.
Kept == env = "moving" /\ Closing /\ pending # <<>> => LeftOver(pending, events) # <<>>

LEMMA LittleClosing == ASSUME TypeOK, TypeOK', HearsLittle, Closing' PROVE Closing
BY LittleIsHeard DEF Closing

LEMMA KeptOpen == ASSUME IInv', session' # "none" PROVE Kept'
BY MidOpenNext DEF Kept

LEMMA KeptStays == ASSUME Kept, UNCHANGED <<pending, events, env>> PROVE Kept'
BY DEF Kept, Closing, LeftOver

LEMMA HeardKept ==
  ASSUME TypeOK, TypeOK', IInv, IInv', Kept, NEW is, Hears(is), is # "closed", UNCHANGED <<queue, commands, env>>,
         \A v, e : Hearing(v, e) /\ e.is = is => Shows(pending', After(v, e))
  PROVE  Kept'
<1>. SUFFICES ASSUME env' = "moving", Closing', pending' # <<>> PROVE LeftOver(pending', events') # <<>>
  BY DEF Kept
<1>1. PICK v, e : Hearing(v, e) /\ e.is = is
  BY HearingIs
<1>2. events # <<>> /\ events' = Tail(events) /\ events \in Seq(Event) /\ pending \in Seq(Row) /\ pending' \in Seq(Row)
  BY DEF Hears, TypeOK
<1>3. Mid' = Mid
  BY <1>1, <1>2, HearingMid
<1>4. Closing
  <2>1. \A i \in 1..Len(events') : events'[i] = events[i + 1] /\ i + 1 \in 1..Len(events)
    BY <1>2, TailAt
  <2>. QED BY <2>1 DEF Closing
<1>5. pending # <<>>
  <2>1. ToSet(Messages(pending')) \subseteq ToSet(Messages(pending))
    BY <1>1, <1>2, HearingShows
  <2>2. pending'[1].msg \in ToSet(Messages(pending'))
    <3>1. 1 \in 1..Len(pending') /\ \A r \in Row : r.msg \in Message
      BY <1>2 DEF Row
    <3>2. Messages(pending') \in Seq(Message) /\ Len(Messages(pending')) = Len(pending')
          /\ Messages(pending')[1] = pending'[1].msg
      BY <1>2, <3>1, MessagesFacts
    <3>. QED BY <3>1, <3>2, ToSetIs
  <2>. QED BY <2>1, <2>2, NothingIn
<1>6. LeftOver(pending, events) # <<>>
  BY <1>4, <1>5 DEF Kept
<1>. QED BY <1>3, <1>4, <1>6 DEF Mid

LEMMA HearsKept == ASSUME TypeOK, TypeOK', IInv, IInv', Kept, HearsAny PROVE Kept'
<1>1. ASSUME NEW is \in {"withdrawn", "taken"}, NEW says, HearsGone(is, says) PROVE Kept'
  <2>1. Hears(is) /\ is # "closed" /\ UNCHANGED <<queue, commands, env>>
    BY <1>1 DEF HearsGone, taskVars
  <2>2. \A v, e : Hearing(v, e) /\ e.is = is => Shows(pending', After(v, e))
    BY <1>1, HearsGoneIs
  <2>. QED BY <2>1, <2>2, HeardKept
<1>2. CASE HearsDropped
  <2>1. Hears("dropped") /\ UNCHANGED <<queue, commands, env>>
    BY <1>2 DEF HearsDropped, taskVars
  <2>2. \A v, e : Hearing(v, e) /\ e.is = "dropped" => Shows(pending', After(v, e))
    BY <1>2, HearsDroppedIs
  <2>. QED BY <2>1, <2>2, HeardKept
<1>3. CASE HearsJoined
  <2>1. Hears("joined") /\ UNCHANGED <<queue, commands, env>>
    BY <1>3 DEF HearsJoined, taskVars
  <2>2. \A v, e : Hearing(v, e) /\ e.is = "joined" => Shows(pending', After(v, e))
    BY <1>3, HearsJoinedIs
  <2>. QED BY <2>1, <2>2, HeardKept
<1>4. CASE HearsEnded
  <2>1. Hears("ended") /\ UNCHANGED <<queue, commands, env>>
    BY <1>4 DEF HearsEnded, taskVars
  <2>2. \A v, e : Hearing(v, e) /\ e.is = "ended" => Shows(pending', After(v, e))
    BY <1>4, HearsEndedIs
  <2>. QED BY <2>1, <2>2, HeardKept
<1>5. CASE HearsFailed
  <2>1. Hears("failed") /\ UNCHANGED <<queue, commands, env>>
    BY <1>5 DEF HearsFailed, taskVars
  <2>2. \A v, e : Hearing(v, e) /\ e.is = "failed" => Shows(pending', After(v, e))
    BY <1>5, HearsFailedIs
  <2>. QED BY <2>1, <2>2, HeardKept
<1>6. CASE HearsReady
  <2>1. Hears("ready") /\ env' = env /\ queue' = queue
    BY <1>6 DEF HearsReady
  <2>2. CASE env' # "moving"
    BY <2>2 DEF Kept
  <2>3. CASE env' = "moving"
    <3>1. UNCHANGED <<pending, commands, queue, env>>
      BY <1>6, <2>1, <2>3 DEF HearsReady, Flushes
    <3>2. \A v, e : Hearing(v, e) /\ e.is = "ready" => Shows(pending', After(v, e))
      BY <3>1 DEF Hearing, After
    <3>. QED BY <2>1, <3>1, <3>2, HeardKept
  <2>. QED BY <2>2, <2>3
<1>7. CASE HearsClosed
  <2>1. events' = <<>>
    BY <1>7, HearsClosedIs
  <2>. QED BY <2>1, ClosingHasNext DEF Kept
<1>8. ASSUME HearsGone("withdrawn", "NotSent") PROVE Kept'
  BY <1>1, <1>8
<1>9. ASSUME HearsGone("taken", "WithinTurn") PROVE Kept'
  BY <1>1, <1>9
<1>. QED BY <1>2, <1>3, <1>4, <1>5, <1>6, <1>7, <1>8, <1>9 DEF HearsAny

\* A task's end leaves its turn, where it is not told of before.
LEMMA EndsKept ==
  ASSUME TypeOK, TypeOK', IInv, IInv', NEW failed \in BOOLEAN, failed => turn # <<>>, Ends(failed),
         env' = "moving" => ~Loses(failed)
  PROVE  Kept'
<1>. SUFFICES ASSUME env' = "moving", Closing', pending' # <<>> PROVE LeftOver(pending', events') # <<>>
  BY DEF Kept
<1>1. ~failed /\ turn # <<>>
  BY DEF Loses, Ends, paneVars
<1>2. Mid' = turn \o Behind
  BY <1>1, EndsLeave
<1>3. turn \in Seq(Message) /\ Behind \in Seq(Message)
  BY LineTypes DEF TypeOK
<1>4. turn \o Behind # <<>>
  <2>1. Len(turn \o Behind) = Len(turn) + Len(Behind) /\ Len(turn) \in Nat /\ Len(Behind) \in Nat /\ Len(turn) # 0
    BY <1>1, <1>3
  <2>2. Len(turn \o Behind) # 0
    BY <2>1
  <2>3. Len(<<>>) = 0
    OBVIOUS
  <2>. QED BY <2>2, <2>3
<1>. QED BY <1>2, <1>4 DEF Mid

LEMMA RequestTextKept ==
  ASSUME TypeOK, TypeOK', IInv, IInv', NoSlip, NEW m \in Message, RequestText(m)
  PROVE  Kept'
<1>. SUFFICES ASSUME Closing' PROVE LeftOver(pending', events') # <<>>
  BY DEF Kept
<1>. DEFINE sent == <<m>>
<1>1. Mid' = Mid \o sent /\ Mid \in Seq(Message) /\ sent \in Seq(Message) /\ Len(sent) = 1
  BY RequestedMid, LineTypes
<1>. HIDE DEF sent
<1>2. Len(Mid \o sent) = Len(Mid) + 1 /\ Len(Mid) \in Nat
  <2>1. \A a, b \in Seq(Message) : Len(a \o b) = Len(a) + Len(b) /\ Len(a) \in Nat
    BY ConcatFacts
  <2>. QED BY <1>1, <2>1
<1>3. Mid' # <<>>
  <2>1. Len(<<>>) = 0
    OBVIOUS
  <2>. QED BY <1>1, <1>2, <2>1
<1>. QED BY <1>3 DEF Mid

LEMMA StepKept == ASSUME TypeOK, TypeOK', IInv, IInv', NoSlip, Kept, [Next]_vars PROVE Kept'
<1>1. ASSUME NEW m \in Message, Send(m) PROVE Kept'
  <2>1. UNCHANGED <<events, env>>
    BY <1>1 DEF Send
  <2>2. pending' = pending \/ session' # "none"
    BY <1>1 DEF Send, Flushes, HandsOver
  <2>. QED BY <2>1, <2>2, KeptOpen, KeptStays
<1>2. ASSUME NEW m \in Message, RequestText(m) PROVE Kept'
  BY <1>2, RequestTextKept
<1>3. ASSUME NEW m \in Message, Withdraws(m) \/ Expedites(m) \/ GoesFirst(m) PROVE Kept'
  BY <1>3, KeptStays DEF Withdraws, Expedites, GoesFirst
<1>4. ASSUME StopsAll \/ Asks \/ Reads \/ Reconnects PROVE Kept'
  BY <1>4, KeptStays DEF StopsAll, Asks, Reads, Reconnects, paneVars
<1>5. ASSUME Replaces PROVE Kept'
  BY <1>5, KeptOpen DEF Replaces
<1>6. ASSUME GivesBack PROVE Kept'
  <2>1. UNCHANGED <<events, env, session>> /\ (pending' = pending \/ session # "none")
    BY <1>6 DEF GivesBack, taskVars
  <2>. QED BY <2>1, KeptOpen, KeptStays
<1>7. ASSUME Readies \/ TakesNext \/ Receives \/ Serves \/ TurnEnds \/ TurnFails PROVE Kept'
  <2>1. session' # "none"
    BY <1>7 DEF Readies, TakesNext, Receives, Serves, TurnEnds, TurnFails, IInv, Life
  <2>. QED BY <2>1, KeptOpen
<1>8. ASSUME NEW failed \in BOOLEAN, Dies(failed) PROVE Kept'
  <2>1. ~(env = "moving" /\ Loses(failed))
    BY <1>8, SlipsNot DEF Dies
  <2>. QED BY <1>8, <2>1, EndsKept DEF Dies
<1>9. ASSUME NEW failed \in BOOLEAN, EnvMoves(failed) PROVE Kept'
  <2>1. CASE Ends(failed) /\ Spends({"fault"} \cup Slips(Loses(failed)))
    <3>1. ~Loses(failed)
      BY <2>1, SlipsNot
    <3>. QED BY <1>9, <2>1, <3>1, EndsKept DEF EnvMoves
  <2>2. CASE /\ Spends({"fault"} \cup Slips(session = "none" /\ Loses(FALSE)))
             /\ UNCHANGED <<paneVars, commands, events, taskVars, hookVars, ghosts>>
    <3>1. ~(session = "none" /\ Loses(FALSE))
      BY <2>2, SlipsNot
    <3>2. CASE session # "none"
      <4>1. session' # "none"
        BY <2>2, <3>2 DEF taskVars
      <4>. QED BY <4>1, KeptOpen
    <3>3. CASE session = "none"
      <4>1. pending = <<>>
        BY <3>1, <3>3 DEF Loses, IInv, Life
      <4>. QED BY <2>2, <4>1 DEF Kept, paneVars
    <3>. QED BY <3>2, <3>3
  <2>. QED BY <1>9, <2>1, <2>2 DEF EnvMoves
<1>10. ASSUME EnvSettles PROVE Kept'
  BY <1>10 DEF EnvSettles, Kept
<1>11. ASSUME HearsAny PROVE Kept'
  BY <1>11, HearsKept
<1>12. ASSUME UNCHANGED vars PROVE Kept'
  BY <1>12, KeptStays DEF vars, paneVars
<1>. QED BY <1>1, <1>2, <1>3, <1>4, <1>5, <1>6, <1>7, <1>8, <1>9, <1>10, <1>11, <1>12 DEF Next

-----------------------------------------------------------------------------
(* The IDE's own prompts.                                                   *)

\* What is told of a task that has ended is as it was, with more behind it.
LEMMA RequestedFated ==
  ASSUME TypeOK, TypeOK', IInv, TInv, NoSlip, Kept, NEW m \in Message, RequestText(m), Activated = "none"
  PROVE  Fated'
<1>. DEFINE sent == <<m>>
            had == ToSet(got)
            tk == ToSet(taken)
<1>1. /\ UNCHANGED <<events, got, undone, taken, env>> /\ Closing /\ events # <<>>
      /\ sent \in Seq(Message) /\ ToSet(sent) = {m}
      /\ env = "moving" => pending # <<>>
  BY RequestedLeft, OneOnly DEF RequestText, hookVars
<1>2. m \notin had
  BY DEF TInv, Sent, RequestText
<1>3. events \in Seq(Event) /\ pending \in Seq(Row) /\ Len(events) \in Nat
  BY DEF TypeOK
<1>4. PICK h : \E g : /\ Plays(h, events) /\ Shows(pending, h[1])
                      /\ Plays(g, events') /\ Shows(pending', g[1])
                      /\ \A i \in 1..Len(events) : g[i] = Extended(h[i], sent)
  BY RequestedLeft
<1>5. PICK g : /\ Plays(h, events) /\ Shows(pending, h[1])
               /\ Plays(g, events') /\ Shows(pending', g[1])
               /\ \A i \in 1..Len(events) : g[i] = Extended(h[i], sent)
  BY <1>4
<1>. HIDE DEF sent
<1>6. Fates(h, events, had, undone, tk, env = "moving")
  BY <1>5 DEF TInv, Fated
<1>7. env = "moving" => h[Len(events)].ms # <<>>
  <2>1. LeftOver(pending, events) = h[Len(events)].ms
    BY <1>1, <1>3, <1>5, LeftOverIs
  <2>. QED BY <1>1, <2>1 DEF Kept
<1>8. ASSUME NEW i \in 1..Len(events)
      PROVE  Fate(g[i], events[i], had, undone, tk, env = "moving")
  <2>1. /\ Fate(h[i], events[i], had, undone, tk, env = "moving")
        /\ i \in 1..(Len(events) + 1)
    BY <1>3, <1>6 DEF Fates
  <2>2. Proper(h[i]) /\ Meant(h[i], events[i]) /\ h[i] \in View
    BY <1>3, <1>5, <2>1, PlaysTypes
  <2>3. g[i].k = h[i].k /\ g[i].ms = h[i].ms \o sent
    <3>1. g[i] = Extended(h[i], sent)
      BY <1>5
    <3>2. Extended(h[i], sent).k = h[i].k /\ Extended(h[i], sent).ms = h[i].ms \o sent
      BY DEF Extended
    <3>. QED BY <3>1, <3>2
  <2>4. /\ h[i].ms \in Seq(Message) /\ h[i].k \in Nat /\ Len(h[i].ms) \in Nat
        /\ h[i].k = 1 \/ h[i].k \in 2..Len(h[i].ms)
    BY <2>2 DEF Proper, View
  <2>5. ASSUME h[i].ms # <<>>, NEW p \in 1..h[i].k
        PROVE  p \in 1..Len(h[i].ms) /\ p <= h[i].k /\ g[i].ms[p] = h[i].ms[p]
    <3>1. Len(h[i].ms) >= 1
      BY <2>4, <2>5
    <3>2. p \in 1..Len(h[i].ms) /\ p <= h[i].k
      BY <2>4, <3>1
    <3>. QED BY <1>1, <2>3, <2>4, <3>2, ConcatFacts
  <2>6. events[i].is \in {"ended", "failed"} => \A p \in 1..g[i].k : g[i].ms[p] \in had
    <3>1. events[i].is \in {"ended", "failed"} => h[i].ms # <<>>
      BY <2>2 DEF Meant
    <3>. QED BY <2>1, <2>3, <2>5, <3>1 DEF Fate
  <2>7. ASSUME events[i].is = "closed"
        PROVE  /\ ToSet(g[i].ms) \cap had \subseteq undone
               /\ env = "moving" => \A p \in 1..Len(g[i].ms) : p <= g[i].k => g[i].ms[p] \in had
    <3>1. ToSet(g[i].ms) = ToSet(h[i].ms) \cup {m}
      <4>1. \A a, b \in Seq(Message) : ToSet(a \o b) = ToSet(a) \cup ToSet(b)
        BY ToSetConcat
      <4>. QED BY <1>1, <2>3, <2>4, <4>1
    <3>2. ToSet(h[i].ms) \cap had \subseteq undone
          /\ (env = "moving" => \A p \in 1..Len(h[i].ms) : p <= h[i].k => h[i].ms[p] \in had)
      BY <2>1, <2>7 DEF Fate
    <3>3. i = Len(events)
      BY <2>7 DEF IInv, Life
    <3>4. ASSUME env = "moving", NEW p \in 1..Len(g[i].ms), p <= g[i].k PROVE g[i].ms[p] \in had
      <4>1. h[i].ms # <<>>
        BY <1>7, <3>3, <3>4
      <4>2. p \in 1..h[i].k
        BY <2>3, <2>4, <3>4
      <4>. QED BY <2>5, <3>2, <3>4, <4>1, <4>2
    <3>. QED BY <1>2, <3>1, <3>2, <3>4
  <2>. QED BY <2>1, <2>6, <2>7 DEF Fate
<1>9. Fates(g, events', ToSet(got'), undone', ToSet(taken'), env' = "moving")
  BY <1>1, <1>8 DEF Fates
<1>. QED BY <1>5, <1>9, FatedBy

LEMMA RequestTextTruly ==
  ASSUME TypeOK, TypeOK', IInv, TInv, NoSlip, Kept, NEW m \in Message, RequestText(m)
  PROVE  TInv'
<1>. DEFINE ms == <<m>>
<1>1. /\ m \notin ToSet(Messages(pending)) /\ m \notin ToSet(held) /\ m \notin ToSet(taken) /\ card[m] = None
      /\ m \notin ToSet(got)
  BY SentIsApart DEF RequestText, TInv, Sent
<1>2. \A i \in 1..Len(events') : events'[i].is \notin {"dropped", "failed"}
  <2>1. Spends({} \cup Slips(Dropping \/ Failing \/ Passing))
    BY DEF RequestText
  <2>2. ~(Dropping \/ Failing \/ Passing)
    BY <2>1, SlipsNot
  <2>. QED BY <2>2, Outlook DEF RequestText
<1>3. Calm /\ UNCHANGED <<turn, queue, taken, held>>
  BY DEF RequestText, Calm, HearsLittle, hookVars
<1>4. /\ ms \in Seq(Message) /\ ms # <<>> /\ Once(ms) /\ ToSet(ms) = {m}
      /\ pending' = pending \o RowsOf(ms, FALSE)
      /\ commands' = IF Activated = "none" THEN commands ELSE commands \o PromptsOf(ms, FALSE)
      /\ \A n \in Message : card'[n] = IF n = m THEN "Sent" ELSE card[n]
  BY RequestTextIs, OneOnly
<1>5. CASE Activated # "none"
  <2>. HIDE DEF ms
  <2>1. Parted(ms)
    BY <1>1, <1>3, <1>4 DEF Parted
  <2>2. \A n \in Message : IF n \in ToSet(ms) THEN card'[n] \in {"Queued", "Sent"} ELSE card'[n] = card[n]
    BY <1>4
  <2>. QED BY <1>2, <1>3, <1>4, <1>5, <2>1, <2>2, SentTruly
<1>6. CASE Activated = "none"
  <2>1. Fated'
    BY <1>6, RequestedFated
  <2>2. Way' = Way
    BY <1>3, <1>4, <1>6 DEF Way
  <2>3. WaitedOn' = WaitedOn \cup {m}
    <3>1. pending \in Seq(Row)
      BY DEF TypeOK
    <3>2. Messages(pending') = Messages(pending) \o ms /\ Messages(pending) \in Seq(Message)
      BY <1>4, <3>1, RowsSent, RowsFacts
    <3>. HIDE DEF ms
    <3>3. ToSet(Messages(pending')) = ToSet(Messages(pending)) \cup {m}
      <4>1. \A a, b \in Seq(Message) : ToSet(a \o b) = ToSet(a) \cup ToSet(b)
        BY ToSetConcat
      <4>2. ms \in Seq(Message) /\ ToSet(ms) = {m}
        BY <1>4
      <4>. QED BY <3>2, <4>1, <4>2
    <3>. QED BY <1>3, <3>3 DEF WaitedOn
  <2>4. ASSUME NEW n \in Message PROVE Newly(n) \/ AsBefore(n)
    <3>1. CASE n = m
      <4>1. card'[n] = "Sent" /\ "Sent" # None
        BY <1>4, <3>1, ChatAssumption DEF Waiting
      <4>. QED BY <2>3, <3>1, <4>1 DEF Newly
    <3>2. CASE n # m
      <4>1. card'[n] = card[n]
        BY <1>4, <3>2
      <4>. QED BY <1>3, <2>2, <2>3, <4>1 DEF AsBefore
    <3>. QED BY <3>1, <3>2
  <2>5. NotYet' /\ Sent' /\ SaidTruly'
    BY <1>3, <2>2, <2>4, SaysSo DEF TInv, Calm
  <2>. QED BY <2>1, <2>5 DEF TInv
<1>. QED BY <1>5, <1>6

-----------------------------------------------------------------------------
(* The cards' theorem.                                                      *)

LEMMA InitTruly == Init => TInv
<1>. SUFFICES ASSUME Init PROVE TInv
  OBVIOUS
<1>1. /\ Len(events) = 0 /\ got = <<>> /\ turn = <<>> /\ DOMAIN got = {}
      /\ \A m \in Message : card[m] = None
      /\ None \notin Waiting \cup {"NotSent", "Taken", "WithinTurn"}
  BY ChatAssumption DEF Init, Waiting, Settled
<1>2. ToSet(got) = {} /\ ToSet(turn) = {}
  BY <1>1 DEF ToSet
<1>3. Fated
  <2>1. ~\E i \in 1..Len(events) : TRUE
    BY <1>1
  <2>. QED BY <2>1 DEF Fated, Fates
<1>4. SaidTruly
  BY <1>1 DEF SaidTruly
<1>. QED BY <1>2, <1>3, <1>4 DEF TInv, NotYet, Sent

LEMMA StepTruly == ASSUME TypeOK, TypeOK', IInv, TInv, NoSlip, Kept, [Next]_vars PROVE TInv'
<1>1. ASSUME NEW m \in Message,
             Send(m) \/ RequestText(m) \/ Withdraws(m) \/ Expedites(m) \/ GoesFirst(m)
      PROVE  TInv'
  BY <1>1, SendTruly, RequestTextTruly, WithdrawsTruly, ExpeditesTruly, GoesFirstTruly
<1>2. ASSUME StopsAll \/ Replaces \/ Asks \/ Reads \/ GivesBack PROVE TInv'
  BY <1>2, StopsAllTruly, ReplacesTruly, AsksTruly, ReadsTruly, GivesBackTruly
<1>3. ASSUME Readies \/ TakesNext \/ Receives \/ Serves \/ TurnEnds \/ TurnFails PROVE TInv'
  BY <1>3, ReadiesTruly, TakesNextTruly, ReceivesTruly, ServesTruly, TurnEndsTruly, TurnFailsTruly
<1>4. ASSUME NEW failed \in BOOLEAN, Dies(failed) \/ EnvMoves(failed) PROVE TInv'
  BY <1>4, DiesTruly, EnvMovesTruly
<1>5. ASSUME EnvSettles \/ HearsAny \/ Reconnects PROVE TInv'
  BY <1>5, EnvSettlesTruly, HearsTruly, ReconnectsTruly
<1>6. ASSUME UNCHANGED vars PROVE TInv'
  <2>1. UNCHANGED <<pending, held, card, env, commands, events, turn, queue, taken, got, undone>>
    BY <1>6 DEF vars, paneVars, taskVars, hookVars, ghosts
  <2>2. Fated'
    BY <2>1 DEF TInv, Fated
  <2>3. NotYet' /\ Sent'
    BY <2>1 DEF TInv, NotYet, Sent, Way
  <2>4. SaidTruly'
    BY <2>1 DEF TInv, SaidTruly, WaitedOn, OnItsWay
  <2>. QED BY <2>2, <2>3, <2>4 DEF TInv
<1>. QED BY <1>1, <1>2, <1>3, <1>4, <1>5, <1>6 DEF Next

\* A card says never sent only of what has not reached the agent and never
\* will, taken only of what has or is waited on still, and waiting only of what
\* is waited on; and nothing reaches the agent twice but what one died with.
THEOREM CardsSayTruly == ASSUME Budget["slip"] = 0 PROVE Spec => []SaidTruly
<1>. DEFINE Inv == IInv /\ NoSlip /\ TInv /\ Kept
<1>1. Init => Inv
  <2>1. Init => NoSlip
    BY DEF Init, NoSlip
  <2>2. Init => Kept
    BY DEF Init, Kept
  <2>. QED BY <2>1, <2>2, InitHolds, InitTruly
<1>2. TypeOK /\ TypeOK' /\ Inv /\ [Next]_vars => Inv'
  BY StepKeeps, NoSlipKeeps, StepTruly, StepKept
<1>3. Inv => SaidTruly
  BY DEF TInv
<1>. HIDE DEF Inv
<1>. QED BY <1>1, <1>2, <1>3, TypeCorrect, PTL DEF Spec

-----------------------------------------------------------------------------
(* Messages reach the agent in the order they were written.                 *)

LEMMA CardsSay ==
  ASSUME NEW ms, NEW says \in Waiting \cup Settled
  PROVE  \A m \in Message : m \in ms \/ card[m] # None => Cards(ms, says)[m] # None
<1>1. says # None
  BY ChatAssumption
<1>. QED BY <1>1, CardsAre

LEMMA HandsOverSays ==
  ASSUME NEW ms \in Seq(Message), NEW named, HandsOver(ms, named)
  PROVE  \A m \in Message : m \in ToSet(ms) \/ card[m] # None => card'[m] # None
<1>1. {"NotSent", "Queued", "Sent"} \subseteq Waiting \cup Settled
  BY DEF Waiting, Settled
<1>2. CASE card' = Cards(ToSet(ms), "NotSent")
  BY <1>1, <1>2, CardsSay
<1>3. CASE card' = [Cards(ToSet(ms), "Queued") EXCEPT ![Head(ms)] = IF stop THEN "Queued" ELSE "Sent"]
  <2>1. \A m \in Message : m \in ToSet(ms) \/ card[m] # None => Cards(ToSet(ms), "Queued")[m] # None
    BY <1>1, CardsSay
  <2>. DEFINE c == Cards(ToSet(ms), "Queued")
              says == IF stop THEN "Queued" ELSE "Sent"
  <2>2. DOMAIN c = Message /\ says # None
    BY <1>1, ChatAssumption DEF Cards
  <2>3. card' = [c EXCEPT ![Head(ms)] = says]
    BY <1>3
  <2>. HIDE DEF c, says
  <2>4. \A m \in Message : card'[m] = IF m = Head(ms) THEN says ELSE c[m]
    BY <2>2, <2>3
  <2>. QED BY <2>1, <2>2, <2>4 DEF c
<1>. QED BY <1>2, <1>3 DEF HandsOver

LEMMA FlushesSays ==
  ASSUME NEW ms \in Seq(Message), NEW at, NEW otherwise, Flushes(ms, at, otherwise),
         NEW new, \A m \in Message : m \in new \/ card[m] # None => otherwise[m] # None, new \subseteq ToSet(ms)
  PROVE  \A m \in Message : m \in new \/ card[m] # None => card'[m] # None
<1>1. CASE HandsOver(ms, TRUE)
  <2>1. \A m \in Message : m \in ToSet(ms) \/ card[m] # None => card'[m] # None
    BY <1>1, HandsOverSays
  <2>. QED BY <2>1
<1>2. CASE card' = otherwise
  BY <1>2
<1>. QED BY <1>1, <1>2 DEF Flushes

LEMMA SendSays == ASSUME TypeOK, NEW m \in Message, Send(m) PROVE CardsStay /\ card'[m] # None
<1>1. "Held" \in Waiting \cup Settled /\ held \in Seq(Message)
  BY DEF Waiting, TypeOK
<1>2. CASE HandsOver(<<m>>, stop)
  <2>. DEFINE ms == <<m>>
  <2>1. ms \in Seq(Message) /\ ToSet(ms) = {m} /\ HandsOver(ms, stop)
    BY <1>2, OneOnly
  <2>. HIDE DEF ms
  <2>. QED BY <2>1, HandsOverSays DEF CardsStay
<1>3. CASE Flushes(Append(held, m), env, Cards({m}, "Held"))
  <2>. DEFINE ms == Append(held, m)
              otherwise == Cards({m}, "Held")
  <2>1. ms \in Seq(Message) /\ {m} \subseteq ToSet(ms)
    <3>1. ms \in Seq(Message) /\ Len(held) + 1 \in 1..Len(ms) /\ ms[Len(held) + 1] = m
      BY <1>1, AppendAt
    <3>. HIDE DEF ms
    <3>. QED BY <3>1, ToSetIs
  <2>2. \A x \in Message : x \in {m} \/ card[x] # None => otherwise[x] # None
    BY <1>1, CardsSay
  <2>3. Flushes(ms, env, otherwise)
    BY <1>3
  <2>. HIDE DEF ms, otherwise
  <2>4. \A x \in Message : x \in {m} \/ card[x] # None => card'[x] # None
    BY <2>1, <2>2, <2>3, FlushesSays
  <2>. QED BY <2>4 DEF CardsStay
<1>. QED BY <1>2, <1>3 DEF Send

LEMMA RequestTextSays == ASSUME TypeOK, NEW m \in Message, RequestText(m) PROVE CardsStay /\ card'[m] # None
<1>1. "Sent" # None
  BY ChatAssumption DEF Waiting
<1>2. \A n \in Message : card'[n] = IF n = m THEN "Sent" ELSE card[n]
  BY RequestTextIs
<1>. QED BY <1>1, <1>2 DEF CardsStay

LEMMA HeldSays ==
  ASSUME TypeOK, NEW at, Flushes(held, at, card)
  PROVE  CardsStay
<1>1. held \in Seq(Message)
  BY DEF TypeOK
<1>2. \A m \in Message : m \in {} \/ card[m] # None => card'[m] # None
  BY <1>1, FlushesSays
<1>. QED BY <1>2 DEF CardsStay

LEMMA SaysOf ==
  ASSUME NEW ms, NEW says \in Waiting \cup Settled, card' = Cards(ms, says)
  PROVE  CardsStay
BY CardsSay DEF CardsStay

LEMMA HearsSays == ASSUME TypeOK, TypeOK', IInv, HearsAny PROVE CardsStay
<1>0. {"Taken", "NotSent", "WithinTurn", "Refused", "Held", "Lost"} \subseteq Waiting \cup Settled
  BY DEF Waiting, Settled
<1>1. ASSUME HearsReady PROVE CardsStay
  BY <1>1, HeldSays DEF HearsReady
<1>2. ASSUME HearsEnded PROVE CardsStay
  <2>1. \A m \in Message : card[m] # None => Cards(Turn(pending), "Taken")[m] # None
    BY <1>0, CardsSay
  <2>. DEFINE says == Cards(Turn(pending), "Taken")
              rows == Rest(pending)
  <2>2. card' = [m \in Message |-> IF rows # <<>> /\ rows[1].waits /\ m = rows[1].msg THEN "Taken" ELSE says[m]]
    BY <1>2 DEF HearsEnded, Accepts
  <2>3. "Taken" # None
    BY <1>0, ChatAssumption
  <2>4. \A m \in Message : card[m] # None => says[m] # None
    BY <2>1
  <2>. HIDE DEF says, rows
  <2>5. \A m \in Message : card'[m] = "Taken" \/ card'[m] = says[m]
    BY <2>2
  <2>. QED BY <2>3, <2>4, <2>5 DEF CardsStay
<1>3. ASSUME HearsFailed PROVE CardsStay
  <2>. DEFINE says == IF env = "moving" THEN "Taken" ELSE "Refused"
  <2>1. says \in Waiting \cup Settled /\ card' = Cards(Turn(pending), says)
    BY <1>0, <1>3 DEF HearsFailed
  <2>. HIDE DEF says
  <2>. QED BY <2>1, SaysOf
<1>4. ASSUME HearsJoined PROVE CardsStay
  <2>1. \E ms : card' = Cards(ms, "Taken")
    BY <1>4 DEF HearsJoined
  <2>. QED BY <1>0, <2>1, SaysOf
<1>5. ASSUME HearsDropped PROVE CardsStay
  <2>1. \E ms : card' = Cards(ms, "NotSent")
    BY <1>5 DEF HearsDropped
  <2>. QED BY <1>0, <2>1, SaysOf
<1>6. ASSUME NEW is, NEW says \in {"NotSent", "WithinTurn"}, HearsGone(is, says) PROVE CardsStay
  <2>1. \E ms : card' = Cards(ms, says)
    BY <1>6 DEF HearsGone
  <2>. QED BY <1>0, <2>1, SaysOf
<1>7. ASSUME HearsClosed PROVE CardsStay
  <2>1. card' = [m \in Message |->
                   CASE m \in (IF env = "moving" THEN Turn(pending) ELSE {}) -> "Taken"
                     [] m \in ToSet(Left) \cap Utility -> "Lost"
                     [] m \in ToSet(Left) \ (ToSet(Left) \cap Utility) -> "Held"
                     [] OTHER -> card[m]]
    BY <1>7, HearsClosedIs
  <2>2. \A m \in Message : card'[m] \in {"Taken", "Lost", "Held"} \/ card'[m] = card[m]
    BY <2>1
  <2>3. None \notin {"Taken", "Lost", "Held"}
    BY <1>0, ChatAssumption
  <2>. QED BY <2>2, <2>3 DEF CardsStay
<1>. QED BY <1>1, <1>2, <1>3, <1>4, <1>5, <1>6, <1>7 DEF HearsAny

\* What has a card keeps one, and what is out of order stays so.
LEMMA StepSays ==
  ASSUME TypeOK, TypeOK', IInv, [Next]_vars
  PROVE  CardsStay /\ moved \subseteq moved' /\ undone \subseteq undone'
<1>1. ASSUME NEW m \in Message, Send(m) \/ RequestText(m) PROVE CardsStay /\ UNCHANGED <<moved, undone>>
  BY <1>1, SendSays, RequestTextSays DEF Send, RequestText
<1>0. {"NotSent", "Queued"} \subseteq Waiting \cup Settled
  BY DEF Waiting, Settled
<1>2. ASSUME NEW m \in Message, Withdraws(m) \/ Expedites(m) \/ GoesFirst(m)
      PROVE  CardsStay /\ moved \subseteq moved' /\ undone' = undone
  <2>1. card' = card \/ \E ms : card' = Cards(ms, "NotSent")
    BY <1>2 DEF Withdraws, Expedites, GoesFirst
  <2>2. CardsStay
    BY <1>0, <2>1, SaysOf DEF CardsStay
  <2>. QED BY <1>2, <2>2 DEF Withdraws, Expedites, GoesFirst, ghosts
<1>3. ASSUME StopsAll \/ Replaces \/ Asks \/ Reads \/ GivesBack
      PROVE  CardsStay /\ moved \subseteq moved' /\ undone \subseteq undone'
  <2>1. card' = card \/ \E ms : \E says \in {"NotSent", "Queued"} : card' = Cards(ms, says)
    BY <1>3 DEF StopsAll, Replaces, Asks, Reads, GivesBack, paneVars
  <2>2. CardsStay
    BY <1>0, <2>1, SaysOf DEF CardsStay
  <2>. QED BY <1>3, <2>2 DEF StopsAll, Replaces, Asks, Reads, GivesBack, ghosts
<1>4. ASSUME Readies \/ TakesNext \/ Receives \/ Serves \/ TurnEnds \/ TurnFails
      PROVE  UNCHANGED <<card, moved, undone>>
  BY <1>4 DEF Readies, TakesNext, Receives, Serves, TurnEnds, TurnFails, paneVars, ghosts
<1>5. ASSUME NEW failed \in BOOLEAN, Dies(failed) \/ EnvMoves(failed)
      PROVE  UNCHANGED <<card, moved>> /\ undone \subseteq undone'
  BY <1>5 DEF Dies, EnvMoves, Ends, paneVars, ghosts
<1>6. ASSUME EnvSettles \/ Reconnects PROVE CardsStay /\ UNCHANGED <<moved, undone>>
  BY <1>6, HeldSays DEF EnvSettles, Reconnects, CardsStay, ghosts
<1>7. ASSUME HearsAny PROVE CardsStay /\ UNCHANGED <<moved, undone>>
  <2>1. UNCHANGED ghosts
    BY <1>7 DEF HearsAny, HearsReady, HearsEnded, HearsFailed, HearsJoined, HearsDropped, HearsClosed, HearsGone
  <2>. QED BY <1>7, <2>1, HearsSays DEF ghosts
<1>8. ASSUME UNCHANGED vars PROVE UNCHANGED <<card, moved, undone>>
  BY <1>8 DEF vars, paneVars, ghosts
<1>. QED BY <1>1, <1>2, <1>3, <1>4, <1>5, <1>6, <1>7, <1>8 DEF Next, CardsStay

LEMMA StepInTurn == ASSUME InTurn, [Next]_vars PROVE InTurn'
<1>1. ASSUME NEW m \in Message, Send(m) \/ RequestText(m) \/ Withdraws(m) \/ Expedites(m) \/ GoesFirst(m)
      PROVE  UNCHANGED <<turn, reading>>
  BY <1>1 DEF Send, RequestText, Withdraws, Expedites, GoesFirst, taskVars, hookVars
<1>2. ASSUME StopsAll \/ Replaces \/ Asks \/ Reads \/ GivesBack PROVE UNCHANGED <<turn, reading>> \/ ~reading' \/ turn' # <<>>
  BY <1>2 DEF StopsAll, Replaces, Asks, Reads, GivesBack, taskVars, hookVars
<1>3. ASSUME Readies \/ TakesNext \/ Receives \/ Serves \/ TurnEnds \/ TurnFails
      PROVE  UNCHANGED <<turn, reading>> \/ ~reading' \/ (turn = <<>> /\ reading' = reading)
  BY <1>3 DEF Readies, TakesNext, Receives, Serves, TurnEnds, TurnFails, hookVars
<1>4. ASSUME NEW failed \in BOOLEAN, Dies(failed) \/ EnvMoves(failed) PROVE UNCHANGED <<turn, reading>> \/ ~reading'
  BY <1>4 DEF Dies, EnvMoves, Ends, taskVars, hookVars
<1>5. ASSUME EnvSettles \/ Reconnects \/ UNCHANGED vars PROVE UNCHANGED <<turn, reading>>
  BY <1>5 DEF EnvSettles, Reconnects, hookVars, taskVars, vars
<1>6. ASSUME HearsAny PROVE UNCHANGED <<turn, reading>>
  BY <1>6 DEF HearsAny, HearsReady, HearsEnded, HearsFailed, HearsJoined, HearsDropped, HearsClosed, HearsGone,
              taskVars, hookVars
<1>. QED BY <1>1, <1>2, <1>3, <1>4, <1>5, <1>6 DEF Next, InTurn

\* Every step leaves the line in its order, with what is written last.
LEMMA StepInLine ==
  ASSUME TypeOK, TypeOK', IInv, IInv', NoSlip, InTurn, [Next]_vars
  PROVE  \/ written' = written /\ Follows(Line', Line, Out')
         \/ \E m \in Message : /\ card[m] = None /\ card'[m] # None
                               /\ written' = Append(written, m) /\ Follows(Line', Line \o <<m>>, Out')
<1>1. ASSUME NEW m \in Message, Send(m) \/ RequestText(m)
      PROVE  /\ card[m] = None /\ card'[m] # None
             /\ written' = Append(written, m) /\ Follows(Line', Line \o <<m>>, Out')
  BY <1>1, SendSays, RequestTextSays, SendInLine, RequestTextInLine DEF Send, RequestText
<1>2. ASSUME NEW m \in Message, Withdraws(m) \/ Expedites(m) \/ GoesFirst(m)
      PROVE  written' = written /\ Follows(Line', Line, Out')
  BY <1>2, WithdrawsInLine, ExpeditesInLine, GoesFirstInLine DEF Withdraws, Expedites, GoesFirst, ghosts
<1>3. ASSUME StopsAll \/ Replaces \/ Asks \/ Reads \/ GivesBack
      PROVE  written' = written /\ Follows(Line', Line, Out')
  BY <1>3, StopsAllInLine, ReplacesInLine, AsksInLine, ReadsInLine, GivesBackInLine
     DEF StopsAll, Replaces, Asks, Reads, GivesBack, ghosts
<1>4. ASSUME Readies \/ TakesNext \/ Receives \/ Serves \/ TurnEnds \/ TurnFails
      PROVE  written' = written /\ Follows(Line', Line, Out')
  BY <1>4, ReadiesInLine, TakesNextInLine, ReceivesInLine, ServesInLine, TurnOverInLine
     DEF Readies, TakesNext, Receives, Serves, TurnEnds, TurnFails, ghosts
<1>5. ASSUME NEW failed \in BOOLEAN, Dies(failed) \/ EnvMoves(failed)
      PROVE  written' = written /\ Follows(Line', Line, Out')
  BY <1>5, DiesInLine, EnvMovesInLine DEF Dies, EnvMoves, Ends, ghosts
<1>6. ASSUME EnvSettles \/ Reconnects PROVE written' = written /\ Follows(Line', Line, Out')
  BY <1>6, EnvSettlesInLine, ReconnectsInLine DEF EnvSettles, Reconnects, ghosts
<1>7. ASSUME HearsAny PROVE written' = written /\ Follows(Line', Line, Out')
  <2>1. UNCHANGED ghosts
    BY <1>7 DEF HearsAny, HearsReady, HearsEnded, HearsFailed, HearsJoined, HearsDropped, HearsClosed, HearsGone
  <2>. QED BY <1>7, <2>1, HearsInLine DEF ghosts
<1>8. ASSUME UNCHANGED vars PROVE written' = written /\ Follows(Line', Line, Out')
  <2>1. UNCHANGED <<pending, events, queue, got, taken, reading, commands, held, written>>
    BY <1>8 DEF vars, paneVars, taskVars, hookVars, ghosts
  <2>. QED BY <2>1, FollowsSelf, PaneLine
<1>. QED BY <1>1, <1>2, <1>3, <1>4, <1>5, <1>6, <1>7, <1>8 DEF Next

LEMMA StepOrdered == ASSUME TypeOK, TypeOK', IInv, IInv', NoSlip, OInv, [Next]_vars PROVE OInv'
<1>1. CardsStay /\ moved \subseteq moved' /\ undone \subseteq undone'
  BY StepSays
<1>2. InTurn'
  BY StepInTurn DEF OInv
<1>3. written \in Seq(Message) /\ Line \in Seq(Message)
  BY LineTypes DEF TypeOK
<1>4. CASE written' = written /\ Follows(Line', Line, Out')
  <2>. DEFINE sent == <<>>
  <2>1. sent \in Seq(Message) /\ written' = written \o sent /\ Line \o sent = Line /\ sent = <<>>
    BY <1>3, <1>4, NoneBeside
  <2>. HIDE DEF sent
  <2>2. Follows(Line', Line \o sent, Out')
    BY <1>4, <2>1
  <2>. QED BY <1>1, <1>2, <2>1, <2>2, LineGoes DEF OInv
<1>5. ASSUME NEW m \in Message, card[m] = None, card'[m] # None,
             written' = Append(written, m), Follows(Line', Line \o <<m>>, Out')
      PROVE  OInv'
  <2>. DEFINE sent == <<m>>
  <2>1. sent \in Seq(Message) /\ written' = written \o sent
    BY <1>3, <1>5
  <2>2. \E x \in Message : sent = <<x>> /\ card[x] = None /\ card'[x] # None
    BY <1>5
  <2>3. Follows(Line', Line \o sent, Out')
    BY <1>5
  <2>. HIDE DEF sent
  <2>. QED BY <1>1, <1>2, <2>1, <2>2, <2>3, LineGoes DEF OInv
<1>. QED BY <1>4, <1>5, StepInLine DEF OInv

LEMMA InitOrdered == Init => OInv
<1>. SUFFICES ASSUME Init PROVE OInv
  OBVIOUS
<1>1. /\ got = <<>> /\ taken = <<>> /\ held = <<>> /\ queue = <<>> /\ commands = <<>> /\ events = <<>>
      /\ written = <<>> /\ reading = FALSE
  BY DEF Init
<1>2. ToSet(<<>>) = {} /\ AskedOf(<<>>) = <<>>
  <2>. DEFINE none == <<>>
  <2>1. none \in Seq(Command) /\ \A i \in 1..Len(none) : none[i].do # "prompt"
    BY EmptyTyped
  <2>2. AskedOf(none) = <<>>
    <3>. HIDE DEF none
    <3>. QED BY <2>1, AskedNone
  <2>. QED BY <2>2, NothingIn
<1>3. <<>> \o <<>> = <<>> /\ Messages(<<>>) = <<>>
  BY NoneBeside
<1>4. Behind = <<>>
  BY <1>1, <1>2, <1>3 DEF Behind
<1>5. Mid = <<>>
  BY <1>1, <1>4, ClosingHas DEF Mid
<1>6. InHand = <<>>
  BY <1>1 DEF InHand
<1>7. Line = <<>>
  BY <1>1, <1>3, <1>5, <1>6 DEF Line
<1>8. \A m, n : ~Before(m, n, <<>>)
  BY <1>2, BeforeIn
<1>. QED BY <1>1, <1>2, <1>7, <1>8 DEF OInv, Lined, Noted, InTurn

LEMMA LineIsKept == ASSUME TypeOK, IInv, OInv PROVE OrderKept
<1>1. /\ got \in Seq(Message) /\ InHand \in Seq(Message) /\ Mid \in Seq(Message) /\ held \in Seq(Message)
  BY LineTypes
<1>2. got \o InHand \in Seq(Message) /\ (got \o InHand) \o Mid \in Seq(Message)
  <2>1. got \o InHand \in Seq(Message)
    BY <1>1, ConcatFacts
  <2>. QED BY <1>1, <2>1, ConcatFacts
<1>3. ASSUME NEW m, NEW n, Before(m, n, got) PROVE Before(m, n, Line)
  <2>1. Before(m, n, got \o InHand)
    BY <1>1, <1>3, BeforeConcat
  <2>2. Before(m, n, (got \o InHand) \o Mid)
    BY <1>1, <1>2, <2>1, BeforeConcat
  <2>3. Before(m, n, ((got \o InHand) \o Mid) \o held)
    BY <1>1, <1>2, <2>2, BeforeConcat
  <2>. QED BY <2>3 DEF Line
<1>. QED BY <1>3 DEF OrderKept, OInv, Lined, Out

\* Messages reach the agent in the order they were written, through the queue,
\* the hold, the hook and any end of an agent, but for the IDE's own prompts,
\* those a person or a hook moved, and those an agent died with.
THEOREM OrderIsKept == ASSUME Budget["slip"] = 0 PROVE Spec => []OrderKept
<1>. DEFINE Inv == IInv /\ NoSlip /\ OInv
<1>1. Init => Inv
  <2>1. Init => NoSlip
    BY DEF Init, NoSlip
  <2>. QED BY <2>1, InitHolds, InitOrdered
<1>2. TypeOK /\ TypeOK' /\ Inv /\ [Next]_vars => Inv'
  BY StepKeeps, NoSlipKeeps, StepOrdered
<1>3. TypeOK /\ Inv => OrderKept
  BY LineIsKept
<1>. HIDE DEF Inv
<1>. QED BY <1>1, <1>2, <1>3, TypeCorrect, PTL DEF Spec
=============================================================================
