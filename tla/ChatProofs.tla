------------------------------ MODULE ChatProofs ------------------------------
(***************************************************************************)
(* Theorems about a chat and its session.                                  *)
(*                                                                         *)
(* Lemmas come first, about what a chat is built from: rows, entries,      *)
(* commands and events in order, and what the pane's copy of the queue     *)
(* becomes as the events on their way to it are heard.  A view is a        *)
(* sequence of messages, the first k of them the turn's.  The pane's rows  *)
(* show one, and what the task has is another; the events between them     *)
(* lead from the first to the second (Replays), and do so still when one   *)
(* is heard, one more is told, or a message is sent.                       *)
(*                                                                         *)
(* What is proved of Stop and of the pane's copy of the queue is proved    *)
(* where nothing slips (Budget["slip"] = 0): a slip is what Chat's actions *)
(* name as a way for either to come out of step with the session.          *)
(***************************************************************************)
EXTENDS Chat, TLAPS, WellFoundedInduction, FiniteSetTheorems

-----------------------------------------------------------------------------
(* Sequences: their leading places, and what stands at some of them.       *)

LT == {ss \in Nat \X Nat : ss[1] < ss[2]}

LEMMA LessIsWellFounded == IsWellFoundedOn(LT, Nat)
  BY NatLessThanWellFounded, Zenon DEF OpToRel, LT

LEMMA LeastOf == ASSUME NEW T, T \subseteq Nat, T # {} PROVE \E x \in T : \A y \in T : x <= y
<1>1. \E x \in T : \A y \in T : ~ (<<y, x>> \in LT)
  BY LessIsWellFounded, WFMin
<1>2. PICK x \in T : \A y \in T : ~ (<<y, x>> \in LT)
  BY <1>1
<1>3. ASSUME NEW y \in T PROVE x <= y
  <2>1. <<y, x>> \in Nat \X Nat /\ ~ (<<y, x>> \in LT)
    BY <1>2
  <2>2. ~ (y < x)
    BY <2>1 DEF LT
  <2>. QED BY <2>2
<1>. QED BY <1>2, <1>3

LEMMA PlacesAreFinite ==
  ASSUME NEW len \in Nat, NEW places, places \subseteq 1..len
  PROVE  IsFiniteSet(places) /\ Cardinality(places) \in 0..len
<1>1. IsFiniteSet(1..len) /\ Cardinality(1..len) = len
  <2>1. IsFiniteSet(1..len) /\ Cardinality(1..len) = IF 1 > len THEN 0 ELSE len-1+1
    BY FS_Interval
  <2>. QED BY <2>1
<1>2. IsFiniteSet(places) /\ Cardinality(places) <= Cardinality(1..len)
  BY <1>1, FS_Subset
<1>3. Cardinality(places) \in Nat
  BY <1>2, FS_CardinalityType
<1>. QED BY <1>1, <1>2, <1>3

LEMMA LeadingFacts ==
  ASSUME NEW len \in Nat, NEW places, places \subseteq 1..len
  PROVE  /\ Leading(places) \in 0..len
         /\ 1..Leading(places) \subseteq places
         /\ Leading(places) + 1 \notin places
<1>1. IsFiniteSet(places) /\ Cardinality(places) \in 0..len
  BY PlacesAreFinite
<1>2. \E n \in 0..Cardinality(places) : 1..n \subseteq places /\ n + 1 \notin places
  <2>. DEFINE Stop == {k \in Nat : k + 1 \notin places}
  <2>1. len \in Stop
    OBVIOUS
  <2>2. PICK n \in Stop : \A y \in Stop : n <= y
    <3>1. Stop \subseteq Nat /\ Stop # {}
      BY <2>1
    <3>. HIDE DEF Stop
    <3>. QED BY <3>1, LeastOf
  <2>3. 1..n \subseteq places
    <3>1. ASSUME NEW i \in 1..n PROVE i \in places
      <4>1. i - 1 \in Nat /\ i - 1 \notin Stop
        BY <2>2
      <4>. QED BY <4>1
    <3>. QED BY <3>1
  <2>4. n <= Cardinality(places)
    <3>1. n \in Nat
      BY <2>2
    <3>2. IsFiniteSet(1..n) /\ Cardinality(1..n) = IF 1 > n THEN 0 ELSE n-1+1
      BY <3>1, FS_Interval
    <3>3. Cardinality(1..n) <= Cardinality(places)
      BY <2>3, <1>1, FS_Subset
    <3>. QED BY <3>1, <3>2, <3>3
  <2>. QED BY <2>2, <2>3, <2>4, <1>1
<1>. QED BY <1>1, <1>2 DEF Leading

\* The places in order: one, and one only, for each number up to theirs.
Rank(places, i) == Cardinality({j \in places : j <= i})

Nth(places, k) == CHOOSE i \in places : Rank(places, i) = k

LEMMA RankFacts ==
  ASSUME NEW len \in Nat, NEW places, places \subseteq 1..len
  PROVE  /\ \A i \in places : Rank(places, i) \in 1..Cardinality(places)
         /\ \A i, j \in places : i < j <=> Rank(places, i) < Rank(places, j)
<1>1. IsFiniteSet(places) /\ Cardinality(places) \in 0..len
  BY PlacesAreFinite
<1>0. \A i \in places : i \in Int
  OBVIOUS
<1>. DEFINE UpTo(i) == {j \in places : j <= i}
<1>2. ASSUME NEW i \in places
      PROVE  IsFiniteSet(UpTo(i)) /\ Rank(places, i) \in 1..Cardinality(places)
  <2>1. UpTo(i) \subseteq places /\ i \in UpTo(i)
    BY DEF Rank
  <2>2. IsFiniteSet(UpTo(i)) /\ Cardinality(UpTo(i)) <= Cardinality(places)
    BY <2>1, <1>1, FS_Subset
  <2>3. Cardinality(UpTo(i)) \in Nat
    BY <2>2, FS_CardinalityType
  <2>4. Cardinality(UpTo(i)) # 0
    BY <2>1, <2>2, FS_EmptySet
  <2>. QED BY <2>2, <2>3, <2>4, <1>1 DEF Rank
<1>3. ASSUME NEW i \in places, NEW j \in places, i < j
      PROVE  Rank(places, i) < Rank(places, j)
  <2>0. i \in Int /\ j \in Int /\ i < j
    BY <1>3, <1>0
  <2>1. UpTo(i) \subseteq UpTo(j) /\ j \in UpTo(j) /\ j \notin UpTo(i)
    <3>1. ASSUME NEW x \in UpTo(i) PROVE x \in UpTo(j)
      <4>1. x \in places /\ x <= i /\ x \in Int
        BY <1>0
      <4>2. x <= j
        BY <4>1, <2>0
      <4>. QED BY <4>1, <4>2
    <3>2. j \in UpTo(j)
      BY <2>0
    <3>3. j \notin UpTo(i)
      BY <2>0
    <3>. QED BY <3>1, <3>2, <3>3
  <2>2. IsFiniteSet(UpTo(j))
    BY <1>2
  <2>3. Cardinality(UpTo(i)) <= Cardinality(UpTo(j)) /\ Cardinality(UpTo(i)) # Cardinality(UpTo(j))
    BY <2>1, <2>2, FS_Subset
  <2>4. Cardinality(UpTo(i)) \in Nat /\ Cardinality(UpTo(j)) \in Nat
    BY <1>2, <1>1 DEF Rank
  <2>. QED BY <2>3, <2>4 DEF Rank
<1>4. ASSUME NEW i \in places, NEW j \in places
      PROVE  i < j <=> Rank(places, i) < Rank(places, j)
  <2>1. Rank(places, i) \in Int /\ Rank(places, j) \in Int /\ i \in Int /\ j \in Int
    <3>1. Rank(places, i) \in 1..Cardinality(places) /\ Rank(places, j) \in 1..Cardinality(places)
      BY <1>2
    <3>. QED BY <3>1, <1>0
  <2>2. i = j \/ i < j \/ j < i
    BY <2>1
  <2>. QED BY <2>1, <2>2, <1>3
<1>. QED BY <1>2, <1>4

LEMMA NthFacts ==
  ASSUME NEW len \in Nat, NEW places, places \subseteq 1..len
  PROVE  /\ \A k \in 1..Cardinality(places) : Nth(places, k) \in places /\ Rank(places, Nth(places, k)) = k
         /\ \A i \in places : Nth(places, Rank(places, i)) = i
         /\ \A k, l \in 1..Cardinality(places) : k < l <=> Nth(places, k) < Nth(places, l)
<1>1. IsFiniteSet(places) /\ Cardinality(places) \in 0..len
  BY PlacesAreFinite
<1>2. /\ \A i \in places : Rank(places, i) \in 1..Cardinality(places)
      /\ \A i, j \in places : i < j <=> Rank(places, i) < Rank(places, j)
  BY RankFacts
<1>. DEFINE ranks == {Rank(places, i) : i \in places}
            rank == [i \in places |-> Rank(places, i)]
<1>3. \A i, j \in places : Rank(places, i) = Rank(places, j) => i = j
  BY <1>2, <1>1
<1>4. Cardinality(ranks) = Cardinality(places)
  <2>1. rank \in Bijection(places, ranks)
    BY <1>3 DEF Bijection, Injection, Surjection, IsInjective
  <2>2. ExistsBijection(places, ranks)
    BY <2>1 DEF ExistsBijection
  <2>. QED BY <2>2, <1>1, FS_Bijection
<1>5. ranks = 1..Cardinality(places)
  <2>1. ranks \subseteq 1..Cardinality(places)
    BY <1>2
  <2>2. IsFiniteSet(1..Cardinality(places)) /\ Cardinality(1..Cardinality(places)) = Cardinality(places)
    <3>1. Cardinality(places) \in Nat
      BY <1>1
    <3>2. /\ IsFiniteSet(1..Cardinality(places))
          /\ Cardinality(1..Cardinality(places)) = IF 1 > Cardinality(places) THEN 0 ELSE Cardinality(places)-1+1
      BY <3>1, FS_Interval
    <3>. QED BY <3>1, <3>2
  <2>. QED BY <2>1, <2>2, <1>4, FS_Subset
<1>6. ASSUME NEW k \in 1..Cardinality(places)
      PROVE  Nth(places, k) \in places /\ Rank(places, Nth(places, k)) = k
  <2>1. \E i \in places : Rank(places, i) = k
    BY <1>5
  <2>. QED BY <2>1 DEF Nth
<1>7. ASSUME NEW i \in places PROVE Nth(places, Rank(places, i)) = i
  BY <1>2, <1>3, <1>6
<1>8. ASSUME NEW k \in 1..Cardinality(places), NEW l \in 1..Cardinality(places)
      PROVE  k < l <=> Nth(places, k) < Nth(places, l)
  <2>1. /\ Nth(places, k) \in places /\ Rank(places, Nth(places, k)) = k
        /\ Nth(places, l) \in places /\ Rank(places, Nth(places, l)) = l
    BY <1>6
  <2>2. Nth(places, k) < Nth(places, l) <=> Rank(places, Nth(places, k)) < Rank(places, Nth(places, l))
    BY <2>1, <1>2
  <2>. QED BY <2>1, <2>2
<1>. QED BY <1>6, <1>7, <1>8

\* What stands at the places: the rows there, each once, in their order.
LEMMA AtFacts ==
  ASSUME NEW S, NEW rows \in Seq(S), NEW places, places \subseteq DOMAIN rows
  PROVE  /\ At(rows, places) \in Seq(S)
         /\ Len(At(rows, places)) = Cardinality(places)
         /\ Cardinality(places) \in 0..Len(rows)
         /\ \A k \in 1..Cardinality(places) : At(rows, places)[k] = rows[Nth(places, k)]
<1>1. places \subseteq 1..Len(rows) /\ Len(rows) \in Nat
  OBVIOUS
<1>2. Cardinality(places) \in 0..Len(rows)
  BY <1>1, PlacesAreFinite
<1>3. \A k \in 1..Cardinality(places) : Nth(places, k) \in places
  BY <1>1, NthFacts
<1>4. At(rows, places) = [k \in 1..Cardinality(places) |-> rows[Nth(places, k)]]
  BY DEF At, Nth, Rank
<1>5. \A k \in 1..Cardinality(places) : rows[Nth(places, k)] \in S
  BY <1>1, <1>3
<1>. QED BY <1>2, <1>4, <1>5

-----------------------------------------------------------------------------
(* Rows, entries, commands and events.                                     *)

LEMMA MessagesFacts ==
  ASSUME NEW R, \A r \in R : r.msg \in Message, NEW rows \in Seq(R)
  PROVE  /\ Messages(rows) \in Seq(Message)
         /\ Len(Messages(rows)) = Len(rows)
         /\ \A i \in 1..Len(rows) : Messages(rows)[i] = rows[i].msg
<1>1. Messages(rows) = [i \in 1..Len(rows) |-> rows[i].msg]
  BY DEF Messages
<1>2. \A i \in 1..Len(rows) : rows[i].msg \in Message
  OBVIOUS
<1>. QED BY <1>1, <1>2

LEMMA RowsFacts ==
  ASSUME NEW rows \in Seq(Row)
  PROVE  Messages(rows) \in Seq(Message) /\ Len(Messages(rows)) = Len(rows)
<1>1. \A r \in Row : r.msg \in Message
  BY DEF Row
<1>. QED BY <1>1, MessagesFacts

LEMMA EntriesFacts ==
  ASSUME NEW rows \in Seq(Entry)
  PROVE  Messages(rows) \in Seq(Message) /\ Len(Messages(rows)) = Len(rows)
<1>1. \A r \in Entry : r.msg \in Message
  BY DEF Entry
<1>. QED BY <1>1, MessagesFacts

LEMMA HandedOver ==
  ASSUME NEW ms \in Seq(Message), NEW named \in BOOLEAN
  PROVE  /\ [i \in DOMAIN ms |-> [msg |-> ms[i], waits |-> named, joined |-> FALSE]] \in Seq(Row)
         /\ [i \in DOMAIN ms |-> [do |-> "prompt", msg |-> ms[i], named |-> named]] \in Seq(Command)
<1>1. DOMAIN ms = 1..Len(ms) /\ Len(ms) \in Nat /\ \A i \in 1..Len(ms) : ms[i] \in Message
  OBVIOUS
<1>2. \A i \in 1..Len(ms) : [msg |-> ms[i], waits |-> named, joined |-> FALSE] \in Row
  BY <1>1 DEF Row
<1>3. \A i \in 1..Len(ms) : [do |-> "prompt", msg |-> ms[i], named |-> named] \in Command
  BY <1>1 DEF Command
<1>. QED BY <1>1, <1>2, <1>3

LEMMA EmptyTyped == <<>> \in Seq(Message) /\ <<>> \in Seq(Row) /\ <<>> \in Seq(Command)
                    /\ <<>> \in Seq(Event) /\ <<>> \in Seq(Entry)
OBVIOUS

LEMMA CommandTypes ==
  ASSUME NEW command \in Command
  PROVE  /\ command.do \in {"prompt", "cancelAll", "take", "withdraw", "expedite"}
         /\ command.do = "prompt" => command.msg \in Message /\ command.named \in BOOLEAN
         /\ command.do \in {"withdraw", "expedite"} => command.msg \in Message
<1>1. CASE command \in [do: {"prompt"}, msg: Message, named: BOOLEAN]
  BY <1>1
<1>2. CASE command \in [do: {"cancelAll", "take"}]
  BY <1>2
<1>3. CASE command \in [do: {"withdraw", "expedite"}, msg: Message]
  BY <1>3
<1>. QED BY <1>1, <1>2, <1>3 DEF Command

LEMMA EventTypes ==
  ASSUME NEW event \in Event
  PROVE  /\ event.is \in {"ready", "ended", "failed", "closed",
                          "joined", "dropped", "withdrawn", "taken"}
         /\ event.is \in {"joined", "dropped", "withdrawn", "taken"} =>
               event.of \in Seq(Message) /\ event.of # <<>>
<1>1. CASE event \in [is: {"ready", "ended", "failed", "closed"}]
  BY <1>1
<1>2. CASE event \in [is: {"joined", "dropped", "withdrawn", "taken"}, of: Seq(Message) \ {<<>>}]
  BY <1>2
<1>. QED BY <1>1, <1>2 DEF Event

LEMMA PoppedFacts ==
  ASSUME NEW rows \in Seq(Row)
  PROVE  /\ Popped(rows) \in 0..Len(rows)
         /\ rows # <<>> => Popped(rows) >= 1
         /\ \A i \in 2..Popped(rows) : rows[i].joined
         /\ Popped(rows) < Len(rows) /\ rows # <<>> => ~rows[Popped(rows) + 1].joined
<1>. DEFINE places == {1} \cup {i \in DOMAIN rows : rows[i].joined}
<1>1. CASE rows = <<>>
  BY <1>1 DEF Popped
<1>2. CASE rows # <<>>
  <2>1. Len(rows) \in Nat /\ Len(rows) >= 1 /\ DOMAIN rows = 1..Len(rows)
    BY <1>2
  <2>2. places \subseteq 1..Len(rows)
    BY <2>1
  <2>3. Popped(rows) = Leading(places)
    BY <1>2 DEF Popped
  <2>4. /\ Leading(places) \in 0..Len(rows)
        /\ 1..Leading(places) \subseteq places
        /\ Leading(places) + 1 \notin places
    BY <2>1, <2>2, LeadingFacts
  <2>5. Popped(rows) >= 1
    <3>1. Leading(places) # 0
      BY <2>4
    <3>. QED BY <3>1, <2>3, <2>4
  <2>6. \A i \in 2..Popped(rows) : rows[i].joined
    <3>1. ASSUME NEW i \in 2..Popped(rows) PROVE rows[i].joined
      <4>1. i \in 1..Leading(places) /\ i # 1
        BY <2>3, <2>4
      <4>2. i \in places
        BY <4>1, <2>4
      <4>. QED BY <4>1, <4>2
    <3>. QED BY <3>1
  <2>7. Popped(rows) < Len(rows) => ~rows[Popped(rows) + 1].joined
    BY <2>1, <2>3, <2>4
  <2>. QED BY <2>3, <2>4, <2>5, <2>6, <2>7
<1>. QED BY <1>1, <1>2

-----------------------------------------------------------------------------
(* More of what stands at some places.                                     *)

\* Some places enumerated in order.
Enumerates(f, n, places) ==
    /\ f \in [1..n -> places]
    /\ \A i, j \in 1..n : i < j => f[i] < f[j]
    /\ \A p \in places : \E i \in 1..n : f[i] = p

LEMMA NthIs ==
  ASSUME NEW len \in Nat, NEW places, places \subseteq 1..len, NEW n \in Nat,
         NEW f, Enumerates(f, n, places)
  PROVE  Cardinality(places) = n /\ \A k \in 1..n : Nth(places, k) = f[k]
<1>a. /\ f \in [1..n -> places]
      /\ \A i, j \in 1..n : i < j => f[i] < f[j]
      /\ \A p \in places : \E i \in 1..n : f[i] = p
  BY DEF Enumerates
<1>b. \A p \in places : p \in Int
  OBVIOUS
<1>0. \A i \in 1..n : f[i] \in places /\ f[i] \in Int
  BY <1>a, <1>b
<1>1. \A i, j \in 1..n : f[i] = f[j] => i = j
  <2>1. ASSUME NEW i \in 1..n, NEW j \in 1..n, f[i] = f[j] PROVE i = j
    <3>1. i < j \/ i = j \/ j < i
      OBVIOUS
    <3>2. ~ (f[i] < f[j]) /\ ~ (f[j] < f[i])
      BY <2>1, <1>0
    <3>. QED BY <3>1, <3>2, <1>a
  <2>. QED BY <2>1
<1>2. ASSUME NEW k \in 0..n PROVE Cardinality({f[i] : i \in 1..k}) = k
  <2>. DEFINE image == {f[i] : i \in 1..k}
              part == [i \in 1..k |-> f[i]]
  <2>1. part \in Bijection(1..k, image)
    <3>1. \A i \in 1..k : i \in 1..n /\ part[i] = f[i] /\ f[i] \in image
      BY <1>a
    <3>2. part \in [1..k -> image] /\ \A t \in image : \E i \in 1..k : part[i] = t
      OBVIOUS
    <3>. HIDE DEF part, image
    <3>3. \A i, j \in 1..k : part[i] = part[j] => i = j
      BY <1>1, <3>1
    <3>4. DOMAIN part = 1..k
      BY <3>2
    <3>5. part \in Injection(1..k, image)
      BY <3>2, <3>3, <3>4 DEF Injection, IsInjective
    <3>6. part \in Surjection(1..k, image)
      BY <3>2 DEF Surjection
    <3>. QED BY <3>5, <3>6 DEF Bijection
  <2>2. ExistsBijection(1..k, image)
    BY <2>1 DEF ExistsBijection
  <2>3. k \in Nat
    OBVIOUS
  <2>4. IsFiniteSet(1..k) /\ Cardinality(1..k) = IF 1 > k THEN 0 ELSE k-1+1
    BY <2>3, FS_Interval
  <2>5. Cardinality(image) = Cardinality(1..k)
    BY <2>2, <2>4, FS_Bijection
  <2>. QED BY <2>3, <2>4, <2>5
<1>3. places = {f[i] : i \in 1..n}
  BY <1>a
<1>4. Cardinality(places) = n
  <2>1. n \in 0..n
    OBVIOUS
  <2>. QED BY <1>2, <1>3, <2>1
<1>5. ASSUME NEW k \in 1..n PROVE Nth(places, k) = f[k]
  <2>1. {j \in places : j <= f[k]} = {f[i] : i \in 1..k}
    <3>1. ASSUME NEW i \in 1..n PROVE f[i] <= f[k] <=> i <= k
      <4>1. i < k \/ i = k \/ k < i
        OBVIOUS
      <4>2. i < k => f[i] < f[k]
        BY <1>a
      <4>3. k < i => f[k] < f[i]
        BY <1>a
      <4>. QED BY <4>1, <4>2, <4>3, <1>0
    <3>2. ASSUME NEW p \in places, p <= f[k] PROVE \E i \in 1..k : p = f[i]
      <4>1. PICK i \in 1..n : f[i] = p
        BY <1>a
      <4>2. i <= k
        BY <3>1, <3>2, <4>1
      <4>. QED BY <4>1, <4>2
    <3>3. ASSUME NEW i \in 1..k PROVE f[i] \in places /\ f[i] <= f[k]
      BY <3>1, <1>0
    <3>. QED BY <3>2, <3>3
  <2>2. Rank(places, f[k]) = k
    BY <2>1, <1>2 DEF Rank
  <2>3. Nth(places, Rank(places, f[k])) = f[k]
    BY <1>0, NthFacts
  <2>. QED BY <2>2, <2>3
<1>. QED BY <1>4, <1>5

\* What stands at the places, told by an enumeration of them.
Picks(f, n, places, rows, S) ==
    /\ rows \in Seq(S) /\ places \subseteq 1..Len(rows)
    /\ n \in Nat /\ Enumerates(f, n, places)

LEMMA AtIs ==
  ASSUME NEW S, NEW rows, NEW places, NEW n, NEW f, Picks(f, n, places, rows, S)
  PROVE  /\ At(rows, places) \in Seq(S) /\ Len(At(rows, places)) = n
         /\ \A k \in 1..n : At(rows, places)[k] = rows[f[k]]
<1>1. /\ rows \in Seq(S) /\ places \subseteq 1..Len(rows) /\ Len(rows) \in Nat
      /\ places \subseteq DOMAIN rows /\ n \in Nat /\ Enumerates(f, n, places)
  BY DEF Picks
<1>2. Cardinality(places) = n /\ \A k \in 1..n : Nth(places, k) = f[k]
  BY <1>1, NthIs
<1>. QED BY <1>1, <1>2, AtFacts

LEMMA AtAll ==
  ASSUME NEW S, NEW rows \in Seq(S)
  PROVE  At(rows, DOMAIN rows) = rows
<1>. DEFINE n == Len(rows)
            f == [k \in 1..n |-> k]
<1>1. n \in Nat /\ DOMAIN rows = 1..n /\ rows = [k \in 1..n |-> rows[k]]
  OBVIOUS
<1>2. f \in [1..n -> DOMAIN rows]
  BY <1>1
<1>3. Enumerates(f, n, DOMAIN rows)
  BY <1>1, <1>2 DEF Enumerates
<1>. HIDE DEF f
<1>3a. DOMAIN rows \subseteq 1..Len(rows)
  BY <1>1
<1>4. /\ At(rows, DOMAIN rows) \in Seq(S) /\ Len(At(rows, DOMAIN rows)) = n
      /\ \A k \in 1..n : At(rows, DOMAIN rows)[k] = rows[f[k]]
  <2>1. Picks(f, n, DOMAIN rows, rows, S)
    BY <1>1, <1>3, <1>3a DEF Picks
  <2>. QED BY <2>1, AtIs
<1>5. \A k \in 1..n : f[k] = k
  BY DEF f
<1>. DEFINE all == At(rows, DOMAIN rows)
<1>6. all \in Seq(S) /\ Len(all) = Len(rows) /\ \A k \in 1..Len(rows) : all[k] = rows[k]
  BY <1>4, <1>5
<1>. HIDE DEF all
<1>7. all = rows
  BY <1>6
<1>. QED BY <1>7 DEF all

LEMMA AtNone ==
  ASSUME NEW rows
  PROVE  At(rows, {}) = <<>>
BY FS_EmptySet DEF At

\* Some places of one sequence, and some of the next behind it.
Adjoins(n, I, J, K) == \A k : k \in K <=> k \in I \/ \E j \in J : k = n + j

LEMMA AtConcat ==
  ASSUME NEW S, NEW s \in Seq(S), NEW t \in Seq(S),
         NEW I, I \subseteq DOMAIN s, NEW J, J \subseteq DOMAIN t,
         NEW K, Adjoins(Len(s), I, J, K)
  PROVE  At(s \o t, K) = At(s, I) \o At(t, J)
<1>0. \A k : k \in K <=> k \in I \/ \E j \in J : k = Len(s) + j
  BY DEF Adjoins
<1>. DEFINE m == Cardinality(I)
            n == Cardinality(J)
            f == [k \in 1..(m + n) |-> IF k <= m THEN Nth(I, k) ELSE Len(s) + Nth(J, k - m)]
<1>1. /\ Len(s) \in Nat /\ Len(t) \in Nat /\ DOMAIN s = 1..Len(s) /\ DOMAIN t = 1..Len(t)
      /\ s \o t \in Seq(S) /\ DOMAIN (s \o t) = 1..(Len(s) + Len(t))
      /\ \A i \in 1..Len(s) : (s \o t)[i] = s[i]
      /\ \A i \in 1..Len(t) : (s \o t)[Len(s) + i] = t[i]
  OBVIOUS
<1>2. /\ m \in Nat /\ n \in Nat
      /\ \A k \in 1..m : Nth(I, k) \in I /\ Nth(I, k) \in 1..Len(s)
      /\ \A k \in 1..n : Nth(J, k) \in J /\ Nth(J, k) \in 1..Len(t)
      /\ \A k, l \in 1..m : k < l => Nth(I, k) < Nth(I, l)
      /\ \A k, l \in 1..n : k < l => Nth(J, k) < Nth(J, l)
  <2>1. I \subseteq 1..Len(s) /\ J \subseteq 1..Len(t)
    BY <1>1
  <2>2. m \in 0..Len(s) /\ n \in 0..Len(t)
    BY <1>1, <2>1, PlacesAreFinite
  <2>3. /\ \A k \in 1..m : Nth(I, k) \in I
        /\ \A k, l \in 1..m : k < l => Nth(I, k) < Nth(I, l)
    BY <1>1, <2>1, NthFacts
  <2>4. /\ \A k \in 1..n : Nth(J, k) \in J
        /\ \A k, l \in 1..n : k < l => Nth(J, k) < Nth(J, l)
    BY <1>1, <2>1, NthFacts
  <2>. QED BY <2>1, <2>2, <2>3, <2>4
<1>3. /\ At(s, I) = [k \in 1..m |-> s[Nth(I, k)]]
      /\ At(t, J) = [k \in 1..n |-> t[Nth(J, k)]]
  BY DEF At, Nth, Rank
<1>4. /\ \A i \in I : \E k \in 1..m : Nth(I, k) = i
      /\ \A j \in J : \E k \in 1..n : Nth(J, k) = j
  <2>1. I \subseteq 1..Len(s) /\ J \subseteq 1..Len(t)
    BY <1>1
  <2>2. \A i \in I : Nth(I, Rank(I, i)) = i /\ Rank(I, i) \in 1..m
    BY <1>1, <2>1, NthFacts, RankFacts
  <2>3. \A j \in J : Nth(J, Rank(J, j)) = j /\ Rank(J, j) \in 1..n
    BY <1>1, <2>1, NthFacts, RankFacts
  <2>. QED BY <2>2, <2>3
<1>. HIDE DEF m, n
<1>5. K \subseteq DOMAIN (s \o t)
  BY <1>0, <1>1
<1>6. f \in [1..(m + n) -> K]
  <2>1. ASSUME NEW k \in 1..(m + n)
        PROVE  (IF k <= m THEN Nth(I, k) ELSE Len(s) + Nth(J, k - m)) \in K
    <3>1. CASE k <= m
      BY <3>1, <1>0, <1>2
    <3>2. CASE ~(k <= m)
      <4>1. k - m \in 1..n
        BY <3>2, <1>2
      <4>. QED BY <3>2, <4>1, <1>0, <1>2
    <3>. QED BY <3>1, <3>2
  <2>. QED BY <2>1
<1>7. \A i, j \in 1..(m + n) : i < j => f[i] < f[j]
  <2>1. ASSUME NEW i \in 1..(m + n), NEW j \in 1..(m + n), i < j PROVE f[i] < f[j]
    <3>1. CASE j <= m
      <4>1. i \in 1..m /\ j \in 1..m
        BY <3>1, <2>1, <1>2
      <4>. QED BY <4>1, <2>1, <1>2
    <3>2. CASE i <= m /\ ~(j <= m)
      <4>1. i \in 1..m /\ j - m \in 1..n
        BY <3>2, <1>2
      <4>2. f[i] = Nth(I, i) /\ f[j] = Len(s) + Nth(J, j - m)
        BY <3>2
      <4>3. Nth(I, i) \in 1..Len(s) /\ Nth(J, j - m) \in 1..Len(t)
        BY <4>1, <1>2
      <4>. QED BY <4>2, <4>3, <1>1
    <3>3. CASE ~(i <= m) /\ ~(j <= m)
      <4>1. i - m \in 1..n /\ j - m \in 1..n /\ i - m < j - m
        BY <3>3, <2>1, <1>2
      <4>2. f[i] = Len(s) + Nth(J, i - m) /\ f[j] = Len(s) + Nth(J, j - m)
        BY <3>3
      <4>3. Nth(J, i - m) < Nth(J, j - m) /\ Nth(J, i - m) \in 1..Len(t) /\ Nth(J, j - m) \in 1..Len(t)
        BY <4>1, <1>2
      <4>. QED BY <4>2, <4>3, <1>1
    <3>4. i <= m \/ ~(j <= m)  \/ j <= m
      OBVIOUS
    <3>. QED BY <3>1, <3>2, <3>3
  <2>. QED BY <2>1
<1>8. \A p \in K : \E i \in 1..(m + n) : f[i] = p
  <2>1. ASSUME NEW p \in I PROVE \E i \in 1..(m + n) : f[i] = p
    <3>1. PICK k \in 1..m : Nth(I, k) = p
      BY <1>4
    <3>2. k \in 1..(m + n) /\ f[k] = p
      BY <3>1, <1>2
    <3>. QED BY <3>2
  <2>2. ASSUME NEW j \in J PROVE \E i \in 1..(m + n) : f[i] = Len(s) + j
    <3>1. PICK k \in 1..n : Nth(J, k) = j
      BY <1>4
    <3>2. m + k \in 1..(m + n) /\ ~(m + k <= m) /\ (m + k) - m = k
      BY <1>2
    <3>3. f[m + k] = Len(s) + j
      BY <3>1, <3>2
    <3>. QED BY <3>2, <3>3
  <2>. QED BY <1>0, <2>1, <2>2
<1>9. m + n \in Nat
  BY <1>2
<1>10. /\ At(s \o t, K) \in Seq(S) /\ Len(At(s \o t, K)) = m + n
       /\ \A k \in 1..(m + n) : At(s \o t, K)[k] = (s \o t)[f[k]]
  <2>1. Enumerates(f, m + n, K)
    BY <1>6, <1>7, <1>8 DEF Enumerates
  <2>. DEFINE st == s \o t
              len == m + n
  <2>2. st \in Seq(S) /\ K \subseteq 1..Len(st) /\ len \in Nat /\ Enumerates(f, len, K)
    BY <1>1, <1>5, <1>9, <2>1
  <2>. HIDE DEF f, st, len
  <2>3. /\ At(st, K) \in Seq(S) /\ Len(At(st, K)) = len
        /\ \A k \in 1..len : At(st, K)[k] = st[f[k]]
    <3>1. Picks(f, len, K, st, S)
      BY <2>2 DEF Picks
    <3>. QED BY <3>1, AtIs
  <2>. QED BY <2>3 DEF st, len
<1>11. At(s, I) \in Seq(S) /\ At(t, J) \in Seq(S) /\ Len(At(s, I)) = m /\ Len(At(t, J)) = n
  BY AtFacts DEF m, n
<1>12. /\ Len(At(s, I) \o At(t, J)) = m + n /\ At(s, I) \o At(t, J) \in Seq(S)
       /\ \A k \in 1..(m + n) : (At(s, I) \o At(t, J))[k]
              = IF k <= m THEN At(s, I)[k] ELSE At(t, J)[k - m]
  <2>. DEFINE A == At(s, I)
              B == At(t, J)
  <2>1. A \in Seq(S) /\ B \in Seq(S) /\ Len(A) = m /\ Len(B) = n
    BY <1>11
  <2>. HIDE DEF A, B
  <2>2. /\ Len(A \o B) = m + n /\ A \o B \in Seq(S)
        /\ \A k \in 1..(m + n) : (A \o B)[k] = IF k <= m THEN A[k] ELSE B[k - m]
    BY <2>1
  <2>. QED BY <2>2 DEF A, B
<1>13. ASSUME NEW k \in 1..(m + n)
       PROVE  (s \o t)[f[k]] = (At(s, I) \o At(t, J))[k]
  <2>1. CASE k <= m
    <3>1. k \in 1..m
      BY <2>1, <1>2
    <3>2. f[k] = Nth(I, k) /\ Nth(I, k) \in 1..Len(s)
      BY <2>1, <3>1, <1>2
    <3>3. (At(s, I) \o At(t, J))[k] = At(s, I)[k]
      BY <2>1, <1>12
    <3>4. At(s, I)[k] = s[Nth(I, k)]
      BY <3>1, <1>3
    <3>5. (s \o t)[Nth(I, k)] = s[Nth(I, k)]
      BY <3>2, <1>1
    <3>. QED BY <3>2, <3>3, <3>4, <3>5
  <2>2. CASE ~(k <= m)
    <3>1. k - m \in 1..n
      BY <2>2, <1>2
    <3>2. f[k] = Len(s) + Nth(J, k - m) /\ Nth(J, k - m) \in 1..Len(t)
      BY <2>2, <3>1, <1>2
    <3>3. (s \o t)[f[k]] = t[Nth(J, k - m)]
      BY <3>2, <1>1
    <3>4. (At(s, I) \o At(t, J))[k] = At(t, J)[k - m]
      BY <2>2, <1>12
    <3>5. At(t, J)[k - m] = t[Nth(J, k - m)]
      BY <3>1, <1>3
    <3>. QED BY <3>3, <3>4, <3>5
  <2>. QED BY <2>1, <2>2
<1>. DEFINE AB == At(s, I) \o At(t, J)
            ST == At(s \o t, K)
<1>14. AB \in Seq(S) /\ Len(AB) = m + n
  BY <1>12
<1>. HIDE DEF f
<1>15. ST \in Seq(S) /\ Len(ST) = m + n /\ \A k \in 1..(m + n) : ST[k] = AB[k]
  BY <1>10, <1>13
<1>. HIDE DEF AB, ST
<1>16. ST = AB
  BY <1>14, <1>15
<1>. QED BY <1>16 DEF AB, ST

-----------------------------------------------------------------------------
(* What the pane waits on, as the task will have told it by and by.        *)

\* Messages in order, the first k of them the turn's.
View == [ms: Seq(Message), k: Nat]

Once(ms) == \A i, j \in DOMAIN ms : ms[i] = ms[j] => i = j

Minus(ms, names) == At(ms, {i \in DOMAIN ms : ms[i] \notin names})

Led(s) == {s.ms[i] : i \in 2..s.k}

Proper(s) == s \in View /\ Once(s.ms) /\ (s.k = 1 \/ s.k \in 2..Len(s.ms))

\* What may come of a view once more is heard.
Within(t, s) ==
    /\ ToSet(t.ms) \subseteq ToSet(s.ms) /\ Len(t.ms) <= Len(s.ms)
    /\ Led(s) \cap ToSet(t.ms) \subseteq Led(t)
    /\ \A i \in 2..Len(t.ms) : t.ms[i] # s.ms[1]

\* What an event makes of a view.
After(s, e) ==
    CASE e.is = "ready" -> s
      [] e.is \in {"ended", "failed"} -> [ms |-> SubSeq(s.ms, s.k + 1, Len(s.ms)), k |-> 1]
      [] e.is = "joined" -> [ms |-> s.ms, k |-> Len(e.of) + 1]
      [] e.is \in {"withdrawn", "taken", "dropped"} -> [ms |-> Minus(s.ms, ToSet(e.of)), k |-> s.k]
      [] e.is = "closed" -> [ms |-> <<>>, k |-> 1]

\* What it takes for granted of the one it finds.
Meant(s, e) ==
    /\ e.is \in {"ended", "failed"} => s.ms # <<>>
    /\ e.is = "joined" => s.k = 1 /\ Len(e.of) + 1 <= Len(s.ms)
    /\ e.is \in {"withdrawn", "taken", "dropped"} =>
          \A m \in ToSet(e.of) : \E i \in (s.k + 1)..Len(s.ms) : s.ms[i] = m
    /\ e.is = "dropped" =>
          /\ s.k + Len(e.of) <= Len(s.ms)
          /\ e.of = SubSeq(s.ms, Len(s.ms) - Len(e.of) + 1, Len(s.ms))

LEMMA MinusFacts ==
  ASSUME NEW ms \in Seq(Message), NEW names
  PROVE  /\ Minus(ms, names) \in Seq(Message)
         /\ Len(Minus(ms, names)) <= Len(ms)
         /\ ToSet(Minus(ms, names)) = ToSet(ms) \ names
         /\ Once(ms) => Once(Minus(ms, names))
<1>. DEFINE places == {i \in DOMAIN ms : ms[i] \notin names}
            n == Cardinality(places)
            less == Minus(ms, names)
<1>1. Len(ms) \in Nat /\ DOMAIN ms = 1..Len(ms) /\ places \subseteq 1..Len(ms) /\ places \subseteq DOMAIN ms
  OBVIOUS
<1>2. /\ less \in Seq(Message) /\ Len(less) = n /\ n \in 0..Len(ms)
      /\ \A k \in 1..n : less[k] = ms[Nth(places, k)]
  BY <1>1, AtFacts DEF Minus
<1>3. /\ \A k \in 1..n : Nth(places, k) \in places /\ Rank(places, Nth(places, k)) = k
      /\ \A i \in places : Nth(places, Rank(places, i)) = i
      /\ \A i \in places : Rank(places, i) \in 1..n
  BY <1>1, NthFacts, RankFacts
<1>4. DOMAIN less = 1..n /\ n \in Nat
  BY <1>1, <1>2
<1>5. \A i : i \in places <=> i \in DOMAIN ms /\ ms[i] \notin names
  OBVIOUS
<1>. HIDE DEF places, n, less
<1>6. ToSet(less) = ToSet(ms) \ names
  <2>1. ASSUME NEW m \in ToSet(less) PROVE m \in ToSet(ms) /\ m \notin names
    BY <1>2, <1>3, <1>4, <1>5 DEF ToSet
  <2>2. ASSUME NEW m \in ToSet(ms), m \notin names PROVE m \in ToSet(less)
    <3>1. PICK i \in DOMAIN ms : ms[i] = m
      BY DEF ToSet
    <3>2. i \in places
      BY <3>1, <2>2, <1>5
    <3>3. Rank(places, i) \in 1..n /\ less[Rank(places, i)] = m
      BY <3>1, <3>2, <1>2, <1>3
    <3>. QED BY <3>3, <1>4 DEF ToSet
  <2>. QED BY <2>1, <2>2
<1>7. ASSUME Once(ms) PROVE Once(less)
  <2>1. ASSUME NEW i \in 1..n, NEW j \in 1..n, less[i] = less[j] PROVE i = j
    <3>1. ms[Nth(places, i)] = ms[Nth(places, j)] /\ Nth(places, i) \in DOMAIN ms /\ Nth(places, j) \in DOMAIN ms
      BY <2>1, <1>2, <1>3, <1>5
    <3>2. Nth(places, i) = Nth(places, j)
      BY <3>1, <1>7 DEF Once
    <3>. QED BY <3>2, <1>3
  <2>. QED BY <2>1, <1>4 DEF Once
<1>. QED BY <1>1, <1>2, <1>6, <1>7 DEF less

\* What goes from behind the first k leaves these where they were.
LEMMA MinusBehind ==
  ASSUME NEW ms \in Seq(Message), NEW names, NEW k \in 0..Len(ms),
         \A i \in 1..k : ms[i] \notin names
  PROVE  /\ k <= Len(Minus(ms, names))
         /\ \A i \in 1..k : Minus(ms, names)[i] = ms[i]
<1>. DEFINE places == {i \in DOMAIN ms : ms[i] \notin names}
            n == Cardinality(places)
            less == Minus(ms, names)
<1>1. Len(ms) \in Nat /\ DOMAIN ms = 1..Len(ms) /\ places \subseteq 1..Len(ms) /\ places \subseteq DOMAIN ms
  OBVIOUS
<1>2. /\ Len(less) = n /\ n \in 0..Len(ms)
      /\ \A i \in 1..n : less[i] = ms[Nth(places, i)]
  BY <1>1, AtFacts DEF Minus
<1>3. /\ \A i \in places : Nth(places, Rank(places, i)) = i
      /\ \A i \in places : Rank(places, i) \in 1..n
  BY <1>1, NthFacts, RankFacts
<1>4. \A i \in 1..k : i \in places
  BY <1>1
<1>5. \A i \in places : i \in 1..Len(ms)
  BY <1>1
<1>. HIDE DEF places, n, less
<1>6. ASSUME NEW i \in 1..k PROVE Rank(places, i) = i
  <2>1. {j \in places : j <= i} = 1..i
    BY <1>4, <1>5, <1>1
  <2>2. Cardinality(1..i) = i
    <3>1. i \in Nat
      OBVIOUS
    <3>2. Cardinality(1..i) = IF 1 > i THEN 0 ELSE i - 1 + 1
      BY <3>1, FS_Interval
    <3>. QED BY <3>1, <3>2
  <2>. QED BY <2>1, <2>2 DEF Rank
<1>7. \A i \in 1..k : less[i] = ms[i] /\ i \in 1..n
  BY <1>2, <1>3, <1>4, <1>6
<1>8. k <= n
  <2>1. k = 0 \/ k \in 1..k
    BY <1>1
  <2>. QED BY <2>1, <1>1, <1>2, <1>7
<1>. QED BY <1>2, <1>7, <1>8 DEF less

LEMMA BehindFacts ==
  ASSUME NEW S, NEW ms \in Seq(S), NEW k \in 0..Len(ms)
  PROVE  /\ SubSeq(ms, k + 1, Len(ms)) \in Seq(S)
         /\ Len(SubSeq(ms, k + 1, Len(ms))) = Len(ms) - k
         /\ \A i \in 1..(Len(ms) - k) : SubSeq(ms, k + 1, Len(ms))[i] = ms[k + i]
<1>1. Len(ms) \in Nat /\ k \in Nat
  OBVIOUS
<1>. QED BY <1>1

LEMMA OnceBehind ==
  ASSUME NEW ms \in Seq(Message), NEW k \in 0..Len(ms), Once(ms)
  PROVE  /\ Once(SubSeq(ms, k + 1, Len(ms)))
         /\ ToSet(SubSeq(ms, k + 1, Len(ms))) \subseteq ToSet(ms)
         /\ \A i \in 1..k : ms[i] \notin ToSet(SubSeq(ms, k + 1, Len(ms)))
<1>. DEFINE rest == SubSeq(ms, k + 1, Len(ms))
            n == Len(ms) - k
<1>1. /\ Len(ms) \in Nat /\ k \in Nat /\ n \in Nat /\ Len(ms) = k + n
      /\ rest \in Seq(Message) /\ Len(rest) = n
      /\ \A i \in 1..n : rest[i] = ms[k + i]
      /\ DOMAIN ms = 1..Len(ms)
  BY BehindFacts
<1>2. DOMAIN rest = 1..n
  BY <1>1
<1>. HIDE DEF rest, n
<1>3. Once(rest)
  <2>1. ASSUME NEW i \in 1..n, NEW j \in 1..n, rest[i] = rest[j] PROVE i = j
    <3>1. ms[k + i] = ms[k + j] /\ k + i \in DOMAIN ms /\ k + j \in DOMAIN ms
      BY <2>1, <1>1
    <3>2. k + i = k + j
      BY <3>1 DEF Once
    <3>. QED BY <3>2, <1>1
  <2>. QED BY <2>1, <1>2 DEF Once
<1>4. \A i \in 1..n : k + i \in DOMAIN ms
  BY <1>1
<1>5. ToSet(rest) \subseteq ToSet(ms)
  BY <1>1, <1>2, <1>4 DEF ToSet
<1>6. ASSUME NEW i \in 1..k, ms[i] \in ToSet(rest) PROVE FALSE
  <2>1. PICK j \in 1..n : rest[j] = ms[i]
    BY <1>6, <1>2 DEF ToSet
  <2>2. ms[k + j] = ms[i] /\ k + j \in DOMAIN ms /\ i \in DOMAIN ms
    BY <2>1, <1>1, <1>4
  <2>3. k + j = i
    BY <2>2 DEF Once
  <2>. QED BY <2>3, <1>1
<1>. QED BY <1>3, <1>5, <1>6 DEF rest

LEMMA ToSetIs ==
  ASSUME NEW S, NEW s \in Seq(S)
  PROVE  /\ DOMAIN s = 1..Len(s) /\ Len(s) \in Nat
         /\ \A m : m \in ToSet(s) <=> \E i \in 1..Len(s) : s[i] = m
<1>1. DOMAIN s = 1..Len(s) /\ Len(s) \in Nat
  OBVIOUS
<1>2. \A m : m \in ToSet(s) <=> \E i \in DOMAIN s : s[i] = m
  BY DEF ToSet
<1>. QED BY <1>1, <1>2

\* An event that finds what it takes for granted leaves a view in order, and
\* nothing in it that was not there.
LEMMA AfterProper ==
  ASSUME NEW s, Proper(s), NEW e \in Event, Meant(s, e)
  PROVE  Proper(After(s, e)) /\ Within(After(s, e), s)
<1>1. /\ s = [ms |-> s.ms, k |-> s.k] /\ s.ms \in Seq(Message) /\ s.k \in Nat /\ Once(s.ms)
      /\ s.k = 1 \/ s.k \in 2..Len(s.ms)
      /\ s \in View
  BY DEF Proper, View
<1>2. Len(s.ms) \in Nat /\ DOMAIN s.ms = 1..Len(s.ms)
  BY <1>1
<1>0. \A i \in 2..Len(s.ms) : s.ms[i] # s.ms[1]
  <2>1. \A i \in 2..Len(s.ms) : i \in DOMAIN s.ms /\ 1 \in DOMAIN s.ms /\ i # 1
    BY <1>2
  <2>. QED BY <1>1, <2>1 DEF Once
<1>3. CASE e.is = "ready"
  BY <1>0, <1>1, <1>2, <1>3 DEF After, Proper, Within
<1>4. CASE e.is \in {"ended", "failed"}
  <2>. DEFINE rest == SubSeq(s.ms, s.k + 1, Len(s.ms))
  <2>1. s.k \in 0..Len(s.ms) /\ 1 \in 1..s.k
    <3>1. Len(s.ms) # 0
      BY <1>1, <1>4 DEF Meant
    <3>. QED BY <3>1, <1>1, <1>2
  <2>2. /\ rest \in Seq(Message) /\ Len(rest) = Len(s.ms) - s.k
        /\ Once(rest) /\ ToSet(rest) \subseteq ToSet(s.ms)
        /\ \A i \in 1..s.k : s.ms[i] \notin ToSet(rest)
    BY <1>1, <2>1, BehindFacts, OnceBehind
  <2>3. After(s, e) = [ms |-> rest, k |-> 1]
    BY <1>4 DEF After
  <2>. HIDE DEF rest
  <2>4. Proper(After(s, e))
    BY <2>2, <2>3 DEF Proper, View
  <2>5. Led(s) \cap ToSet(rest) = {}
    <3>1. \A i \in 2..s.k : i \in 1..s.k
      BY <1>1
    <3>. QED BY <3>1, <2>2 DEF Led
  <2>6. After(s, e).ms = rest
    BY <2>3
  <2>7. Len(rest) <= Len(s.ms)
    BY <1>1, <1>2, <2>2
  <2>8. \A i \in 2..Len(rest) : rest[i] # s.ms[1]
    <3>1. \A i \in 2..Len(rest) : i \in 1..Len(rest)
      BY <2>2
    <3>2. \A i \in 1..Len(rest) : rest[i] \in ToSet(rest)
      BY <2>2, ToSetIs
    <3>. QED BY <2>1, <2>2, <3>1, <3>2
  <2>. QED BY <2>2, <2>4, <2>5, <2>6, <2>7, <2>8 DEF Within
<1>5. CASE e.is = "joined"
  <2>1. /\ After(s, e) = [ms |-> s.ms, k |-> Len(e.of) + 1]
        /\ s.k = 1 /\ Len(e.of) + 1 <= Len(s.ms)
    BY <1>5 DEF After, Meant
  <2>2. Len(e.of) \in Nat /\ Len(e.of) >= 1
    BY <1>5, EventTypes
  <2>3. Proper(After(s, e))
    BY <1>1, <1>2, <2>1, <2>2 DEF Proper, View
  <2>4. Led(s) = {}
    BY <2>1 DEF Led
  <2>. QED BY <1>0, <1>1, <1>2, <2>1, <2>3, <2>4 DEF Within
<1>6. CASE e.is \in {"withdrawn", "taken", "dropped"}
  <2>. DEFINE less == Minus(s.ms, ToSet(e.of))
  <2>1. After(s, e) = [ms |-> less, k |-> s.k]
    BY <1>6 DEF After
  <2>2. /\ less \in Seq(Message) /\ Len(less) <= Len(s.ms) /\ Once(less)
        /\ ToSet(less) \subseteq ToSet(s.ms)
    BY <1>1, MinusFacts
  <2>3. ASSUME NEW i \in 1..s.k, i <= Len(s.ms) PROVE s.ms[i] \notin ToSet(e.of)
    <3>1. SUFFICES ASSUME s.ms[i] \in ToSet(e.of) PROVE FALSE
      OBVIOUS
    <3>2. PICK j \in (s.k + 1)..Len(s.ms) : s.ms[j] = s.ms[i]
      BY <3>1, <1>6 DEF Meant
    <3>3. j = i
      BY <1>1, <1>2, <2>3, <3>2 DEF Once
    <3>. QED BY <3>2, <3>3, <1>1, <1>2
  <2>. HIDE DEF less
  <2>4. s.k \in 2..Len(s.ms) => /\ s.k <= Len(less) /\ \A i \in 1..s.k : less[i] = s.ms[i]
    <3>1. SUFFICES ASSUME s.k \in 2..Len(s.ms)
                   PROVE s.k <= Len(less) /\ \A i \in 1..s.k : less[i] = s.ms[i]
      OBVIOUS
    <3>2. s.k \in 0..Len(s.ms) /\ \A i \in 1..s.k : s.ms[i] \notin ToSet(e.of)
      BY <3>1, <2>3, <1>2
    <3>. QED BY <3>2, <1>1, MinusBehind DEF less
  <2>5. Len(less) \in Nat
    BY <2>2
  <2>6. Proper(After(s, e))
    <3>1. s.k = 1 \/ s.k \in 2..Len(less)
      BY <1>1, <1>2, <2>4, <2>5
    <3>. QED BY <3>1, <2>1, <2>2, <1>1 DEF Proper, View
  <2>7. Led(s) \subseteq Led(After(s, e))
    <3>1. CASE s.k = 1
      BY <3>1 DEF Led
    <3>2. CASE s.k \in 2..Len(s.ms)
      <4>1. \A i \in 2..s.k : less[i] = s.ms[i]
        BY <3>2, <2>4
      <4>. QED BY <4>1, <2>1 DEF Led
    <3>. QED BY <3>1, <3>2, <1>1
  <2>8. \A i \in 2..Len(less) : less[i] # s.ms[1]
    <3>1. 1 \in 1..s.k /\ 1 \in 0..Len(s.ms) /\ (\A i \in 1..1 : i \in 1..s.k /\ i <= Len(s.ms))
      <4>1. e.of \in Seq(Message) /\ e.of # <<>>
        BY <1>6, EventTypes
      <4>2. e.of[1] \in ToSet(e.of)
        BY <4>1 DEF ToSet
      <4>3. \E i \in (s.k + 1)..Len(s.ms) : s.ms[i] = e.of[1]
        BY <4>2, <1>6 DEF Meant
      <4>. QED BY <4>3, <1>1, <1>2
    <3>2. \A i \in 1..1 : s.ms[i] \notin ToSet(e.of)
      BY <3>1, <2>3
    <3>3. 1 <= Len(less) /\ less[1] = s.ms[1]
      <4>1. /\ 1 <= Len(Minus(s.ms, ToSet(e.of)))
            /\ \A i \in 1..1 : Minus(s.ms, ToSet(e.of))[i] = s.ms[i]
        BY <3>1, <3>2, <1>1, MinusBehind
      <4>. QED BY <4>1 DEF less
    <3>4. \A i \in 2..Len(less) : i \in DOMAIN less /\ 1 \in DOMAIN less /\ i # 1
      BY <2>2
    <3>. QED BY <3>3, <3>4, <2>2 DEF Once
  <2>. QED BY <2>1, <2>2, <2>6, <2>7, <2>8 DEF Within
<1>7. CASE e.is = "closed"
  <2>1. After(s, e) = [ms |-> <<>>, k |-> 1]
    BY <1>7 DEF After
  <2>2. <<>> \in Seq(Message) /\ Once(<<>>) /\ ToSet(<<>>) = {} /\ Len(<<>>) = 0
    BY EmptyTyped DEF Once, ToSet
  <2>3. Proper(After(s, e))
    BY <2>1, <2>2 DEF Proper, View
  <2>4. After(s, e).ms = <<>>
    BY <2>1
  <2>. QED BY <1>2, <2>2, <2>3, <2>4 DEF Within
<1>8. e.is \in {"ready", "ended", "failed", "closed", "joined", "dropped", "withdrawn", "taken"}
  BY EventTypes
<1>. QED BY <1>3, <1>4, <1>5, <1>6, <1>7, <1>8

LEMMA WithinTrans ==
  ASSUME NEW s \in View, NEW t \in View, NEW u \in View, Within(t, s), Within(u, t)
  PROVE  Within(u, s)
<1>1. Len(s.ms) \in Nat /\ Len(t.ms) \in Nat /\ Len(u.ms) \in Nat
  BY DEF View
<1>2. ASSUME NEW i \in 2..Len(u.ms) PROVE u.ms[i] # s.ms[1]
  <2>1. u.ms[i] \in ToSet(t.ms)
    <3>1. u.ms[i] \in ToSet(u.ms)
      BY <1>1, <1>2 DEF View, ToSet
    <3>. QED BY <3>1 DEF Within
  <2>2. PICK j \in 1..Len(t.ms) : t.ms[j] = u.ms[i]
    BY <2>1, ToSetIs DEF View
  <2>3. j # 1
    BY <2>2, <1>2 DEF Within
  <2>4. j \in 2..Len(t.ms)
    BY <2>3, <1>1
  <2>. QED BY <2>2, <2>4 DEF Within
<1>. QED BY <1>1, <1>2 DEF Within

\* More sent behind.
Extended(s, new) == [ms |-> s.ms \o new, k |-> s.k]

LEMMA ConcatFacts ==
  ASSUME NEW S, NEW s \in Seq(S), NEW t \in Seq(S)
  PROVE  /\ s \o t \in Seq(S) /\ Len(s \o t) = Len(s) + Len(t)
         /\ DOMAIN (s \o t) = 1..(Len(s) + Len(t))
         /\ Len(s) \in Nat /\ Len(t) \in Nat
         /\ \A i \in 1..Len(s) : (s \o t)[i] = s[i]
         /\ \A i \in 1..Len(t) : (s \o t)[Len(s) + i] = t[i]
         /\ \A i \in 1..(Len(s) + Len(t)) : (s \o t)[i] = IF i <= Len(s) THEN s[i] ELSE t[i - Len(s)]
<1>1. Len(s) \in Nat /\ Len(t) \in Nat
  OBVIOUS
<1>. QED BY <1>1

LEMMA ToSetConcat ==
  ASSUME NEW S, NEW s \in Seq(S), NEW t \in Seq(S)
  PROVE  ToSet(s \o t) = ToSet(s) \cup ToSet(t)
<1>. DEFINE st == s \o t
<1>1. /\ st \in Seq(S) /\ Len(st) = Len(s) + Len(t) /\ Len(s) \in Nat /\ Len(t) \in Nat
      /\ \A i \in 1..Len(s) : st[i] = s[i]
      /\ \A i \in 1..Len(t) : st[Len(s) + i] = t[i]
      /\ \A i \in 1..(Len(s) + Len(t)) : st[i] = IF i <= Len(s) THEN s[i] ELSE t[i - Len(s)]
  BY ConcatFacts
<1>. HIDE DEF st
<1>2. /\ \A m : m \in ToSet(st) <=> \E i \in 1..(Len(s) + Len(t)) : st[i] = m
      /\ \A m : m \in ToSet(s) <=> \E i \in 1..Len(s) : s[i] = m
      /\ \A m : m \in ToSet(t) <=> \E i \in 1..Len(t) : t[i] = m
  <2>1. /\ \A m : m \in ToSet(st) <=> \E i \in 1..Len(st) : st[i] = m
    BY <1>1, ToSetIs
  <2>2. /\ \A m : m \in ToSet(s) <=> \E i \in 1..Len(s) : s[i] = m
        /\ \A m : m \in ToSet(t) <=> \E i \in 1..Len(t) : t[i] = m
    BY ToSetIs
  <2>. QED BY <2>1, <2>2, <1>1
<1>3. ASSUME NEW m \in ToSet(st) PROVE m \in ToSet(s) \cup ToSet(t)
  <2>1. PICK i \in 1..(Len(s) + Len(t)) : st[i] = m
    BY <1>2
  <2>2. CASE i <= Len(s)
    <3>1. i \in 1..Len(s) /\ s[i] = m
      BY <2>1, <2>2, <1>1
    <3>. QED BY <3>1, <1>2
  <2>3. CASE ~(i <= Len(s))
    <3>1. i - Len(s) \in 1..Len(t) /\ t[i - Len(s)] = m
      BY <2>1, <2>3, <1>1
    <3>. QED BY <3>1, <1>2
  <2>. QED BY <2>2, <2>3
<1>4. ASSUME NEW m \in ToSet(s) PROVE m \in ToSet(st)
  <2>1. PICK i \in 1..Len(s) : s[i] = m
    BY <1>2
  <2>2. i \in 1..(Len(s) + Len(t)) /\ st[i] = m
    BY <2>1, <1>1
  <2>. QED BY <2>2, <1>2
<1>5. ASSUME NEW m \in ToSet(t) PROVE m \in ToSet(st)
  <2>1. PICK i \in 1..Len(t) : t[i] = m
    BY <1>2
  <2>2. Len(s) + i \in 1..(Len(s) + Len(t)) /\ st[Len(s) + i] = m
    BY <2>1, <1>1
  <2>. QED BY <2>2, <1>2
<1>. QED BY <1>3, <1>4, <1>5 DEF st

\* Two sequences with nothing twice and nothing in both.
LEMMA OnceConcat ==
  ASSUME NEW s \in Seq(Message), NEW t \in Seq(Message)
  PROVE  Once(s \o t) <=> Once(s) /\ Once(t) /\ ToSet(s) \cap ToSet(t) = {}
<1>. DEFINE st == s \o t
<1>1. /\ st \in Seq(Message) /\ DOMAIN st = 1..(Len(s) + Len(t)) /\ Len(s) \in Nat /\ Len(t) \in Nat
      /\ DOMAIN s = 1..Len(s) /\ DOMAIN t = 1..Len(t)
      /\ \A i \in 1..Len(s) : st[i] = s[i]
      /\ \A i \in 1..Len(t) : st[Len(s) + i] = t[i]
      /\ \A i \in 1..(Len(s) + Len(t)) : st[i] = IF i <= Len(s) THEN s[i] ELSE t[i - Len(s)]
  BY ConcatFacts
<1>. HIDE DEF st
<1>2. /\ \A m : m \in ToSet(s) <=> \E i \in 1..Len(s) : s[i] = m
      /\ \A m : m \in ToSet(t) <=> \E i \in 1..Len(t) : t[i] = m
  BY ToSetIs
<1>3. ASSUME Once(st) PROVE Once(s) /\ Once(t) /\ ToSet(s) \cap ToSet(t) = {}
  <2>1. Once(s)
    <3>1. ASSUME NEW i \in 1..Len(s), NEW j \in 1..Len(s), s[i] = s[j] PROVE i = j
      <4>1. i \in DOMAIN st /\ j \in DOMAIN st /\ st[i] = st[j]
        BY <3>1, <1>1
      <4>. QED BY <4>1, <1>3 DEF Once
    <3>. QED BY <3>1, <1>1 DEF Once
  <2>2. Once(t)
    <3>1. ASSUME NEW i \in 1..Len(t), NEW j \in 1..Len(t), t[i] = t[j] PROVE i = j
      <4>1. Len(s) + i \in DOMAIN st /\ Len(s) + j \in DOMAIN st /\ st[Len(s) + i] = st[Len(s) + j]
        BY <3>1, <1>1
      <4>2. Len(s) + i = Len(s) + j
        BY <4>1, <1>3 DEF Once
      <4>. QED BY <4>2, <1>1
    <3>. QED BY <3>1, <1>1 DEF Once
  <2>3. ASSUME NEW m \in ToSet(s), m \in ToSet(t) PROVE FALSE
    <3>1. PICK i \in 1..Len(s) : s[i] = m
      BY <1>2
    <3>2. PICK j \in 1..Len(t) : t[j] = m
      BY <2>3, <1>2
    <3>3. i \in DOMAIN st /\ Len(s) + j \in DOMAIN st /\ st[i] = st[Len(s) + j]
      BY <3>1, <3>2, <1>1
    <3>4. i = Len(s) + j
      BY <3>3, <1>3 DEF Once
    <3>. QED BY <3>4, <1>1
  <2>. QED BY <2>1, <2>2, <2>3
<1>4. ASSUME Once(s), Once(t), ToSet(s) \cap ToSet(t) = {} PROVE Once(st)
  <2>1. ASSUME NEW i \in 1..(Len(s) + Len(t)), NEW j \in 1..(Len(s) + Len(t)), st[i] = st[j]
        PROVE  i = j
    <3>1. CASE i <= Len(s) /\ j <= Len(s)
      <4>1. i \in DOMAIN s /\ j \in DOMAIN s /\ s[i] = s[j]
        BY <3>1, <2>1, <1>1
      <4>. QED BY <4>1, <1>4 DEF Once
    <3>2. CASE i <= Len(s) /\ ~(j <= Len(s))
      <4>1. i \in 1..Len(s) /\ j - Len(s) \in 1..Len(t) /\ s[i] = t[j - Len(s)]
        BY <3>2, <2>1, <1>1
      <4>. QED BY <4>1, <1>2, <1>4
    <3>3. CASE ~(i <= Len(s)) /\ j <= Len(s)
      <4>1. j \in 1..Len(s) /\ i - Len(s) \in 1..Len(t) /\ s[j] = t[i - Len(s)]
        BY <3>3, <2>1, <1>1
      <4>. QED BY <4>1, <1>2, <1>4
    <3>4. CASE ~(i <= Len(s)) /\ ~(j <= Len(s))
      <4>1. i - Len(s) \in DOMAIN t /\ j - Len(s) \in DOMAIN t /\ t[i - Len(s)] = t[j - Len(s)]
        BY <3>4, <2>1, <1>1
      <4>2. i - Len(s) = j - Len(s)
        BY <4>1, <1>4 DEF Once
      <4>. QED BY <4>2, <1>1
    <3>. QED BY <3>1, <3>2, <3>3, <3>4
  <2>. QED BY <2>1, <1>1 DEF Once
<1>. QED BY <1>3, <1>4 DEF st

LEMMA MinusConcat ==
  ASSUME NEW s \in Seq(Message), NEW t \in Seq(Message), NEW names
  PROVE  Minus(s \o t, names) = Minus(s, names) \o Minus(t, names)
<1>. DEFINE st == s \o t
            I == {i \in DOMAIN s : s[i] \notin names}
            J == {i \in DOMAIN t : t[i] \notin names}
            K == {i \in DOMAIN st : st[i] \notin names}
<1>1. /\ DOMAIN st = 1..(Len(s) + Len(t)) /\ Len(s) \in Nat /\ Len(t) \in Nat
      /\ DOMAIN s = 1..Len(s) /\ DOMAIN t = 1..Len(t)
      /\ \A i \in 1..Len(s) : st[i] = s[i]
      /\ \A i \in 1..Len(t) : st[Len(s) + i] = t[i]
      /\ \A i \in 1..(Len(s) + Len(t)) : st[i] = IF i <= Len(s) THEN s[i] ELSE t[i - Len(s)]
  BY ConcatFacts
<1>2. /\ \A k : k \in I <=> k \in 1..Len(s) /\ s[k] \notin names
      /\ \A k : k \in J <=> k \in 1..Len(t) /\ t[k] \notin names
      /\ \A k : k \in K <=> k \in 1..(Len(s) + Len(t)) /\ st[k] \notin names
  BY <1>1
<1>3. I \subseteq DOMAIN s /\ J \subseteq DOMAIN t
  OBVIOUS
<1>. HIDE DEF I, J, K
<1>4. ASSUME NEW k PROVE k \in K <=> k \in I \/ \E j \in J : k = Len(s) + j
  <2>1. ASSUME k \in K PROVE k \in I \/ \E j \in J : k = Len(s) + j
    <3>1. k \in 1..(Len(s) + Len(t)) /\ st[k] \notin names
      BY <2>1, <1>2
    <3>2. CASE k <= Len(s)
      BY <3>1, <3>2, <1>1, <1>2
    <3>3. CASE ~(k <= Len(s))
      <4>1. k - Len(s) \in 1..Len(t) /\ t[k - Len(s)] \notin names /\ k = Len(s) + (k - Len(s))
        BY <3>1, <3>3, <1>1
      <4>. QED BY <4>1, <1>2
    <3>. QED BY <3>2, <3>3
  <2>2. ASSUME k \in I PROVE k \in K
    BY <2>2, <1>1, <1>2
  <2>3. ASSUME NEW j \in J, k = Len(s) + j PROVE k \in K
    BY <2>3, <1>1, <1>2
  <2>. QED BY <2>1, <2>2, <2>3
<1>5. At(st, K) = At(s, I) \o At(t, J)
  <2>1. Adjoins(Len(s), I, J, K)
    BY <1>4 DEF Adjoins
  <2>. HIDE DEF st
  <2>2. I \subseteq DOMAIN s /\ J \subseteq DOMAIN t
    BY <1>3
  <2>3. At(s \o t, K) = At(s, I) \o At(t, J)
    BY <2>1, <2>2, AtConcat, SMTT(60)
  <2>. QED BY <2>3 DEF st
<1>. QED BY <1>5 DEF Minus, I, J, K, st

LEMMA MinusNone ==
  ASSUME NEW s \in Seq(Message), NEW names, ToSet(s) \cap names = {}
  PROVE  Minus(s, names) = s
<1>1. {i \in DOMAIN s : s[i] \notin names} = DOMAIN s
  BY DEF ToSet
<1>. QED BY <1>1, AtAll DEF Minus

LEMMA MinusAll ==
  ASSUME NEW s \in Seq(Message), NEW names, ToSet(s) \subseteq names
  PROVE  Minus(s, names) = <<>>
<1>1. {i \in DOMAIN s : s[i] \notin names} = {}
  BY DEF ToSet
<1>. QED BY <1>1, AtNone DEF Minus

LEMMA ConcatAssoc ==
  ASSUME NEW S, NEW s \in Seq(S), NEW t \in Seq(S), NEW u \in Seq(S)
  PROVE  (s \o t) \o u = s \o (t \o u)
OBVIOUS

LEMMA BehindConcat ==
  ASSUME NEW S, NEW s \in Seq(S), NEW t \in Seq(S), NEW k \in 0..Len(s)
  PROVE  SubSeq(s \o t, k + 1, Len(s \o t)) = SubSeq(s, k + 1, Len(s)) \o t
<1>. DEFINE st == s \o t
            rest == SubSeq(s, k + 1, Len(s))
            more == SubSeq(st, k + 1, Len(st))
            both == rest \o t
<1>1. /\ st \in Seq(S) /\ Len(st) = Len(s) + Len(t) /\ Len(s) \in Nat /\ Len(t) \in Nat
      /\ \A i \in 1..(Len(s) + Len(t)) : st[i] = IF i <= Len(s) THEN s[i] ELSE t[i - Len(s)]
  BY ConcatFacts
<1>2. k \in 0..Len(st) /\ k \in Nat
  BY <1>1
<1>3. /\ rest \in Seq(S) /\ Len(rest) = Len(s) - k
      /\ \A i \in 1..(Len(s) - k) : rest[i] = s[k + i]
  BY BehindFacts
<1>4. /\ more \in Seq(S) /\ Len(more) = Len(st) - k
      /\ \A i \in 1..(Len(st) - k) : more[i] = st[k + i]
  <2>. HIDE DEF st
  <2>. QED BY <1>1, <1>2, BehindFacts
<1>. HIDE DEF st, rest, more
<1>5. /\ both \in Seq(S) /\ Len(both) = Len(rest) + Len(t)
      /\ \A i \in 1..(Len(rest) + Len(t)) : both[i] = IF i <= Len(rest) THEN rest[i] ELSE t[i - Len(rest)]
  <2>1. rest \in Seq(S) /\ t \in Seq(S) /\ Len(rest) \in Nat /\ Len(t) \in Nat
    BY <1>3
  <2>. QED BY <2>1
<1>. HIDE DEF both
<1>6. ASSUME NEW i \in 1..Len(more) PROVE more[i] = both[i]
  <2>1. i \in 1..(Len(st) - k) /\ more[i] = st[k + i] /\ k + i \in 1..(Len(s) + Len(t))
    <3>1. i \in 1..(Len(st) - k)
      BY <1>4
    <3>2. k + i \in 1..(Len(s) + Len(t))
      BY <3>1, <1>1, <1>2
    <3>. QED BY <3>1, <3>2, <1>4
  <2>2. CASE i <= Len(rest)
    <3>1. k + i <= Len(s) /\ i \in 1..(Len(s) - k) /\ i \in 1..(Len(rest) + Len(t))
      BY <2>1, <2>2, <1>1, <1>2, <1>3
    <3>2. more[i] = s[k + i] /\ both[i] = rest[i] /\ rest[i] = s[k + i]
      BY <2>1, <2>2, <3>1, <1>1, <1>3, <1>5
    <3>. QED BY <3>2
  <2>3. CASE ~(i <= Len(rest))
    <3>1. ~(k + i <= Len(s)) /\ i \in 1..(Len(rest) + Len(t)) /\ (k + i) - Len(s) = i - Len(rest)
      BY <2>1, <2>3, <1>1, <1>2, <1>3
    <3>2. more[i] = t[(k + i) - Len(s)] /\ both[i] = t[i - Len(rest)]
      BY <2>1, <2>3, <3>1, <1>1, <1>5
    <3>. QED BY <3>1, <3>2
  <2>. QED BY <2>2, <2>3
<1>7. Len(more) = Len(both)
  BY <1>1, <1>2, <1>3, <1>4, <1>5
<1>8. more = both
  BY <1>4, <1>5, <1>6, <1>7
<1>. QED BY <1>8 DEF st, rest, more, both

Fresh(s, new) == new \in Seq(Message) /\ Once(new) /\ ToSet(s.ms) \cap ToSet(new) = {}

LEMMA ExtendedProper ==
  ASSUME NEW s, Proper(s), NEW new, Fresh(s, new)
  PROVE  Proper(Extended(s, new))
<1>1. /\ s.ms \in Seq(Message) /\ s.k \in Nat /\ Once(s.ms) /\ (s.k = 1 \/ s.k \in 2..Len(s.ms))
      /\ new \in Seq(Message) /\ Once(new) /\ ToSet(s.ms) \cap ToSet(new) = {}
  BY DEF Proper, View, Fresh
<1>. DEFINE all == s.ms \o new
<1>2. all \in Seq(Message) /\ Len(all) = Len(s.ms) + Len(new) /\ Len(s.ms) \in Nat /\ Len(new) \in Nat
  BY <1>1, ConcatFacts
<1>3. Once(all)
  BY <1>1, OnceConcat
<1>4. Extended(s, new) = [ms |-> all, k |-> s.k]
  BY DEF Extended
<1>. HIDE DEF all
<1>5. s.k = 1 \/ s.k \in 2..Len(all)
  BY <1>1, <1>2
<1>. QED BY <1>1, <1>2, <1>3, <1>4, <1>5 DEF Proper, View

LEMMA ExtendedWithin ==
  ASSUME NEW s, Proper(s), NEW t, Proper(t), Within(t, s), NEW new, Fresh(s, new)
  PROVE  Within(Extended(t, new), Extended(s, new)) /\ Fresh(t, new)
<1>1. /\ s.ms \in Seq(Message) /\ s.k \in Nat /\ (s.k = 1 \/ s.k \in 2..Len(s.ms))
      /\ t.ms \in Seq(Message) /\ t.k \in Nat /\ (t.k = 1 \/ t.k \in 2..Len(t.ms))
      /\ new \in Seq(Message) /\ Once(new) /\ ToSet(s.ms) \cap ToSet(new) = {}
  BY DEF Proper, View, Fresh
<1>2. Fresh(t, new)
  BY <1>1 DEF Within, Fresh
<1>. DEFINE alls == s.ms \o new
            allt == t.ms \o new
<1>3. /\ ToSet(alls) = ToSet(s.ms) \cup ToSet(new) /\ ToSet(allt) = ToSet(t.ms) \cup ToSet(new)
      /\ Len(alls) = Len(s.ms) + Len(new) /\ Len(allt) = Len(t.ms) + Len(new)
      /\ Len(s.ms) \in Nat /\ Len(t.ms) \in Nat /\ Len(new) \in Nat
      /\ \A i \in 1..Len(s.ms) : alls[i] = s.ms[i]
      /\ \A i \in 1..Len(t.ms) : allt[i] = t.ms[i]
  BY <1>1, ConcatFacts, ToSetConcat
<1>. DEFINE es == Extended(s, new)
            et == Extended(t, new)
<1>4. es.ms = alls /\ es.k = s.k /\ et.ms = allt /\ et.k = t.k
  BY DEF Extended
<1>. HIDE DEF alls, allt, es, et
<1>5. Led(es) = Led(s) /\ Led(et) = Led(t)
  <2>1. \A i \in 2..s.k : alls[i] = s.ms[i]
    BY <1>1, <1>3
  <2>2. \A i \in 2..t.k : allt[i] = t.ms[i]
    BY <1>1, <1>3
  <2>. QED BY <1>4, <2>1, <2>2 DEF Led
<1>6. Led(s) \subseteq ToSet(s.ms)
  <2>1. \A i \in 2..s.k : i \in DOMAIN s.ms
    BY <1>1
  <2>. QED BY <2>1 DEF Led, ToSet
<1>8. ASSUME NEW i \in 2..Len(allt) PROVE allt[i] # alls[1]
  <2>1. CASE Len(s.ms) = 0
    <3>1. Len(t.ms) = 0
      BY <2>1, <1>3 DEF Within
    <3>2. allt[i] = new[i] /\ alls[1] = new[1] /\ i \in DOMAIN new /\ 1 \in DOMAIN new /\ i # 1
      BY <1>1, <1>3, <2>1, <3>1, <1>8 DEF alls, allt
    <3>. QED BY <3>2, <1>1 DEF Once
  <2>2. CASE Len(s.ms) # 0
    <3>1. alls[1] = s.ms[1] /\ s.ms[1] \in ToSet(s.ms)
      BY <2>2, <1>1, <1>3, ToSetIs
    <3>2. CASE i <= Len(t.ms)
      <4>1. allt[i] = t.ms[i] /\ i \in 2..Len(t.ms)
        BY <3>2, <1>3, <1>8
      <4>. QED BY <3>1, <4>1 DEF Within
    <3>3. CASE ~(i <= Len(t.ms))
      <4>1. i - Len(t.ms) \in 1..Len(new)
        BY <3>3, <1>3, <1>8
      <4>2. allt[i] = new[i - Len(t.ms)]
        BY <3>3, <1>1, <1>3, <1>8 DEF allt
      <4>3. allt[i] \in ToSet(new)
        BY <1>1, <4>1, <4>2, ToSetIs
      <4>. QED BY <3>1, <4>3, <1>1
    <3>. QED BY <3>2, <3>3
  <2>. QED BY <2>1, <2>2
<1>7. Within(et, es)
  BY <1>1, <1>3, <1>4, <1>5, <1>6, <1>8 DEF Within
<1>. QED BY <1>2, <1>7 DEF es, et

LEMMA ExtendedIs ==
  ASSUME NEW ms, NEW k, NEW new
  PROVE  Extended([ms |-> ms, k |-> k], new) = [ms |-> ms \o new, k |-> k]
BY DEF Extended

\* What is sent behind changes nothing of what an event does before it.
LEMMA AfterExtended ==
  ASSUME NEW s, Proper(s), NEW e \in Event, Meant(s, e), e.is \notin {"dropped", "failed", "closed"},
         NEW new, Fresh(s, new)
  PROVE  /\ Meant(Extended(s, new), e)
         /\ After(Extended(s, new), e) = Extended(After(s, e), new)
<1>1. /\ s.ms \in Seq(Message) /\ s.k \in Nat /\ Once(s.ms) /\ (s.k = 1 \/ s.k \in 2..Len(s.ms))
      /\ new \in Seq(Message) /\ Once(new) /\ ToSet(s.ms) \cap ToSet(new) = {}
  BY DEF Proper, View, Fresh
<1>. DEFINE all == s.ms \o new
            x == Extended(s, new)
<1>2. /\ all \in Seq(Message) /\ Len(all) = Len(s.ms) + Len(new) /\ Len(s.ms) \in Nat /\ Len(new) \in Nat
      /\ \A i \in 1..Len(s.ms) : all[i] = s.ms[i]
  BY <1>1, ConcatFacts
<1>3. x = [ms |-> all, k |-> s.k] /\ x.ms = all /\ x.k = s.k
  BY DEF Extended
<1>4. CASE e.is = "ready"
  <2>1. After(x, e) = x /\ After(s, e) = s
    BY <1>4 DEF After
  <2>. QED BY <1>4, <2>1 DEF Meant
<1>5. CASE e.is = "ended"
  <2>1. s.ms # <<>> /\ s.k \in 0..Len(s.ms) /\ all # <<>>
    <3>1. s.ms # <<>>
      BY <1>5 DEF Meant
    <3>2. Len(s.ms) # 0
      BY <3>1, <1>1
    <3>3. Len(all) # 0
      BY <3>2, <1>2
    <3>. QED BY <3>1, <3>2, <3>3, <1>1, <1>2
  <2>2. Meant(x, e)
    BY <1>3, <1>5, <2>1 DEF Meant
  <2>3. SubSeq(all, s.k + 1, Len(all)) = SubSeq(s.ms, s.k + 1, Len(s.ms)) \o new
    BY <1>1, <2>1, BehindConcat
  <2>4. After(s, e) = [ms |-> SubSeq(s.ms, s.k + 1, Len(s.ms)), k |-> 1]
    BY <1>5 DEF After
  <2>5. After(x, e) = [ms |-> SubSeq(x.ms, x.k + 1, Len(x.ms)), k |-> 1]
    BY <1>5 DEF After
  <2>6. After(x, e) = [ms |-> SubSeq(all, s.k + 1, Len(all)), k |-> 1]
    BY <1>3, <2>5
  <2>. HIDE DEF all, x
  <2>7. After(x, e) = Extended(After(s, e), new)
    <3>1. Extended([ms |-> SubSeq(s.ms, s.k + 1, Len(s.ms)), k |-> 1], new)
              = [ms |-> SubSeq(s.ms, s.k + 1, Len(s.ms)) \o new, k |-> 1]
      BY ExtendedIs
    <3>. QED BY <2>3, <2>4, <2>6, <3>1
  <2>. QED BY <2>2, <2>7 DEF x
<1>6. CASE e.is = "joined"
  <2>1. s.k = 1 /\ Len(e.of) + 1 <= Len(s.ms) /\ Len(e.of) \in Nat
    BY <1>6, EventTypes DEF Meant
  <2>2. Meant(x, e)
    BY <1>2, <1>3, <1>6, <2>1 DEF Meant
  <2>3. After(s, e) = [ms |-> s.ms, k |-> Len(e.of) + 1] /\ After(x, e) = [ms |-> x.ms, k |-> Len(e.of) + 1]
    BY <1>6 DEF After
  <2>4. After(x, e) = Extended(After(s, e), new)
    <3>1. Extended([ms |-> s.ms, k |-> Len(e.of) + 1], new)
              = [ms |-> s.ms \o new, k |-> Len(e.of) + 1]
      BY ExtendedIs
    <3>. QED BY <1>3, <2>3, <3>1
  <2>. QED BY <2>2, <2>4
<1>7. CASE e.is \in {"withdrawn", "taken"}
  <2>. DEFINE names == ToSet(e.of)
  <2>1. \A m \in names : \E i \in (s.k + 1)..Len(s.ms) : s.ms[i] = m
    BY <1>7 DEF Meant
  <2>2. ASSUME NEW m \in names PROVE /\ m \in ToSet(s.ms)
                                     /\ \E i \in (s.k + 1)..Len(all) : all[i] = m
    <3>1. PICK i \in (s.k + 1)..Len(s.ms) : s.ms[i] = m
      BY <2>1
    <3>2. i \in DOMAIN s.ms /\ i \in (s.k + 1)..Len(all) /\ all[i] = m
      BY <3>1, <1>1, <1>2
    <3>. QED BY <3>1, <3>2 DEF ToSet
  <2>. HIDE DEF names
  <2>3. ToSet(new) \cap names = {}
    BY <2>2, <1>1
  <2>4. Minus(all, names) = Minus(s.ms, names) \o new
    <3>1. Minus(all, names) = Minus(s.ms, names) \o Minus(new, names)
      BY <1>1, MinusConcat
    <3>2. Minus(new, names) = new
      BY <2>3, <1>1, MinusNone
    <3>. QED BY <3>1, <3>2
  <2>5. Meant(x, e)
    BY <1>3, <1>7, <2>2 DEF Meant, names
  <2>6. After(s, e) = [ms |-> Minus(s.ms, names), k |-> s.k] /\ After(x, e) = [ms |-> Minus(x.ms, names), k |-> x.k]
    BY <1>7 DEF After, names
  <2>. HIDE DEF all, x
  <2>7. After(x, e) = Extended(After(s, e), new)
    <3>1. Extended([ms |-> Minus(s.ms, names), k |-> s.k], new)
              = [ms |-> Minus(s.ms, names) \o new, k |-> s.k]
      BY ExtendedIs
    <3>. QED BY <1>3, <2>4, <2>6, <3>1
  <2>. QED BY <2>5, <2>7 DEF x
<1>8. e.is \in {"ready", "ended", "joined", "withdrawn", "taken"}
  BY EventTypes
<1>. QED BY <1>4, <1>5, <1>6, <1>7, <1>8

\* Views from the pane's own to the task's, an event between each and the next.
Plays(h, es) ==
    /\ h \in Seq(View) /\ Len(h) = Len(es) + 1
    /\ \A i \in 1..Len(h) : Proper(h[i])
    /\ \A i \in 1..Len(es) : Meant(h[i], es[i]) /\ h[i + 1] = After(h[i], es[i])
    /\ \A i, j \in 1..Len(h) : i <= j => Within(h[j], h[i])

LEMMA WithinSelf == ASSUME NEW s, Proper(s) PROVE Within(s, s)
<1>1. Len(s.ms) \in Nat /\ DOMAIN s.ms = 1..Len(s.ms) /\ Once(s.ms)
  BY DEF Proper, View
<1>2. \A i \in 2..Len(s.ms) : i \in DOMAIN s.ms /\ 1 \in DOMAIN s.ms /\ i # 1
  BY <1>1
<1>. QED BY <1>1, <1>2 DEF Within, Once

LEMMA StartsPlaying ==
  ASSUME NEW s, Proper(s)
  PROVE  Plays(<<s>>, <<>>)
<1>1. s \in View /\ Within(s, s)
  BY WithinSelf DEF Proper
<1>2. <<s>> \in Seq(View) /\ Len(<<s>>) = 1 /\ Len(<<>>) = 0 /\ <<s>>[1] = s
  BY <1>1
<1>3. \A i \in 1..Len(<<s>>) : i = 1
  BY <1>2
<1>4. \A i \in 1..Len(<<>>) : FALSE
  BY <1>2
<1>. DEFINE h == <<s>>
<1>5. h \in Seq(View) /\ Len(h) = Len(<<>>) + 1 /\ h[1] = s /\ \A i \in 1..Len(h) : i = 1
  BY <1>2, <1>3
<1>. HIDE DEF h
<1>6. Plays(h, <<>>)
  BY <1>1, <1>4, <1>5 DEF Plays
<1>. QED BY <1>6 DEF h

LEMMA PlaysTypes ==
  ASSUME NEW es \in Seq(Event), NEW h, Plays(h, es)
  PROVE  /\ h \in Seq(View) /\ Len(es) \in Nat /\ Len(h) = Len(es) + 1 /\ DOMAIN h = 1..(Len(es) + 1)
         /\ \A i \in 1..(Len(es) + 1) : Proper(h[i]) /\ h[i] \in View
         /\ \A i \in 1..Len(es) : Meant(h[i], es[i]) /\ h[i + 1] = After(h[i], es[i]) /\ es[i] \in Event
         /\ \A i, j \in 1..(Len(es) + 1) : i <= j => Within(h[j], h[i])
<1>1. Len(es) \in Nat /\ \A i \in 1..Len(es) : es[i] \in Event
  OBVIOUS
<1>2. /\ h \in Seq(View) /\ Len(h) = Len(es) + 1
      /\ \A i \in 1..Len(h) : Proper(h[i])
      /\ \A i \in 1..Len(es) : Meant(h[i], es[i]) /\ h[i + 1] = After(h[i], es[i])
      /\ \A i, j \in 1..Len(h) : i <= j => Within(h[j], h[i])
  BY DEF Plays
<1>3. \A i \in 1..(Len(es) + 1) : Proper(h[i]) /\ h[i] \in View
  BY <1>2 DEF Proper
<1>4. DOMAIN h = 1..(Len(es) + 1)
  BY <1>2
<1>. QED BY <1>1, <1>2, <1>3, <1>4

\* One more event is told.
LEMMA PlaysOn ==
  ASSUME NEW es \in Seq(Event), NEW h, Plays(h, es),
         NEW e \in Event, Meant(h[Len(es) + 1], e)
  PROVE  \E g : /\ Plays(g, Append(es, e))
                /\ \A i \in 1..(Len(es) + 1) : g[i] = h[i]
                /\ g[Len(es) + 2] = After(h[Len(es) + 1], e)
<1>. DEFINE n == Len(es)
            last == h[n + 1]
            next == After(last, e)
            g == Append(h, next)
            fs == Append(es, e)
<1>1. /\ h \in Seq(View) /\ n \in Nat /\ Len(h) = n + 1
      /\ \A i \in 1..(n + 1) : Proper(h[i]) /\ h[i] \in View
      /\ \A i \in 1..n : Meant(h[i], es[i]) /\ h[i + 1] = After(h[i], es[i])
      /\ \A i, j \in 1..(n + 1) : i <= j => Within(h[j], h[i])
  BY PlaysTypes
<1>2. n + 1 \in 1..(n + 1)
  BY <1>1
<1>3. Proper(next) /\ Within(next, last) /\ next \in View
  <2>1. Proper(last)
    BY <1>1, <1>2
  <2>2. Proper(next) /\ Within(next, last)
    BY <2>1, AfterProper
  <2>. QED BY <2>2 DEF Proper
<1>4. /\ fs \in Seq(Event) /\ Len(fs) = n + 1 /\ fs[n + 1] = e
      /\ \A i \in 1..n : fs[i] = es[i]
  OBVIOUS
<1>. HIDE DEF next, fs
<1>5. /\ g \in Seq(View) /\ Len(g) = n + 2 /\ g[n + 2] = next
      /\ \A i \in 1..(n + 1) : g[i] = h[i]
  BY <1>1, <1>3
<1>. HIDE DEF g, n
<1>6. \A i \in 1..(n + 2) : i \in 1..(n + 1) \/ i = n + 2
  BY <1>1
<1>7. \A i \in 1..(n + 2) : Proper(g[i])
  BY <1>1, <1>3, <1>5, <1>6
<1>8. ASSUME NEW i \in 1..(n + 1) PROVE Meant(g[i], fs[i]) /\ g[i + 1] = After(g[i], fs[i])
  <2>1. CASE i = n + 1
    <3>1. g[i] = last /\ fs[i] = e /\ g[i + 1] = next
      BY <2>1, <1>1, <1>2, <1>4, <1>5
    <3>2. Meant(last, e)
      BY DEF last, n
    <3>. QED BY <3>1, <3>2 DEF next
  <2>2. CASE i # n + 1
    <3>1. i \in 1..n /\ i + 1 \in 1..(n + 1)
      BY <2>2, <1>1
    <3>. QED BY <3>1, <1>1, <1>4, <1>5
  <2>. QED BY <2>1, <2>2
<1>9. ASSUME NEW i \in 1..(n + 2), NEW j \in 1..(n + 2), i <= j PROVE Within(g[j], g[i])
  <2>1. CASE j = n + 2 /\ i = n + 2
    BY <2>1, <1>3, <1>5, WithinSelf
  <2>2. CASE j = n + 2 /\ i \in 1..(n + 1)
    <3>1. Within(last, h[i]) /\ h[i] \in View /\ last \in View
      <4>1. i <= n + 1
        BY <2>2, <1>1
      <4>. QED BY <4>1, <2>2, <1>1, <1>2
    <3>2. Within(next, h[i])
      BY <3>1, <1>3, WithinTrans
    <3>. QED BY <2>2, <3>2, <1>5
  <2>3. CASE j \in 1..(n + 1)
    <3>1. i \in 1..(n + 1)
      BY <2>3, <1>9, <1>1
    <3>. QED BY <2>3, <3>1, <1>9, <1>1, <1>5
  <2>. QED BY <2>1, <2>2, <2>3, <1>6
<1>10. Plays(g, fs)
  <2>1. Len(fs) = n + 1 /\ Len(g) = Len(fs) + 1
    BY <1>1, <1>4, <1>5
  <2>. QED BY <2>1, <1>5, <1>7, <1>8, <1>9 DEF Plays
<1>. QED BY <1>5, <1>10 DEF fs, next, last, n

\* One is heard.
LEMMA PlaysFrom ==
  ASSUME NEW es \in Seq(Event), es # <<>>, NEW h, Plays(h, es)
  PROVE  \E g : /\ Plays(g, Tail(es))
                /\ \A i \in 1..Len(es) : g[i] = h[i + 1]
<1>. DEFINE n == Len(es)
            g == Tail(h)
            fs == Tail(es)
<1>1. /\ h \in Seq(View) /\ n \in Nat /\ Len(h) = n + 1
      /\ \A i \in 1..(n + 1) : Proper(h[i]) /\ h[i] \in View
      /\ \A i \in 1..n : Meant(h[i], es[i]) /\ h[i + 1] = After(h[i], es[i])
      /\ \A i, j \in 1..(n + 1) : i <= j => Within(h[j], h[i])
  BY PlaysTypes
<1>2. n >= 1 /\ n - 1 \in Nat
  BY <1>1
<1>3. /\ fs \in Seq(Event) /\ Len(fs) = n - 1
      /\ \A i \in 1..(n - 1) : fs[i] = es[i + 1]
  BY <1>2
<1>4. /\ g \in Seq(View) /\ Len(g) = n
      /\ \A i \in 1..n : g[i] = h[i + 1]
  BY <1>1, <1>2
<1>. HIDE DEF n, g, fs
<1>5. /\ \A i \in 1..n : i + 1 \in 1..(n + 1)
      /\ \A i \in 1..(n - 1) : i \in 1..n /\ i + 1 \in 1..n
      /\ \A i, j \in 1..n : i <= j => i + 1 <= j + 1
  BY <1>1
<1>6. \A i \in 1..n : Proper(g[i])
  BY <1>1, <1>4, <1>5
<1>7. \A i \in 1..(n - 1) : Meant(g[i], fs[i]) /\ g[i + 1] = After(g[i], fs[i])
  <2>1. ASSUME NEW i \in 1..(n - 1) PROVE Meant(g[i], fs[i]) /\ g[i + 1] = After(g[i], fs[i])
    <3>1. g[i] = h[i + 1] /\ g[i + 1] = h[(i + 1) + 1] /\ fs[i] = es[i + 1] /\ i + 1 \in 1..n
      BY <1>3, <1>4, <1>5
    <3>. QED BY <3>1, <1>1
  <2>. QED BY <2>1
<1>8. \A i, j \in 1..n : i <= j => Within(g[j], g[i])
  BY <1>1, <1>4, <1>5
<1>9. Len(g) = Len(fs) + 1
  BY <1>1, <1>2, <1>3, <1>4
<1>10. Plays(g, fs)
  BY <1>3, <1>4, <1>6, <1>7, <1>8, <1>9 DEF Plays
<1>. QED BY <1>4, <1>10 DEF fs, n

\* More is sent.
LEMMA PlaysBehind ==
  ASSUME NEW es \in Seq(Event), NEW h, Plays(h, es),
         \A i \in 1..Len(es) : es[i].is \notin {"dropped", "failed", "closed"},
         NEW new, Fresh(h[1], new)
  PROVE  \E g : /\ Plays(g, es)
                /\ \A i \in 1..(Len(es) + 1) : g[i] = Extended(h[i], new)
<1>. DEFINE n == Len(es)
            g == [i \in 1..(n + 1) |-> Extended(h[i], new)]
<1>1. /\ h \in Seq(View) /\ n \in Nat /\ Len(h) = n + 1
      /\ \A i \in 1..(n + 1) : Proper(h[i]) /\ h[i] \in View
      /\ \A i \in 1..n : Meant(h[i], es[i]) /\ h[i + 1] = After(h[i], es[i]) /\ es[i] \in Event
      /\ \A i, j \in 1..(n + 1) : i <= j => Within(h[j], h[i])
  BY PlaysTypes
<1>2. \A i \in 1..n : es[i].is \notin {"dropped", "failed", "closed"}
  OBVIOUS
<1>. HIDE DEF n
<1>3. \A i \in 1..(n + 1) : 1 \in 1..(n + 1) /\ 1 <= i
  BY <1>1
<1>4. ASSUME NEW i \in 1..(n + 1) PROVE Fresh(h[i], new)
  BY <1>1, <1>3, ExtendedWithin
<1>5. ASSUME NEW i \in 1..(n + 1) PROVE Proper(Extended(h[i], new)) /\ Extended(h[i], new) \in View
  <2>1. Proper(Extended(h[i], new))
    BY <1>1, <1>4, ExtendedProper
  <2>. QED BY <2>1 DEF Proper
<1>6. /\ g \in Seq(View) /\ Len(g) = n + 1
      /\ \A i \in 1..(n + 1) : g[i] = Extended(h[i], new)
  <2>1. n + 1 \in Nat
    BY <1>1
  <2>. QED BY <2>1, <1>5
<1>. HIDE DEF g
<1>7. \A i \in 1..(n + 1) : Proper(g[i])
  BY <1>5, <1>6
<1>8. ASSUME NEW i \in 1..n PROVE Meant(g[i], es[i]) /\ g[i + 1] = After(g[i], es[i])
  <2>1. i \in 1..(n + 1) /\ i + 1 \in 1..(n + 1)
    BY <1>1
  <2>2. Meant(Extended(h[i], new), es[i]) /\ After(Extended(h[i], new), es[i]) = Extended(After(h[i], es[i]), new)
    BY <2>1, <1>1, <1>2, <1>4, AfterExtended
  <2>. QED BY <2>1, <2>2, <1>1, <1>6
<1>9. ASSUME NEW i \in 1..(n + 1), NEW j \in 1..(n + 1), i <= j PROVE Within(g[j], g[i])
  <2>1. Within(Extended(h[j], new), Extended(h[i], new))
    BY <1>1, <1>4, <1>9, ExtendedWithin
  <2>. QED BY <2>1, <1>6
<1>10. Plays(g, es)
  BY <1>6, <1>7, <1>8, <1>9 DEF Plays, n
<1>. QED BY <1>6, <1>10 DEF n

\* More is sent to a task whose end is told, and is last: it goes as all does.
LEMMA PlaysBefore ==
  ASSUME NEW es \in Seq(Event), es # <<>>, NEW h, Plays(h, es),
         es[Len(es)].is = "closed",
         \A i \in 1..Len(es) : es[i].is \notin {"dropped", "failed"},
         \A i \in 1..Len(es) : es[i].is = "closed" => i = Len(es),
         NEW new, Fresh(h[1], new)
  PROVE  \E g : /\ Plays(g, es)
                /\ \A i \in 1..Len(es) : g[i] = Extended(h[i], new)
                /\ g[Len(es) + 1] = h[Len(es) + 1]
<1>. DEFINE n == Len(es)
            g == [i \in 1..(n + 1) |-> IF i = n + 1 THEN h[i] ELSE Extended(h[i], new)]
<1>1. /\ h \in Seq(View) /\ n \in Nat /\ Len(h) = n + 1
      /\ \A i \in 1..(n + 1) : Proper(h[i]) /\ h[i] \in View
      /\ \A i \in 1..n : Meant(h[i], es[i]) /\ h[i + 1] = After(h[i], es[i]) /\ es[i] \in Event
      /\ \A i, j \in 1..(n + 1) : i <= j => Within(h[j], h[i])
  BY PlaysTypes
<1>2. /\ n >= 1 /\ es[n].is = "closed"
      /\ \A i \in 1..n : es[i].is \notin {"dropped", "failed"} /\ (es[i].is = "closed" => i = n)
  OBVIOUS
<1>. HIDE DEF n
<1>3. \A i \in 1..(n + 1) : 1 \in 1..(n + 1) /\ 1 <= i
  BY <1>1
<1>4. ASSUME NEW i \in 1..(n + 1) PROVE Fresh(h[i], new)
  BY <1>1, <1>3, ExtendedWithin
<1>5. ASSUME NEW i \in 1..(n + 1) PROVE Proper(Extended(h[i], new)) /\ Extended(h[i], new) \in View
  <2>1. Proper(Extended(h[i], new))
    BY <1>1, <1>4, ExtendedProper
  <2>. QED BY <2>1 DEF Proper
<1>6. /\ g \in Seq(View) /\ Len(g) = n + 1 /\ g[n + 1] = h[n + 1]
      /\ \A i \in 1..n : g[i] = Extended(h[i], new)
  <2>1. n + 1 \in Nat /\ n + 1 \in 1..(n + 1) /\ \A i \in 1..n : i \in 1..(n + 1) /\ i # n + 1
    BY <1>1
  <2>2. \A i \in 1..(n + 1) : (IF i = n + 1 THEN h[i] ELSE Extended(h[i], new)) \in View
    BY <1>1, <1>5
  <2>. QED BY <2>1, <2>2
<1>. HIDE DEF g
<1>7. \A i \in 1..(n + 1) : i = n + 1 \/ i \in 1..n
  BY <1>1
<1>8. \A i \in 1..(n + 1) : Proper(g[i])
  BY <1>1, <1>5, <1>6, <1>7
<1>9. ASSUME NEW i \in 1..n PROVE Meant(g[i], es[i]) /\ g[i + 1] = After(g[i], es[i])
  <2>1. i \in 1..(n + 1) /\ i + 1 \in 1..(n + 1)
    BY <1>1
  <2>2. CASE i = n
    <3>1. Meant(g[i], es[i])
      BY <1>2, <2>2 DEF Meant
    <3>2. After(g[i], es[i]) = [ms |-> <<>>, k |-> 1] /\ After(h[i], es[i]) = [ms |-> <<>>, k |-> 1]
      BY <1>2, <2>2 DEF After
    <3>. QED BY <3>1, <3>2, <2>2, <1>1, <1>6
  <2>3. CASE i # n
    <3>1. i + 1 \in 1..n /\ es[i].is \notin {"dropped", "failed", "closed"}
      BY <1>1, <1>2, <2>3
    <3>2. Meant(Extended(h[i], new), es[i]) /\ After(Extended(h[i], new), es[i]) = Extended(After(h[i], es[i]), new)
      BY <2>1, <3>1, <1>1, <1>4, AfterExtended
    <3>. QED BY <2>1, <3>1, <3>2, <1>1, <1>6
  <2>. QED BY <2>2, <2>3
<1>10. ASSUME NEW i \in 1..(n + 1), NEW j \in 1..(n + 1), i <= j PROVE Within(g[j], g[i])
  <2>1. CASE j \in 1..n
    <3>1. i \in 1..n
      BY <2>1, <1>1, <1>10
    <3>2. Within(Extended(h[j], new), Extended(h[i], new))
      BY <1>1, <1>4, <1>10, ExtendedWithin
    <3>. QED BY <2>1, <3>1, <3>2, <1>6
  <2>2. CASE j = n + 1
    <3>1. n \in 1..n /\ n \in 1..(n + 1)
      BY <1>1, <1>2
    <3>2. g[j] = [ms |-> <<>>, k |-> 1]
      BY <3>1, <1>2, <1>9, <2>2 DEF After
    <3>3. g[i].ms \in Seq(Message) /\ ToSet(<<>>) = {} /\ Len(<<>>) = 0
      BY <1>8 DEF Proper, View, ToSet
    <3>4. g[j].ms = <<>>
      BY <3>2
    <3>. QED BY <3>3, <3>4 DEF Within
  <2>. QED BY <2>1, <2>2, <1>7
<1>11. Plays(g, es)
  BY <1>6, <1>8, <1>9, <1>10 DEF Plays, n
<1>. QED BY <1>6, <1>11 DEF n

\* The pane's rows say what a view says.
Shows(rows, s) ==
    /\ Messages(rows) = s.ms
    /\ \A i \in 1..Len(rows) : rows[i].joined <=> i \in 2..s.k

\* A turn told to have failed leaves nothing behind it, unless the task ends.
Lasts(h, es, at) ==
    \A i \in 1..Len(es) : es[i].is = "failed" => at = "none" \/ Len(h[i].ms) = 1

\* What a hook was answered with is waited on until the pane hears of it.
Taking(h, es, tk) ==
    \A i \in 1..(Len(es) + 1) :
        ToSet(h[i].ms) \cap tk # {} => \E j \in i..Len(es) : es[j].is = "taken"

\* The events make of what the pane shows what the task has.
Replays(rows, es, tk, s, at) ==
    \E h : /\ Plays(h, es) /\ Shows(rows, h[1]) /\ h[Len(es) + 1] = s
           /\ Lasts(h, es, at) /\ Taking(h, es, tk)

LEMMA ReplaysNothing ==
  ASSUME NEW rows, NEW s, Proper(s), Shows(rows, s), NEW tk, ToSet(s.ms) \cap tk = {}, NEW at
  PROVE  Replays(rows, <<>>, tk, s, at)
<1>. DEFINE h == <<s>>
            es == <<>>
<1>1. Len(es) = 0 /\ h[1] = s /\ Plays(h, es)
  BY StartsPlaying
<1>. HIDE DEF h, es
<1>2. Lasts(h, es, at)
  BY <1>1 DEF Lasts
<1>3. Taking(h, es, tk)
  <2>1. \A i \in 1..(Len(es) + 1) : i = 1
    BY <1>1
  <2>. QED BY <1>1, <2>1 DEF Taking
<1>4. Replays(rows, es, tk, s, at)
  <2>1. h[Len(es) + 1] = s
    BY <1>1
  <2>. QED BY <1>1, <1>2, <1>3, <2>1 DEF Replays
<1>. QED BY <1>4 DEF es

\* With less taken, or the end in sight.
LEMMA ReplaysStill ==
  ASSUME NEW rows, NEW es, NEW tk, NEW s, NEW at, Replays(rows, es, tk, s, at),
         NEW less, less \subseteq tk, NEW next, at = "none" => next = "none"
  PROVE  Replays(rows, es, less, s, next)
<1>1. PICK h : /\ Plays(h, es) /\ Shows(rows, h[1]) /\ h[Len(es) + 1] = s
               /\ Lasts(h, es, at) /\ Taking(h, es, tk)
  BY DEF Replays
<1>2. Lasts(h, es, next)
  BY <1>1 DEF Lasts
<1>3. Taking(h, es, less)
  <2>1. \A i : ToSet(h[i].ms) \cap less # {} => ToSet(h[i].ms) \cap tk # {}
    OBVIOUS
  <2>. QED BY <1>1, <2>1 DEF Taking
<1>. QED BY <1>1, <1>2, <1>3 DEF Replays

LEMMA ReplaysTell ==
  ASSUME NEW rows, NEW es \in Seq(Event), NEW tk, NEW s, NEW at,
         Replays(rows, es, tk, s, at),
         NEW e \in Event, Meant(s, e), e.is = "failed" => at = "none" \/ Len(s.ms) = 1,
         NEW now, now = tk \/ (e.is = "taken" /\ ToSet(After(s, e).ms) \cap now = {})
  PROVE  Replays(rows, Append(es, e), now, After(s, e), at)
<1>1. PICK h : /\ Plays(h, es) /\ Shows(rows, h[1]) /\ h[Len(es) + 1] = s
               /\ Lasts(h, es, at) /\ Taking(h, es, tk)
  BY DEF Replays
<1>. DEFINE n == Len(es)
            fs == Append(es, e)
<1>2. PICK g : /\ Plays(g, fs)
               /\ \A i \in 1..(n + 1) : g[i] = h[i]
               /\ g[n + 2] = After(h[n + 1], e)
  <2>1. Meant(h[Len(es) + 1], e)
    BY <1>1
  <2>. QED BY <1>1, <2>1, PlaysOn
<1>3. /\ n \in Nat /\ Len(fs) = n + 1 /\ fs[n + 1] = e
      /\ \A i \in 1..n : fs[i] = es[i]
  OBVIOUS
<1>4. h[n + 1] = s
  BY <1>1
<1>. HIDE DEF fs
<1>5. /\ \A i \in 1..n : es[i].is = "failed" => at = "none" \/ Len(h[i].ms) = 1
      /\ \A i \in 1..(n + 1) :
            ToSet(h[i].ms) \cap tk # {} => \E j \in i..n : es[j].is = "taken"
  BY <1>1 DEF Lasts, Taking
<1>. HIDE DEF n
<1>6. Lasts(g, fs, at)
  <2>1. ASSUME NEW i \in 1..Len(fs), fs[i].is = "failed" PROVE at = "none" \/ Len(g[i].ms) = 1
    <3>1. i \in 1..(n + 1) /\ (i = n + 1 \/ i \in 1..n)
      BY <1>3
    <3>2. CASE i = n + 1
      <4>1. g[i] = s /\ fs[i] = e
        BY <1>2, <1>3, <1>4, <3>1, <3>2
      <4>. QED BY <4>1, <2>1
    <3>3. CASE i \in 1..n
      <4>1. g[i] = h[i] /\ fs[i] = es[i]
        BY <1>2, <1>3, <3>1, <3>3
      <4>. QED BY <4>1, <1>5, <2>1, <3>3
    <3>. QED BY <3>1, <3>2, <3>3
  <2>. QED BY <2>1 DEF Lasts
<1>7. Taking(g, fs, now)
  <2>1. ASSUME NEW i \in 1..(n + 2), ToSet(g[i].ms) \cap now # {}
        PROVE  \E j \in i..(n + 1) : fs[j].is = "taken"
    <3>1. CASE e.is = "taken" /\ i # n + 2
      <4>1. n + 1 \in i..(n + 1)
        BY <3>1, <1>3
      <4>. QED BY <4>1, <1>3, <3>1
    <3>2. CASE now = tk /\ i # n + 2
      <4>1. i \in 1..(n + 1) /\ g[i] = h[i]
        BY <3>2, <1>2, <1>3
      <4>2. PICK j \in i..n : es[j].is = "taken"
        BY <4>1, <1>5, <2>1, <3>2
      <4>3. j \in 1..n /\ j \in i..(n + 1)
        BY <1>3
      <4>. QED BY <4>2, <4>3, <1>3
    <3>3. CASE i = n + 2
      <4>1. g[i] = After(s, e)
        BY <3>3, <1>2, <1>4
      <4>2. now = tk
        BY <4>1, <2>1
      <4>3. Within(After(s, e), s)
        <5>1. Proper(s)
          <6>1. n + 1 \in 1..(Len(es) + 1)
            BY <1>3 DEF n
          <6>. QED BY <6>1, <1>1, <1>4, PlaysTypes
        <5>. QED BY <5>1, AfterProper
      <4>4. ToSet(h[n + 1].ms) \cap tk # {}
        BY <4>1, <4>2, <4>3, <2>1, <1>4 DEF Within
      <4>5. \E j \in (n + 1)..n : es[j].is = "taken"
        <5>1. n + 1 \in 1..(n + 1)
          BY <1>3
        <5>. QED BY <5>1, <4>4, <1>5
      <4>. QED BY <4>5, <1>3
    <3>. QED BY <3>1, <3>2, <3>3
  <2>2. Len(fs) + 1 = n + 2
    BY <1>3
  <2>. QED BY <2>1, <2>2, <1>3 DEF Taking
<1>8. Shows(rows, g[1]) /\ g[Len(fs) + 1] = After(s, e)
  <2>1. 1 \in 1..(n + 1) /\ Len(fs) + 1 = n + 2
    BY <1>3
  <2>. QED BY <2>1, <1>1, <1>2, <1>4
<1>9. Replays(rows, fs, now, After(s, e), at)
  BY <1>2, <1>6, <1>7, <1>8 DEF Replays
<1>. QED BY <1>9 DEF fs

LEMMA ReplaysHear ==
  ASSUME NEW rows, NEW es \in Seq(Event), es # <<>>, NEW tk, NEW s, NEW at,
         Replays(rows, es, tk, s, at)
  PROVE  \E v : /\ Shows(rows, v) /\ Proper(v) /\ Meant(v, Head(es))
                /\ Head(es).is = "failed" => at = "none" \/ Len(v.ms) = 1
                /\ \A heard : Shows(heard, After(v, Head(es))) =>
                                 Replays(heard, Tail(es), tk, s, at)
<1>1. PICK h : /\ Plays(h, es) /\ Shows(rows, h[1]) /\ h[Len(es) + 1] = s
               /\ Lasts(h, es, at) /\ Taking(h, es, tk)
  BY DEF Replays
<1>. DEFINE n == Len(es)
            fs == Tail(es)
            e == Head(es)
<1>2. PICK g : Plays(g, fs) /\ \A i \in 1..n : g[i] = h[i + 1]
  BY <1>1, PlaysFrom
<1>3. n \in Nat /\ n >= 1 /\ Len(fs) = n - 1 /\ e = es[1] /\ \A i \in 1..(n - 1) : fs[i] = es[i + 1]
  OBVIOUS
<1>4. /\ \A i \in 1..(n + 1) : Proper(h[i])
      /\ \A i \in 1..n : Meant(h[i], es[i]) /\ h[i + 1] = After(h[i], es[i])
      /\ h[n + 1] = s
      /\ \A i \in 1..n : es[i].is = "failed" => at = "none" \/ Len(h[i].ms) = 1
      /\ \A i \in 1..(n + 1) :
            ToSet(h[i].ms) \cap tk # {} => \E j \in i..n : es[j].is = "taken"
  BY <1>1, PlaysTypes DEF Lasts, Taking
<1>. HIDE DEF n, fs, e
<1>5. 1 \in 1..n /\ 1 \in 1..(n + 1) /\ n \in 1..n /\ 1 + 1 = 2
  BY <1>3
<1>6. Proper(h[1]) /\ Meant(h[1], e) /\ (e.is = "failed" => at = "none" \/ Len(h[1].ms) = 1)
  BY <1>3, <1>4, <1>5
<1>7. g[1] = After(h[1], e) /\ g[n] = s
  <2>1. h[1 + 1] = After(h[1], es[1])
    BY <1>4, <1>5
  <2>2. g[1] = h[1 + 1] /\ g[n] = h[n + 1]
    BY <1>2, <1>5
  <2>. QED BY <2>1, <2>2, <1>3, <1>4
<1>8. Lasts(g, fs, at)
  <2>1. ASSUME NEW i \in 1..(n - 1), fs[i].is = "failed" PROVE at = "none" \/ Len(g[i].ms) = 1
    <3>1. i + 1 \in 1..n /\ i \in 1..n
      BY <1>3
    <3>. QED BY <3>1, <2>1, <1>2, <1>3, <1>4
  <2>. QED BY <2>1, <1>3 DEF Lasts
<1>9. Taking(g, fs, tk)
  <2>1. ASSUME NEW i \in 1..n, ToSet(g[i].ms) \cap tk # {}
        PROVE  \E j \in i..(n - 1) : fs[j].is = "taken"
    <3>1. i + 1 \in 1..(n + 1) /\ g[i] = h[i + 1]
      BY <1>2, <1>3
    <3>2. PICK j \in (i + 1)..n : es[j].is = "taken"
      BY <3>1, <2>1, <1>4
    <3>3. j - 1 \in i..(n - 1) /\ j - 1 \in 1..(n - 1) /\ (j - 1) + 1 = j
      BY <1>3
    <3>4. fs[j - 1] = es[j]
      BY <3>3, <1>3
    <3>. QED BY <3>2, <3>3, <3>4
  <2>2. Len(fs) + 1 = n
    BY <1>3
  <2>. QED BY <2>1, <2>2, <1>3 DEF Taking
<1>10. ASSUME NEW heard, Shows(heard, After(h[1], e)) PROVE Replays(heard, fs, tk, s, at)
  <2>1. Len(fs) + 1 = n
    BY <1>3
  <2>. QED BY <1>2, <1>7, <1>8, <1>9, <1>10, <2>1 DEF Replays
<1>. QED BY <1>1, <1>6, <1>10 DEF e, fs

\* More sent.
Sends(rows, more, new) == \A v : Shows(rows, v) /\ Proper(v) => Shows(more, Extended(v, new))

LEMMA ReplaysBehind ==
  ASSUME NEW rows, NEW es \in Seq(Event), NEW tk, NEW s, NEW at,
         Replays(rows, es, tk, s, at),
         \A i \in 1..Len(es) : es[i].is \notin {"dropped", "failed", "closed"},
         NEW new \in Seq(Message), Once(new), ToSet(Messages(rows)) \cap ToSet(new) = {},
         NEW more, Sends(rows, more, new),
         NEW left, left \subseteq tk, left \cap ToSet(new) = {}
  PROVE  Replays(more, es, left, Extended(s, new), at)
<1>1. PICK h : /\ Plays(h, es) /\ Shows(rows, h[1]) /\ h[Len(es) + 1] = s
               /\ Lasts(h, es, at) /\ Taking(h, es, tk)
  BY DEF Replays
<1>2. Fresh(h[1], new)
  BY <1>1 DEF Shows, Fresh
<1>3. PICK g : Plays(g, es) /\ \A i \in 1..(Len(es) + 1) : g[i] = Extended(h[i], new)
  BY <1>1, <1>2, PlaysBehind
<1>. DEFINE n == Len(es)
<1>4. n \in Nat /\ 1 \in 1..(n + 1) /\ n + 1 \in 1..(n + 1)
  OBVIOUS
<1>5. Shows(more, g[1])
  <2>1. Proper(h[1])
    BY <1>1, <1>4, PlaysTypes
  <2>. QED BY <1>1, <1>3, <1>4, <2>1 DEF Sends
<1>6. g[n + 1] = Extended(s, new)
  BY <1>1, <1>3, <1>4
<1>7. Lasts(g, es, at)
  <2>1. \A i \in 1..Len(es) : es[i].is # "failed"
    <3>1. ASSUME NEW i \in 1..Len(es) PROVE es[i].is # "failed"
      <4>1. es[i].is \notin {"dropped", "failed", "closed"}
        OBVIOUS
      <4>. QED BY <4>1
    <3>. QED BY <3>1
  <2>. QED BY <2>1 DEF Lasts
<1>8. Taking(g, es, left)
  <2>1. ASSUME NEW i \in 1..(n + 1), ToSet(g[i].ms) \cap left # {}
        PROVE  \E j \in i..n : es[j].is = "taken"
    <3>1. h[i].ms \in Seq(Message)
      BY <1>1, PlaysTypes DEF View
    <3>2. g[i].ms = h[i].ms \o new
      <4>1. g[i] = Extended(h[i], new)
        BY <1>3
      <4>2. Extended(h[i], new).ms = h[i].ms \o new
        BY DEF Extended
      <4>. QED BY <4>1, <4>2
    <3>3. ToSet(g[i].ms) = ToSet(h[i].ms) \cup ToSet(new)
      BY <3>1, <3>2, ToSetConcat
    <3>4. ToSet(h[i].ms) \cap tk # {}
      BY <2>1, <3>3
    <3>. QED BY <1>1, <3>4 DEF Taking
  <2>. QED BY <2>1 DEF Taking
<1>. QED BY <1>3, <1>5, <1>6, <1>7, <1>8 DEF Replays

\* More sent to a task whose end is told: it had nothing, and has nothing.
LEMMA ReplaysBefore ==
  ASSUME NEW rows, NEW es \in Seq(Event), es # <<>>, NEW tk, NEW s, NEW at,
         Replays(rows, es, tk, s, at),
         es[Len(es)].is = "closed",
         \A i \in 1..Len(es) : es[i].is \notin {"dropped", "failed"},
         \A i \in 1..Len(es) : es[i].is = "closed" => i = Len(es),
         NEW new \in Seq(Message), Once(new), ToSet(Messages(rows)) \cap ToSet(new) = {},
         tk \cap ToSet(new) = {},
         NEW more, Sends(rows, more, new)
  PROVE  Replays(more, es, tk, s, at)
<1>1. PICK h : /\ Plays(h, es) /\ Shows(rows, h[1]) /\ h[Len(es) + 1] = s
               /\ Lasts(h, es, at) /\ Taking(h, es, tk)
  BY DEF Replays
<1>2. Fresh(h[1], new)
  BY <1>1 DEF Shows, Fresh
<1>3. PICK g : /\ Plays(g, es)
               /\ \A i \in 1..Len(es) : g[i] = Extended(h[i], new)
               /\ g[Len(es) + 1] = h[Len(es) + 1]
  BY <1>1, <1>2, PlaysBefore
<1>. DEFINE n == Len(es)
<1>4. n \in Nat /\ 1 \in 1..n /\ 1 \in 1..(n + 1) /\ \A i \in 1..(n + 1) : i = n + 1 \/ i \in 1..n
  OBVIOUS
<1>5. Shows(more, g[1])
  <2>1. Proper(h[1])
    BY <1>1, <1>4, PlaysTypes
  <2>. QED BY <1>1, <1>3, <1>4, <2>1 DEF Sends
<1>6. g[n + 1] = s
  BY <1>1, <1>3
<1>7. Lasts(g, es, at)
  <2>1. ASSUME NEW i \in 1..Len(es) PROVE es[i].is # "failed"
    <3>1. es[i].is \notin {"dropped", "failed"}
      OBVIOUS
    <3>. QED BY <3>1
  <2>. QED BY <2>1 DEF Lasts
<1>8. Taking(g, es, tk)
  <2>1. ASSUME NEW i \in 1..(n + 1), ToSet(g[i].ms) \cap tk # {}
        PROVE  \E j \in i..n : es[j].is = "taken"
    <3>1. ToSet(h[i].ms) \cap tk # {}
      <4>1. CASE i = n + 1
        BY <4>1, <1>3, <2>1
      <4>2. CASE i \in 1..n
        <5>1. h[i].ms \in Seq(Message)
          BY <1>1, PlaysTypes DEF View
        <5>2. g[i].ms = h[i].ms \o new
          <6>1. g[i] = Extended(h[i], new)
            BY <1>3, <4>2
          <6>2. Extended(h[i], new).ms = h[i].ms \o new
            BY DEF Extended
          <6>. QED BY <6>1, <6>2
        <5>3. ToSet(g[i].ms) = ToSet(h[i].ms) \cup ToSet(new)
          BY <5>1, <5>2, ToSetConcat
        <5>. QED BY <2>1, <5>3
      <4>. QED BY <1>4, <4>1, <4>2
    <3>. QED BY <1>1, <3>1 DEF Taking
  <2>. QED BY <2>1 DEF Taking
<1>. QED BY <1>3, <1>5, <1>6, <1>7, <1>8 DEF Replays

\* What can be said of the pane from what the task has, and the other way.
LEMMA ReplaysFacts ==
  ASSUME NEW rows \in Seq(Row), NEW es \in Seq(Event), NEW tk, NEW s, NEW at,
         Replays(rows, es, tk, s, at)
  PROVE  /\ Proper(s)
         /\ Once(Messages(rows)) /\ ToSet(s.ms) \subseteq ToSet(Messages(rows))
         /\ Len(s.ms) <= Len(rows)
         /\ \A i \in 1..Len(rows) : rows[i].joined /\ rows[i].msg \in ToSet(s.ms) => rows[i].msg \in Led(s)
         /\ \A i \in 2..Len(s.ms) : s.ms[i] # rows[1].msg
         /\ es = <<>> => Shows(rows, s)
         /\ (\A i \in 1..Len(es) : es[i].is # "taken") => ToSet(Messages(rows)) \cap tk = {}
<1>1. PICK h : /\ Plays(h, es) /\ Shows(rows, h[1]) /\ h[Len(es) + 1] = s
               /\ Lasts(h, es, at) /\ Taking(h, es, tk)
  BY DEF Replays
<1>. DEFINE n == Len(es)
<1>2. n \in Nat /\ 1 \in 1..(n + 1) /\ n + 1 \in 1..(n + 1) /\ 1 <= n + 1
  OBVIOUS
<1>3. Proper(s) /\ Proper(h[1]) /\ Within(s, h[1])
  BY <1>1, <1>2, PlaysTypes
<1>4. /\ h[1].ms = Messages(rows) /\ Len(h[1].ms) = Len(rows) /\ Len(rows) \in Nat
      /\ \A i \in 1..Len(rows) : h[1].ms[i] = rows[i].msg
  <2>1. \A r \in Row : r.msg \in Message
    BY DEF Row
  <2>. QED BY <1>1, <2>1, MessagesFacts DEF Shows
<1>5. \A i \in 1..Len(rows) : rows[i].joined /\ rows[i].msg \in ToSet(s.ms) => rows[i].msg \in Led(s)
  <2>1. ASSUME NEW i \in 1..Len(rows), rows[i].joined, rows[i].msg \in ToSet(s.ms)
        PROVE  rows[i].msg \in Led(s)
    <3>1. i \in 2..h[1].k
      BY <1>1, <2>1 DEF Shows
    <3>2. rows[i].msg \in Led(h[1])
      BY <1>4, <3>1 DEF Led
    <3>. QED BY <3>2, <2>1, <1>3 DEF Within
  <2>. QED BY <2>1
<1>6. \A i \in 2..Len(s.ms) : s.ms[i] # rows[1].msg
  <2>1. ASSUME NEW i \in 2..Len(s.ms) PROVE s.ms[i] # rows[1].msg
    <3>1. Len(s.ms) <= Len(rows) /\ Len(s.ms) \in Nat
      BY <1>3, <1>4 DEF Within, Proper, View
    <3>2. h[1].ms[1] = rows[1].msg
      BY <3>1, <1>4
    <3>. QED BY <3>2, <1>3 DEF Within
  <2>. QED BY <2>1
<1>7. es = <<>> => Shows(rows, s)
  BY <1>1, <1>2
<1>8. (\A i \in 1..Len(es) : es[i].is # "taken") => ToSet(Messages(rows)) \cap tk = {}
  BY <1>1, <1>2, <1>4 DEF Taking
<1>. QED BY <1>3, <1>4, <1>5, <1>6, <1>7, <1>8 DEF Within, Proper

-----------------------------------------------------------------------------
(* Hearing.                                                                *)

LEMMA MessagesAt ==
  ASSUME NEW R, \A r \in R : r.msg \in Message, NEW rows \in Seq(R),
         NEW places, places \subseteq DOMAIN rows
  PROVE  Messages(At(rows, places)) = At(Messages(rows), places)
<1>. DEFINE n == Cardinality(places)
            some == At(rows, places)
            ms == Messages(rows)
            left == Messages(some)
            right == At(ms, places)
<1>1. /\ some \in Seq(R) /\ Len(some) = n /\ n \in 0..Len(rows)
      /\ \A k \in 1..n : some[k] = rows[Nth(places, k)]
  BY AtFacts
<1>2. /\ ms \in Seq(Message) /\ Len(ms) = Len(rows)
      /\ \A i \in 1..Len(rows) : ms[i] = rows[i].msg
  BY MessagesFacts
<1>3. places \subseteq DOMAIN ms /\ places \subseteq 1..Len(rows) /\ Len(rows) \in Nat
  BY <1>2
<1>. HIDE DEF some, ms
<1>4. left \in Seq(Message) /\ Len(left) = n /\ \A k \in 1..n : left[k] = some[k].msg
  BY <1>1, MessagesFacts
<1>5. right \in Seq(Message) /\ Len(right) = n /\ \A k \in 1..n : right[k] = ms[Nth(places, k)]
  BY <1>2, <1>3, AtFacts
<1>6. \A k \in 1..n : Nth(places, k) \in places
  BY <1>3, NthFacts
<1>7. \A k \in 1..n : left[k] = right[k]
  <2>1. ASSUME NEW k \in 1..n PROVE left[k] = right[k]
    <3>1. Nth(places, k) \in 1..Len(rows)
      BY <1>3, <1>6
    <3>. QED BY <3>1, <1>1, <1>2, <1>4, <1>5
  <2>. QED BY <2>1
<1>. HIDE DEF left, right
<1>8. left = right
  BY <1>4, <1>5, <1>7
<1>. QED BY <1>8 DEF left, right, some, ms

LEMMA MessagesWithout ==
  ASSUME NEW R, \A r \in R : r.msg \in Message, NEW rows \in Seq(R), NEW names
  PROVE  Messages(Without(rows, names)) = Minus(Messages(rows), names)
<1>. DEFINE places == {i \in DOMAIN rows : rows[i].msg \notin names}
            ms == Messages(rows)
<1>1. /\ Len(ms) = Len(rows) /\ \A i \in 1..Len(rows) : ms[i] = rows[i].msg
      /\ ms \in Seq(Message)
  BY MessagesFacts
<1>2. DOMAIN ms = DOMAIN rows /\ DOMAIN rows = 1..Len(rows)
  BY <1>1
<1>3. places = {i \in DOMAIN ms : ms[i] \notin names}
  BY <1>1, <1>2
<1>4. Messages(At(rows, places)) = At(ms, places)
  <2>1. places \subseteq DOMAIN rows
    OBVIOUS
  <2>. HIDE DEF places
  <2>. QED BY <2>1, MessagesAt
<1>. QED BY <1>3, <1>4 DEF Without, Minus

\* What a row sent to wait is among, and what comes of it.
KeepsWaiting(rows, heard) ==
    \A i \in 2..Len(heard) : heard[i].waits =>
        \E j \in 2..Len(rows) : rows[j].waits /\ rows[j].msg = heard[i].msg

LEMMA ShownFacts ==
  ASSUME NEW rows \in Seq(Row), NEW v, Proper(v), Shows(rows, v)
  PROVE  /\ v.ms \in Seq(Message) /\ Len(v.ms) = Len(rows) /\ Len(rows) \in Nat
         /\ v.ms = Messages(rows)
         /\ \A i \in 1..Len(rows) : rows[i] \in Row /\ v.ms[i] = rows[i].msg
         /\ \A i \in 1..Len(rows) : rows[i].joined <=> i \in 2..v.k
         /\ v.k \in Nat /\ (v.k = 1 \/ v.k \in 2..Len(rows)) /\ Once(v.ms)
         /\ rows # <<>> => v.k \in 1..Len(rows)
<1>1. \A r \in Row : r.msg \in Message
  BY DEF Row
<1>2. /\ Messages(rows) \in Seq(Message) /\ Len(Messages(rows)) = Len(rows)
      /\ \A i \in 1..Len(rows) : Messages(rows)[i] = rows[i].msg
  BY <1>1, MessagesFacts
<1>3. Len(rows) \in Nat /\ (rows # <<>> => Len(rows) >= 1) /\ \A i \in 1..Len(rows) : rows[i] \in Row
  OBVIOUS
<1>4. v.k \in Nat /\ (v.k = 1 \/ v.k \in 2..Len(rows)) /\ Once(v.ms)
  BY <1>2 DEF Proper, View, Shows
<1>. QED BY <1>2, <1>3, <1>4 DEF Shows

LEMMA PoppedIs ==
  ASSUME NEW rows \in Seq(Row), rows # <<>>, NEW v, Proper(v), Shows(rows, v)
  PROVE  Popped(rows) = v.k
<1>1. /\ Len(rows) \in Nat /\ v.k \in 1..Len(rows)
      /\ \A i \in 1..Len(rows) : rows[i].joined <=> i \in 2..v.k
  BY ShownFacts
<1>. DEFINE p == Popped(rows)
<1>2. /\ p \in 0..Len(rows) /\ p >= 1 /\ \A i \in 2..p : rows[i].joined
      /\ p < Len(rows) => ~rows[p + 1].joined
  BY PoppedFacts
<1>. HIDE DEF p
<1>3. ~(p < v.k)
  <2>1. SUFFICES ASSUME p < v.k PROVE FALSE
    OBVIOUS
  <2>2. p < Len(rows) /\ p + 1 \in 1..Len(rows) /\ p + 1 \in 2..v.k
    BY <1>1, <1>2, <2>1
  <2>. QED BY <1>1, <1>2, <2>2
<1>4. ~(v.k < p)
  <2>1. SUFFICES ASSUME v.k < p PROVE FALSE
    OBVIOUS
  <2>2. p \in 2..p /\ p \in 1..Len(rows) /\ p \notin 2..v.k
    BY <1>1, <1>2, <2>1
  <2>. QED BY <1>1, <1>2, <2>2
<1>. QED BY <1>1, <1>2, <1>3, <1>4 DEF p

LEMMA RestShown ==
  ASSUME NEW rows \in Seq(Row), rows # <<>>, NEW v, Proper(v), Shows(rows, v),
         NEW e, e.is \in {"ended", "failed"}
  PROVE  /\ Shows(Rest(rows), After(v, e)) /\ KeepsWaiting(rows, Rest(rows))
         /\ Rest(rows) \in Seq(Row) /\ Len(Rest(rows)) = Len(rows) - v.k
<1>. DEFINE rest == Rest(rows)
            n == Len(rows) - v.k
            ms == SubSeq(v.ms, v.k + 1, Len(v.ms))
<1>1. /\ v.ms \in Seq(Message) /\ Len(v.ms) = Len(rows) /\ Len(rows) \in Nat
      /\ \A i \in 1..Len(rows) : v.ms[i] = rows[i].msg
      /\ \A i \in 1..Len(rows) : rows[i].joined <=> i \in 2..v.k
      /\ v.k \in 1..Len(rows)
  BY ShownFacts
<1>2. rest \in Seq(Row) /\ Len(rest) = n /\ \A i \in 1..n : rest[i] = rows[v.k + i]
  <2>1. rest = SubSeq(rows, v.k + 1, Len(rows))
    BY PoppedIs DEF Rest
  <2>2. v.k \in 0..Len(rows)
    BY <1>1
  <2>. HIDE DEF rest
  <2>. QED BY <2>1, <2>2, BehindFacts
<1>3. ms \in Seq(Message) /\ Len(ms) = n /\ \A i \in 1..n : ms[i] = v.ms[v.k + i]
  <2>2. v.k \in 0..Len(v.ms)
    BY <1>1
  <2>3. /\ ms \in Seq(Message) /\ Len(ms) = Len(v.ms) - v.k
        /\ \A i \in 1..(Len(v.ms) - v.k) : ms[i] = v.ms[v.k + i]
    BY <1>1, <2>2, BehindFacts
  <2>. HIDE DEF ms
  <2>. QED BY <1>1, <2>3
<1>4. n \in Nat /\ \A i \in 1..n : v.k + i \in 1..Len(rows) /\ v.k + i > v.k
  BY <1>1
<1>5. After(v, e) = [ms |-> ms, k |-> 1]
  BY DEF After
<1>. HIDE DEF rest, ms, n
<1>6. Messages(rest) = ms
  <2>1. Messages(rest) = [i \in 1..n |-> rest[i].msg]
    BY <1>2 DEF Messages
  <2>2. \A i \in 1..n : rest[i].msg = ms[i]
    BY <1>1, <1>2, <1>3, <1>4
  <2>3. Messages(rest) \in Seq(Message) /\ Len(Messages(rest)) = n
    BY <1>2, RowsFacts
  <2>. HIDE DEF Messages
  <2>4. \A i \in 1..n : Messages(rest)[i] = ms[i]
    BY <2>1, <2>2
  <2>. QED BY <1>3, <2>3, <2>4
<1>7. \A i \in 1..n : ~rest[i].joined
  <2>1. ASSUME NEW i \in 1..n PROVE ~rest[i].joined
    <3>1. v.k + i \in 1..Len(rows) /\ v.k + i \notin 2..v.k
      BY <1>1, <1>4
    <3>. QED BY <3>1, <1>1, <1>2
  <2>. QED BY <2>1
<1>8. Shows(rest, After(v, e))
  <2>1. \A i : i \notin 2..1
    OBVIOUS
  <2>. QED BY <1>2, <1>5, <1>6, <1>7, <2>1 DEF Shows
<1>9. KeepsWaiting(rows, rest)
  <2>1. ASSUME NEW i \in 2..n, rest[i].waits
        PROVE  \E j \in 2..Len(rows) : rows[j].waits /\ rows[j].msg = rest[i].msg
    <3>1. v.k + i \in 2..Len(rows) /\ i \in 1..n
      BY <1>1, <1>4
    <3>. QED BY <3>1, <2>1, <1>2
  <2>. QED BY <2>1, <1>2 DEF KeepsWaiting
<1>. QED BY <1>2, <1>8, <1>9 DEF rest, n

\* Rows of the same messages, joined to the same.
Alike(rows, heard) ==
    /\ heard \in Seq(Row) /\ Len(heard) = Len(rows)
    /\ \A i \in 1..Len(rows) : heard[i].msg = rows[i].msg /\ (heard[i].waits => rows[i].waits)

LEMMA AlikeShown ==
  ASSUME NEW rows \in Seq(Row), NEW heard, Alike(rows, heard)
  PROVE  Messages(heard) = Messages(rows) /\ KeepsWaiting(rows, heard)
<1>1. /\ heard \in Seq(Row) /\ Len(heard) = Len(rows) /\ Len(rows) \in Nat
      /\ \A i \in 1..Len(rows) : heard[i].msg = rows[i].msg /\ (heard[i].waits => rows[i].waits)
  BY DEF Alike
<1>2. DOMAIN heard = 1..Len(rows) /\ DOMAIN rows = 1..Len(rows)
  BY <1>1
<1>3. Messages(heard) = Messages(rows)
  BY <1>1, <1>2 DEF Messages
<1>4. \A i \in 2..Len(rows) : i \in 1..Len(rows)
  BY <1>1
<1>5. KeepsWaiting(rows, heard)
  BY <1>1, <1>4 DEF KeepsWaiting
<1>. QED BY <1>3, <1>5

LEMMA JoinedShown ==
  ASSUME NEW rows \in Seq(Row), NEW v, Proper(v), Shows(rows, v),
         NEW e, e.is = "joined", Meant(v, e), NEW heard, Alike(rows, heard),
         \A i \in 1..Len(rows) : heard[i].joined <=> rows[i].joined \/ i \in 2..(Len(e.of) + 1)
  PROVE  Shows(heard, After(v, e))
<1>1. /\ Len(rows) \in Nat /\ v.ms = Messages(rows)
      /\ \A i \in 1..Len(rows) : rows[i].joined <=> i \in 2..v.k
  BY ShownFacts
<1>2. v.k = 1 /\ After(v, e) = [ms |-> v.ms, k |-> Len(e.of) + 1]
  BY DEF Meant, After
<1>3. \A i \in 1..Len(rows) : ~rows[i].joined
  <2>1. \A i : i \notin 2..1
    OBVIOUS
  <2>. QED BY <1>1, <1>2, <2>1
<1>4. Messages(heard) = v.ms /\ Len(heard) = Len(rows)
  BY <1>1, AlikeShown DEF Alike
<1>. QED BY <1>2, <1>3, <1>4 DEF Shows

\* What goes was told to wait behind the turn's own.
LEMMA GoneShown ==
  ASSUME NEW rows \in Seq(Row), NEW v, Proper(v), Shows(rows, v),
         NEW e \in Event, e.is \in {"withdrawn", "taken", "dropped"}, Meant(v, e)
  PROVE  /\ Shows(Without(rows, ToSet(e.of)), After(v, e))
         /\ KeepsWaiting(rows, Without(rows, ToSet(e.of)))
         /\ Without(rows, ToSet(e.of)) # <<>> /\ rows # <<>>
<1>. DEFINE names == ToSet(e.of)
            places == {i \in DOMAIN rows : rows[i].msg \notin names}
            n == Cardinality(places)
            less == Without(rows, names)
<1>1. /\ v.ms \in Seq(Message) /\ Len(v.ms) = Len(rows) /\ Len(rows) \in Nat
      /\ v.ms = Messages(rows)
      /\ \A i \in 1..Len(rows) : v.ms[i] = rows[i].msg
      /\ \A i \in 1..Len(rows) : rows[i].joined <=> i \in 2..v.k
      /\ v.k \in Nat /\ (v.k = 1 \/ v.k \in 2..Len(rows)) /\ Once(v.ms)
      /\ rows # <<>> => v.k \in 1..Len(rows)
  BY ShownFacts
<1>2. DOMAIN rows = 1..Len(rows) /\ DOMAIN v.ms = 1..Len(rows)
  BY <1>1
<1>3. \A m \in names : \E i \in (v.k + 1)..Len(rows) : v.ms[i] = m
  BY <1>1 DEF Meant
<1>4. rows # <<>>
  <2>1. e.of \in Seq(Message) /\ e.of # <<>>
    BY EventTypes
  <2>2. e.of[1] \in names
    BY <2>1 DEF ToSet
  <2>3. \E i \in (v.k + 1)..Len(rows) : TRUE
    BY <1>3, <2>2
  <2>4. Len(rows) # 0
    BY <2>3, <1>1
  <2>. QED BY <2>4
<1>5. v.k \in 1..Len(rows)
  BY <1>1, <1>4
<1>. HIDE DEF names
<1>6. \A i \in 1..v.k : rows[i].msg \notin names
  <2>1. ASSUME NEW i \in 1..v.k, rows[i].msg \in names PROVE FALSE
    <3>1. PICK j \in (v.k + 1)..Len(rows) : v.ms[j] = rows[i].msg
      BY <2>1, <1>3
    <3>2. i \in 1..Len(rows) /\ j \in 1..Len(rows) /\ i # j
      BY <1>5, <1>1
    <3>3. v.ms[i] = v.ms[j]
      BY <3>1, <3>2, <1>1
    <3>. QED BY <3>2, <3>3, <1>1, <1>2 DEF Once
  <2>. QED BY <2>1
<1>7. /\ less \in Seq(Row) /\ Len(less) = n /\ n \in 0..Len(rows)
      /\ \A i \in 1..n : less[i] = rows[Nth(places, i)]
  <2>1. places \subseteq DOMAIN rows
    OBVIOUS
  <2>2. less = At(rows, places)
    BY DEF Without
  <2>. HIDE DEF places, less
  <2>. QED BY <2>1, <2>2, AtFacts
<1>8. places \subseteq 1..Len(rows) /\ \A i \in 1..v.k : i \in places
  <2>1. \A i \in 1..v.k : i \in 1..Len(rows)
    BY <1>1, <1>5
  <2>. QED BY <2>1, <1>2, <1>6
<1>. HIDE DEF places, less, n
<1>9. /\ \A k \in 1..n : Nth(places, k) \in places
      /\ \A i \in places : Nth(places, Rank(places, i)) = i
      /\ \A k, l \in 1..n : k < l <=> Nth(places, k) < Nth(places, l)
      /\ \A i \in places : Rank(places, i) \in 1..n
  BY <1>1, <1>8, NthFacts, RankFacts DEF n
<1>10. \A i \in 1..v.k : Rank(places, i) = i
  <2>1. ASSUME NEW i \in 1..v.k PROVE Rank(places, i) = i
    <3>1. {j \in places : j <= i} = 1..i
      <4>1. \A j \in 1..i : j \in 1..v.k
        BY <1>5
      <4>2. \A j \in places : j \in 1..Len(rows)
        BY <1>8
      <4>3. \A j \in places : j <= i => j \in 1..i
        BY <4>2, <1>1
      <4>4. \A j \in 1..i : j \in places /\ j <= i
        BY <4>1, <1>8
      <4>. QED BY <4>3, <4>4
    <3>2. Cardinality(1..i) = i
      <4>1. i \in Nat /\ i >= 1
        OBVIOUS
      <4>2. Cardinality(1..i) = IF 1 > i THEN 0 ELSE i-1+1
        BY <4>1, FS_Interval
      <4>. QED BY <4>1, <4>2
    <3>. QED BY <3>1, <3>2 DEF Rank
  <2>. QED BY <2>1
<1>11. n \in Nat /\ n >= v.k /\ \A i \in 1..v.k : Nth(places, i) = i
  <2>1. n \in Nat
    BY <1>7
  <2>2. v.k \in 1..v.k
    BY <1>5
  <2>3. v.k \in 1..n
    BY <2>2, <1>8, <1>9, <1>10
  <2>. QED BY <2>1, <2>3, <1>5, <1>8, <1>9, <1>10
<1>12. \A i \in 1..n : i > v.k => Nth(places, i) > v.k
  <2>1. ASSUME NEW i \in 1..n, i > v.k PROVE Nth(places, i) > v.k
    <3>1. v.k \in 1..n /\ v.k \in 1..v.k
      BY <1>5, <1>11
    <3>2. Nth(places, v.k) = v.k
      BY <3>1, <1>11
    <3>3. Nth(places, v.k) < Nth(places, i)
      BY <3>1, <2>1, <1>9, <1>5
    <3>4. Nth(places, i) \in 1..Len(rows)
      BY <1>8, <1>9
    <3>. QED BY <3>2, <3>3, <3>4, <1>1
  <2>. QED BY <2>1
<1>13. Shows(less, After(v, e))
  <2>1. After(v, e) = [ms |-> Minus(v.ms, names), k |-> v.k]
    BY DEF After, names
  <2>2. Messages(less) = Minus(v.ms, names)
    <3>1. \A r \in Row : r.msg \in Message
      BY DEF Row
    <3>. QED BY <3>1, <1>1, MessagesWithout DEF less
  <2>3. ASSUME NEW i \in 1..n PROVE less[i].joined <=> i \in 2..v.k
    <3>1. Nth(places, i) \in 1..Len(rows)
      BY <1>8, <1>9
    <3>2. less[i].joined <=> Nth(places, i) \in 2..v.k
      BY <3>1, <1>1, <1>7
    <3>3. CASE i \in 1..v.k
      <4>1. Nth(places, i) = i
        BY <3>3, <1>11
      <4>. QED BY <3>2, <4>1
    <3>4. CASE i > v.k
      <4>1. Nth(places, i) > v.k
        BY <3>4, <1>12
      <4>. QED BY <3>1, <3>2, <3>4, <4>1, <1>1
    <3>. QED BY <3>3, <3>4, <1>5, <1>11
  <2>4. \A i \in 1..Len(less) : less[i].joined <=> i \in 2..v.k
    BY <2>3, <1>7
  <2>. QED BY <2>1, <2>2, <2>4 DEF Shows
<1>14. KeepsWaiting(rows, less)
  <2>1. ASSUME NEW i \in 2..n, less[i].waits
        PROVE  \E j \in 2..Len(rows) : rows[j].waits /\ rows[j].msg = less[i].msg
    <3>1. i \in 1..n /\ 1 \in 1..n /\ 1 < i
      BY <1>11
    <3>2. Nth(places, 1) < Nth(places, i) /\ Nth(places, i) \in 1..Len(rows) /\ Nth(places, 1) \in 1..Len(rows)
      BY <3>1, <1>8, <1>9
    <3>3. Nth(places, i) \in 2..Len(rows)
      BY <3>2, <1>1
    <3>4. less[i] = rows[Nth(places, i)]
      BY <3>1, <1>7
    <3>. QED BY <3>3, <3>4, <2>1
  <2>. QED BY <2>1, <1>7 DEF KeepsWaiting
<1>15. less # <<>>
  <2>1. Len(less) # 0
    BY <1>5, <1>7, <1>11
  <2>. QED BY <2>1
<1>. QED BY <1>4, <1>13, <1>14, <1>15 DEF less, names

\* Those named behind the turn, and those counted from the end, are the event's.
LEMMA NamedGone ==
  ASSUME NEW rows \in Seq(Row), NEW v, Proper(v), Shows(rows, v),
         NEW e \in Event, e.is \in {"withdrawn", "taken"}, Meant(v, e)
  PROVE  {rows[i].msg : i \in {j \in 2..Len(rows) :
                rows[j].msg \in ToSet(e.of) /\ ~rows[j].joined}} = ToSet(e.of)
<1>1. /\ Len(v.ms) = Len(rows) /\ Len(rows) \in Nat
      /\ \A i \in 1..Len(rows) : v.ms[i] = rows[i].msg
      /\ \A i \in 1..Len(rows) : rows[i].joined <=> i \in 2..v.k
      /\ v.k \in Nat /\ (v.k = 1 \/ v.k \in 2..Len(rows))
  BY ShownFacts
<1>2. \A m \in ToSet(e.of) : \E i \in (v.k + 1)..Len(rows) : v.ms[i] = m
  BY <1>1 DEF Meant
<1>3. \A i \in (v.k + 1)..Len(rows) : i \in 2..Len(rows) /\ i \in 1..Len(rows) /\ i \notin 2..v.k
  BY <1>1
<1>4. \A m \in ToSet(e.of) : \E i \in 2..Len(rows) : rows[i].msg = m /\ ~rows[i].joined
  <2>1. ASSUME NEW m \in ToSet(e.of) PROVE \E i \in 2..Len(rows) : rows[i].msg = m /\ ~rows[i].joined
    <3>1. PICK i \in (v.k + 1)..Len(rows) : v.ms[i] = m
      BY <1>2
    <3>. QED BY <3>1, <1>1, <1>3
  <2>. QED BY <2>1
<1>. QED BY <1>4

LEMMA CountedGone ==
  ASSUME NEW rows \in Seq(Row), NEW v, Proper(v), Shows(rows, v),
         NEW e \in Event, e.is = "dropped", Meant(v, e)
  PROVE  {rows[i].msg : i \in {j \in DOMAIN rows :
                j > 1 /\ j >= Len(rows) - Len(e.of) + 1 /\ ~rows[j].joined}} = ToSet(e.of)
<1>. DEFINE n == Len(e.of)
            from == Len(rows) - n + 1
<1>1. /\ Len(v.ms) = Len(rows) /\ Len(rows) \in Nat /\ v.ms \in Seq(Message)
      /\ \A i \in 1..Len(rows) : v.ms[i] = rows[i].msg
      /\ \A i \in 1..Len(rows) : rows[i].joined <=> i \in 2..v.k
      /\ v.k \in Nat /\ (v.k = 1 \/ v.k \in 2..Len(rows))
  BY ShownFacts
<1>2. e.of \in Seq(Message) /\ n \in Nat
  BY EventTypes
<1>3. v.k + n <= Len(rows) /\ e.of = SubSeq(v.ms, Len(rows) - n + 1, Len(rows))
  BY <1>1 DEF Meant
<1>4. \A i \in 1..n : e.of[i] = v.ms[(Len(rows) - n) + i]
  <2>1. Len(rows) - n \in 0..Len(v.ms)
    BY <1>1, <1>2, <1>3
  <2>2. \A i \in 1..(Len(v.ms) - (Len(rows) - n)) :
            SubSeq(v.ms, (Len(rows) - n) + 1, Len(v.ms))[i] = v.ms[(Len(rows) - n) + i]
    BY <1>1, <2>1, BehindFacts
  <2>3. Len(v.ms) - (Len(rows) - n) = n
    BY <1>1, <1>2
  <2>. QED BY <1>1, <1>3, <2>2, <2>3
<1>. HIDE DEF n
<1>5. \A m \in ToSet(e.of) : \E i \in from..Len(rows) : rows[i].msg = m
  <2>1. ASSUME NEW m \in ToSet(e.of) PROVE \E i \in from..Len(rows) : rows[i].msg = m
    <3>1. PICK i \in 1..n : e.of[i] = m
      BY <1>2, ToSetIs DEF n
    <3>2. (Len(rows) - n) + i \in from..Len(rows) /\ (Len(rows) - n) + i \in 1..Len(rows)
      BY <1>1, <1>2, <1>3
    <3>. QED BY <3>1, <3>2, <1>1, <1>4
  <2>. QED BY <2>1
<1>6. \A i \in from..Len(rows) : rows[i].msg \in ToSet(e.of)
  <2>1. ASSUME NEW i \in from..Len(rows) PROVE rows[i].msg \in ToSet(e.of)
    <3>1. i - (Len(rows) - n) \in 1..n /\ i \in 1..Len(rows)
          /\ (Len(rows) - n) + (i - (Len(rows) - n)) = i
      BY <1>1, <1>2, <1>3
    <3>2. e.of[i - (Len(rows) - n)] = rows[i].msg
      BY <3>1, <1>1, <1>4
    <3>. QED BY <3>1, <3>2, <1>2, ToSetIs DEF n
  <2>. QED BY <2>1
<1>7. \A i : i \in from..Len(rows) <=> i \in DOMAIN rows /\ i > 1 /\ i >= from /\ ~rows[i].joined
  <2>1. DOMAIN rows = 1..Len(rows)
    OBVIOUS
  <2>2. \A i \in from..Len(rows) : i \in 1..Len(rows) /\ i > 1 /\ i >= from /\ i \notin 2..v.k
    <3>1. v.k >= 1 /\ v.k \in Nat /\ from \in Nat /\ from > v.k
      BY <1>1, <1>2, <1>3
    <3>. HIDE DEF from
    <3>. QED BY <3>1, <1>1
  <2>3. \A i \in 1..Len(rows) : i >= from => i \in from..Len(rows)
    BY <1>1, <1>2
  <2>. QED BY <1>1, <2>1, <2>2, <2>3
<1>8. {j \in DOMAIN rows : j > 1 /\ j >= from /\ ~rows[j].joined} = from..Len(rows)
  <2>1. \A i \in from..Len(rows) : i \in DOMAIN rows
    BY <1>7
  <2>. HIDE DEF from
  <2>. QED BY <1>7, <2>1
<1>9. {rows[i].msg : i \in {j \in DOMAIN rows : j > 1 /\ j >= from /\ ~rows[j].joined}} = ToSet(e.of)
  <2>1. {rows[i].msg : i \in from..Len(rows)} = ToSet(e.of)
    <3>. HIDE DEF from
    <3>. QED BY <1>5, <1>6
  <2>. QED BY <1>8, <2>1
<1>. QED BY <1>9 DEF n

-----------------------------------------------------------------------------
(* Sending.                                                                *)

LEMMA MessagesConcat ==
  ASSUME NEW R, \A r \in R : r.msg \in Message, NEW s \in Seq(R), NEW t \in Seq(R)
  PROVE  Messages(s \o t) = Messages(s) \o Messages(t)
<1>. DEFINE st == s \o t
            ms == Messages(s)
            mt == Messages(t)
            mst == Messages(st)
            both == ms \o mt
<1>1. /\ st \in Seq(R) /\ Len(st) = Len(s) + Len(t) /\ Len(s) \in Nat /\ Len(t) \in Nat
      /\ \A i \in 1..(Len(s) + Len(t)) : st[i] = IF i <= Len(s) THEN s[i] ELSE t[i - Len(s)]
  BY ConcatFacts
<1>2. /\ ms \in Seq(Message) /\ Len(ms) = Len(s) /\ \A i \in 1..Len(s) : ms[i] = s[i].msg
      /\ mt \in Seq(Message) /\ Len(mt) = Len(t) /\ \A i \in 1..Len(t) : mt[i] = t[i].msg
  BY MessagesFacts
<1>. HIDE DEF st, ms, mt
<1>3. mst \in Seq(Message) /\ Len(mst) = Len(st) /\ \A i \in 1..Len(st) : mst[i] = st[i].msg
  BY <1>1, MessagesFacts
<1>4. /\ both \in Seq(Message) /\ Len(both) = Len(s) + Len(t)
      /\ \A i \in 1..(Len(s) + Len(t)) : both[i] = IF i <= Len(s) THEN ms[i] ELSE mt[i - Len(s)]
  <2>1. /\ both \in Seq(Message) /\ Len(both) = Len(ms) + Len(mt)
        /\ \A i \in 1..(Len(ms) + Len(mt)) : both[i] = IF i <= Len(ms) THEN ms[i] ELSE mt[i - Len(ms)]
    <3>1. ms \in Seq(Message) /\ mt \in Seq(Message)
      BY <1>2
    <3>. QED BY <3>1
  <2>. HIDE DEF both
  <2>. QED BY <1>2, <2>1
<1>. HIDE DEF mst, both
<1>5. \A i \in 1..(Len(s) + Len(t)) : mst[i] = both[i]
  <2>1. ASSUME NEW i \in 1..(Len(s) + Len(t)) PROVE mst[i] = both[i]
    <3>1. CASE i <= Len(s)
      <4>1. i \in 1..Len(s)
        BY <3>1, <1>1
      <4>. QED BY <3>1, <4>1, <1>1, <1>2, <1>3, <1>4
    <3>2. CASE ~(i <= Len(s))
      <4>1. i - Len(s) \in 1..Len(t)
        BY <3>2, <1>1
      <4>. QED BY <3>2, <4>1, <1>1, <1>2, <1>3, <1>4
    <3>. QED BY <3>1, <3>2
  <2>. QED BY <2>1
<1>6. mst = both
  BY <1>1, <1>3, <1>4, <1>5
<1>. QED BY <1>6 DEF mst, both, st, ms, mt

\* The rows and the commands of messages handed over.
RowsOf(ms, named) == [i \in DOMAIN ms |-> [msg |-> ms[i], waits |-> named, joined |-> FALSE]]

PromptsOf(ms, named) == [i \in DOMAIN ms |-> [do |-> "prompt", msg |-> ms[i], named |-> named]]

LEMMA RowsOfFacts ==
  ASSUME NEW ms \in Seq(Message), NEW named \in BOOLEAN
  PROVE  /\ RowsOf(ms, named) \in Seq(Row) /\ Len(RowsOf(ms, named)) = Len(ms)
         /\ Messages(RowsOf(ms, named)) = ms
         /\ \A i \in 1..Len(ms) : /\ RowsOf(ms, named)[i].msg = ms[i]
                                  /\ RowsOf(ms, named)[i].waits = named
                                  /\ ~RowsOf(ms, named)[i].joined
         /\ PromptsOf(ms, named) \in Seq(Command) /\ Len(PromptsOf(ms, named)) = Len(ms)
         /\ \A i \in 1..Len(ms) : /\ PromptsOf(ms, named)[i].do = "prompt"
                                  /\ PromptsOf(ms, named)[i].msg = ms[i]
                                  /\ PromptsOf(ms, named)[i].named = named
<1>1. DOMAIN ms = 1..Len(ms) /\ Len(ms) \in Nat
  OBVIOUS
<1>. DEFINE rows == RowsOf(ms, named)
            prompts == PromptsOf(ms, named)
<1>2. rows \in Seq(Row) /\ prompts \in Seq(Command)
  BY HandedOver DEF RowsOf, PromptsOf
<1>3. /\ rows = [i \in 1..Len(ms) |-> [msg |-> ms[i], waits |-> named, joined |-> FALSE]]
      /\ prompts = [i \in 1..Len(ms) |-> [do |-> "prompt", msg |-> ms[i], named |-> named]]
  BY <1>1 DEF RowsOf, PromptsOf
<1>. HIDE DEF rows, prompts
<1>4. Len(rows) = Len(ms) /\ Len(prompts) = Len(ms)
  BY <1>1, <1>2, <1>3
<1>5. \A i \in 1..Len(ms) : rows[i].msg = ms[i] /\ rows[i].waits = named /\ ~rows[i].joined
  BY <1>3
<1>6. \A i \in 1..Len(ms) :
          prompts[i].do = "prompt" /\ prompts[i].msg = ms[i] /\ prompts[i].named = named
  BY <1>3
<1>7. Messages(rows) = ms
  <2>1. DOMAIN rows = 1..Len(ms)
    BY <1>3
  <2>2. Messages(rows) = [i \in 1..Len(ms) |-> ms[i]]
    BY <2>1, <1>5 DEF Messages
  <2>. QED BY <2>2, <1>1
<1>. QED BY <1>2, <1>4, <1>5, <1>6, <1>7 DEF rows, prompts

LEMMA RowsSent ==
  ASSUME NEW rows \in Seq(Row), NEW ms \in Seq(Message), NEW named \in BOOLEAN
  PROVE  /\ Sends(rows, rows \o RowsOf(ms, named), ms)
         /\ Messages(rows \o RowsOf(ms, named)) = Messages(rows) \o ms
<1>. DEFINE new == RowsOf(ms, named)
            more == rows \o new
<1>1. /\ new \in Seq(Row) /\ Len(new) = Len(ms) /\ Messages(new) = ms
      /\ \A i \in 1..Len(ms) : ~new[i].joined
  BY RowsOfFacts
<1>. HIDE DEF new
<1>2. /\ more \in Seq(Row) /\ Len(more) = Len(rows) + Len(new) /\ Len(rows) \in Nat /\ Len(new) \in Nat
      /\ \A i \in 1..(Len(rows) + Len(new)) : more[i] = IF i <= Len(rows) THEN rows[i] ELSE new[i - Len(rows)]
  <2>1. rows \in Seq(Row) /\ new \in Seq(Row)
    BY <1>1
  <2>. QED BY <2>1
<1>3. Messages(more) = Messages(rows) \o ms
  <2>1. \A r \in Row : r.msg \in Message
    BY DEF Row
  <2>. QED BY <2>1, <1>1, MessagesConcat
<1>. HIDE DEF more
<1>4. ASSUME NEW v, Shows(rows, v), Proper(v) PROVE Shows(more, Extended(v, ms))
  <2>1. /\ v.ms = Messages(rows)
        /\ \A i \in 1..Len(rows) : rows[i].joined <=> i \in 2..v.k
        /\ v.k \in Nat /\ (v.k = 1 \/ v.k \in 2..Len(rows))
    BY <1>4, ShownFacts
  <2>2. ASSUME NEW i \in 1..Len(more) PROVE more[i].joined <=> i \in 2..v.k
    <3>1. CASE i <= Len(rows)
      <4>1. i \in 1..Len(rows) /\ more[i] = rows[i]
        BY <3>1, <1>2
      <4>. QED BY <4>1, <2>1
    <3>2. CASE ~(i <= Len(rows))
      <4>1. i - Len(rows) \in 1..Len(ms) /\ more[i] = new[i - Len(rows)]
        BY <3>2, <1>1, <1>2
      <4>2. i \notin 2..v.k
        BY <3>2, <1>2, <2>1
      <4>. QED BY <4>1, <4>2, <1>1
    <3>. QED BY <3>1, <3>2
  <2>3. Extended(v, ms).ms = v.ms \o ms /\ Extended(v, ms).k = v.k
    BY DEF Extended
  <2>. QED BY <1>3, <2>1, <2>2, <2>3 DEF Shows
<1>. QED BY <1>3, <1>4 DEF Sends, more, new

-----------------------------------------------------------------------------
(* The messages asked for by commands the task has not come to.            *)

Prompts(cs) == {i \in DOMAIN cs : cs[i].do = "prompt"}

AskedOf(cs) == Messages(At(cs, Prompts(cs)))

Prompt == [do: {"prompt"}, msg: Message, named: BOOLEAN]

LEMMA PromptIs ==
  ASSUME NEW c \in Command, c.do = "prompt"
  PROVE  c \in Prompt
<1>1. CASE c \in [do: {"prompt"}, msg: Message, named: BOOLEAN]
  BY <1>1 DEF Prompt
<1>2. CASE c \in [do: {"cancelAll", "take"}]
  BY <1>2
<1>3. CASE c \in [do: {"withdraw", "expedite"}, msg: Message]
  BY <1>3
<1>. QED BY <1>1, <1>2, <1>3 DEF Command

LEMMA PromptsFacts ==
  ASSUME NEW cs \in Seq(Command)
  PROVE  /\ At(cs, Prompts(cs)) \in Seq(Prompt)
         /\ AskedOf(cs) \in Seq(Message) /\ Len(AskedOf(cs)) = Cardinality(Prompts(cs))
         /\ \A k \in 1..Len(AskedOf(cs)) : AskedOf(cs)[k] = cs[Nth(Prompts(cs), k)].msg
<1>. DEFINE places == Prompts(cs)
            n == Cardinality(places)
            some == At(cs, places)
<1>1. places \subseteq 1..Len(cs) /\ Len(cs) \in Nat /\ places \subseteq DOMAIN cs
      /\ \A i \in places : cs[i].do = "prompt" /\ cs[i] \in Command
  BY DEF Prompts
<1>. HIDE DEF places
<1>2. /\ some \in Seq(Command) /\ Len(some) = n /\ n \in 0..Len(cs)
      /\ \A k \in 1..n : some[k] = cs[Nth(places, k)]
  BY <1>1, AtFacts
<1>3. \A k \in 1..n : Nth(places, k) \in places
  BY <1>1, NthFacts
<1>. HIDE DEF some, n
<1>4. \A k \in 1..n : some[k] \in Prompt
  BY <1>1, <1>2, <1>3, PromptIs
<1>5. some \in Seq(Prompt)
  <2>1. n \in Nat
    BY <1>2
  <2>. QED BY <1>2, <1>4, <2>1
<1>6. \A p \in Prompt : p.msg \in Message
  BY DEF Prompt
<1>7. /\ Messages(some) \in Seq(Message) /\ Len(Messages(some)) = Len(some)
      /\ \A i \in 1..Len(some) : Messages(some)[i] = some[i].msg
  BY <1>5, <1>6, MessagesFacts
<1>8. AskedOf(cs) = Messages(some)
  BY DEF AskedOf, some, places
<1>. QED BY <1>2, <1>5, <1>7, <1>8 DEF some, places, n

LEMMA AskedConcat ==
  ASSUME NEW cs \in Seq(Command), NEW ds \in Seq(Command)
  PROVE  AskedOf(cs \o ds) = AskedOf(cs) \o AskedOf(ds)
<1>. DEFINE I == Prompts(cs)
            J == Prompts(ds)
            all == cs \o ds
            K == Prompts(all)
<1>1. /\ all \in Seq(Command) /\ DOMAIN all = 1..(Len(cs) + Len(ds))
      /\ Len(cs) \in Nat /\ Len(ds) \in Nat
      /\ DOMAIN cs = 1..Len(cs) /\ DOMAIN ds = 1..Len(ds)
      /\ \A i \in 1..Len(cs) : all[i] = cs[i]
      /\ \A i \in 1..Len(ds) : all[Len(cs) + i] = ds[i]
  <2>1. /\ all \in Seq(Command) /\ DOMAIN all = 1..(Len(cs) + Len(ds))
        /\ Len(cs) \in Nat /\ Len(ds) \in Nat
        /\ \A i \in 1..Len(cs) : all[i] = cs[i]
        /\ \A i \in 1..Len(ds) : all[Len(cs) + i] = ds[i]
    BY ConcatFacts
  <2>. QED BY <2>1
<1>. HIDE DEF all
<1>2. /\ \A k : k \in I <=> k \in 1..Len(cs) /\ cs[k].do = "prompt"
      /\ \A k : k \in J <=> k \in 1..Len(ds) /\ ds[k].do = "prompt"
      /\ \A k : k \in K <=> k \in 1..(Len(cs) + Len(ds)) /\ all[k].do = "prompt"
  BY <1>1 DEF Prompts
<1>. HIDE DEF I, J, K
<1>3. ASSUME NEW k PROVE k \in K <=> k \in I \/ \E j \in J : k = Len(cs) + j
  <2>1. ASSUME k \in K PROVE k \in I \/ \E j \in J : k = Len(cs) + j
    <3>1. k \in 1..(Len(cs) + Len(ds)) /\ all[k].do = "prompt"
      BY <2>1, <1>2
    <3>2. CASE k <= Len(cs)
      <4>1. k \in 1..Len(cs)
        BY <3>1, <3>2, <1>1
      <4>. QED BY <3>1, <4>1, <1>1, <1>2
    <3>3. CASE ~(k <= Len(cs))
      <4>1. k - Len(cs) \in 1..Len(ds) /\ k = Len(cs) + (k - Len(cs))
        BY <3>1, <3>3, <1>1
      <4>2. all[k] = ds[k - Len(cs)]
        BY <4>1, <1>1
      <4>3. k - Len(cs) \in J
        BY <3>1, <4>1, <4>2, <1>2
      <4>. QED BY <4>1, <4>3
    <3>. QED BY <3>2, <3>3
  <2>2. ASSUME k \in I PROVE k \in K
    <3>1. k \in 1..Len(cs) /\ cs[k].do = "prompt"
      BY <2>2, <1>2
    <3>2. k \in 1..(Len(cs) + Len(ds))
      BY <3>1, <1>1
    <3>. QED BY <3>1, <3>2, <1>1, <1>2
  <2>3. ASSUME NEW j \in J, k = Len(cs) + j PROVE k \in K
    <3>1. j \in 1..Len(ds) /\ ds[j].do = "prompt"
      BY <1>2
    <3>2. Len(cs) + j \in 1..(Len(cs) + Len(ds))
      BY <3>1, <1>1
    <3>. QED BY <2>3, <3>1, <3>2, <1>1, <1>2
  <2>. QED BY <2>1, <2>2, <2>3
<1>4. At(all, K) = At(cs, I) \o At(ds, J)
  <2>1. I \subseteq DOMAIN cs /\ J \subseteq DOMAIN ds
    BY <1>1, <1>2
  <2>2. Adjoins(Len(cs), I, J, K)
    BY <1>3 DEF Adjoins
  <2>3. At(cs \o ds, K) = At(cs, I) \o At(ds, J)
    BY <2>1, <2>2, AtConcat, SMTT(60)
  <2>. QED BY <2>3 DEF all
<1>5. At(cs, I) \in Seq(Prompt) /\ At(ds, J) \in Seq(Prompt) /\ \A p \in Prompt : p.msg \in Message
  BY PromptsFacts DEF I, J, Prompt
<1>6. Messages(At(cs, I) \o At(ds, J)) = Messages(At(cs, I)) \o Messages(At(ds, J))
  BY <1>5, MessagesConcat
<1>7. AskedOf(all) = Messages(At(all, K))
  BY DEF AskedOf, K
<1>8. AskedOf(all) = AskedOf(cs) \o AskedOf(ds)
  BY <1>4, <1>6, <1>7 DEF AskedOf, I, J
<1>. QED BY <1>8 DEF all

LEMMA AskedNone ==
  ASSUME NEW cs \in Seq(Command), \A i \in 1..Len(cs) : cs[i].do # "prompt"
  PROVE  AskedOf(cs) = <<>>
<1>1. Prompts(cs) = {}
  BY DEF Prompts
<1>2. At(cs, Prompts(cs)) = <<>>
  BY <1>1, AtNone
<1>3. AskedOf(cs) = Messages(<<>>)
  BY <1>2 DEF AskedOf
<1>4. Messages(<<>>) = <<>>
  <2>1. Messages(<<>>) \in Seq(Message) /\ Len(Messages(<<>>)) = Len(<<>>)
    BY EmptyTyped, RowsFacts
  <2>. QED BY <2>1
<1>. QED BY <1>3, <1>4

LEMMA AskedAll ==
  ASSUME NEW ms \in Seq(Message), NEW named \in BOOLEAN
  PROVE  AskedOf(PromptsOf(ms, named)) = ms
<1>. DEFINE cs == PromptsOf(ms, named)
<1>1. /\ cs \in Seq(Command) /\ Len(cs) = Len(ms)
      /\ \A i \in 1..Len(ms) : cs[i].do = "prompt" /\ cs[i].msg = ms[i]
  BY RowsOfFacts
<1>. HIDE DEF cs
<1>2. Prompts(cs) = DOMAIN cs
  <2>1. \A i \in DOMAIN cs : cs[i].do = "prompt"
    BY <1>1
  <2>. QED BY <2>1 DEF Prompts
<1>3. At(cs, Prompts(cs)) = cs
  BY <1>1, <1>2, AtAll
<1>4. Messages(cs) = ms
  <2>1. DOMAIN cs = 1..Len(ms) /\ DOMAIN ms = 1..Len(ms) /\ Len(ms) \in Nat
    BY <1>1
  <2>2. Messages(cs) = [i \in 1..Len(ms) |-> ms[i]]
    BY <1>1, <2>1 DEF Messages
  <2>. QED BY <2>1, <2>2
<1>5. AskedOf(cs) = ms
  BY <1>3, <1>4 DEF AskedOf
<1>. QED BY <1>5 DEF cs

\* A command that is not a prompt asks for nothing.
LEMMA AskedOther ==
  ASSUME NEW cs \in Seq(Command), NEW c \in Command, c.do # "prompt"
  PROVE  AskedOf(Append(cs, c)) = AskedOf(cs)
<1>1. <<c>> \in Seq(Command) /\ \A i \in 1..Len(<<c>>) : <<c>>[i].do # "prompt"
  OBVIOUS
<1>2. AskedOf(<<c>>) = <<>>
  BY <1>1, AskedNone
<1>3. AskedOf(cs \o <<c>>) = AskedOf(cs) \o <<>>
  BY <1>1, <1>2, AskedConcat
<1>4. AskedOf(cs) \in Seq(Message)
  BY PromptsFacts
<1>5. AskedOf(cs) \o <<>> = AskedOf(cs)
  BY <1>4
<1>6. Append(cs, c) = cs \o <<c>>
  OBVIOUS
<1>. QED BY <1>3, <1>5, <1>6

LEMMA AskedHead ==
  ASSUME NEW cs \in Seq(Command), cs # <<>>
  PROVE  /\ Head(cs).do # "prompt" => AskedOf(Tail(cs)) = AskedOf(cs)
         /\ Head(cs).do = "prompt" => AskedOf(cs) = <<Head(cs).msg>> \o AskedOf(Tail(cs))
<1>. DEFINE c == Head(cs)
            ds == Tail(cs)
            one == <<c>>
<1>1. c \in Command /\ ds \in Seq(Command) /\ cs = one \o ds /\ one \in Seq(Command)
      /\ Len(one) = 1 /\ one[1] = c
  OBVIOUS
<1>. HIDE DEF c, ds, one
<1>2. AskedOf(cs) = AskedOf(one) \o AskedOf(ds)
  BY <1>1, AskedConcat
<1>3. AskedOf(ds) \in Seq(Message)
  BY <1>1, PromptsFacts
<1>4. CASE c.do # "prompt"
  <2>1. \A i \in 1..Len(one) : one[i].do # "prompt"
    BY <1>1, <1>4
  <2>2. AskedOf(one) = <<>>
    BY <1>1, <2>1, AskedNone
  <2>3. <<>> \o AskedOf(ds) = AskedOf(ds)
    BY <1>3
  <2>. QED BY <1>2, <1>4, <2>2, <2>3 DEF c, ds
<1>5. CASE c.do = "prompt"
  <2>1. c.msg \in Message /\ c.named \in BOOLEAN /\ c \in Prompt
    BY <1>1, <1>5, CommandTypes, PromptIs
  <2>2. one = PromptsOf(<<c.msg>>, c.named)
    <3>1. c = [do |-> "prompt", msg |-> c.msg, named |-> c.named]
      BY <2>1 DEF Prompt
    <3>2. PromptsOf(<<c.msg>>, c.named) = <<[do |-> "prompt", msg |-> c.msg, named |-> c.named]>>
      BY DEF PromptsOf
    <3>. QED BY <3>1, <3>2 DEF one
  <2>3. AskedOf(one) = <<c.msg>>
    <3>1. <<c.msg>> \in Seq(Message)
      BY <2>1
    <3>. QED BY <2>1, <2>2, <3>1, AskedAll
  <2>. QED BY <1>2, <1>5, <2>3 DEF c, ds
<1>. QED BY <1>4, <1>5 DEF c

\* A prompt asks for its message, behind those of the prompts before it.
LEMMA AskedAt ==
  ASSUME NEW cs \in Seq(Command), NEW i \in 1..Len(cs), cs[i].do = "prompt"
  PROVE  \E k \in 1..Len(AskedOf(cs)) :
            /\ AskedOf(cs)[k] = cs[i].msg
            /\ (\E e \in 1..(i - 1) : cs[e].do = "prompt") => k # 1
<1>. DEFINE places == Prompts(cs)
            k == Rank(places, i)
<1>1. places \subseteq 1..Len(cs) /\ Len(cs) \in Nat /\ i \in places
  BY DEF Prompts
<1>2. \A e \in 1..(i - 1) : cs[e].do = "prompt" => e \in places /\ e < i
  BY DEF Prompts
<1>. HIDE DEF places
<1>3. /\ k \in 1..Cardinality(places) /\ Nth(places, k) = i
      /\ \A e \in places : e < i => Rank(places, e) < k /\ Rank(places, e) \in 1..Cardinality(places)
  BY <1>1, RankFacts, NthFacts
<1>4. Len(AskedOf(cs)) = Cardinality(places) /\ AskedOf(cs)[k] = cs[i].msg
  BY <1>3, PromptsFacts DEF places
<1>5. (\E e \in 1..(i - 1) : cs[e].do = "prompt") => k # 1
  BY <1>2, <1>3
<1>. HIDE DEF k
<1>. QED BY <1>3, <1>4, <1>5

-----------------------------------------------------------------------------
(* What the task has, as a view: its turn, its queue, what it is asked.     *)

NowOf(t, q, cs) ==
    [ms |-> (t \o Messages(q)) \o AskedOf(cs), k |-> IF t = <<>> THEN 1 ELSE Len(t)]

LEMMA MessagesAssoc ==
  ASSUME NEW s \in Seq(Message), NEW t \in Seq(Message), NEW u \in Seq(Message)
  PROVE  (s \o t) \o u = s \o (t \o u)
BY ConcatAssoc

LEMMA NowFacts ==
  ASSUME NEW t \in Seq(Message), NEW q \in Seq(Entry), NEW cs \in Seq(Command)
  PROVE  /\ NowOf(t, q, cs).ms = (t \o Messages(q)) \o AskedOf(cs)
         /\ NowOf(t, q, cs).k = IF t = <<>> THEN 1 ELSE Len(t)
         /\ NowOf(t, q, cs) \in View
         /\ Messages(q) \in Seq(Message) /\ AskedOf(cs) \in Seq(Message)
         /\ Len(Messages(q)) = Len(q)
         /\ \A i \in 1..Len(q) : q[i] \in Entry /\ Messages(q)[i] = q[i].msg
<1>1. \A r \in Entry : r.msg \in Message
  BY DEF Entry
<1>2. /\ Messages(q) \in Seq(Message) /\ Len(Messages(q)) = Len(q)
      /\ \A i \in 1..Len(q) : Messages(q)[i] = q[i].msg
  BY <1>1, MessagesFacts
<1>3. AskedOf(cs) \in Seq(Message)
  BY PromptsFacts
<1>4. /\ NowOf(t, q, cs).ms = (t \o Messages(q)) \o AskedOf(cs)
      /\ NowOf(t, q, cs).k = IF t = <<>> THEN 1 ELSE Len(t)
  BY DEF NowOf
<1>5. NowOf(t, q, cs) \in View
  <2>1. (t \o Messages(q)) \o AskedOf(cs) \in Seq(Message)
    <3>1. t \o Messages(q) \in Seq(Message)
      BY <1>2
    <3>. QED BY <3>1, <1>3
  <2>2. (IF t = <<>> THEN 1 ELSE Len(t)) \in Nat
    OBVIOUS
  <2>. QED BY <2>1, <2>2 DEF NowOf, View
<1>. QED BY <1>2, <1>3, <1>4, <1>5

\* The three are apart, if nothing is there twice.
LEMMA NowParts ==
  ASSUME NEW t \in Seq(Message), NEW q \in Seq(Entry), NEW cs \in Seq(Command),
         Once(NowOf(t, q, cs).ms)
  PROVE  /\ Once(t) /\ Once(Messages(q)) /\ Once(AskedOf(cs))
         /\ ToSet(t) \cap ToSet(Messages(q)) = {}
         /\ ToSet(t) \cap ToSet(AskedOf(cs)) = {}
         /\ ToSet(Messages(q)) \cap ToSet(AskedOf(cs)) = {}
         /\ ToSet(NowOf(t, q, cs).ms) = ToSet(t) \cup ToSet(Messages(q)) \cup ToSet(AskedOf(cs))
<1>. DEFINE Q == Messages(q)
            A == AskedOf(cs)
            front == t \o Q
<1>1. Q \in Seq(Message) /\ A \in Seq(Message) /\ NowOf(t, q, cs).ms = front \o A
  BY NowFacts
<1>. HIDE DEF Q, A
<1>2. front \in Seq(Message) /\ ToSet(front) = ToSet(t) \cup ToSet(Q)
      /\ (Once(front) <=> Once(t) /\ Once(Q) /\ ToSet(t) \cap ToSet(Q) = {})
  BY <1>1, ToSetConcat, OnceConcat
<1>. HIDE DEF front
<1>3. ToSet(front \o A) = ToSet(front) \cup ToSet(A)
      /\ (Once(front \o A) <=> Once(front) /\ Once(A) /\ ToSet(front) \cap ToSet(A) = {})
  BY <1>1, <1>2, ToSetConcat, OnceConcat
<1>. QED BY <1>1, <1>2, <1>3 DEF Q, A

\* Where they stand.
LEMMA NowPlaces ==
  ASSUME NEW t \in Seq(Message), NEW q \in Seq(Entry), NEW cs \in Seq(Command)
  PROVE  /\ Len(NowOf(t, q, cs).ms) = Len(t) + Len(q) + Len(AskedOf(cs))
         /\ Len(t) \in Nat /\ Len(q) \in Nat /\ Len(AskedOf(cs)) \in Nat
         /\ \A i \in 1..Len(t) : NowOf(t, q, cs).ms[i] = t[i]
         /\ \A i \in 1..Len(q) : NowOf(t, q, cs).ms[Len(t) + i] = q[i].msg
         /\ \A i \in 1..Len(AskedOf(cs)) : NowOf(t, q, cs).ms[Len(t) + Len(q) + i] = AskedOf(cs)[i]
<1>. DEFINE Q == Messages(q)
            A == AskedOf(cs)
            front == t \o Q
            all == front \o A
<1>1. /\ Q \in Seq(Message) /\ A \in Seq(Message) /\ NowOf(t, q, cs).ms = all
      /\ Len(Q) = Len(q) /\ Len(q) \in Nat
      /\ \A i \in 1..Len(q) : Q[i] = q[i].msg
  BY NowFacts
<1>. HIDE DEF Q, A
<1>2. /\ front \in Seq(Message) /\ Len(front) = Len(t) + Len(Q) /\ Len(t) \in Nat
      /\ \A i \in 1..Len(t) : front[i] = t[i]
      /\ \A i \in 1..Len(Q) : front[Len(t) + i] = Q[i]
  <2>1. t \in Seq(Message) /\ Q \in Seq(Message)
    BY <1>1
  <2>. QED BY <2>1
<1>. HIDE DEF front
<1>3. /\ Len(all) = Len(front) + Len(A) /\ Len(A) \in Nat
      /\ \A i \in 1..Len(front) : all[i] = front[i]
      /\ \A i \in 1..Len(A) : all[Len(front) + i] = A[i]
  <2>1. front \in Seq(Message) /\ A \in Seq(Message)
    BY <1>1, <1>2
  <2>. QED BY <2>1
<1>. HIDE DEF all
<1>4. \A i \in 1..Len(t) : i \in 1..Len(front)
  BY <1>1, <1>2
<1>5. \A i \in 1..Len(q) : Len(t) + i \in 1..Len(front)
  BY <1>1, <1>2
<1>6. \A i \in 1..Len(t) : all[i] = t[i]
  BY <1>2, <1>3, <1>4
<1>7. \A i \in 1..Len(q) : all[Len(t) + i] = q[i].msg
  BY <1>1, <1>2, <1>3, <1>5
<1>. QED BY <1>1, <1>2, <1>3, <1>6, <1>7 DEF A

LEMMA NowNothing == NowOf(<<>>, <<>>, <<>>) = [ms |-> <<>>, k |-> 1] /\ Proper(NowOf(<<>>, <<>>, <<>>))
<1>1. AskedOf(<<>>) = <<>>
  <2>1. <<>> \in Seq(Command) /\ \A i \in 1..Len(<<>>) : <<>>[i].do # "prompt"
    BY EmptyTyped
  <2>. QED BY <2>1, AskedNone
<1>2. Messages(<<>>) = <<>>
  <2>1. Messages(<<>>) \in Seq(Message) /\ Len(Messages(<<>>)) = Len(<<>>)
    BY EmptyTyped, RowsFacts
  <2>. QED BY <2>1
<1>3. NowOf(<<>>, <<>>, <<>>) = [ms |-> <<>>, k |-> 1]
  <2>1. (<<>> \o <<>>) \o <<>> = <<>>
    OBVIOUS
  <2>. QED BY <1>1, <1>2, <2>1 DEF NowOf
<1>4. <<>> \in Seq(Message) /\ Once(<<>>)
  BY EmptyTyped DEF Once
<1>5. Proper([ms |-> <<>>, k |-> 1])
  BY <1>4 DEF Proper, View
<1>. QED BY <1>3, <1>5

LEMMA NowSent ==
  ASSUME NEW t \in Seq(Message), NEW q \in Seq(Entry), NEW cs \in Seq(Command),
         NEW ms \in Seq(Message), NEW named \in BOOLEAN
  PROVE  NowOf(t, q, cs \o PromptsOf(ms, named)) = Extended(NowOf(t, q, cs), ms)
<1>. DEFINE front == t \o Messages(q)
            A == AskedOf(cs)
<1>1. front \in Seq(Message) /\ A \in Seq(Message)
  BY NowFacts
<1>2. AskedOf(cs \o PromptsOf(ms, named)) = A \o ms
  <2>1. PromptsOf(ms, named) \in Seq(Command)
    BY RowsOfFacts
  <2>. QED BY <2>1, AskedConcat, AskedAll
<1>3. front \o (A \o ms) = (front \o A) \o ms
  <2>. HIDE DEF front, A
  <2>. QED BY <1>1, MessagesAssoc
<1>. QED BY <1>2, <1>3 DEF NowOf, Extended

LEMMA NowOther ==
  ASSUME NEW t, NEW q, NEW cs \in Seq(Command), NEW c \in Command, c.do # "prompt"
  PROVE  NowOf(t, q, Append(cs, c)) = NowOf(t, q, cs)
BY AskedOther DEF NowOf

LEMMA NowPassed ==
  ASSUME NEW t, NEW q, NEW cs \in Seq(Command), cs # <<>>, Head(cs).do # "prompt"
  PROVE  NowOf(t, q, Tail(cs)) = NowOf(t, q, cs)
BY AskedHead DEF NowOf

LEMMA NowQueued ==
  ASSUME NEW t \in Seq(Message), NEW q \in Seq(Entry), NEW cs \in Seq(Command), cs # <<>>,
         Head(cs).do = "prompt", NEW entry \in Entry, entry.msg = Head(cs).msg
  PROVE  NowOf(t, Append(q, entry), Tail(cs)) = NowOf(t, q, cs)
<1>. DEFINE Q == Messages(q)
            A == AskedOf(Tail(cs))
            one == <<entry.msg>>
            front == t \o Q
<1>1. Q \in Seq(Message) /\ A \in Seq(Message) /\ one \in Seq(Message)
  <2>1. Tail(cs) \in Seq(Command)
    OBVIOUS
  <2>2. A \in Seq(Message)
    BY <2>1, PromptsFacts
  <2>3. entry.msg \in Message
    BY DEF Entry
  <2>4. one \in Seq(Message)
    BY <2>3
  <2>. QED BY <2>2, <2>4, EntriesFacts
<1>2. AskedOf(cs) = one \o A
  BY AskedHead
<1>3. Messages(Append(q, entry)) = Q \o one
  <2>1. \A r \in Entry : r.msg \in Message
    BY DEF Entry
  <2>2. <<entry>> \in Seq(Entry) /\ Append(q, entry) = q \o <<entry>>
    OBVIOUS
  <2>3. Messages(<<entry>>) = one
    BY DEF Messages
  <2>4. Messages(q \o <<entry>>) = Messages(q) \o Messages(<<entry>>)
    BY <2>1, <2>2, MessagesConcat
  <2>. QED BY <2>2, <2>3, <2>4
<1>. HIDE DEF Q, A, one
<1>4. (t \o (Q \o one)) \o A = (t \o Q) \o (one \o A)
  <2>1. t \o (Q \o one) = front \o one
    BY <1>1, MessagesAssoc
  <2>2. front \in Seq(Message)
    BY <1>1
  <2>. HIDE DEF front
  <2>3. (front \o one) \o A = front \o (one \o A)
    BY <1>1, <2>2, MessagesAssoc
  <2>. QED BY <2>1, <2>3 DEF front
<1>. QED BY <1>2, <1>3, <1>4 DEF NowOf, Q, A, one

LEMMA NowBegun ==
  ASSUME NEW cs \in Seq(Command), cs # <<>>, Head(cs).do = "prompt"
  PROVE  NowOf(<<Head(cs).msg>>, <<>>, Tail(cs)) = NowOf(<<>>, <<>>, cs)
<1>. DEFINE one == <<Head(cs).msg>>
            A == AskedOf(Tail(cs))
<1>1. one \in Seq(Message) /\ A \in Seq(Message) /\ one # <<>> /\ Len(one) = 1
  <2>1. Tail(cs) \in Seq(Command) /\ Head(cs) \in Command
    OBVIOUS
  <2>2. A \in Seq(Message)
    BY <2>1, PromptsFacts
  <2>3. Head(cs).msg \in Message
    BY <2>1, CommandTypes
  <2>. QED BY <2>2, <2>3
<1>2. AskedOf(cs) = one \o A
  BY AskedHead
<1>3. Messages(<<>>) = <<>>
  <2>1. Messages(<<>>) \in Seq(Message) /\ Len(Messages(<<>>)) = Len(<<>>)
    BY EmptyTyped, RowsFacts
  <2>. QED BY <2>1
<1>. HIDE DEF one, A
<1>4. (one \o <<>>) \o A = (<<>> \o <<>>) \o (one \o A)
  <2>1. one \o <<>> = one
    BY <1>1
  <2>2. one \o A \in Seq(Message) /\ <<>> \o <<>> = <<>>
    BY <1>1
  <2>3. <<>> \o (one \o A) = one \o A
    BY <2>2
  <2>. QED BY <2>1, <2>2, <2>3
<1>. QED BY <1>1, <1>2, <1>3, <1>4 DEF NowOf, one, A

LEMMA NowEnded ==
  ASSUME NEW t \in Seq(Message), t # <<>>, NEW q \in Seq(Entry), NEW cs \in Seq(Command),
         NEW e, e.is \in {"ended", "failed"}
  PROVE  Meant(NowOf(t, q, cs), e) /\ After(NowOf(t, q, cs), e) = NowOf(<<>>, q, cs)
<1>. DEFINE Q == Messages(q)
            A == AskedOf(cs)
            rest == Q \o A
            all == t \o rest
<1>1. Q \in Seq(Message) /\ A \in Seq(Message)
  BY NowFacts
<1>. HIDE DEF Q, A
<1>2. rest \in Seq(Message) /\ (t \o Q) \o A = all
  <2>1. rest \in Seq(Message)
    BY <1>1
  <2>2. (t \o Q) \o A = all
    BY <1>1, MessagesAssoc
  <2>. QED BY <2>1, <2>2
<1>. HIDE DEF rest
<1>3. Len(t) \in Nat /\ Len(t) >= 1 /\ Len(t) \in 0..Len(t) /\ Len(all) = Len(t) + Len(rest)
      /\ all \in Seq(Message) /\ Len(rest) \in Nat
  BY <1>2
<1>4. SubSeq(all, Len(t) + 1, Len(all)) = rest
  <2>1. SubSeq(all, Len(t) + 1, Len(all)) = SubSeq(t, Len(t) + 1, Len(t)) \o rest
    BY <1>2, <1>3, BehindConcat
  <2>2. SubSeq(t, Len(t) + 1, Len(t)) = <<>>
    <3>1. /\ SubSeq(t, Len(t) + 1, Len(t)) \in Seq(Message)
          /\ Len(SubSeq(t, Len(t) + 1, Len(t))) = Len(t) - Len(t)
      BY <1>3, BehindFacts
    <3>. QED BY <3>1, <1>3
  <2>3. <<>> \o rest = rest
    BY <1>2
  <2>. QED BY <2>1, <2>2, <2>3
<1>5. NowOf(t, q, cs) = [ms |-> all, k |-> Len(t)]
  BY <1>2 DEF NowOf, Q, A
<1>6. NowOf(<<>>, q, cs) = [ms |-> rest, k |-> 1]
  <2>1. <<>> \o Q = Q
    BY <1>1
  <2>. QED BY <2>1 DEF NowOf, Q, A, rest
<1>. HIDE DEF all
<1>. DEFINE now == NowOf(t, q, cs)
<1>a. now.ms = all /\ now.k = Len(t)
  BY <1>5
<1>. HIDE DEF now
<1>7. After(now, e) = [ms |-> rest, k |-> 1]
  <2>1. e.is # "ready"
    OBVIOUS
  <2>2. After(now, e) = [ms |-> SubSeq(now.ms, now.k + 1, Len(now.ms)), k |-> 1]
    BY <2>1 DEF After
  <2>. QED BY <2>2, <1>a, <1>4
<1>8. Meant(now, e)
  <2>1. Len(all) # 0
    BY <1>3
  <2>2. now.ms # <<>>
    BY <2>1, <1>a
  <2>3. e.is \notin {"withdrawn", "taken", "dropped", "joined"} /\ e.is # "joined" /\ e.is # "dropped"
    OBVIOUS
  <2>. QED BY <2>2, <2>3 DEF Meant
<1>. QED BY <1>6, <1>7, <1>8 DEF now

\* The next of the queue, and some behind it, make the turn.
LEMMA NowJoined ==
  ASSUME NEW t \in Seq(Message), t # <<>>, NEW q \in Seq(Entry), NEW cs \in Seq(Command),
         NEW left \in Seq(Entry), Messages(q) = t \o Messages(left)
  PROVE  /\ Len(t) = 1 => NowOf(t, left, cs) = NowOf(<<>>, q, cs)
         /\ \A e : e.is = "joined" /\ Len(e.of) + 1 = Len(t) =>
               Meant(NowOf(<<>>, q, cs), e) /\ After(NowOf(<<>>, q, cs), e) = NowOf(t, left, cs)
<1>. DEFINE L == Messages(left)
            A == AskedOf(cs)
            all == (t \o L) \o A
<1>1. L \in Seq(Message) /\ A \in Seq(Message)
  BY NowFacts
<1>2. NowOf(<<>>, q, cs) = [ms |-> all, k |-> 1]
  <2>1. <<>> \o (t \o L) = t \o L
    <3>. HIDE DEF L
    <3>1. t \o L \in Seq(Message)
      BY <1>1
    <3>. QED BY <3>1
  <2>. QED BY <2>1 DEF NowOf
<1>3. NowOf(t, left, cs) = [ms |-> all, k |-> Len(t)]
  BY DEF NowOf
<1>. HIDE DEF L, A
<1>4. Len(t) \in Nat /\ Len(all) \in Nat /\ Len(t) <= Len(all)
  BY <1>1
<1>. HIDE DEF all
<1>5. ASSUME NEW e, e.is = "joined", Len(e.of) + 1 = Len(t)
      PROVE  Meant(NowOf(<<>>, q, cs), e) /\ After(NowOf(<<>>, q, cs), e) = NowOf(t, left, cs)
  BY <1>2, <1>3, <1>4, <1>5 DEF Meant, After
<1>. QED BY <1>2, <1>3, <1>5

\* Some of the queue goes.
LEMMA NowGone ==
  ASSUME NEW t \in Seq(Message), t # <<>>, NEW q \in Seq(Entry), NEW cs \in Seq(Command),
         Once(NowOf(t, q, cs).ms), NEW left \in Seq(Entry), NEW names,
         names \subseteq ToSet(Messages(q)), Messages(left) = Minus(Messages(q), names)
  PROVE  /\ \A m \in names : \E i \in (NowOf(t, q, cs).k + 1)..Len(NowOf(t, q, cs).ms) :
                                  NowOf(t, q, cs).ms[i] = m
         /\ NowOf(t, left, cs) = [ms |-> Minus(NowOf(t, q, cs).ms, names), k |-> NowOf(t, q, cs).k]
<1>. DEFINE Q == Messages(q)
            A == AskedOf(cs)
            now == NowOf(t, q, cs)
            front == t \o Q
<1>1. /\ Q \in Seq(Message) /\ A \in Seq(Message) /\ Len(Q) = Len(q)
      /\ \A i \in 1..Len(q) : Q[i] = q[i].msg
      /\ now.ms = front \o A /\ now.k = Len(t)
  BY NowFacts
<1>2. /\ ToSet(t) \cap ToSet(Q) = {} /\ ToSet(Q) \cap ToSet(A) = {}
  BY NowParts
<1>3. /\ Len(now.ms) = Len(t) + Len(q) + Len(A)
      /\ Len(t) \in Nat /\ Len(q) \in Nat /\ Len(A) \in Nat
      /\ \A i \in 1..Len(q) : now.ms[Len(t) + i] = q[i].msg
  BY NowPlaces
<1>. HIDE DEF Q, A
<1>4. ASSUME NEW m \in names PROVE \E i \in (now.k + 1)..Len(now.ms) : now.ms[i] = m
  <2>1. m \in ToSet(Q)
    BY DEF Q
  <2>2. PICK i \in 1..Len(q) : Q[i] = m
    BY <2>1, <1>1, ToSetIs
  <2>3. Len(t) + i \in (now.k + 1)..Len(now.ms)
    <3>. HIDE DEF now
    <3>. QED BY <1>1, <1>3
  <2>. QED BY <2>2, <2>3, <1>1, <1>3
<1>5. Minus(t, names) = t /\ Minus(A, names) = A
  <2>1. ToSet(t) \cap names = {} /\ ToSet(A) \cap names = {}
    BY <1>2 DEF Q
  <2>. QED BY <2>1, <1>1, MinusNone
<1>6. Minus(front \o A, names) = (t \o Minus(Q, names)) \o A
  <2>1. front \in Seq(Message)
    BY <1>1
  <2>2. Minus(front, names) = Minus(t, names) \o Minus(Q, names)
    BY <1>1, MinusConcat
  <2>. HIDE DEF front
  <2>3. Minus(front \o A, names) = Minus(front, names) \o Minus(A, names)
    BY <2>1, <1>1, MinusConcat
  <2>. QED BY <2>2, <2>3, <1>5
<1>7. NowOf(t, left, cs) = [ms |-> (t \o Minus(Q, names)) \o A, k |-> Len(t)]
  BY DEF NowOf, Q, A
<1>. QED BY <1>1, <1>4, <1>6, <1>7

-----------------------------------------------------------------------------
(* The channel to the task.                                                *)

\* When a message is fast-forwarded, all else that waits has a name.
Expediting(t, q, cs) ==
    \A c \in 1..Len(cs) : cs[c].do = "expedite" =>
        /\ \A i \in 1..Len(q) : i > 1 \/ t # <<>> => q[i].named
        /\ \A d \in 1..c : cs[d].do = "prompt"
                /\ (t # <<>> \/ q # <<>> \/ \E e \in 1..(d - 1) : cs[e].do = "prompt")
                    => cs[d].named

\* Nothing is sent behind a Ctrl+Stop.
Cancelling(cs) ==
    \A c, d \in 1..Len(cs) : c <= d /\ cs[c].do = "cancelAll" => cs[d].do # "prompt"

\* One hook asks at a time.
Asking(cs, hk) ==
    \A c \in 1..Len(cs) : cs[c].do = "take" =>
        hk = "asked" /\ \A d \in 1..Len(cs) : cs[d].do = "take" => c = d

\* The messages without a name.
Unnamed(q, cs) ==
    {m \in Message : \/ \E i \in 1..Len(q) : q[i].msg = m /\ ~q[i].named
                     \/ \E i \in 1..Len(cs) : cs[i].do = "prompt" /\ cs[i].msg = m /\ ~cs[i].named}

LEMMA SentAt ==
  ASSUME NEW cs \in Seq(Command), NEW ms \in Seq(Message), NEW named \in BOOLEAN
  PROVE  LET more == cs \o PromptsOf(ms, named)
         IN  /\ more \in Seq(Command) /\ Len(more) = Len(cs) + Len(ms)
             /\ Len(cs) \in Nat /\ Len(ms) \in Nat
             /\ \A i \in 1..Len(cs) : more[i] = cs[i]
             /\ \A i \in 1..Len(more) : i \notin 1..Len(cs) =>
                   /\ more[i].do = "prompt" /\ more[i].named = named
                   /\ i - Len(cs) \in 1..Len(ms) /\ more[i].msg = ms[i - Len(cs)]
<1>. DEFINE ps == PromptsOf(ms, named)
            more == cs \o ps
<1>1. /\ ps \in Seq(Command) /\ Len(ps) = Len(ms)
      /\ \A i \in 1..Len(ms) : ps[i].do = "prompt" /\ ps[i].msg = ms[i] /\ ps[i].named = named
  BY RowsOfFacts
<1>2. Len(ms) \in Nat /\ Len(cs) \in Nat
  OBVIOUS
<1>. HIDE DEF ps
<1>3. /\ more \in Seq(Command) /\ Len(more) = Len(cs) + Len(ps)
      /\ \A i \in 1..Len(cs) : more[i] = cs[i]
      /\ \A i \in 1..Len(ps) : more[Len(cs) + i] = ps[i]
  <2>1. cs \in Seq(Command) /\ ps \in Seq(Command)
    BY <1>1
  <2>. QED BY <2>1
<1>. HIDE DEF more
<1>4. ASSUME NEW i \in 1..Len(more), i \notin 1..Len(cs)
      PROVE  /\ more[i].do = "prompt" /\ more[i].named = named
             /\ i - Len(cs) \in 1..Len(ms) /\ more[i].msg = ms[i - Len(cs)]
  <2>1. i - Len(cs) \in 1..Len(ms) /\ Len(cs) + (i - Len(cs)) = i
    BY <1>1, <1>2, <1>3, <1>4
  <2>2. more[i] = ps[i - Len(cs)]
    BY <2>1, <1>1, <1>3
  <2>. QED BY <2>1, <2>2, <1>1
<1>. QED BY <1>1, <1>2, <1>3, <1>4 DEF more, ps

LEMMA SentKeeps ==
  ASSUME NEW cs \in Seq(Command), NEW ms \in Seq(Message), NEW named \in BOOLEAN,
         NEW t, NEW q \in Seq(Entry), NEW hk
  PROVE  /\ Expediting(t, q, cs) => Expediting(t, q, cs \o PromptsOf(ms, named))
         /\ (\A i \in 1..Len(cs) : cs[i].do # "cancelAll") => Cancelling(cs \o PromptsOf(ms, named))
         /\ Asking(cs, hk) => Asking(cs \o PromptsOf(ms, named), hk)
         /\ Unnamed(q, cs \o PromptsOf(ms, named))
               \subseteq Unnamed(q, cs) \cup (IF named THEN {} ELSE ToSet(ms))
<1>. DEFINE more == cs \o PromptsOf(ms, named)
<1>1. /\ more \in Seq(Command) /\ Len(more) = Len(cs) + Len(ms)
      /\ Len(cs) \in Nat /\ Len(ms) \in Nat
      /\ \A i \in 1..Len(cs) : more[i] = cs[i]
      /\ \A i \in 1..Len(more) : i \notin 1..Len(cs) =>
            /\ more[i].do = "prompt" /\ more[i].named = named
            /\ i - Len(cs) \in 1..Len(ms) /\ more[i].msg = ms[i - Len(cs)]
  BY SentAt
<1>. HIDE DEF more
<1>2. ASSUME Expediting(t, q, cs) PROVE Expediting(t, q, more)
  <2>. SUFFICES ASSUME NEW c \in 1..Len(more), more[c].do = "expedite"
                PROVE  /\ \A i \in 1..Len(q) : i > 1 \/ t # <<>> => q[i].named
                       /\ \A d \in 1..c : more[d].do = "prompt"
                            /\ (t # <<>> \/ q # <<>> \/ \E e \in 1..(d - 1) : more[e].do = "prompt")
                                => more[d].named
    BY DEF Expediting
  <2>1. c \in 1..Len(cs) /\ cs[c].do = "expedite"
    BY <1>1
  <2>2. /\ \A i \in 1..Len(q) : i > 1 \/ t # <<>> => q[i].named
        /\ \A d \in 1..c : cs[d].do = "prompt"
             /\ (t # <<>> \/ q # <<>> \/ \E e \in 1..(d - 1) : cs[e].do = "prompt")
                 => cs[d].named
    BY <2>1, <1>2 DEF Expediting
  <2>3. \A d \in 1..c : more[d] = cs[d] /\ \A e \in 1..(d - 1) : more[e] = cs[e]
    BY <2>1, <1>1
  <2>. QED BY <2>2, <2>3
<1>3. ASSUME \A i \in 1..Len(cs) : cs[i].do # "cancelAll" PROVE Cancelling(more)
  BY <1>1, <1>3 DEF Cancelling
<1>4. ASSUME Asking(cs, hk) PROVE Asking(more, hk)
  BY <1>1, <1>4 DEF Asking
<1>5. Unnamed(q, more) \subseteq Unnamed(q, cs) \cup (IF named THEN {} ELSE ToSet(ms))
  <2>. SUFFICES ASSUME NEW m \in Unnamed(q, more), m \notin Unnamed(q, cs)
                PROVE  ~named /\ m \in ToSet(ms)
    OBVIOUS
  <2>1. /\ m \in Message
        /\ \/ \E i \in 1..Len(q) : q[i].msg = m /\ ~q[i].named
           \/ \E i \in 1..Len(more) : more[i].do = "prompt" /\ more[i].msg = m /\ ~more[i].named
    BY DEF Unnamed
  <2>2. PICK i \in 1..Len(more) : more[i].do = "prompt" /\ more[i].msg = m /\ ~more[i].named
    BY <2>1 DEF Unnamed
  <2>3. i \notin 1..Len(cs)
    BY <2>1, <2>2, <1>1 DEF Unnamed
  <2>4. ~named /\ i - Len(cs) \in 1..Len(ms) /\ ms[i - Len(cs)] = m
    BY <2>2, <2>3, <1>1
  <2>. QED BY <2>4, ToSetIs
<1>. QED BY <1>2, <1>3, <1>4, <1>5 DEF more

LEMMA AddedKeeps ==
  ASSUME NEW cs \in Seq(Command), NEW c \in Command, c.do # "prompt",
         NEW t, NEW q \in Seq(Entry), NEW hk
  PROVE  /\ Append(cs, c) \in Seq(Command)
         /\ Expediting(t, q, cs) /\ c.do # "expedite" => Expediting(t, q, Append(cs, c))
         /\ Cancelling(cs) => Cancelling(Append(cs, c))
         /\ Asking(cs, hk) /\ c.do # "take" => Asking(Append(cs, c), hk)
         /\ Unnamed(q, Append(cs, c)) = Unnamed(q, cs)
<1>. DEFINE more == Append(cs, c)
<1>1. /\ more \in Seq(Command) /\ Len(more) = Len(cs) + 1 /\ Len(cs) \in Nat
      /\ \A i \in 1..Len(cs) : more[i] = cs[i]
      /\ more[Len(cs) + 1] = c
      /\ \A i \in 1..Len(more) : i \notin 1..Len(cs) => i = Len(cs) + 1
  OBVIOUS
<1>. HIDE DEF more
<1>2. ASSUME Expediting(t, q, cs), c.do # "expedite" PROVE Expediting(t, q, more)
  <2>. SUFFICES ASSUME NEW x \in 1..Len(more), more[x].do = "expedite"
                PROVE  /\ \A i \in 1..Len(q) : i > 1 \/ t # <<>> => q[i].named
                       /\ \A d \in 1..x : more[d].do = "prompt"
                            /\ (t # <<>> \/ q # <<>> \/ \E e \in 1..(d - 1) : more[e].do = "prompt")
                                => more[d].named
    BY DEF Expediting
  <2>1. x \in 1..Len(cs) /\ cs[x].do = "expedite"
    BY <1>1, <1>2
  <2>2. /\ \A i \in 1..Len(q) : i > 1 \/ t # <<>> => q[i].named
        /\ \A d \in 1..x : cs[d].do = "prompt"
             /\ (t # <<>> \/ q # <<>> \/ \E e \in 1..(d - 1) : cs[e].do = "prompt")
                 => cs[d].named
    BY <2>1, <1>2 DEF Expediting
  <2>3. \A d \in 1..x : more[d] = cs[d] /\ \A e \in 1..(d - 1) : more[e] = cs[e]
    BY <2>1, <1>1
  <2>. QED BY <2>2, <2>3
<1>3. ASSUME Cancelling(cs) PROVE Cancelling(more)
  BY <1>1, <1>3 DEF Cancelling
<1>4. ASSUME Asking(cs, hk), c.do # "take" PROVE Asking(more, hk)
  BY <1>1, <1>4 DEF Asking
<1>5. Unnamed(q, more) = Unnamed(q, cs)
  <2>1. ASSUME NEW m
        PROVE  (\E i \in 1..Len(more) : more[i].do = "prompt" /\ more[i].msg = m /\ ~more[i].named)
               <=> \E i \in 1..Len(cs) : cs[i].do = "prompt" /\ cs[i].msg = m /\ ~cs[i].named
    <3>1. \A i \in 1..Len(cs) : i \in 1..Len(more) /\ more[i] = cs[i]
      BY <1>1
    <3>2. \A i \in 1..Len(more) : more[i].do = "prompt" => i \in 1..Len(cs)
      BY <1>1
    <3>. QED BY <3>1, <3>2
  <2>. QED BY <2>1 DEF Unnamed
<1>. QED BY <1>1, <1>2, <1>3, <1>4, <1>5 DEF more

LEMMA TailAt ==
  ASSUME NEW S, NEW cs \in Seq(S), cs # <<>>
  PROVE  /\ Tail(cs) \in Seq(S) /\ Len(cs) \in Nat /\ Len(cs) >= 1 /\ Len(Tail(cs)) = Len(cs) - 1
         /\ \A i \in 1..Len(Tail(cs)) : Tail(cs)[i] = cs[i + 1] /\ i + 1 \in 1..Len(cs)
         /\ Head(cs) = cs[1] /\ 1 \in 1..Len(cs) /\ Head(cs) \in S
OBVIOUS

LEMMA PassedKeeps ==
  ASSUME NEW cs \in Seq(Command), cs # <<>>, NEW hk, NEW q \in Seq(Entry)
  PROVE  /\ Cancelling(cs) => Cancelling(Tail(cs))
         /\ Asking(cs, hk) => Asking(Tail(cs), hk)
         /\ Asking(cs, hk) /\ Head(cs).do = "take" => \A i \in 1..Len(Tail(cs)) : Tail(cs)[i].do # "take"
         /\ Cancelling(cs) /\ Head(cs).do = "cancelAll" =>
               \A i \in 1..Len(Tail(cs)) : Tail(cs)[i].do # "prompt"
         /\ Unnamed(q, Tail(cs)) \subseteq Unnamed(q, cs)
<1>. DEFINE less == Tail(cs)
<1>1. /\ less \in Seq(Command) /\ Len(cs) \in Nat /\ Len(cs) >= 1 /\ Len(less) = Len(cs) - 1
      /\ \A i \in 1..Len(less) : less[i] = cs[i + 1] /\ i + 1 \in 1..Len(cs)
      /\ Head(cs) = cs[1] /\ 1 \in 1..Len(cs)
  BY TailAt
<1>. HIDE DEF less
<1>2. ASSUME Cancelling(cs) PROVE Cancelling(less)
  <2>1. ASSUME NEW c \in 1..Len(less), NEW d \in 1..Len(less), c <= d, less[c].do = "cancelAll"
        PROVE  less[d].do # "prompt"
    <3>1. c + 1 \in 1..Len(cs) /\ d + 1 \in 1..Len(cs) /\ c + 1 <= d + 1
          /\ cs[c + 1].do = "cancelAll" /\ less[d] = cs[d + 1]
      BY <2>1, <1>1
    <3>. QED BY <3>1, <1>2 DEF Cancelling
  <2>. QED BY <2>1 DEF Cancelling
<1>3. ASSUME Asking(cs, hk) PROVE Asking(less, hk)
  <2>. SUFFICES ASSUME NEW c \in 1..Len(less), less[c].do = "take"
                PROVE  hk = "asked" /\ \A d \in 1..Len(less) : less[d].do = "take" => c = d
    BY DEF Asking
  <2>1. cs[c + 1].do = "take" /\ c + 1 \in 1..Len(cs)
    BY <1>1
  <2>2. hk = "asked" /\ \A d \in 1..Len(cs) : cs[d].do = "take" => c + 1 = d
    BY <2>1, <1>3 DEF Asking
  <2>. QED BY <2>2, <1>1
<1>4. ASSUME Asking(cs, hk), Head(cs).do = "take" PROVE \A i \in 1..Len(less) : less[i].do # "take"
  <2>1. \A d \in 1..Len(cs) : cs[d].do = "take" => 1 = d
    BY <1>1, <1>4 DEF Asking
  <2>2. ASSUME NEW i \in 1..Len(less), less[i].do = "take" PROVE FALSE
    <3>1. i + 1 \in 1..Len(cs) /\ cs[i + 1].do = "take"
      BY <1>1, <2>2
    <3>2. 1 = i + 1
      BY <2>1, <3>1
    <3>. QED BY <1>1, <3>2
  <2>. QED BY <2>2
<1>5. ASSUME Cancelling(cs), Head(cs).do = "cancelAll" PROVE \A i \in 1..Len(less) : less[i].do # "prompt"
  BY <1>1, <1>5 DEF Cancelling
<1>6. Unnamed(q, less) \subseteq Unnamed(q, cs)
  <2>1. ASSUME NEW m,
               \E i \in 1..Len(less) : less[i].do = "prompt" /\ less[i].msg = m /\ ~less[i].named
        PROVE  \E i \in 1..Len(cs) : cs[i].do = "prompt" /\ cs[i].msg = m /\ ~cs[i].named
    BY <1>1, <2>1
  <2>. QED BY <2>1 DEF Unnamed
<1>. QED BY <1>2, <1>3, <1>4, <1>5, <1>6 DEF less

LEMMA ExpeditingPassed ==
  ASSUME NEW cs \in Seq(Command), cs # <<>>, NEW t, NEW q, Expediting(t, q, cs)
  PROVE  /\ Head(cs).do # "prompt" => Expediting(t, q, Tail(cs))
         /\ Head(cs).do = "prompt" /\ t = <<>> /\ q = <<>> => \A u : Expediting(u, <<>>, Tail(cs))
         /\ Head(cs).do = "prompt" /\ t # <<>> => \A entry : entry.named = Head(cs).named /\ q \in Seq(Entry)
                 => Expediting(t, Append(q, entry), Tail(cs))
<1>. DEFINE less == Tail(cs)
<1>1. /\ less \in Seq(Command) /\ Len(cs) \in Nat /\ Len(cs) >= 1 /\ Len(less) = Len(cs) - 1
      /\ \A i \in 1..Len(less) : less[i] = cs[i + 1] /\ i + 1 \in 1..Len(cs)
      /\ Head(cs) = cs[1] /\ 1 \in 1..Len(cs)
  BY TailAt
<1>. HIDE DEF less
<1>2. ASSUME NEW c \in 1..Len(less), less[c].do = "expedite"
      PROVE  /\ \A i \in 1..Len(q) : i > 1 \/ t # <<>> => q[i].named
             /\ \A d \in 1..c : less[d].do = "prompt"
                  /\ (t # <<>> \/ q # <<>> \/ cs[1].do = "prompt"
                        \/ \E e \in 1..(d - 1) : less[e].do = "prompt")
                    => less[d].named
             /\ cs[1].do = "prompt" /\ t # <<>> => cs[1].named
  <2>1. c + 1 \in 1..Len(cs) /\ cs[c + 1].do = "expedite"
    BY <1>1, <1>2
  <2>2. /\ \A i \in 1..Len(q) : i > 1 \/ t # <<>> => q[i].named
        /\ \A d \in 1..(c + 1) : cs[d].do = "prompt"
             /\ (t # <<>> \/ q # <<>> \/ \E e \in 1..(d - 1) : cs[e].do = "prompt")
                 => cs[d].named
    BY <2>1 DEF Expediting
  <2>3. ASSUME NEW d \in 1..c, less[d].do = "prompt",
               t # <<>> \/ q # <<>> \/ cs[1].do = "prompt"
                        \/ \E e \in 1..(d - 1) : less[e].do = "prompt"
        PROVE  less[d].named
    <3>1. d + 1 \in 1..(c + 1) /\ less[d] = cs[d + 1] /\ d \in 1..Len(less)
      BY <1>1
    <3>2. t # <<>> \/ q # <<>> \/ \E e \in 1..((d + 1) - 1) : cs[e].do = "prompt"
      <4>1. CASE cs[1].do = "prompt"
        <5>1. 1 \in 1..((d + 1) - 1)
          OBVIOUS
        <5>. QED BY <5>1, <4>1
      <4>2. CASE \E e \in 1..(d - 1) : less[e].do = "prompt"
        <5>1. PICK e \in 1..(d - 1) : less[e].do = "prompt"
          BY <4>2
        <5>2. e \in 1..Len(less) /\ less[e] = cs[e + 1] /\ e + 1 \in 1..((d + 1) - 1)
          BY <3>1, <1>1
        <5>. QED BY <5>1, <5>2
      <4>. QED BY <4>1, <4>2, <2>3
    <3>. QED BY <3>1, <3>2, <2>2, <2>3
  <2>4. 1 \in 1..(c + 1)
    OBVIOUS
  <2>. QED BY <2>2, <2>3, <2>4
<1>3. ASSUME cs[1].do # "prompt" PROVE Expediting(t, q, less)
  BY <1>2 DEF Expediting
<1>4. ASSUME cs[1].do = "prompt", t = <<>>, q = <<>>, NEW u PROVE Expediting(u, <<>>, less)
  <2>1. \A i \in 1..Len(<<>>) : FALSE
    OBVIOUS
  <2>. QED BY <1>2, <1>4, <2>1 DEF Expediting
<1>5. ASSUME cs[1].do = "prompt", t # <<>>, NEW entry, entry.named = cs[1].named, q \in Seq(Entry)
      PROVE  Expediting(t, Append(q, entry), less)
  <2>1. \A i \in 1..Len(Append(q, entry)) :
           (i \in 1..Len(q) /\ Append(q, entry)[i] = q[i]) \/ Append(q, entry)[i] = entry
    BY <1>5
  <2>2. Append(q, entry) # <<>>
    BY <1>5
  <2>. HIDE DEF less
  <2>. QED BY <1>2, <1>5, <2>1 DEF Expediting
<1>. QED BY <1>1, <1>3, <1>4, <1>5 DEF less

-----------------------------------------------------------------------------
(* The queue.                                                              *)

LEMMA SameSeq ==
  ASSUME NEW S, NEW s \in Seq(S), NEW t \in Seq(S), Len(s) = Len(t), \A i \in 1..Len(s) : s[i] = t[i]
  PROVE  s = t
OBVIOUS

LEMMA SplitAt ==
  ASSUME NEW S, NEW q \in Seq(S), NEW n \in 0..Len(q)
  PROVE  /\ SubSeq(q, 1, n) \in Seq(S) /\ SubSeq(q, n + 1, Len(q)) \in Seq(S)
         /\ Len(SubSeq(q, 1, n)) = n /\ Len(SubSeq(q, n + 1, Len(q))) = Len(q) - n
         /\ \A i \in 1..(Len(q) - n) : SubSeq(q, n + 1, Len(q))[i] = q[n + i]
         /\ q = SubSeq(q, 1, n) \o SubSeq(q, n + 1, Len(q))
<1>1. /\ SubSeq(q, n + 1, Len(q)) \in Seq(S)
      /\ Len(SubSeq(q, n + 1, Len(q))) = Len(q) - n
      /\ \A i \in 1..(Len(q) - n) : SubSeq(q, n + 1, Len(q))[i] = q[n + i]
  BY BehindFacts
<1>2. SubSeq(q, 1, n) \in Seq(S) /\ Len(SubSeq(q, 1, n)) = n
      /\ \A i \in 1..n : SubSeq(q, 1, n)[i] = q[i]
  OBVIOUS
<1>3. q = SubSeq(q, 1, n) \o SubSeq(q, n + 1, Len(q))
  <2>. DEFINE s == SubSeq(q, 1, n)
              t == SubSeq(q, n + 1, Len(q))
  <2>1. s \in Seq(S) /\ t \in Seq(S)
    BY <1>1, <1>2
  <2>2. /\ Len(s) = n /\ Len(t) = Len(q) - n /\ Len(q) \in Nat
        /\ \A i \in 1..n : s[i] = q[i]
        /\ \A i \in 1..(Len(q) - n) : t[i] = q[n + i]
    BY <1>1, <1>2
  <2>. HIDE DEF s, t
  <2>3. /\ s \o t \in Seq(S) /\ Len(s \o t) = Len(s) + Len(t)
        /\ \A i \in 1..Len(s) : (s \o t)[i] = s[i]
        /\ \A i \in 1..Len(t) : (s \o t)[Len(s) + i] = t[i]
    BY <2>1
  <2>. DEFINE u == s \o t
  <2>4. /\ u \in Seq(S) /\ Len(u) = Len(q) /\ q \in Seq(S)
        /\ \A i \in 1..n : u[i] = q[i]
        /\ \A k \in 1..(Len(q) - n) : u[n + k] = q[n + k]
    BY <2>2, <2>3
  <2>. HIDE DEF u
  <2>5. ASSUME NEW i \in 1..Len(q) PROVE q[i] = u[i]
    <3>1. CASE i <= n
      BY <3>1, <2>4
    <3>2. CASE i > n
      <4>1. i - n \in 1..(Len(q) - n) /\ n + (i - n) = i
        BY <3>2, <2>2
      <4>. QED BY <4>1, <2>4
    <3>. QED BY <3>1, <3>2, <2>2
  <2>6. q = u
    BY <2>4, <2>5, SameSeq, SMTT(60)
  <2>. QED BY <2>6 DEF s, t, u
<1>. QED BY <1>1, <1>2, <1>3

LEMMA SplitMessages ==
  ASSUME NEW q \in Seq(Entry), NEW n \in 0..Len(q)
  PROVE  Messages(q) = Messages(SubSeq(q, 1, n)) \o Messages(SubSeq(q, n + 1, Len(q)))
<1>. DEFINE front == SubSeq(q, 1, n)
            back == SubSeq(q, n + 1, Len(q))
<1>1. front \in Seq(Entry) /\ back \in Seq(Entry) /\ q = front \o back
  BY SplitAt
<1>2. \A r \in Entry : r.msg \in Message
  BY DEF Entry
<1>. HIDE DEF front, back
<1>3. Messages(front \o back) = Messages(front) \o Messages(back)
  BY <1>1, <1>2, MessagesConcat
<1>. QED BY <1>1, <1>3 DEF front, back

\* The next of the queue and some behind it, and what is left.
LEMMA NextMessages ==
  ASSUME NEW q \in Seq(Entry), q # <<>>, NEW n \in 0..(Len(q) - 1)
  PROVE  /\ Messages(q) = (<<Head(q).msg>> \o Messages(SubSeq(Tail(q), 1, n)))
                             \o Messages(SubSeq(q, n + 2, Len(q)))
         /\ SubSeq(q, n + 2, Len(q)) \in Seq(Entry)
         /\ \A i \in 1..Len(SubSeq(q, n + 2, Len(q))) :
               \E j \in 2..Len(q) : SubSeq(q, n + 2, Len(q))[i] = q[j]
<1>. DEFINE one == <<Head(q)>>
            rest == Tail(q)
            front == SubSeq(rest, 1, n)
            back == SubSeq(rest, n + 1, Len(rest))
            left == SubSeq(q, n + 2, Len(q))
<1>1. /\ one \in Seq(Entry) /\ rest \in Seq(Entry) /\ Len(rest) = Len(q) - 1 /\ Len(q) \in Nat
      /\ q = one \o rest /\ n \in 0..Len(rest)
      /\ \A i \in 1..Len(rest) : rest[i] = q[i + 1]
  BY TailAt
<1>2. left = back
  <2>1. n + 1 \in 0..Len(q)
    BY <1>1
  <2>2. /\ SubSeq(q, (n + 1) + 1, Len(q)) \in Seq(Entry)
        /\ Len(SubSeq(q, (n + 1) + 1, Len(q))) = Len(q) - (n + 1)
        /\ \A i \in 1..(Len(q) - (n + 1)) : SubSeq(q, (n + 1) + 1, Len(q))[i] = q[(n + 1) + i]
    BY <2>1, SplitAt
  <2>3. (n + 1) + 1 = n + 2
    OBVIOUS
  <2>. HIDE DEF rest
  <2>4. /\ back \in Seq(Entry) /\ Len(back) = Len(rest) - n
        /\ \A i \in 1..(Len(rest) - n) : back[i] = rest[n + i]
    BY <1>1, SplitAt
  <2>5. /\ left \in Seq(Entry) /\ Len(left) = Len(q) - (n + 1)
        /\ \A i \in 1..(Len(q) - (n + 1)) : left[i] = q[(n + 1) + i]
    BY <2>2, <2>3
  <2>. HIDE DEF left, back
  <2>6. Len(left) = Len(back)
    BY <2>4, <2>5, <1>1
  <2>7. \A i \in 1..Len(left) : left[i] = back[i]
    <3>1. \A i \in 1..Len(left) : /\ i \in 1..(Len(q) - (n + 1)) /\ i \in 1..(Len(rest) - n)
                                   /\ n + i \in 1..Len(rest) /\ (n + i) + 1 = (n + 1) + i
      BY <2>5, <1>1
    <3>2. \A i \in 1..Len(left) : rest[n + i] = q[(n + i) + 1]
      BY <3>1, <1>1
    <3>. QED BY <3>1, <3>2, <2>4, <2>5
  <2>. QED BY <2>4, <2>5, <2>6, <2>7, SameSeq, SMTT(60)
<1>3. left \in Seq(Entry) /\ \A i \in 1..Len(left) : \E j \in 2..Len(q) : left[i] = q[j]
  <2>1. n + 1 \in 0..Len(q)
    BY <1>1
  <2>2. /\ SubSeq(q, (n + 1) + 1, Len(q)) \in Seq(Entry)
        /\ Len(SubSeq(q, (n + 1) + 1, Len(q))) = Len(q) - (n + 1)
        /\ \A i \in 1..(Len(q) - (n + 1)) : SubSeq(q, (n + 1) + 1, Len(q))[i] = q[(n + 1) + i]
    BY <2>1, SplitAt
  <2>3. (n + 1) + 1 = n + 2
    OBVIOUS
  <2>4. /\ left \in Seq(Entry) /\ Len(left) = Len(q) - (n + 1)
        /\ \A i \in 1..(Len(q) - (n + 1)) : left[i] = q[(n + 1) + i]
    BY <2>2, <2>3
  <2>. HIDE DEF left
  <2>5. ASSUME NEW i \in 1..Len(left) PROVE \E j \in 2..Len(q) : left[i] = q[j]
    <3>1. (n + 1) + i \in 2..Len(q) /\ left[i] = q[(n + 1) + i]
      BY <2>4, <1>1
    <3>. QED BY <3>1
  <2>. QED BY <2>4, <2>5
<1>. HIDE DEF rest
<1>4. Messages(rest) = Messages(front) \o Messages(back)
  BY <1>1, SplitMessages
<1>5. Messages(q) = Messages(one) \o Messages(rest)
  <2>1. \A r \in Entry : r.msg \in Message
    BY DEF Entry
  <2>. HIDE DEF one
  <2>2. Messages(one \o rest) = Messages(one) \o Messages(rest)
    BY <2>1, <1>1, MessagesConcat
  <2>. QED BY <2>2, <1>1
<1>6. Messages(one) = <<Head(q).msg>>
  BY DEF Messages
<1>7. Messages(one) \in Seq(Message) /\ Messages(front) \in Seq(Message) /\ Messages(back) \in Seq(Message)
  <2>1. front \in Seq(Entry) /\ back \in Seq(Entry)
    BY <1>1, SplitAt
  <2>. HIDE DEF front, back, one
  <2>. QED BY <1>1, <2>1, EntriesFacts
<1>8. Messages(one) \o (Messages(front) \o Messages(back)) = (Messages(one) \o Messages(front)) \o Messages(back)
  <2>. HIDE DEF one, front, back
  <2>. QED BY <1>7, MessagesAssoc
<1>. QED BY <1>2, <1>3, <1>4, <1>5, <1>6, <1>8 DEF rest

LEMMA ExpeditingShrinks ==
  ASSUME NEW t, NEW q \in Seq(Entry), NEW cs, Expediting(t, q, cs), t # <<>> \/ q # <<>>,
         NEW left,
         \A i \in 1..Len(left) : \E j \in 1..Len(q) : left[i] = q[j] /\ (j > 1 \/ t # <<>>)
  PROVE  \A u : Expediting(u, left, cs)
BY DEF Expediting

LEMMA ExpeditingRests ==
  ASSUME NEW t, NEW q, NEW cs, Expediting(t, q, cs)
  PROVE  Expediting(<<>>, q, cs)
BY DEF Expediting

LEMMA UnnamedShrinks ==
  ASSUME NEW q \in Seq(Entry), NEW cs, NEW left,
         \A i \in 1..Len(left) : \E j \in 1..Len(q) : left[i] = q[j]
  PROVE  Unnamed(left, cs) \subseteq Unnamed(q, cs)
BY DEF Unnamed

LEMMA UnnamedQueued ==
  ASSUME NEW q \in Seq(Entry), NEW cs \in Seq(Command), cs # <<>>, Head(cs).do = "prompt",
         NEW entry \in Entry, entry.msg = Head(cs).msg, entry.named = Head(cs).named
  PROVE  /\ Unnamed(Append(q, entry), Tail(cs)) \subseteq Unnamed(q, cs)
         /\ Unnamed(q, Tail(cs)) \subseteq Unnamed(q, cs)
<1>1. Unnamed(q, Tail(cs)) \subseteq Unnamed(q, cs)
  <2>1. "none" = "none"
    OBVIOUS
  <2>. QED BY PassedKeeps
<1>2. Unnamed(Append(q, entry), Tail(cs)) \subseteq Unnamed(q, cs)
  <2>. SUFFICES ASSUME NEW m \in Unnamed(Append(q, entry), Tail(cs)), m \notin Unnamed(q, Tail(cs))
                PROVE  m \in Unnamed(q, cs)
    BY <1>1
  <2>1. m \in Message /\ \E i \in 1..Len(Append(q, entry)) :
                             Append(q, entry)[i].msg = m /\ ~Append(q, entry)[i].named
    BY DEF Unnamed
  <2>2. PICK i \in 1..Len(Append(q, entry)) : Append(q, entry)[i].msg = m /\ ~Append(q, entry)[i].named
    BY <2>1
  <2>3. (i \in 1..Len(q) /\ Append(q, entry)[i] = q[i]) \/ Append(q, entry)[i] = entry
    OBVIOUS
  <2>4. i \notin 1..Len(q) \/ Append(q, entry)[i] # q[i]
    BY <2>1, <2>2 DEF Unnamed
  <2>5. entry.msg = m /\ ~entry.named
    BY <2>2, <2>3, <2>4
  <2>6. 1 \in 1..Len(cs) /\ Head(cs) = cs[1]
    BY TailAt
  <2>. QED BY <2>1, <2>5, <2>6 DEF Unnamed
<1>. QED BY <1>1, <1>2

-----------------------------------------------------------------------------
(* What the task tells of its queue.                                       *)

\* Some of it is named, and goes.
LEMMA NamedGoes ==
  ASSUME NEW t \in Seq(Message), t # <<>>, NEW q \in Seq(Entry), NEW cs \in Seq(Command),
         Once(NowOf(t, q, cs).ms), NEW left \in Seq(Entry), NEW of \in Seq(Message),
         ToSet(of) \subseteq ToSet(Messages(q)), Messages(left) = Minus(Messages(q), ToSet(of)),
         NEW is \in {"withdrawn", "taken"}
  PROVE  /\ Meant(NowOf(t, q, cs), TellsOf(is, of))
         /\ After(NowOf(t, q, cs), TellsOf(is, of)) = NowOf(t, left, cs)
<1>. DEFINE now == NowOf(t, q, cs)
            e == TellsOf(is, of)
<1>1. /\ \A m \in ToSet(of) : \E i \in (now.k + 1)..Len(now.ms) : now.ms[i] = m
      /\ NowOf(t, left, cs) = [ms |-> Minus(now.ms, ToSet(of)), k |-> now.k]
  BY NowGone
<1>2. e.is = is /\ e.of = of
  BY DEF TellsOf
<1>. HIDE DEF now, e
<1>3. e.is \notin {"ready", "ended", "failed", "joined", "dropped", "closed"}
  BY <1>2
<1>4. Meant(now, e)
  BY <1>1, <1>2, <1>3 DEF Meant
<1>5. After(now, e) = [ms |-> Minus(now.ms, ToSet(e.of)), k |-> now.k]
  BY <1>2, <1>3 DEF After
<1>. QED BY <1>1, <1>2, <1>4, <1>5 DEF now, e

\* All of it is dropped, and nothing was sent since.
LEMMA AllGoes ==
  ASSUME NEW t \in Seq(Message), t # <<>>, NEW q \in Seq(Entry), q # <<>>, NEW cs \in Seq(Command),
         Once(NowOf(t, q, cs).ms), \A i \in 1..Len(cs) : cs[i].do # "prompt"
  PROVE  /\ Meant(NowOf(t, q, cs), TellsOf("dropped", Messages(q)))
         /\ After(NowOf(t, q, cs), TellsOf("dropped", Messages(q))) = NowOf(t, <<>>, cs)
<1>. DEFINE now == NowOf(t, q, cs)
            Q == Messages(q)
            e == TellsOf("dropped", Q)
<1>1. /\ Q \in Seq(Message) /\ Len(Q) = Len(q) /\ Len(q) \in Nat /\ Len(t) \in Nat /\ Len(t) >= 1
      /\ <<>> \in Seq(Entry) /\ Messages(<<>>) = <<>>
  <2>1. <<>> \in Seq(Entry) /\ Messages(<<>>) \in Seq(Message) /\ Len(Messages(<<>>)) = Len(<<>>)
    BY EmptyTyped, EntriesFacts
  <2>. QED BY <2>1, EntriesFacts
<1>2. Messages(<<>>) = Minus(Q, ToSet(Q)) /\ ToSet(Q) \subseteq ToSet(Q)
  <2>. HIDE DEF Q
  <2>. QED BY <1>1, MinusAll
<1>3. /\ \A m \in ToSet(Q) : \E i \in (now.k + 1)..Len(now.ms) : now.ms[i] = m
      /\ NowOf(t, <<>>, cs) = [ms |-> Minus(now.ms, ToSet(Q)), k |-> now.k]
  <2>. DEFINE none == <<>>
  <2>1. none \in Seq(Entry)
    BY <1>1
  <2>2. Messages(none) = Minus(Messages(q), ToSet(Q)) /\ ToSet(Q) \subseteq ToSet(Messages(q))
    BY <1>2
  <2>. HIDE DEF Q, none
  <2>3. /\ \A m \in ToSet(Q) : \E i \in (now.k + 1)..Len(now.ms) : now.ms[i] = m
        /\ NowOf(t, none, cs) = [ms |-> Minus(now.ms, ToSet(Q)), k |-> now.k]
    BY <2>1, <2>2, NowGone
  <2>. QED BY <2>3 DEF none
<1>4. now.ms = t \o Q /\ now.k = Len(t)
  <2>1. AskedOf(cs) = <<>>
    BY AskedNone
  <2>2. (t \o Q) \o <<>> = t \o Q
    <3>1. t \o Q \in Seq(Message)
      BY <1>1
    <3>. HIDE DEF Q
    <3>. QED BY <3>1
  <2>3. now.ms = (t \o Q) \o AskedOf(cs) /\ now.k = Len(t)
    BY NowFacts
  <2>. HIDE DEF now, Q
  <2>. QED BY <2>1, <2>2, <2>3
<1>5. e.is = "dropped" /\ e.of = Q
  BY DEF TellsOf
<1>. HIDE DEF now, e, Q
<1>6. Len(t \o Q) = Len(t) + Len(Q)
  <2>1. t \in Seq(Message) /\ Q \in Seq(Message)
    BY <1>1
  <2>. QED BY <2>1
<1>7. SubSeq(t \o Q, Len(t) + 1, Len(t \o Q)) = Q
  <2>1. Len(t) \in 0..Len(t)
    BY <1>1
  <2>2. SubSeq(t \o Q, Len(t) + 1, Len(t \o Q)) = SubSeq(t, Len(t) + 1, Len(t)) \o Q
    BY <1>1, <2>1, BehindConcat
  <2>3. SubSeq(t, Len(t) + 1, Len(t)) = <<>>
    <3>1. /\ SubSeq(t, Len(t) + 1, Len(t)) \in Seq(Message)
          /\ Len(SubSeq(t, Len(t) + 1, Len(t))) = Len(t) - Len(t)
      BY <2>1, BehindFacts
    <3>. QED BY <3>1, <1>1
  <2>4. <<>> \o Q = Q
    BY <1>1
  <2>. QED BY <2>2, <2>3, <2>4
<1>8. Len(now.ms) - Len(Q) + 1 = Len(t) + 1 /\ now.k + Len(Q) <= Len(now.ms)
  BY <1>1, <1>4, <1>6
<1>9. e.is \notin {"ready", "ended", "failed", "joined", "closed"}
  BY <1>5
<1>10. Meant(now, e)
  BY <1>3, <1>4, <1>5, <1>7, <1>8, <1>9 DEF Meant
<1>11. After(now, e) = [ms |-> Minus(now.ms, ToSet(e.of)), k |-> now.k]
  BY <1>5, <1>9 DEF After
<1>. QED BY <1>3, <1>5, <1>10, <1>11 DEF now, e, Q

-----------------------------------------------------------------------------
(* Types.                                                                  *)

Said == Waiting \cup Settled \cup {None}

LEMMA CardsType ==
  ASSUME card \in [Message -> Said], NEW ms, NEW says \in Said
  PROVE  Cards(ms, says) \in [Message -> Said]
BY DEF Cards

LEMMA ToldOfType ==
  ASSUME events \in Seq(Event), NEW ms \in Seq(Message),
         NEW is \in {"joined", "dropped", "withdrawn", "taken"}
  PROVE  ToldOf(is, ms) \in Seq(Event)
<1>1. CASE ms = <<>>
  BY <1>1 DEF ToldOf
<1>2. CASE ms # <<>>
  <2>1. TellsOf(is, ms) \in Event
    BY <1>2 DEF TellsOf, Event
  <2>. QED BY <1>2, <2>1 DEF ToldOf
<1>. QED BY <1>1, <1>2

LEMMA ToSetType ==
  ASSUME NEW S, NEW s \in Seq(S)
  PROVE  ToSet(s) \subseteq S
BY DEF ToSet

LEMMA HandsOverTypes ==
  ASSUME TypeOK, NEW ms \in Seq(Message), ms # <<>>, NEW named \in BOOLEAN, HandsOver(ms, named)
  PROVE  /\ pending' \in Seq(Row) /\ card' \in [Message -> Said]
         /\ stop' \in BOOLEAN /\ client' \in BOOLEAN
         /\ commands' \in Seq(Command) /\ session' \in {"none", "starting", "serving"}
<1>1. client' \in BOOLEAN /\ session' \in {"none", "starting", "serving"}
  BY DEF HandsOver, Activated, TypeOK
<1>2. CASE Activated = "none"
  <2>1. card' \in [Message -> Said]
    BY <1>2, CardsType DEF HandsOver, TypeOK, Said, Waiting, Settled
  <2>. QED BY <1>1, <1>2, <2>1 DEF HandsOver, TypeOK
<1>3. CASE Activated # "none"
  <2>1. Cards(ToSet(ms), "Queued") \in [Message -> Said]
    BY CardsType DEF TypeOK, Said, Waiting, Settled
  <2>2. card' \in [Message -> Said]
    BY <1>3, <2>1 DEF HandsOver, Said, Waiting, Settled
  <2>3. pending' \in Seq(Row) /\ commands' \in Seq(Command)
    <3>. DEFINE rows == [i \in DOMAIN ms |-> [msg |-> ms[i], waits |-> named, joined |-> FALSE]]
                prompts == [i \in DOMAIN ms |-> [do |-> "prompt", msg |-> ms[i], named |-> named]]
    <3>1. rows \in Seq(Row) /\ prompts \in Seq(Command)
      BY HandedOver
    <3>2. pending' = pending \o rows /\ commands' = commands \o prompts
      BY <1>3 DEF HandsOver
    <3>3. pending \in Seq(Row) /\ commands \in Seq(Command)
      BY DEF TypeOK
    <3>. HIDE DEF rows, prompts
    <3>. QED BY <3>1, <3>2, <3>3
  <2>. QED BY <1>1, <1>3, <2>2, <2>3 DEF HandsOver
<1>. QED BY <1>2, <1>3

LEMMA FlushesTypes ==
  ASSUME TypeOK, NEW ms \in Seq(Message), NEW at, NEW otherwise \in [Message -> Said],
         Flushes(ms, at, otherwise)
  PROVE  /\ pending' \in Seq(Row) /\ held' \in Seq(Message) /\ card' \in [Message -> Said]
         /\ stop' \in BOOLEAN /\ client' \in BOOLEAN
         /\ commands' \in Seq(Command) /\ session' \in {"none", "starting", "serving"}
<1>1. CASE ms # <<>> /\ at = "up"
  <2>1. HandsOver(ms, TRUE) /\ held' = <<>>
    BY <1>1 DEF Flushes
  <2>2. /\ pending' \in Seq(Row) /\ card' \in [Message -> Said]
        /\ stop' \in BOOLEAN /\ client' \in BOOLEAN
        /\ commands' \in Seq(Command) /\ session' \in {"none", "starting", "serving"}
    BY <1>1, <2>1, HandsOverTypes
  <2>. QED BY <2>1, <2>2
<1>2. CASE ~ (ms # <<>> /\ at = "up")
  BY <1>2 DEF Flushes, TypeOK
<1>. QED BY <1>1, <1>2

LEMMA SpendsTypes ==
  ASSUME TypeOK, NEW kinds, Spends(kinds)
  PROVE  budget' \in [Kind -> Nat]
BY DEF Spends, TypeOK

LEMMA CardIsSaid == TypeOK => card \in [Message -> Said]
BY DEF TypeOK, Said

LEMMA SendTypes == ASSUME TypeOK, NEW m \in Message, Send(m) PROVE TypeOK'
<1>1. /\ held \in Seq(Message) /\ written \in Seq(Message)
      /\ held' \in Seq(Message) => TRUE
  BY DEF TypeOK
<1>2. /\ pending' \in Seq(Row) /\ held' \in Seq(Message) /\ card' \in [Message -> Said]
      /\ stop' \in BOOLEAN /\ client' \in BOOLEAN
      /\ commands' \in Seq(Command) /\ session' \in {"none", "starting", "serving"}
  <2>1. CASE HandsOver(<<m>>, stop) /\ UNCHANGED held
    <3>1. <<m>> \in Seq(Message) /\ <<m>> # <<>> /\ stop \in BOOLEAN
      BY DEF TypeOK
    <3>. QED BY <2>1, <3>1, <1>1, HandsOverTypes
  <2>2. CASE Flushes(Append(held, m), env, Cards({m}, "Held"))
    <3>1. Append(held, m) \in Seq(Message) /\ Cards({m}, "Held") \in [Message -> Said]
      BY <1>1, CardsType, CardIsSaid DEF Said, Waiting, Settled
    <3>. QED BY <2>2, <3>1, FlushesTypes
  <2>. QED BY <2>1, <2>2 DEF Send
<1>3. written' \in Seq(Message)
  BY <1>1 DEF Send
<1>4. budget' \in [Kind -> Nat]
  BY SpendsTypes DEF Send
<1>. QED BY <1>2, <1>3, <1>4 DEF Send, TypeOK, hookVars, Said

LEMMA AppendIs ==
  ASSUME NEW S, NEW s \in Seq(S), NEW e \in S
  PROVE  Append(s, e) = s \o <<e>>
OBVIOUS

\* A request's row goes behind the others, whether or not its prompt goes.
LEMMA RequestTextIs ==
  ASSUME TypeOK, NEW m \in Message, RequestText(m)
  PROVE  /\ pending' = pending \o RowsOf(<<m>>, FALSE)
         /\ commands' = IF Activated = "none" THEN commands ELSE commands \o PromptsOf(<<m>>, FALSE)
         /\ card' \in [Message -> Said]
         /\ \A n \in Message : card'[n] = IF n = m THEN "Sent" ELSE card[n]
<1>1. pending \in Seq(Row) /\ commands \in Seq(Command) /\ card \in [Message -> Said]
  BY DEF TypeOK, Said
<1>. DEFINE ms == <<m>>
            row == [msg |-> m, waits |-> FALSE, joined |-> FALSE]
            prompt == [do |-> "prompt", msg |-> m, named |-> FALSE]
<1>2. DOMAIN ms = {1} /\ Len(ms) = 1 /\ ms[1] = m
  OBVIOUS
<1>3. RowsOf(ms, FALSE) = <<row>> /\ PromptsOf(ms, FALSE) = <<prompt>>
  <2>1. RowsOf(ms, FALSE) = [i \in {1} |-> row] /\ PromptsOf(ms, FALSE) = [i \in {1} |-> prompt]
    <3>1. \A i \in {1} : ms[i] = m
      BY <1>2
    <3>. HIDE DEF ms
    <3>. QED BY <1>2, <3>1 DEF RowsOf, PromptsOf
  <2>. HIDE DEF ms, row, prompt
  <2>2. <<row>> = [i \in 1..1 |-> row] /\ <<prompt>> = [i \in 1..1 |-> prompt] /\ 1..1 = {1}
    OBVIOUS
  <2>. QED BY <2>1, <2>2
<1>4. pending' = Append(pending, row)
      /\ commands' = IF Activated = "none" THEN commands ELSE Append(commands, prompt)
  BY DEF RequestText
<1>5. row \in Row /\ prompt \in Command
  BY DEF Row, Command
<1>. HIDE DEF ms, row, prompt
<1>6. Append(pending, row) = pending \o <<row>> /\ Append(commands, prompt) = commands \o <<prompt>>
  BY <1>1, <1>5, AppendIs
<1>7. card' \in [Message -> Said] /\ \A n \in Message : card'[n] = IF n = m THEN "Sent" ELSE card[n]
  <2>1. card' = Cards({m}, "Sent") /\ "Sent" \in Said
    BY DEF RequestText, Said, Waiting
  <2>2. card' \in [Message -> Said]
    BY <1>1, <2>1, CardsType
  <2>. QED BY <2>1, <2>2 DEF Cards
<1>. QED BY <1>3, <1>4, <1>6, <1>7 DEF ms

LEMMA RequestTextTypes == ASSUME TypeOK, NEW m \in Message, RequestText(m) PROVE TypeOK'
<1>. DEFINE ms == <<m>>
<1>1. ms \in Seq(Message) /\ written' \in Seq(Message)
  BY DEF TypeOK, RequestText
<1>2. RowsOf(ms, FALSE) \in Seq(Row) /\ PromptsOf(ms, FALSE) \in Seq(Command)
  BY <1>1, RowsOfFacts
<1>3. /\ pending' = pending \o RowsOf(ms, FALSE)
      /\ commands' = IF Activated = "none" THEN commands ELSE commands \o PromptsOf(ms, FALSE)
      /\ card' \in [Message -> Said]
  BY RequestTextIs
<1>4. pending' \in Seq(Row) /\ commands' \in Seq(Command)
  <2>. DEFINE rows == RowsOf(ms, FALSE)
              prompts == PromptsOf(ms, FALSE)
  <2>1. pending \in Seq(Row) /\ commands \in Seq(Command)
    BY DEF TypeOK
  <2>2. /\ rows \in Seq(Row) /\ prompts \in Seq(Command) /\ pending' = pending \o rows
        /\ commands' = commands \/ commands' = commands \o prompts
    BY <1>2, <1>3
  <2>. HIDE DEF ms, rows, prompts
  <2>3. pending \o rows \in Seq(Row) /\ commands \o prompts \in Seq(Command)
    BY <2>1, <2>2, ConcatFacts
  <2>. QED BY <2>1, <2>2, <2>3
<1>5. /\ client' \in BOOLEAN /\ session' \in {"none", "starting", "serving"} /\ stop' \in BOOLEAN
  BY DEF RequestText, Activated, TypeOK
<1>6. budget' \in [Kind -> Nat]
  BY SpendsTypes DEF RequestText
<1>. QED BY <1>1, <1>3, <1>4, <1>5, <1>6 DEF RequestText, TypeOK, hookVars, Said

LEMMA StopsAllTypes == ASSUME TypeOK, StopsAll PROVE TypeOK'
<1>1. card' \in [Message -> Said] /\ held' \in Seq(Message)
  BY CardsType, CardIsSaid DEF StopsAll, Said, Waiting, Settled
<1>2. commands' \in Seq(Command)
  <2>1. [do |-> "cancelAll"] \in Command
    BY DEF Command
  <2>2. Append(commands, [do |-> "cancelAll"]) \in Seq(Command) /\ commands \in Seq(Command)
    BY <2>1 DEF TypeOK
  <2>. QED BY <2>2 DEF StopsAll
<1>3. budget' \in [Kind -> Nat]
  BY SpendsTypes DEF StopsAll
<1>. QED BY <1>1, <1>2, <1>3 DEF StopsAll, TypeOK, taskVars, hookVars, ghosts, Said

LEMMA LessType ==
  ASSUME NEW ms \in Seq(Message), NEW m
  PROVE  Less(ms, m) \in Seq(Message)
<1>1. {i \in DOMAIN ms : ms[i] # m} \subseteq DOMAIN ms
  OBVIOUS
<1>. QED BY <1>1, AtFacts DEF Less

LEMMA CommandsType ==
  ASSUME TypeOK, NEW m \in Message, NEW do \in {"withdraw", "expedite"}, Commands(do, m)
  PROVE  commands' \in Seq(Command)
<1>1. [do |-> do, msg |-> m] \in Command
  BY DEF Command
<1>2. Append(commands, [do |-> do, msg |-> m]) \in Seq(Command) /\ commands \in Seq(Command)
  BY <1>1 DEF TypeOK
<1>. QED BY <1>2 DEF Commands

LEMMA WithdrawsTypes == ASSUME TypeOK, NEW m \in Message, Withdraws(m) PROVE TypeOK'
<1>1. budget' \in [Kind -> Nat]
  BY SpendsTypes DEF Withdraws
<1>2. held' \in Seq(Message) /\ card' \in [Message -> Said] /\ commands' \in Seq(Command)
  <2>1. CASE Contains(held, m)
    <3>1. Cards({m}, "NotSent") \in [Message -> Said] /\ Less(held, m) \in Seq(Message)
      BY CardsType, CardIsSaid, LessType DEF TypeOK, Said, Waiting, Settled
    <3>. QED BY <2>1, <3>1 DEF Withdraws, TypeOK
  <2>2. CASE ~Contains(held, m)
    BY <2>2, CommandsType, CardIsSaid DEF Withdraws, TypeOK
  <2>. QED BY <2>1, <2>2
<1>. QED BY <1>1, <1>2 DEF Withdraws, TypeOK, taskVars, hookVars, ghosts, Said

LEMMA ExpeditesTypes == ASSUME TypeOK, NEW m \in Message, Expedites(m) PROVE TypeOK'
<1>1. budget' \in [Kind -> Nat]
  BY SpendsTypes DEF Expedites
<1>2. held' \in Seq(Message) /\ card' \in [Message -> Said] /\ commands' \in Seq(Command)
  <2>1. CASE Contains(held, m)
    <3>1. Cards(ToSet(held) \ {m}, "NotSent") \in [Message -> Said] /\ <<m>> \in Seq(Message)
      BY CardsType, CardIsSaid DEF Said, Waiting, Settled
    <3>. QED BY <2>1, <3>1 DEF Expedites, TypeOK
  <2>2. CASE ~Contains(held, m)
    BY <2>2, CommandsType, CardIsSaid DEF Expedites, TypeOK
  <2>. QED BY <2>1, <2>2
<1>. QED BY <1>1, <1>2 DEF Expedites, TypeOK, taskVars, hookVars, Said

LEMMA GoesFirstTypes == ASSUME TypeOK, NEW m \in Message, GoesFirst(m) PROVE TypeOK'
<1>1. budget' \in [Kind -> Nat]
  BY SpendsTypes DEF GoesFirst
<1>2. held' \in Seq(Message)
  <2>1. Less(held, m) \in Seq(Message) /\ <<m>> \in Seq(Message)
    BY LessType DEF TypeOK
  <2>. QED BY <2>1 DEF GoesFirst
<1>. QED BY <1>1, <1>2 DEF GoesFirst, TypeOK, taskVars, hookVars

LEMMA ReplacesTypes == ASSUME TypeOK, Replaces PROVE TypeOK'
<1>1. budget' \in [Kind -> Nat]
  BY SpendsTypes DEF Replaces
<1>2. undone' \subseteq Message
  BY ToSetType DEF Replaces, TypeOK
<1>. QED BY <1>1, <1>2, EmptyTyped DEF Replaces, TypeOK

LEMMA AsksTypes == ASSUME TypeOK, Asks PROVE TypeOK'
<1>1. budget' \in [Kind -> Nat]
  BY SpendsTypes DEF Asks
<1>2. commands' \in Seq(Command)
  <2>1. [do |-> "take"] \in Command
    BY DEF Command
  <2>. QED BY <2>1 DEF Asks, TypeOK
<1>. QED BY <1>1, <1>2 DEF Asks, TypeOK, paneVars, taskVars, ghosts

LEMMA ReadsTypes == ASSUME TypeOK, Reads PROVE TypeOK'
<1>1. got' \in Seq(Message)
  BY DEF Reads, TypeOK
<1>2. /\ hook' = "none" /\ taken' = <<>> /\ reading' = FALSE
      /\ UNCHANGED <<paneVars, env, commands, events, taskVars, written, undone, moved, budget>>
  BY DEF Reads
<1>. QED BY <1>1, <1>2, EmptyTyped DEF TypeOK, paneVars, taskVars

LEMMA GivesBackTypes == ASSUME TypeOK, GivesBack PROVE TypeOK'
<1>1. budget' \in [Kind -> Nat]
  BY SpendsTypes DEF GivesBack
<1>2. moved' \subseteq Message
  BY ToSetType DEF GivesBack, TypeOK
<1>3. pending' \in Seq(Row) /\ commands' \in Seq(Command)
  <2>1. CASE client /\ session # "none"
    <3>. DEFINE rows == [i \in DOMAIN taken |-> [msg |-> taken[i], waits |-> TRUE, joined |-> FALSE]]
                prompts == [i \in DOMAIN taken |-> [do |-> "prompt", msg |-> taken[i], named |-> TRUE]]
    <3>1. rows \in Seq(Row) /\ prompts \in Seq(Command)
      BY HandedOver DEF TypeOK
    <3>2. pending' = pending \o rows /\ commands' = commands \o prompts
      BY <2>1 DEF GivesBack
    <3>3. pending \in Seq(Row) /\ commands \in Seq(Command)
      BY DEF TypeOK
    <3>. HIDE DEF rows, prompts
    <3>. QED BY <3>1, <3>2, <3>3
  <2>2. CASE ~(client /\ session # "none")
    BY <2>2 DEF GivesBack, TypeOK
  <2>. QED BY <2>1, <2>2
<1>4. card' \in [Message -> Said]
  <2>1. \A says \in {"Queued", "NotSent"} : Cards(ToSet(taken), says) \in [Message -> Said]
    BY CardsType, CardIsSaid DEF Said, Waiting, Settled
  <2>. QED BY <2>1 DEF GivesBack
<1>5. /\ hook' = "none" /\ taken' = <<>> /\ reading' = FALSE
      /\ UNCHANGED <<held, stop, client, reconnect, env, events, taskVars, written, got, undone>>
  BY DEF GivesBack
<1>. QED BY <1>1, <1>2, <1>3, <1>4, <1>5, EmptyTyped DEF TypeOK, taskVars, Said

LEMMA TellsType ==
  ASSUME NEW is \in {"ready", "ended", "failed", "closed"}
  PROVE  Tells(is) \in Event
BY DEF Tells, Event

LEMMA TellsAppended ==
  ASSUME TypeOK, NEW is \in {"ready", "ended", "failed", "closed"}
  PROVE  Append(events, Tells(is)) \in Seq(Event)
BY TellsType DEF TypeOK

LEMMA ReadiesTypes == ASSUME TypeOK, Readies PROVE TypeOK'
<1>1. events' \in Seq(Event)
  BY TellsAppended DEF Readies
<1>. QED BY <1>1 DEF Readies, TypeOK, paneVars, hookVars, ghosts

\* The first of a queue, as messages.
LEMMA FrontType ==
  ASSUME NEW q \in Seq(Entry), NEW places, places \subseteq DOMAIN q
  PROVE  /\ Leading(places) \in 0..Len(q)
         /\ Messages(SubSeq(q, 1, Leading(places))) \in Seq(Message)
         /\ Len(Messages(SubSeq(q, 1, Leading(places)))) = Leading(places)
<1>1. Leading(places) \in 0..Len(q)
  <2>1. places \subseteq 1..Len(q) /\ Len(q) \in Nat
    OBVIOUS
  <2>. QED BY <2>1, LeadingFacts
<1>2. SubSeq(q, 1, Leading(places)) \in Seq(Entry) /\ Len(SubSeq(q, 1, Leading(places))) = Leading(places)
  BY <1>1
<1>. QED BY <1>1, <1>2, EntriesFacts

LEMMA JoinedType ==
  ASSUME NEW q \in Seq(Entry)
  PROVE  Joined(q) \in Seq(Message) /\ Len(Joined(q)) \in 0..Len(q)
<1>1. {i \in DOMAIN q : q[i].named} \subseteq DOMAIN q
  OBVIOUS
<1>. QED BY <1>1, FrontType DEF Joined

LEMMA TakeableType ==
  ASSUME NEW q \in Seq(Entry)
  PROVE  Takeable(q) \in Seq(Message) /\ Len(Takeable(q)) \in 0..Len(q)
<1>1. {i \in DOMAIN q : q[i].named /\ q[i].msg \notin Attached} \subseteq DOMAIN q
  OBVIOUS
<1>. QED BY <1>1, FrontType DEF Takeable

LEMMA TakesNextTypes == ASSUME TypeOK, TakesNext PROVE TypeOK'
<1>. DEFINE joined == IF Head(queue).named THEN Joined(Tail(queue)) ELSE <<>>
<1>1. /\ queue \in Seq(Entry) /\ queue # <<>>
      /\ Begins(<<Head(queue).msg>> \o joined)
      /\ queue' = SubSeq(queue, Len(joined) + 2, Len(queue))
      /\ events' = ToldOf("joined", joined)
      /\ UNCHANGED <<paneVars, env, commands, session, hookVars, written, undone, moved, budget>>
  BY DEF TakesNext, TypeOK
<1>2. Head(queue) \in Entry /\ Tail(queue) \in Seq(Entry) /\ Len(Tail(queue)) = Len(queue) - 1
  BY <1>1
<1>3. joined \in Seq(Message) /\ Len(joined) \in 0..Len(Tail(queue))
  <2>1. Joined(Tail(queue)) \in Seq(Message) /\ Len(Joined(Tail(queue))) \in 0..Len(Tail(queue))
    BY <1>2, JoinedType
  <2>2. <<>> \in Seq(Message) /\ Len(<<>>) = 0 /\ Len(Tail(queue)) \in Nat
    BY <1>2
  <2>. QED BY <2>1, <2>2
<1>4. <<Head(queue).msg>> \in Seq(Message)
  BY <1>2 DEF Entry
<1>. HIDE DEF joined
<1>5. turn' \in Seq(Message) /\ got' \in Seq(Message)
  BY <1>1, <1>3, <1>4 DEF Begins, TypeOK
<1>6. queue' \in Seq(Entry)
  BY <1>1, <1>2, <1>3
<1>7. events' \in Seq(Event)
  BY <1>1, <1>3, ToldOfType DEF TypeOK
<1>. QED BY <1>1, <1>5, <1>6, <1>7 DEF TypeOK, paneVars, hookVars

LEMMA ReceivesTypes == ASSUME TypeOK, Receives PROVE TypeOK'
<1>1. /\ commands # <<>> /\ commands \in Seq(Command)
      /\ hook' \in {"none", "asked", "answered"}
      /\ commands' = Tail(commands)
      /\ UNCHANGED <<paneVars, env, events, session, queue, taken, reading, written, undone, moved, budget>>
  BY DEF Receives, TypeOK
<1>2. Head(commands) \in Command /\ commands' \in Seq(Command)
  BY <1>1
<1>3. turn' \in Seq(Message) /\ got' \in Seq(Message)
  <2>1. CASE Head(commands).do = "prompt"
    <3>1. <<Head(commands).msg>> \in Seq(Message)
      BY <2>1, <1>2, CommandTypes
    <3>2. Begins(<<Head(commands).msg>>)
      BY <2>1 DEF Receives
    <3>. QED BY <3>1, <3>2 DEF Begins, TypeOK
  <2>2. CASE Head(commands).do # "prompt"
    BY <2>2 DEF Receives, TypeOK
  <2>. QED BY <2>1, <2>2
<1>. QED BY <1>1, <1>2, <1>3 DEF TypeOK, paneVars

\* Some of the queue's entries.
LEMMA SomeEntries ==
  ASSUME NEW q \in Seq(Entry), NEW places, places \subseteq DOMAIN q
  PROVE  At(q, places) \in Seq(Entry) /\ Messages(At(q, places)) \in Seq(Message)
BY AtFacts, EntriesFacts

LEMMA ServesTypes == ASSUME TypeOK, Serves PROVE TypeOK'
<1>. DEFINE command == Head(commands)
            out == IF command.do \in {"withdraw", "expedite"} THEN {command.msg} ELSE {}
            known == At(queue, {i \in DOMAIN queue : queue[i].msg \in out /\ queue[i].named})
            others == Without(queue, out)
            takes == Takeable(queue)
            named == At(others, {i \in DOMAIN others : others[i].named})
<1>1. /\ commands # <<>> /\ commands \in Seq(Command) /\ queue \in Seq(Entry)
      /\ commands' = Tail(commands)
      /\ UNCHANGED <<paneVars, env, session, turn, ghosts, budget>>
  BY DEF Serves, TypeOK
<1>2. command \in Command /\ commands' \in Seq(Command)
  BY <1>1
<1>3. known \in Seq(Entry) /\ Messages(known) \in Seq(Message)
  <2>1. {i \in DOMAIN queue : queue[i].msg \in out /\ queue[i].named} \subseteq DOMAIN queue
    OBVIOUS
  <2>. QED BY <1>1, <2>1, SomeEntries
<1>4. others \in Seq(Entry)
  <2>1. {i \in DOMAIN queue : queue[i].msg \notin out} \subseteq DOMAIN queue
    OBVIOUS
  <2>. QED BY <1>1, <2>1, SomeEntries DEF Without
<1>5. named \in Seq(Entry) /\ Messages(named) \in Seq(Message)
  <2>1. {i \in DOMAIN others : others[i].named} \subseteq DOMAIN others
    OBVIOUS
  <2>. QED BY <1>4, <2>1, SomeEntries
<1>6. takes \in Seq(Message) /\ Len(takes) \in 0..Len(queue)
  BY <1>1, TakeableType
<1>7. Messages(queue) \in Seq(Message)
  BY <1>1, EntriesFacts
<1>8. \/ /\ command.do = "prompt"
         /\ queue' = Append(queue, [msg |-> command.msg, named |-> command.named])
         /\ UNCHANGED <<events, hookVars>>
      \/ /\ queue' = <<>>
         /\ events' = ToldOf("dropped", Messages(queue))
         /\ UNCHANGED hookVars
      \/ /\ queue' = others
         /\ events' = ToldOf("withdrawn", Messages(known))
         /\ UNCHANGED hookVars
      \/ /\ queue' = known
         /\ events' = ToldOf("withdrawn", Messages(named))
         /\ UNCHANGED hookVars
      \/ UNCHANGED <<queue, events, hookVars>>
      \/ /\ queue' = SubSeq(queue, Len(takes) + 1, Len(queue))
         /\ events' = ToldOf("taken", takes)
         /\ hook' = "answered" /\ taken' = takes /\ UNCHANGED reading
  BY DEF Serves
<1>. HIDE DEF command, known, others, takes, named
<1>9. queue' \in Seq(Entry)
  <2>1. command.do = "prompt" => [msg |-> command.msg, named |-> command.named] \in Entry
    BY <1>2, CommandTypes DEF Entry
  <2>2. command.do = "prompt" => Append(queue, [msg |-> command.msg, named |-> command.named]) \in Seq(Entry)
    BY <2>1, <1>1
  <2>3. SubSeq(queue, Len(takes) + 1, Len(queue)) \in Seq(Entry)
    BY <1>1, <1>6
  <2>. QED BY <1>1, <1>3, <1>4, <1>8, <2>2, <2>3, EmptyTyped
<1>10. events' \in Seq(Event)
  <2>1. /\ ToldOf("dropped", Messages(queue)) \in Seq(Event)
        /\ ToldOf("withdrawn", Messages(known)) \in Seq(Event)
        /\ ToldOf("withdrawn", Messages(named)) \in Seq(Event)
        /\ ToldOf("taken", takes) \in Seq(Event) /\ events \in Seq(Event)
    BY <1>3, <1>5, <1>6, <1>7, ToldOfType DEF TypeOK
  <2>. QED BY <1>8, <2>1
<1>11. hook' \in {"none", "asked", "answered"} /\ taken' \in Seq(Message) /\ reading' \in BOOLEAN
  BY <1>6, <1>8 DEF TypeOK, hookVars
<1>. QED BY <1>1, <1>2, <1>9, <1>10, <1>11 DEF TypeOK, paneVars, ghosts

LEMMA TurnEndsTypes == ASSUME TypeOK, TurnEnds PROVE TypeOK'
<1>1. events' \in Seq(Event)
  BY TellsAppended DEF TurnEnds
<1>. QED BY <1>1, EmptyTyped DEF TurnEnds, TypeOK, paneVars, ghosts

LEMMA TurnFailsTypes == ASSUME TypeOK, TurnFails PROVE TypeOK'
<1>1. events' \in Seq(Event)
  BY TellsAppended DEF TurnFails
<1>2. budget' \in [Kind -> Nat]
  BY SpendsTypes DEF TurnFails
<1>. QED BY <1>1, <1>2, EmptyTyped DEF TurnFails, TypeOK, paneVars, ghosts

LEMMA EndsTypes ==
  ASSUME TypeOK, NEW failed \in BOOLEAN, Ends(failed), budget' \in [Kind -> Nat],
         env' \in {"up", "moving"}
  PROVE  TypeOK'
<1>1. events' \in Seq(Event)
  <2>1. <<Tells("failed")>> \in Seq(Event) /\ <<Tells("closed")>> \in Seq(Event)
    BY TellsType
  <2>2. (IF failed THEN <<Tells("failed")>> ELSE <<>>) \in Seq(Event)
    BY <2>1, EmptyTyped
  <2>3. events \in Seq(Event)
    BY DEF TypeOK
  <2>. QED BY <2>1, <2>2, <2>3 DEF Ends
<1>2. undone' \subseteq Message
  BY ToSetType DEF Ends, TypeOK
<1>. QED BY <1>1, <1>2, EmptyTyped DEF Ends, TypeOK, paneVars

LEMMA DiesTypes == ASSUME TypeOK, NEW failed \in BOOLEAN, Dies(failed) PROVE TypeOK'
<1>1. budget' \in [Kind -> Nat]
  BY SpendsTypes DEF Dies
<1>. QED BY <1>1, EndsTypes DEF Dies, TypeOK

LEMMA EnvMovesTypes == ASSUME TypeOK, NEW failed \in BOOLEAN, EnvMoves(failed) PROVE TypeOK'
<1>1. budget' \in [Kind -> Nat]
  BY SpendsTypes DEF EnvMoves
<1>2. env' \in {"up", "moving"}
  BY DEF EnvMoves
<1>3. CASE Ends(failed)
  BY <1>1, <1>2, <1>3, EndsTypes
<1>4. CASE UNCHANGED <<paneVars, commands, events, taskVars, hookVars, ghosts>>
  BY <1>1, <1>2, <1>4 DEF TypeOK, paneVars, taskVars, hookVars, ghosts
<1>. QED BY <1>3, <1>4 DEF EnvMoves

LEMMA EnvSettlesTypes == ASSUME TypeOK, EnvSettles PROVE TypeOK'
<1>1. budget' \in [Kind -> Nat]
  BY SpendsTypes DEF EnvSettles
<1>2. /\ env' \in {"up", "moving"}
      /\ UNCHANGED <<reconnect, events, turn, queue, hookVars, ghosts>>
  BY DEF EnvSettles
<1>3. /\ pending' \in Seq(Row) /\ held' \in Seq(Message) /\ card' \in [Message -> Said]
      /\ stop' \in BOOLEAN /\ client' \in BOOLEAN
      /\ commands' \in Seq(Command) /\ session' \in {"none", "starting", "serving"}
  <2>1. CASE Flushes(held, "up", card)
    BY <2>1, FlushesTypes, CardIsSaid DEF TypeOK
  <2>2. CASE /\ client' = TRUE /\ session' = "starting"
             /\ UNCHANGED <<pending, held, card, stop, commands>>
    BY <2>2, CardIsSaid DEF TypeOK
  <2>. QED BY <2>1, <2>2 DEF EnvSettles
<1>. QED BY <1>1, <1>2, <1>3 DEF TypeOK, hookVars, ghosts, Said

LEMMA HearsFacts ==
  ASSUME TypeOK, NEW is, Hears(is)
  PROVE  /\ events' \in Seq(Event) /\ Head(events) \in Event /\ Head(events).is = is
         /\ events # <<>>
BY DEF Hears, TypeOK

LEMMA HearsReadyTypes == ASSUME TypeOK, HearsReady PROVE TypeOK'
<1>1. events' \in Seq(Event)
  BY HearsFacts DEF HearsReady
<1>2. /\ pending' \in Seq(Row) /\ held' \in Seq(Message) /\ card' \in [Message -> Said]
      /\ stop' \in BOOLEAN /\ client' \in BOOLEAN
      /\ commands' \in Seq(Command) /\ session' \in {"none", "starting", "serving"}
  BY FlushesTypes, CardIsSaid DEF HearsReady, TypeOK
<1>. QED BY <1>1, <1>2 DEF HearsReady, TypeOK, hookVars, ghosts, Said

LEMMA RestType == ASSUME NEW rows \in Seq(Row) PROVE Rest(rows) \in Seq(Row)
<1>1. Popped(rows) \in 0..Len(rows) /\ Len(rows) \in Nat
  BY PoppedFacts
<1>. QED BY <1>1 DEF Rest

LEMMA HearsEndedTypes == ASSUME TypeOK, HearsEnded PROVE TypeOK'
<1>1. events' \in Seq(Event)
  BY HearsFacts DEF HearsEnded
<1>2. /\ Accepts(Rest(pending), Cards(Turn(pending), "Taken")) /\ stop' = (stop /\ Rest(pending) # <<>>)
      /\ UNCHANGED <<held, client, reconnect, env, commands, taskVars, hookVars, ghosts, budget>>
  BY DEF HearsEnded
<1>3. Rest(pending) \in Seq(Row)
  BY RestType DEF TypeOK
<1>4. Cards(Turn(pending), "Taken") \in [Message -> Said]
  BY CardsType, CardIsSaid DEF Said, Settled
<1>5. pending' \in Seq(Row)
  <2>. DEFINE row(i) == IF i = 1 THEN [Rest(pending)[i] EXCEPT !.waits = FALSE] ELSE Rest(pending)[i]
  <2>1. \A i \in 1..Len(Rest(pending)) : row(i) \in Row
    <3>1. ASSUME NEW i \in 1..Len(Rest(pending)) PROVE row(i) \in Row
      <4>1. Rest(pending)[i] \in Row
        BY <1>3
      <4>. QED BY <4>1 DEF Row
    <3>. QED BY <3>1
  <2>2. pending' = [i \in 1..Len(Rest(pending)) |-> row(i)]
    BY <1>2, <1>3 DEF Accepts
  <2>3. Len(Rest(pending)) \in Nat
    BY <1>3
  <2>. HIDE DEF row
  <2>. QED BY <2>1, <2>2, <2>3
<1>6. card' \in [Message -> Said]
  BY <1>2, <1>4 DEF Accepts, Said, Settled
<1>. QED BY <1>1, <1>2, <1>5, <1>6 DEF TypeOK, taskVars, hookVars, ghosts, Said

LEMMA HearsFailedTypes == ASSUME TypeOK, HearsFailed PROVE TypeOK'
<1>1. events' \in Seq(Event)
  BY HearsFacts DEF HearsFailed
<1>2. pending' \in Seq(Row)
  BY RestType DEF HearsFailed, TypeOK
<1>3. card' \in [Message -> Said]
  <2>1. \A says \in {"Taken", "Refused"} : Cards(Turn(pending), says) \in [Message -> Said]
    BY CardsType, CardIsSaid DEF Said, Settled
  <2>. QED BY <2>1 DEF HearsFailed
<1>. QED BY <1>1, <1>2, <1>3 DEF HearsFailed, TypeOK, taskVars, hookVars, ghosts, Said

LEMMA HearsJoinedTypes == ASSUME TypeOK, HearsJoined PROVE TypeOK'
<1>. DEFINE last == Len(Head(events).of) + 1
            row(i) == IF i \in 2..last THEN [pending[i] EXCEPT !.waits = FALSE, !.joined = TRUE]
                      ELSE pending[i]
            taking == {pending[i].msg : i \in {j \in DOMAIN pending : j \in 2..last /\ pending[j].waits}}
<1>1. events' \in Seq(Event)
  BY HearsFacts DEF HearsJoined
<1>2. /\ pending' = [i \in DOMAIN pending |-> row(i)]
      /\ card' = Cards(taking, "Taken")
      /\ UNCHANGED <<held, stop, client, reconnect, env, commands, taskVars, hookVars, ghosts, budget>>
  BY DEF HearsJoined
<1>3. DOMAIN pending = 1..Len(pending) /\ Len(pending) \in Nat
      /\ \A i \in 1..Len(pending) : pending[i] \in Row
  BY DEF TypeOK
<1>4. \A i \in 1..Len(pending) : row(i) \in Row
  BY <1>3 DEF Row
<1>. HIDE DEF row, taking
<1>5. pending' \in Seq(Row)
  BY <1>2, <1>3, <1>4
<1>6. card' \in [Message -> Said]
  BY <1>2, CardsType, CardIsSaid DEF Said, Settled
<1>. QED BY <1>1, <1>2, <1>5, <1>6 DEF TypeOK, taskVars, hookVars, ghosts, Said

LEMMA WithoutType ==
  ASSUME NEW rows \in Seq(Row), NEW ms
  PROVE  Without(rows, ms) \in Seq(Row)
<1>1. {i \in DOMAIN rows : rows[i].msg \notin ms} \subseteq DOMAIN rows
  OBVIOUS
<1>. QED BY <1>1, AtFacts DEF Without

LEMMA HearsDroppedTypes == ASSUME TypeOK, HearsDropped PROVE TypeOK'
<1>1. events' \in Seq(Event)
  BY HearsFacts DEF HearsDropped
<1>2. PICK gone : pending' = Without(pending, gone) /\ card' = Cards(gone, "NotSent")
  BY DEF HearsDropped
<1>3. pending' \in Seq(Row) /\ card' \in [Message -> Said]
  BY <1>2, WithoutType, CardsType, CardIsSaid DEF TypeOK, Said, Settled
<1>. QED BY <1>1, <1>3 DEF HearsDropped, TypeOK, taskVars, hookVars, ghosts, Said

LEMMA HearsGoneTypes ==
  ASSUME TypeOK, NEW is, NEW says \in Said, HearsGone(is, says)
  PROVE  TypeOK'
<1>1. events' \in Seq(Event)
  BY HearsFacts DEF HearsGone
<1>2. PICK gone : pending' = Without(pending, gone) /\ card' = Cards(gone, says)
  BY DEF HearsGone
<1>3. pending' \in Seq(Row) /\ card' \in [Message -> Said]
  BY <1>2, WithoutType, CardsType, CardIsSaid DEF TypeOK
<1>. QED BY <1>1, <1>3 DEF HearsGone, TypeOK, taskVars, hookVars, ghosts, Said

LEMMA HearsClosedTypes == ASSUME TypeOK, HearsClosed PROVE TypeOK'
<1>. DEFINE rows == IF env = "moving" THEN Rest(pending) ELSE pending
<1>1. events' \in Seq(Event)
  BY HearsFacts DEF HearsClosed
<1>2. held' = Messages(Without(rows, Utility)) \o held
  BY DEF HearsClosed
<1>3. rows \in Seq(Row)
  BY RestType DEF TypeOK
<1>4. held' \in Seq(Message)
  <2>1. Messages(Without(rows, Utility)) \in Seq(Message)
    BY <1>3, WithoutType, RowsFacts
  <2>. QED BY <1>2, <2>1 DEF TypeOK
<1>5. card' \in [Message -> Said]
  BY CardIsSaid DEF HearsClosed, Said, Settled, Waiting
<1>6. reconnect' \in BOOLEAN
  BY DEF HearsClosed
<1>7. /\ pending' = <<>> /\ stop' = FALSE /\ client' = FALSE
      /\ UNCHANGED <<env, commands, taskVars, hookVars, ghosts, budget>>
  BY DEF HearsClosed
<1>. QED BY <1>1, <1>4, <1>5, <1>6, <1>7, EmptyTyped
     DEF TypeOK, taskVars, hookVars, ghosts, Said

LEMMA ReconnectsTypes == ASSUME TypeOK, Reconnects PROVE TypeOK'
BY DEF Reconnects, Activated, TypeOK, hookVars, ghosts

\* Every variable keeps its type through every step, and no event that names
\* messages names none.
THEOREM TypeCorrect == Spec => []TypeOK
<1>1. Init => TypeOK
  <2>. SUFFICES ASSUME Init PROVE TypeOK
    OBVIOUS
  <2>1. card \in [Message -> Said]
    BY DEF Init, Said
  <2>. QED BY <2>1, ChatAssumption, EmptyTyped DEF Init, TypeOK, Said
<1>2. TypeOK /\ [Next]_vars => TypeOK'
  <2>. SUFFICES ASSUME TypeOK, [Next]_vars PROVE TypeOK'
    OBVIOUS
  <2>1. ASSUME NEW m \in Message,
               Send(m) \/ RequestText(m) \/ Withdraws(m) \/ Expedites(m) \/ GoesFirst(m)
        PROVE  TypeOK'
    BY <2>1, SendTypes, RequestTextTypes, WithdrawsTypes, ExpeditesTypes, GoesFirstTypes
  <2>2. CASE StopsAll \/ Replaces \/ Asks \/ Reads \/ GivesBack
    BY <2>2, StopsAllTypes, ReplacesTypes, AsksTypes, ReadsTypes, GivesBackTypes
  <2>3. CASE Readies \/ TakesNext \/ Receives \/ Serves \/ TurnEnds \/ TurnFails
    BY <2>3, ReadiesTypes, TakesNextTypes, ReceivesTypes, ServesTypes, TurnEndsTypes, TurnFailsTypes
  <2>4. ASSUME NEW failed \in BOOLEAN, Dies(failed) \/ EnvMoves(failed) PROVE TypeOK'
    BY <2>4, DiesTypes, EnvMovesTypes
  <2>5. CASE EnvSettles \/ Reconnects
    BY <2>5, EnvSettlesTypes, ReconnectsTypes
  <2>6. CASE HearsAny
    <3>1. "NotSent" \in Said /\ "WithinTurn" \in Said
      BY DEF Said, Settled
    <3>. QED BY <2>6, <3>1, HearsReadyTypes, HearsEndedTypes, HearsFailedTypes, HearsJoinedTypes,
                HearsDroppedTypes, HearsClosedTypes, HearsGoneTypes DEF HearsAny
  <2>7. CASE UNCHANGED vars
    BY <2>7 DEF TypeOK, vars, paneVars, taskVars, hookVars, ghosts
  <2>. QED BY <2>1, <2>2, <2>3, <2>4, <2>5, <2>6, <2>7 DEF Next
<1>. QED BY <1>1, <1>2, PTL DEF Spec

-----------------------------------------------------------------------------
(* The invariant.                                                          *)

\* What the pane shows becomes what the task has, as the events are heard.
Matched == Replays(pending, events, ToSet(taken), NowOf(turn, queue, commands), session)

\* The task's end is told, and not heard.
Closing == \E i \in 1..Len(events) : events[i].is = "closed"

\* A client is kept until its task is heard to have ended, which is told last.
Life ==
    /\ ~client => session = "none" /\ events = <<>> /\ pending = <<>> /\ ~stop
    /\ session = "none" => commands = <<>>
    /\ session # "serving" => turn = <<>> /\ queue = <<>>
    /\ client => (session = "none" <=> Closing)
    /\ \A i \in 1..Len(events) : events[i].is = "closed" => i = Len(events)

\* Stop is offered while anything is waited on.
Stops == session # "none" => (stop <=> pending # <<>>)

\* No message is waited on, or held, in two places, and each has been sent.
Apart ==
    /\ Once(held) /\ Once(taken)
    /\ ToSet(Messages(pending)) \cap ToSet(held) = {} /\ ToSet(held) \cap ToSet(taken) = {}
    /\ \A m \in ToSet(Messages(pending)) \cup ToSet(held) \cup ToSet(taken) : card[m] # None

\* A taking is asked for while its hook waits, and answered once.
Hooked == Asking(commands, hook) /\ (hook # "answered" => taken = <<>>)

\* What is held does not go out while Ctrl+Stop or a refusal is on its way.
Drops ==
    /\ Cancelling(commands)
    /\ (\E i \in 1..Len(events) : events[i].is = "dropped") =>
          \A i \in 1..Len(commands) : commands[i].do # "prompt"
    /\ env = "up" /\ held # <<>> =>
          /\ \A i \in 1..Len(commands) : commands[i].do # "cancelAll"
          /\ \A i \in 1..Len(events) : events[i].is # "dropped"
          /\ session # "none" => \A i \in 1..Len(events) : events[i].is # "failed"

\* Behind a message that is fast-forwarded, nothing without a name waits.
Named == Expediting(turn, queue, commands)

\* What was sent to wait has its name.
Waits == \A i \in 2..Len(pending) : pending[i].waits =>
             pending[i].msg \notin Unnamed(queue, commands)

\* Nothing that is bounded as a slip has room to happen.
NoSlip == budget["slip"] = 0

\* What every step keeps, while nothing slips.
IInv == Matched /\ Life /\ Stops /\ Apart /\ Hooked /\ Drops /\ Named /\ Waits

-----------------------------------------------------------------------------
(* What follows from it.                                                   *)

LEMMA InvFacts ==
  ASSUME TypeOK, IInv
  PROVE  /\ Proper(NowOf(turn, queue, commands))
         /\ Once(Messages(pending)) /\ Messages(pending) \in Seq(Message)
         /\ ToSet(NowOf(turn, queue, commands).ms) \subseteq ToSet(Messages(pending))
         /\ Len(NowOf(turn, queue, commands).ms) <= Len(pending)
         /\ events = <<>> => Shows(pending, NowOf(turn, queue, commands))
<1>1. pending \in Seq(Row) /\ events \in Seq(Event)
  BY DEF TypeOK
<1>2. Replays(pending, events, ToSet(taken), NowOf(turn, queue, commands), session)
  BY DEF IInv, Matched
<1>. QED BY <1>1, <1>2, ReplaysFacts, RowsFacts

\* No slip: nothing that makes for one happens.
LEMMA NothingSlips ==
  ASSUME NoSlip, NEW kinds, Spends(kinds)
  PROVE  /\ "slip" \notin kinds
         /\ budget \in [Kind -> Nat] => NoSlip'
<1>1. "slip" \notin kinds
  BY DEF Spends, NoSlip
<1>2. "slip" \in Kind
  BY DEF Kind
<1>. QED BY <1>1, <1>2 DEF Spends, NoSlip

LEMMA SlipsNot ==
  ASSUME NoSlip, NEW kinds, NEW how, Spends(kinds \cup Slips(how))
  PROVE  ~how
<1>1. "slip" \notin kinds \cup Slips(how)
  BY NothingSlips
<1>. QED BY <1>1 DEF Slips

\* A session's events stay meant as they are, whatever becomes of it, unless
\* they tell of a failure.
LEMMA ReplaysCalm ==
  ASSUME NEW rows, NEW es, NEW tk, NEW s, NEW at, Replays(rows, es, tk, s, at),
         \A i \in 1..Len(es) : es[i].is # "failed", NEW next
  PROVE  Replays(rows, es, tk, s, next)
<1>1. PICK h : /\ Plays(h, es) /\ Shows(rows, h[1]) /\ h[Len(es) + 1] = s
               /\ Lasts(h, es, at) /\ Taking(h, es, tk)
  BY DEF Replays
<1>2. Lasts(h, es, next)
  BY DEF Lasts
<1>. QED BY <1>1, <1>2 DEF Replays

LEMMA SentMatches ==
  ASSUME TypeOK, NEW es \in Seq(Event),
         Replays(pending, es, ToSet(taken), NowOf(turn, queue, commands), session),
         \A i \in 1..Len(es) : es[i].is \notin {"dropped", "failed", "closed"},
         NEW ms \in Seq(Message), Once(ms), ToSet(Messages(pending)) \cap ToSet(ms) = {},
         NEW named \in BOOLEAN, NEW left, left \subseteq ToSet(taken), left \cap ToSet(ms) = {},
         NEW next
  PROVE  Replays(pending \o RowsOf(ms, named), es, left,
                 NowOf(turn, queue, commands \o PromptsOf(ms, named)), next)
<1>1. /\ pending \in Seq(Row) /\ turn \in Seq(Message) /\ queue \in Seq(Entry)
      /\ commands \in Seq(Command)
  BY DEF TypeOK
<1>2. Sends(pending, pending \o RowsOf(ms, named), ms)
  BY <1>1, RowsSent
<1>3. Replays(pending \o RowsOf(ms, named), es, left,
              Extended(NowOf(turn, queue, commands), ms), session)
  BY <1>2, ReplaysBehind
<1>4. NowOf(turn, queue, commands \o PromptsOf(ms, named)) = Extended(NowOf(turn, queue, commands), ms)
  BY <1>1, NowSent
<1>. QED BY <1>3, <1>4, ReplaysCalm

\* What was sent and has no name was not sent to wait.
LEMMA SentWaits ==
  ASSUME TypeOK, IInv,
         NEW ms \in Seq(Message), ToSet(Messages(pending)) \cap ToSet(ms) = {}, NEW named \in BOOLEAN
  PROVE  LET rows == pending \o RowsOf(ms, named)
         IN  \A i \in 2..Len(rows) : rows[i].waits =>
                rows[i].msg \notin Unnamed(queue, commands \o PromptsOf(ms, named))
<1>. DEFINE new == RowsOf(ms, named)
            rows == pending \o new
            un == Unnamed(queue, commands)
            more == Unnamed(queue, commands \o PromptsOf(ms, named))
<1>1. /\ pending \in Seq(Row) /\ turn \in Seq(Message) /\ queue \in Seq(Entry)
      /\ commands \in Seq(Command)
  BY DEF TypeOK
<1>2. more \subseteq un \cup (IF named THEN {} ELSE ToSet(ms))
  BY <1>1, SentKeeps
<1>3. un \subseteq ToSet(Messages(pending))
  <2>1. ToSet(NowOf(turn, queue, commands).ms) \subseteq ToSet(Messages(pending))
    BY InvFacts
  <2>. DEFINE now == NowOf(turn, queue, commands)
  <2>2. /\ Len(now.ms) = Len(turn) + Len(queue) + Len(AskedOf(commands))
        /\ Len(turn) \in Nat /\ Len(queue) \in Nat /\ Len(AskedOf(commands)) \in Nat
        /\ \A i \in 1..Len(queue) : now.ms[Len(turn) + i] = queue[i].msg
        /\ \A i \in 1..Len(AskedOf(commands)) :
              now.ms[Len(turn) + Len(queue) + i] = AskedOf(commands)[i]
    BY <1>1, NowPlaces
  <2>3. now.ms \in Seq(Message)
    <3>1. now \in View
      BY <1>1, NowFacts
    <3>. HIDE DEF now
    <3>. QED BY <3>1 DEF View
  <2>4. \A i \in 1..Len(commands) : commands[i].do = "prompt" =>
           \E k \in 1..Len(AskedOf(commands)) : AskedOf(commands)[k] = commands[i].msg
    BY <1>1, AskedAt
  <2>. HIDE DEF now
  <2>5. ASSUME NEW i \in 1..Len(now.ms) PROVE now.ms[i] \in ToSet(now.ms)
    BY <2>3, ToSetIs
  <2>6. ASSUME NEW m \in un PROVE m \in ToSet(now.ms)
    <3>1. CASE \E i \in 1..Len(queue) : queue[i].msg = m
      <4>1. PICK i \in 1..Len(queue) : queue[i].msg = m
        BY <3>1
      <4>2. Len(turn) + i \in 1..Len(now.ms)
        BY <2>2
      <4>. QED BY <4>1, <4>2, <2>2, <2>5
    <3>2. CASE \E i \in 1..Len(commands) : commands[i].do = "prompt" /\ commands[i].msg = m
      <4>1. PICK i \in 1..Len(commands) : commands[i].do = "prompt" /\ commands[i].msg = m
        BY <3>2
      <4>2. PICK k \in 1..Len(AskedOf(commands)) : AskedOf(commands)[k] = m
        BY <4>1, <2>4
      <4>3. Len(turn) + Len(queue) + k \in 1..Len(now.ms)
        BY <2>2
      <4>. QED BY <4>2, <4>3, <2>2, <2>5
    <3>. QED BY <3>1, <3>2 DEF Unnamed
  <2>. QED BY <2>1, <2>6 DEF now
<1>4. /\ new \in Seq(Row) /\ Len(new) = Len(ms)
      /\ \A i \in 1..Len(ms) : new[i].msg = ms[i] /\ new[i].waits = named
  BY RowsOfFacts
<1>5. \A i \in 2..Len(pending) : pending[i].waits => pending[i].msg \notin un
  BY DEF IInv, Waits
<1>6. \A i \in 1..Len(pending) : pending[i].msg \in ToSet(Messages(pending))
  <2>1. \A r \in Row : r.msg \in Message
    BY DEF Row
  <2>2. /\ Messages(pending) \in Seq(Message) /\ Len(Messages(pending)) = Len(pending)
        /\ \A i \in 1..Len(pending) : Messages(pending)[i] = pending[i].msg
    BY <1>1, <2>1, MessagesFacts
  <2>. QED BY <2>2, ToSetIs
<1>7. \A i \in 1..Len(ms) : ms[i] \in ToSet(ms)
  BY ToSetIs
<1>. HIDE DEF un, more, new
<1>8. /\ Len(rows) = Len(pending) + Len(ms) /\ Len(pending) \in Nat /\ Len(ms) \in Nat
      /\ \A i \in 1..Len(pending) : rows[i] = pending[i]
      /\ \A i \in 1..Len(ms) : rows[Len(pending) + i] = new[i]
  <2>1. pending \in Seq(Row) /\ new \in Seq(Row) /\ Len(new) = Len(ms)
    BY <1>1, <1>4
  <2>. QED BY <2>1
<1>. HIDE DEF rows
<1>9. ASSUME NEW i \in 2..Len(rows), rows[i].waits PROVE rows[i].msg \notin more
  <2>1. CASE i \in 1..Len(pending)
    <3>1. rows[i] = pending[i] /\ i \in 2..Len(pending)
      BY <2>1, <1>8
    <3>2. pending[i].msg \notin un /\ pending[i].msg \notin ToSet(ms)
      BY <3>1, <1>5, <1>6, <1>9, <2>1
    <3>. QED BY <3>1, <3>2, <1>2
  <2>2. CASE i \notin 1..Len(pending)
    <3>1. i - Len(pending) \in 1..Len(ms) /\ Len(pending) + (i - Len(pending)) = i
      BY <2>2, <1>8
    <3>2. rows[i] = new[i - Len(pending)]
      BY <3>1, <1>8
    <3>3. rows[i].msg \in ToSet(ms) /\ named
      BY <3>1, <3>2, <1>4, <1>7, <1>9
    <3>4. rows[i].msg \notin un
      BY <3>3, <1>3
    <3>. QED BY <3>3, <3>4, <1>2
  <2>. QED BY <2>1, <2>2
<1>. QED BY <1>9 DEF rows, more, new

-----------------------------------------------------------------------------
(* Messages are handed to the task.                                        *)

\* Some of the events are still to be heard.
StillHears ==
    /\ events' \in Seq(Event)
    /\ Replays(pending, events', ToSet(taken), NowOf(turn, queue, commands), session)
    /\ \/ events' = events
       \/ /\ events # <<>> /\ events' = Tail(events)
          /\ Head(events).is # "closed"

LEMMA HearingOn ==
  ASSUME TypeOK, Life, StillHears
  PROVE  /\ \A i \in 1..Len(events') : \E j \in 1..Len(events) : events'[i] = events[j]
         /\ Closing' <=> Closing
         /\ \A i \in 1..Len(events') : events'[i].is = "closed" => i = Len(events')
<1>1. events \in Seq(Event)
  BY DEF TypeOK
<1>2. CASE events' = events
  BY <1>2 DEF Life, Closing
<1>3. CASE events # <<>> /\ events' = Tail(events) /\ Head(events).is # "closed"
  <2>1. /\ Len(events) \in Nat /\ Len(events) >= 1 /\ Len(events') = Len(events) - 1
        /\ \A i \in 1..Len(events') : events'[i] = events[i + 1] /\ i + 1 \in 1..Len(events)
        /\ Head(events) = events[1]
    BY <1>1, <1>3, TailAt
  <2>2. \A i \in 1..Len(events) : events[i].is = "closed" => i = Len(events)
    BY DEF Life
  <2>3. ASSUME NEW i \in 1..Len(events'), events'[i].is = "closed" PROVE i = Len(events')
    <3>1. i + 1 \in 1..Len(events) /\ events[i + 1].is = "closed"
      BY <2>1, <2>3
    <3>2. i + 1 = Len(events)
      BY <3>1, <2>2
    <3>. QED BY <3>2, <2>1
  <2>4. ASSUME NEW j \in 1..Len(events), events[j].is = "closed"
        PROVE  j - 1 \in 1..Len(events') /\ events'[j - 1].is = "closed"
    <3>1. j # 1
      BY <2>1, <2>4, <1>3
    <3>2. j - 1 \in 1..Len(events') /\ (j - 1) + 1 = j
      BY <3>1, <2>1
    <3>. QED BY <3>2, <2>1, <2>4
  <2>5. \A i \in 1..Len(events') : \E j \in 1..Len(events) : events'[i] = events[j]
    BY <2>1
  <2>6. Closing' <=> Closing
    BY <2>4, <2>5 DEF Closing
  <2>. QED BY <2>3, <2>5, <2>6
<1>. QED BY <1>2, <1>3 DEF StillHears

LEMMA SentUncancelled ==
  ASSUME NEW cs \in Seq(Command), NEW ms \in Seq(Message), NEW named \in BOOLEAN,
         \A i \in 1..Len(cs) : cs[i].do # "cancelAll"
  PROVE  \A i \in 1..Len(cs \o PromptsOf(ms, named)) : (cs \o PromptsOf(ms, named))[i].do # "cancelAll"
<1>. DEFINE more == cs \o PromptsOf(ms, named)
<1>1. /\ \A i \in 1..Len(cs) : more[i] = cs[i]
      /\ \A i \in 1..Len(more) : i \notin 1..Len(cs) => more[i].do = "prompt"
  BY SentAt
<1>. HIDE DEF more
<1>2. ASSUME NEW i \in 1..Len(more) PROVE more[i].do # "cancelAll"
  <2>1. CASE i \in 1..Len(cs)
    BY <2>1, <1>1
  <2>2. CASE i \notin 1..Len(cs)
    <3>1. more[i].do = "prompt"
      BY <2>2, <1>1
    <3>. QED BY <3>1
  <2>. QED BY <2>1, <2>2
<1>. QED BY <1>2 DEF more

LEMMA SendsOut ==
  ASSUME TypeOK, IInv, StillHears,
         NEW ms \in Seq(Message), ms # <<>>, Once(ms), NEW named \in BOOLEAN,
         ToSet(Messages(pending)) \cap ToSet(ms) = {},
         pending' = pending \o RowsOf(ms, named), commands' = commands \o PromptsOf(ms, named),
         stop' = TRUE, client' = TRUE, session' = Activated, session' # "none",
         turn' = turn, queue' = queue,
         Asking(commands, hook'), hook' # "answered" => taken' = <<>>,
         taken' = taken \/ taken' = <<>>, ToSet(taken') \cap ToSet(ms) = {},
         held' = <<>> \/ (held' = held /\ env' = env), ToSet(held') \cap ToSet(ms) = {},
         \A m \in Message : card[m] # None \/ m \in ToSet(ms) => card'[m] # None,
         \A i \in 1..Len(commands) : commands[i].do # "cancelAll",
         \A i \in 1..Len(events') : events'[i].is \notin {"dropped", "failed"}
  PROVE  IInv'
<1>1. /\ pending \in Seq(Row) /\ turn \in Seq(Message) /\ queue \in Seq(Entry)
      /\ commands \in Seq(Command) /\ events \in Seq(Event) /\ held \in Seq(Message)
      /\ taken \in Seq(Message)
  BY DEF TypeOK
<1>2. /\ \A i \in 1..Len(events') : \E j \in 1..Len(events) : events'[i] = events[j]
      /\ Closing' <=> Closing
      /\ \A i \in 1..Len(events') : events'[i].is = "closed" => i = Len(events')
  BY HearingOn DEF IInv
<1>3. ~Closing /\ ~Closing'
  <2>1. client => ~Closing
    BY DEF IInv, Life, Activated
  <2>2. ~client => events = <<>>
    BY DEF IInv, Life
  <2>3. events = <<>> => ~Closing
    BY DEF Closing
  <2>. QED BY <2>1, <2>2, <2>3, <1>2
<1>4. \A i \in 1..Len(events') : events'[i].is \notin {"dropped", "failed", "closed"}
  BY <1>3 DEF Closing
<1>5. ToSet(<<>>) = {}
  BY DEF ToSet
<1>6. Matched'
  <2>1. ToSet(taken') \subseteq ToSet(taken)
    BY <1>5
  <2>2. Replays(pending, events', ToSet(taken), NowOf(turn, queue, commands), session)
        /\ events' \in Seq(Event)
    BY DEF StillHears
  <2>3. Replays(pending \o RowsOf(ms, named), events', ToSet(taken'),
                NowOf(turn, queue, commands \o PromptsOf(ms, named)), session')
    BY <2>1, <2>2, <1>4, SentMatches
  <2>. QED BY <2>3 DEF Matched
<1>7. pending' # <<>>
  <2>1. RowsOf(ms, named) \in Seq(Row) /\ Len(RowsOf(ms, named)) = Len(ms) /\ Len(ms) # 0
    BY RowsOfFacts
  <2>. DEFINE new == RowsOf(ms, named)
  <2>. HIDE DEF new
  <2>2. pending \in Seq(Row) /\ new \in Seq(Row) /\ Len(new) # 0
    BY <1>1, <2>1 DEF new
  <2>3. pending \o new # <<>>
    BY <2>2
  <2>. QED BY <2>3 DEF new
<1>8. Life'
  <2>1. session' # "serving" => turn = <<>> /\ queue = <<>>
    BY DEF IInv, Life, Activated
  <2>. QED BY <2>1, <1>2, <1>3 DEF Life
<1>9. Stops'
  BY <1>7 DEF Stops
<1>10. Messages(pending') = Messages(pending) \o ms
  BY <1>1, RowsSent
<1>11. Messages(pending) \in Seq(Message)
  BY InvFacts
<1>12. ToSet(Messages(pending')) = ToSet(Messages(pending)) \cup ToSet(ms)
  BY <1>10, <1>11, ToSetConcat
<1>13. Apart'
  <2>1. Once(<<>>)
    BY DEF Once
  <2>2. Once(held') /\ Once(taken')
    BY <2>1 DEF IInv, Apart
  <2>3. ToSet(held') \subseteq ToSet(held) /\ ToSet(taken') \subseteq ToSet(taken)
    BY <1>5
  <2>4. /\ ToSet(Messages(pending')) \cap ToSet(held') = {}
        /\ ToSet(held') \cap ToSet(taken') = {}
    BY <2>3, <1>12 DEF IInv, Apart
  <2>5. ASSUME NEW m \in ToSet(Messages(pending')) \cup ToSet(held') \cup ToSet(taken')
        PROVE  card'[m] # None
    <3>1. m \in Message
      <4>1. ToSet(Messages(pending)) \subseteq Message /\ ToSet(ms) \subseteq Message
            /\ ToSet(held) \subseteq Message /\ ToSet(taken) \subseteq Message
        BY <1>1, <1>11, ToSetType
      <4>. QED BY <4>1, <2>3, <1>12
    <3>2. CASE m \in ToSet(ms)
      BY <3>1, <3>2
    <3>3. CASE m \notin ToSet(ms)
      BY <3>1, <3>3, <2>3, <1>12 DEF IInv, Apart
    <3>. QED BY <3>2, <3>3
  <2>. QED BY <2>2, <2>4, <2>5 DEF Apart
<1>14. /\ Expediting(turn, queue, commands) => Expediting(turn, queue, commands')
       /\ Cancelling(commands')
       /\ Asking(commands', hook')
  BY <1>1, SentKeeps
<1>15. Hooked' /\ Named'
  BY <1>14 DEF Hooked, Named, IInv
<1>16. Drops'
  <2>1. ASSUME env' = "up", held' # <<>>
        PROVE  \A i \in 1..Len(commands') : commands'[i].do # "cancelAll"
    BY <1>1, SentUncancelled
  <2>. QED BY <2>1, <1>14 DEF Drops
<1>17. Waits'
  <2>1. \A i \in 2..Len(pending') : pending'[i].waits =>
              pending'[i].msg \notin Unnamed(queue, commands')
    BY SentWaits
  <2>. QED BY <2>1 DEF Waits
<1>. QED BY <1>6, <1>8, <1>9, <1>13, <1>15, <1>16, <1>17 DEF IInv

\* No prompt goes out: something else may, and what is held may change.
Orders ==
    \/ commands' = commands
    \/ \E c \in Command : /\ c.do # "prompt" /\ session # "none" /\ commands' = Append(commands, c)
                          /\ c.do = "cancelAll" => held' = <<>>

LEMMA StaysBack ==
  ASSUME TypeOK, IInv, StillHears, Orders,
         client' = client, session' = session, pending' = pending, stop' = stop,
         turn' = turn, queue' = queue, taken' = taken \/ taken' = <<>>,
         Hooked', Named',
         Once(held'), ToSet(held') \cap (ToSet(Messages(pending)) \cup ToSet(taken)) = {},
         held' \in Seq(Message),
         \A m \in Message : card[m] # None \/ m \in ToSet(held') => card'[m] # None,
         env' = "up" /\ held' # <<>> => env = "up" /\ held # <<>>
  PROVE  IInv'
<1>1. /\ \A i \in 1..Len(events') : \E j \in 1..Len(events) : events'[i] = events[j]
      /\ Closing' <=> Closing
      /\ \A i \in 1..Len(events') : events'[i].is = "closed" => i = Len(events')
  BY HearingOn DEF IInv
<1>2. commands \in Seq(Command) /\ queue \in Seq(Entry) /\ turn \in Seq(Message)
  BY DEF TypeOK
<1>3. /\ NowOf(turn, queue, commands') = NowOf(turn, queue, commands)
      /\ Unnamed(queue, commands') = Unnamed(queue, commands)
      /\ Cancelling(commands')
      /\ (\A i \in 1..Len(commands) : commands[i].do # "prompt")
            => \A i \in 1..Len(commands') : commands'[i].do # "prompt"
      /\ held' # <<>> /\ (\A i \in 1..Len(commands) : commands[i].do # "cancelAll")
            => \A i \in 1..Len(commands') : commands'[i].do # "cancelAll"
      /\ session = "none" => commands' = commands
  <2>1. CASE commands' = commands
    BY <2>1 DEF IInv, Drops
  <2>2. ASSUME NEW c \in Command, c.do # "prompt", session # "none", commands' = Append(commands, c),
               c.do = "cancelAll" => held' = <<>>
        PROVE  /\ NowOf(turn, queue, commands') = NowOf(turn, queue, commands)
               /\ Unnamed(queue, commands') = Unnamed(queue, commands)
               /\ Cancelling(commands')
               /\ (\A i \in 1..Len(commands) : commands[i].do # "prompt")
                     => \A i \in 1..Len(commands') : commands'[i].do # "prompt"
               /\ held' # <<>> /\ (\A i \in 1..Len(commands) : commands[i].do # "cancelAll")
                     => \A i \in 1..Len(commands') : commands'[i].do # "cancelAll"
               /\ session = "none" => commands' = commands
    <3>1. NowOf(turn, queue, Append(commands, c)) = NowOf(turn, queue, commands)
      BY <1>2, <2>2, NowOther
    <3>2. Cancelling(Append(commands, c)) /\ Unnamed(queue, Append(commands, c)) = Unnamed(queue, commands)
      BY <1>2, <2>2, AddedKeeps DEF IInv, Drops
    <3>3. \A i \in 1..Len(commands') :
             (i \in 1..Len(commands) /\ commands'[i] = commands[i]) \/ commands'[i] = c
      BY <1>2, <2>2
    <3>4. ASSUME \A i \in 1..Len(commands) : commands[i].do # "prompt"
          PROVE  \A i \in 1..Len(commands') : commands'[i].do # "prompt"
      BY <3>3, <3>4, <2>2
    <3>5. ASSUME held' # <<>>, \A i \in 1..Len(commands) : commands[i].do # "cancelAll"
          PROVE  \A i \in 1..Len(commands') : commands'[i].do # "cancelAll"
      BY <3>3, <3>5, <2>2
    <3>. QED BY <3>1, <3>2, <3>4, <3>5, <2>2
  <2>. QED BY <2>1, <2>2 DEF Orders
<1>4. Matched'
  <2>1. ToSet(<<>>) = {}
    BY DEF ToSet
  <2>2. ToSet(taken') \subseteq ToSet(taken)
    BY <2>1
  <2>3. Replays(pending, events', ToSet(taken), NowOf(turn, queue, commands), session)
    BY DEF StillHears
  <2>4. Replays(pending, events', ToSet(taken'), NowOf(turn, queue, commands), session)
    BY <2>2, <2>3, ReplaysStill
  <2>. QED BY <2>4, <1>3 DEF Matched
<1>5. Life'
  <2>1. events = <<>> => events' = <<>>
    BY DEF StillHears
  <2>. QED BY <2>1, <1>1, <1>3 DEF IInv, Life
<1>6. Stops' /\ Waits'
  BY <1>3 DEF IInv, Stops, Waits
<1>7. Apart'
  <2>1. ToSet(Messages(pending)) \subseteq Message /\ ToSet(taken) \subseteq Message
        /\ ToSet(held') \subseteq Message
    <3>1. Messages(pending) \in Seq(Message) /\ taken \in Seq(Message)
      BY InvFacts DEF TypeOK
    <3>. QED BY <3>1, ToSetType
  <2>2. Once(taken') /\ ToSet(taken') \subseteq ToSet(taken)
    BY DEF IInv, Apart, Once, ToSet
  <2>3. Once(held') /\ ToSet(Messages(pending')) \cap ToSet(held') = {} /\ ToSet(held') \cap ToSet(taken') = {}
    BY <2>2
  <2>4. ASSUME NEW m \in ToSet(Messages(pending')) \cup ToSet(held') \cup ToSet(taken')
        PROVE  card'[m] # None
    BY <2>1, <2>2 DEF IInv, Apart
  <2>. QED BY <2>2, <2>3, <2>4 DEF Apart
<1>8. Drops'
  <2>1. (\E i \in 1..Len(events') : events'[i].is = "dropped") =>
           \A i \in 1..Len(commands') : commands'[i].do # "prompt"
    BY <1>1, <1>3 DEF IInv, Drops
  <2>2. ASSUME env' = "up", held' # <<>>
        PROVE  /\ \A i \in 1..Len(commands') : commands'[i].do # "cancelAll"
               /\ \A i \in 1..Len(events') : events'[i].is # "dropped"
               /\ session' # "none" => \A i \in 1..Len(events') : events'[i].is # "failed"
    BY <1>1, <1>3, <2>2 DEF IInv, Drops
  <2>. QED BY <1>3, <2>1, <2>2 DEF Drops
<1>. QED BY <1>4, <1>5, <1>6, <1>7, <1>8 DEF IInv

LEMMA Outlook ==
  ASSUME TypeOK
  PROVE  /\ ~Dropping => /\ \A i \in 1..Len(commands) : commands[i].do # "cancelAll"
                         /\ \A i \in 1..Len(events) : events[i].is # "dropped"
         /\ ~Failing => \A i \in 1..Len(events) : events[i].is # "failed"
<1>1. commands \in Seq(Command) /\ events \in Seq(Event)
  BY DEF TypeOK
<1>2. DOMAIN commands = 1..Len(commands) /\ DOMAIN events = 1..Len(events)
  BY <1>1
<1>. QED BY <1>2 DEF Dropping, Failing

\* Nothing was heard meanwhile.
LEMMA HearsNone ==
  ASSUME TypeOK, IInv, events' = events
  PROVE  StillHears
BY DEF StillHears, IInv, Matched, TypeOK

LEMMA HandsOverKeeps ==
  ASSUME TypeOK, IInv, StillHears,
         NEW ms \in Seq(Message), ms # <<>>, Once(ms), NEW named \in BOOLEAN, HandsOver(ms, named),
         turn' = turn, queue' = queue, hook' = hook, taken' = taken,
         ToSet(ms) \cap (ToSet(Messages(pending)) \cup ToSet(taken)) = {},
         held' = <<>> \/ (held' = held /\ env' = env), ToSet(held') \cap ToSet(ms) = {},
         commands' # commands =>
             /\ \A i \in 1..Len(commands) : commands[i].do # "cancelAll"
             /\ \A i \in 1..Len(events') : events'[i].is \notin {"dropped", "failed"}
  PROVE  IInv'
<1>1. /\ commands \in Seq(Command) /\ held \in Seq(Message) /\ card \in [Message -> Said]
  BY CardIsSaid DEF TypeOK
<1>2. client' = TRUE /\ session' = Activated
  BY DEF HandsOver
<1>3. None \notin Said \ {None} /\ {"Queued", "Sent", "NotSent", "Held"} \subseteq Said \ {None}
  BY ChatAssumption DEF Said, Waiting, Settled
<1>4. CASE /\ Activated = "none"
           /\ card' = Cards(ToSet(ms), "NotSent")
           /\ UNCHANGED <<pending, stop, commands>>
  <2>1. client /\ session = "none"
    BY <1>4 DEF Activated
  <2>2. client' = client /\ session' = session
    BY <1>2, <1>4, <2>1
  <2>3. \A m \in Message : card[m] # None \/ m \in ToSet(held') => card'[m] # None
    <3>1. \A m \in ToSet(held') : m \in ToSet(held)
      BY DEF ToSet
    <3>2. \A m \in ToSet(held) : card[m] # None
      BY DEF IInv, Apart
    <3>3. \A m \in Message : card'[m] = IF m \in ToSet(ms) THEN "NotSent" ELSE card[m]
      BY <1>4 DEF Cards
    <3>. QED BY <1>3, <3>1, <3>2, <3>3
  <2>4. /\ held' \in Seq(Message) /\ Once(held') /\ ToSet(held') \subseteq ToSet(held)
    <3>1. <<>> \in Seq(Message) /\ Once(<<>>) /\ ToSet(<<>>) = {}
      BY EmptyTyped DEF Once, ToSet
    <3>2. Once(held)
      BY DEF IInv, Apart
    <3>. QED BY <1>1, <3>1, <3>2
  <2>5. ToSet(held') \cap (ToSet(Messages(pending)) \cup ToSet(taken)) = {}
    BY <2>4 DEF IInv, Apart
  <2>6. Orders /\ Hooked' /\ Named'
    BY <1>4 DEF Orders, IInv, Hooked, Named
  <2>7. env' = "up" /\ held' # <<>> => env = "up" /\ held # <<>>
    OBVIOUS
  <2>. QED BY <1>4, <2>2, <2>3, <2>4, <2>5, <2>6, <2>7, StaysBack
<1>5. CASE /\ Activated # "none"
           /\ card' = [Cards(ToSet(ms), "Queued") EXCEPT ![Head(ms)] = IF stop THEN "Queued" ELSE "Sent"]
           /\ pending' = pending \o RowsOf(ms, named)
           /\ commands' = commands \o PromptsOf(ms, named)
           /\ stop' = TRUE
  <2>1. commands' # commands
    <3>. DEFINE new == PromptsOf(ms, named)
    <3>1. new \in Seq(Command) /\ Len(new) = Len(ms) /\ Len(ms) # 0
      BY RowsOfFacts
    <3>2. commands' = commands \o new
      BY <1>5
    <3>. HIDE DEF new
    <3>3. commands \in Seq(Command) /\ new \in Seq(Command) /\ Len(new) # 0 /\ commands' = commands \o new
      BY <1>1, <3>1, <3>2
    <3>4. Len(commands \o new) # Len(commands)
      BY <3>3
    <3>. QED BY <3>3, <3>4
  <2>2. /\ \A i \in 1..Len(commands) : commands[i].do # "cancelAll"
        /\ \A i \in 1..Len(events') : events'[i].is \notin {"dropped", "failed"}
    BY <2>1
  <2>3. \A m \in Message : card[m] # None \/ m \in ToSet(ms) => card'[m] # None
    <3>1. Head(ms) \in ToSet(ms)
      <4>1. 1 \in 1..Len(ms) /\ Head(ms) = ms[1]
        BY TailAt
      <4>. QED BY <4>1, ToSetIs
    <3>2. \A m \in Message : Cards(ToSet(ms), "Queued")[m] = IF m \in ToSet(ms) THEN "Queued" ELSE card[m]
      BY DEF Cards
    <3>3. Cards(ToSet(ms), "Queued") \in [Message -> Said]
      BY <1>1, <1>3, CardsType
    <3>4. \A m \in Message : card'[m] = IF m = Head(ms) THEN IF stop THEN "Queued" ELSE "Sent"
                                        ELSE Cards(ToSet(ms), "Queued")[m]
      <4>. DEFINE c == Cards(ToSet(ms), "Queued")
      <4>1. c \in [Message -> Said] /\ card' = [c EXCEPT ![Head(ms)] = IF stop THEN "Queued" ELSE "Sent"]
        BY <3>3, <1>5
      <4>. HIDE DEF c
      <4>2. \A m \in Message : card'[m] = IF m = Head(ms) THEN IF stop THEN "Queued" ELSE "Sent" ELSE c[m]
        BY <4>1
      <4>. QED BY <4>2 DEF c
    <3>. QED BY <1>3, <3>1, <3>2, <3>4
  <2>4. Asking(commands, hook') /\ (hook' # "answered" => taken' = <<>>)
    BY DEF IInv, Hooked
  <2>5. ToSet(Messages(pending)) \cap ToSet(ms) = {} /\ ToSet(taken') \cap ToSet(ms) = {}
    OBVIOUS
  <2>. QED BY <1>2, <1>5, <2>2, <2>3, <2>4, <2>5, SendsOut
<1>. QED BY <1>4, <1>5 DEF HandsOver, RowsOf, PromptsOf

LEMMA OneOnly ==
  ASSUME NEW m \in Message
  PROVE  <<m>> \in Seq(Message) /\ <<m>> # <<>> /\ Once(<<m>>) /\ ToSet(<<m>>) = {m}
BY DEF Once, ToSet

LEMMA AppendedOnce ==
  ASSUME NEW s \in Seq(Message), Once(s), NEW m \in Message, m \notin ToSet(s)
  PROVE  Append(s, m) \in Seq(Message) /\ Once(Append(s, m)) /\ ToSet(Append(s, m)) = ToSet(s) \cup {m}
<1>. DEFINE one == <<m>>
<1>1. one \in Seq(Message) /\ Once(one) /\ ToSet(one) = {m}
  BY OneOnly
<1>2. Append(s, m) = s \o one
  OBVIOUS
<1>. HIDE DEF one
<1>3. s \o one \in Seq(Message) /\ ToSet(s \o one) = ToSet(s) \cup ToSet(one)
      /\ (Once(s \o one) <=> Once(s) /\ Once(one) /\ ToSet(s) \cap ToSet(one) = {})
  <2>1. s \in Seq(Message) /\ one \in Seq(Message)
    BY <1>1
  <2>. QED BY <2>1, ToSetConcat, OnceConcat
<1>. QED BY <1>1, <1>2, <1>3

LEMMA FlushesKeep ==
  ASSUME TypeOK, IInv, StillHears,
         NEW ms \in Seq(Message), Once(ms), NEW at, NEW otherwise, Flushes(ms, at, otherwise),
         turn' = turn, queue' = queue, hook' = hook, taken' = taken,
         ToSet(ms) \cap (ToSet(Messages(pending)) \cup ToSet(taken)) = {},
         env' = at,
         ms # <<>> /\ at = "up" /\ commands' # commands =>
             /\ \A i \in 1..Len(commands) : commands[i].do # "cancelAll"
             /\ \A i \in 1..Len(events') : events'[i].is \notin {"dropped", "failed"},
         \A m \in Message : card[m] # None \/ m \in ToSet(ms) => otherwise[m] # None
  PROVE  IInv'
<1>1. CASE ms # <<>> /\ at = "up"
  <2>1. HandsOver(ms, TRUE) /\ held' = <<>>
    BY <1>1 DEF Flushes
  <2>2. ToSet(held') \cap ToSet(ms) = {}
    BY <2>1 DEF ToSet
  <2>. QED BY <1>1, <2>1, <2>2, HandsOverKeeps
<1>2. CASE ~(ms # <<>> /\ at = "up")
  <2>1. held' = ms /\ card' = otherwise /\ UNCHANGED <<pending, stop, client, session, commands>>
    BY <1>2 DEF Flushes
  <2>2. ~(env' = "up" /\ held' # <<>>)
    BY <1>2, <2>1
  <2>3. Orders /\ Hooked' /\ Named'
    BY <2>1 DEF Orders, IInv, Hooked, Named
  <2>. QED BY <2>1, <2>2, <2>3, StaysBack
<1>. QED BY <1>1, <1>2

LEMMA SentIsApart ==
  ASSUME IInv, NEW m, card[m] = None
  PROVE  m \notin ToSet(Messages(pending)) \cup ToSet(held) \cup ToSet(taken)
BY DEF IInv, Apart

LEMMA SendKeeps == ASSUME TypeOK, IInv, NoSlip, NEW m \in Message, Send(m) PROVE IInv'
<1>1. m \notin ToSet(Messages(pending)) \cup ToSet(held) \cup ToSet(taken)
  BY SentIsApart DEF Send
<1>2. StillHears
  BY HearsNone DEF Send
<1>3. commands' # commands =>
         /\ \A i \in 1..Len(commands) : commands[i].do # "cancelAll"
         /\ \A i \in 1..Len(events') : events'[i].is \notin {"dropped", "failed"}
  <2>1. Spends({} \cup Slips(commands' # commands /\ (Dropping \/ Failing)))
    BY DEF Send
  <2>2. ~(commands' # commands /\ (Dropping \/ Failing))
    BY <2>1, SlipsNot
  <2>. QED BY <2>2, Outlook DEF Send
<1>4. turn' = turn /\ queue' = queue /\ hook' = hook /\ taken' = taken /\ env' = env
  BY DEF Send, hookVars
<1>5. held \in Seq(Message) /\ Once(held) /\ stop \in BOOLEAN /\ card \in [Message -> Said]
      /\ ToSet(held) \cap (ToSet(Messages(pending)) \cup ToSet(taken)) = {}
  BY CardIsSaid DEF IInv, Apart, TypeOK
<1>6. CASE HandsOver(<<m>>, stop) /\ UNCHANGED held
  <2>. DEFINE ms == <<m>>
  <2>1. ms \in Seq(Message) /\ ms # <<>> /\ Once(ms) /\ ToSet(ms) = {m}
    BY OneOnly
  <2>2. HandsOver(ms, stop) /\ held' = held
    BY <1>6
  <2>. HIDE DEF ms
  <2>3. ToSet(ms) \cap (ToSet(Messages(pending)) \cup ToSet(taken)) = {} /\ ToSet(held') \cap ToSet(ms) = {}
    BY <2>1, <2>2, <1>1
  <2>. QED BY <1>2, <1>3, <1>4, <1>5, <2>1, <2>2, <2>3, HandsOverKeeps
<1>7. CASE Flushes(Append(held, m), env, Cards({m}, "Held"))
  <2>. DEFINE ms == Append(held, m)
              otherwise == Cards({m}, "Held")
  <2>1. ms \in Seq(Message) /\ Once(ms) /\ ToSet(ms) = ToSet(held) \cup {m}
    BY <1>1, <1>5, AppendedOnce
  <2>2. Flushes(ms, env, otherwise)
    BY <1>7
  <2>3. \A n \in Message : card[n] # None \/ n \in ToSet(ms) => otherwise[n] # None
    <3>1. \A n \in Message : otherwise[n] = IF n \in {m} THEN "Held" ELSE card[n]
      BY DEF Cards
    <3>2. "Held" # None
      BY ChatAssumption DEF Waiting
    <3>3. \A n \in ToSet(held) : card[n] # None
      BY DEF IInv, Apart
    <3>. QED BY <3>1, <3>2, <3>3, <2>1
  <2>. HIDE DEF ms, otherwise
  <2>4. ToSet(ms) \cap (ToSet(Messages(pending)) \cup ToSet(taken)) = {}
    BY <2>1, <1>1, <1>5
  <2>. QED BY <1>2, <1>3, <1>4, <2>1, <2>2, <2>3, <2>4, FlushesKeep
<1>. QED BY <1>6, <1>7 DEF Send

LEMMA RequestTextKeeps == ASSUME TypeOK, IInv, NoSlip, NEW m \in Message, RequestText(m) PROVE IInv'
<1>1. m \notin ToSet(Messages(pending)) \cup ToSet(held) \cup ToSet(taken)
  BY SentIsApart DEF RequestText
<1>2. StillHears /\ events' = events
  BY HearsNone DEF RequestText
<1>3. /\ \A i \in 1..Len(commands) : commands[i].do # "cancelAll"
      /\ \A i \in 1..Len(events) : events[i].is \notin {"dropped", "failed"}
  <2>1. Spends({} \cup Slips(Dropping \/ Failing \/ Passing))
    BY DEF RequestText
  <2>2. ~(Dropping \/ Failing \/ Passing)
    BY <2>1, SlipsNot
  <2>. QED BY <2>2, Outlook
<1>4. turn' = turn /\ queue' = queue /\ hook' = hook /\ taken' = taken /\ env' = env /\ held' = held
  BY DEF RequestText, hookVars
<1>. DEFINE ms == <<m>>
<1>5. ms \in Seq(Message) /\ ms # <<>> /\ Once(ms) /\ ToSet(ms) = {m}
  BY OneOnly
<1>6. /\ pending' = pending \o RowsOf(ms, FALSE)
      /\ commands' = IF Activated = "none" THEN commands ELSE commands \o PromptsOf(ms, FALSE)
      /\ \A n \in Message : card'[n] = IF n = m THEN "Sent" ELSE card[n]
  BY RequestTextIs
<1>7. client' = TRUE /\ session' = Activated
  BY DEF RequestText
<1>8. Asking(commands, hook) /\ (hook # "answered" => taken = <<>>)
  BY DEF IInv, Hooked
<1>9. \A n \in Message : card[n] # None \/ n \in ToSet(ms) => card'[n] # None
  BY <1>5, <1>6, ChatAssumption DEF Waiting
<1>. HIDE DEF ms
<1>10. CASE Activated # "none"
  <2>1. stop' = TRUE /\ commands' = commands \o PromptsOf(ms, FALSE)
    BY <1>10, <1>6 DEF RequestText
  <2>. QED BY <1>1, <1>2, <1>3, <1>4, <1>5, <1>6, <1>7, <1>8, <1>9, <1>10, <2>1, SendsOut
<1>11. CASE Activated = "none"
  <2>1. client /\ session = "none" /\ client' = client /\ session' = session /\ stop' = stop
        /\ commands' = commands
    BY <1>6, <1>7, <1>11 DEF RequestText, Activated
  <2>2. /\ pending \in Seq(Row) /\ events \in Seq(Event) /\ taken \in Seq(Message) /\ held \in Seq(Message)
    BY DEF TypeOK
  <2>3. events # <<>> /\ events[Len(events)].is = "closed"
        /\ \A i \in 1..Len(events) : events[i].is = "closed" => i = Len(events)
    <3>1. Closing /\ \A i \in 1..Len(events) : events[i].is = "closed" => i = Len(events)
      BY <2>1 DEF IInv, Life
    <3>2. PICK i \in 1..Len(events) : events[i].is = "closed"
      BY <3>1 DEF Closing
    <3>. QED BY <3>1, <3>2
  <2>4. Matched'
    <3>1. Sends(pending, pending \o RowsOf(ms, FALSE), ms)
      BY <1>5, <2>2, RowsSent
    <3>2. Replays(pending, events, ToSet(taken), NowOf(turn, queue, commands), session)
      BY DEF IInv, Matched
    <3>3. ToSet(Messages(pending)) \cap ToSet(ms) = {} /\ ToSet(taken) \cap ToSet(ms) = {}
      BY <1>1, <1>5
    <3>4. Replays(pending \o RowsOf(ms, FALSE), events, ToSet(taken), NowOf(turn, queue, commands), session)
      BY <1>3, <1>5, <2>2, <2>3, <3>1, <3>2, <3>3, ReplaysBefore
    <3>. QED BY <1>2, <1>4, <1>6, <2>1, <3>4 DEF Matched
  <2>5. Life'
    BY <1>2, <1>4, <2>1 DEF IInv, Life, Closing
  <2>6. Stops' /\ Hooked' /\ Named'
    BY <1>4, <2>1 DEF IInv, Stops, Hooked, Named
  <2>7. Apart'
    <3>1. ToSet(Messages(pending')) = ToSet(Messages(pending)) \cup {m}
      <4>1. Messages(pending') = Messages(pending) \o ms
        BY <1>5, <1>6, <2>2, RowsSent
      <4>2. Messages(pending) \in Seq(Message)
        BY <2>2, RowsFacts
      <4>. QED BY <1>5, <4>1, <4>2, ToSetConcat
    <3>2. ToSet(Messages(pending)) \cup ToSet(held) \cup ToSet(taken) \subseteq Message
      <4>1. Messages(pending) \in Seq(Message)
        BY <2>2, RowsFacts
      <4>. QED BY <2>2, <4>1, ToSetType
    <3>. QED BY <1>1, <1>4, <1>5, <1>9, <3>1, <3>2 DEF IInv, Apart
  <2>8. Drops'
    BY <1>2, <1>4, <2>1 DEF IInv, Drops
  <2>9. Waits'
    <3>. DEFINE rows == RowsOf(ms, FALSE)
    <3>1. rows \in Seq(Row) /\ Len(rows) = Len(ms) /\ \A i \in 1..Len(ms) : rows[i].waits = FALSE
      BY <1>5, RowsOfFacts
    <3>2. pending' = pending \o rows
      BY <1>6
    <3>. HIDE DEF rows
    <3>3. \A i \in 2..Len(pending') : \/ i \in 2..Len(pending) /\ pending'[i] = pending[i]
                                      \/ i - Len(pending) \in 1..Len(ms) /\ pending'[i] = rows[i - Len(pending)]
      BY <2>2, <3>1, <3>2
    <3>. QED BY <1>4, <2>1, <3>1, <3>3 DEF IInv, Waits
  <2>. QED BY <2>4, <2>5, <2>6, <2>7, <2>8, <2>9 DEF IInv
<1>. QED BY <1>10, <1>11

LEMMA LessFacts ==
  ASSUME NEW s \in Seq(Message), NEW m
  PROVE  /\ Less(s, m) \in Seq(Message) /\ ToSet(Less(s, m)) = ToSet(s) \ {m}
         /\ Once(s) => Once(Less(s, m))
<1>1. Less(s, m) = Minus(s, {m})
  <2>1. {i \in DOMAIN s : s[i] # m} = {i \in DOMAIN s : s[i] \notin {m}}
    OBVIOUS
  <2>. QED BY <2>1 DEF Less, Minus
<1>. QED BY <1>1, MinusFacts

LEMMA ContainsIs ==
  ASSUME NEW s \in Seq(Message), NEW m
  PROVE  Contains(s, m) <=> m \in ToSet(s)
BY DEF Contains, ToSet

\* An agent is started where there is none.
LEMMA StartsKeeps ==
  ASSUME TypeOK, IInv, ~client, client' = TRUE, session' = "starting",
         UNCHANGED <<pending, held, card, stop, commands, events, turn, queue, hookVars>>
  PROVE  IInv'
<1>1. session = "none" /\ events = <<>> /\ pending = <<>> /\ ~stop /\ turn = <<>> /\ queue = <<>>
      /\ commands = <<>>
  BY DEF IInv, Life
<1>2. \A i \in 1..Len(events') : FALSE
  BY <1>1
<1>3. \A i \in 1..Len(commands') : FALSE
  BY <1>1
<1>4. Matched'
  <2>1. Replays(pending, events, ToSet(taken), NowOf(turn, queue, commands), session)
    BY DEF IInv, Matched
  <2>2. \A i \in 1..Len(events) : events[i].is # "failed"
    BY <1>1
  <2>3. Replays(pending, events, ToSet(taken), NowOf(turn, queue, commands), session')
    BY <2>1, <2>2, ReplaysCalm
  <2>. QED BY <2>3 DEF Matched, hookVars
<1>5. Life'
  BY <1>1, <1>2 DEF Life, Closing
<1>6. Stops'
  BY <1>1 DEF Stops
<1>7. Apart' /\ Hooked' /\ Named' /\ Waits'
  BY DEF IInv, Apart, Hooked, Named, Waits, hookVars
<1>8. Drops'
  BY <1>2, <1>3 DEF Drops, Cancelling
<1>. QED BY <1>4, <1>5, <1>6, <1>7, <1>8 DEF IInv

LEMMA ReconnectsKeeps == ASSUME TypeOK, IInv, Reconnects PROVE IInv'
<1>1. CASE client
  <2>1. UNCHANGED <<pending, held, card, stop, env, commands, events, turn, queue, hookVars>>
        /\ client' = client /\ session' = session
    BY <1>1 DEF Reconnects, Activated, TypeOK
  <2>. QED BY <2>1 DEF IInv, Matched, Life, Closing, Stops, Apart, Hooked, Drops, Named, Waits, hookVars
<1>2. CASE ~client
  BY <1>2, StartsKeeps DEF Reconnects, Activated
<1>. QED BY <1>1, <1>2

LEMMA EnvSettlesKeeps == ASSUME TypeOK, IInv, NoSlip, EnvSettles PROVE IInv'
<1>1. CASE Flushes(held, "up", card)
  <2>1. StillHears
    BY HearsNone DEF EnvSettles
  <2>2. held # <<>> =>
           /\ \A i \in 1..Len(commands) : commands[i].do # "cancelAll"
           /\ \A i \in 1..Len(events') : events'[i].is \notin {"dropped", "failed"}
    <3>1. Spends({} \cup Slips(held # <<>> /\ (Dropping \/ Failing)))
      BY DEF EnvSettles
    <3>2. ~(held # <<>> /\ (Dropping \/ Failing))
      BY <3>1, SlipsNot
    <3>. QED BY <3>2, Outlook DEF EnvSettles
  <2>3. held \in Seq(Message) /\ Once(held)
        /\ ToSet(held) \cap (ToSet(Messages(pending)) \cup ToSet(taken)) = {}
    BY DEF IInv, Apart, TypeOK
  <2>4. \A m \in Message : card[m] # None \/ m \in ToSet(held) => card[m] # None
    BY DEF IInv, Apart
  <2>5. turn' = turn /\ queue' = queue /\ hook' = hook /\ taken' = taken /\ env' = "up"
    BY DEF EnvSettles, hookVars
  <2>. QED BY <1>1, <2>1, <2>2, <2>3, <2>4, <2>5, FlushesKeep
<1>2. CASE /\ held = <<>> /\ ~client
           /\ client' = TRUE /\ session' = "starting"
           /\ UNCHANGED <<pending, held, card, stop, commands>>
  BY <1>2, StartsKeeps DEF EnvSettles
<1>. QED BY <1>1, <1>2 DEF EnvSettles

\* What is shown before an event is heard, and what it means.
LEMMA HearsView ==
  ASSUME TypeOK, IInv, NEW is, Hears(is)
  PROVE  \E v : /\ Shows(pending, v) /\ Proper(v) /\ Meant(v, Head(events))
                /\ is = "failed" => session = "none" \/ Len(v.ms) = 1
                /\ \A heard : Shows(heard, After(v, Head(events))) =>
                      Replays(heard, events', ToSet(taken), NowOf(turn, queue, commands), session)
<1>1. events \in Seq(Event) /\ events # <<>> /\ Head(events).is = is /\ events' = Tail(events)
  BY DEF TypeOK, Hears
<1>2. Replays(pending, events, ToSet(taken), NowOf(turn, queue, commands), session)
  BY DEF IInv, Matched
<1>. QED BY <1>1, <1>2, ReplaysHear

LEMMA HearsReadyKeeps == ASSUME TypeOK, IInv, HearsReady PROVE IInv'
<1>1. Hears("ready")
  BY DEF HearsReady
<1>2. StillHears
  <2>1. PICK v : /\ Shows(pending, v) /\ Proper(v) /\ Meant(v, Head(events))
                 /\ \A heard : Shows(heard, After(v, Head(events))) =>
                      Replays(heard, events', ToSet(taken), NowOf(turn, queue, commands), session)
    BY <1>1, HearsView
  <2>2. events # <<>> /\ events' = Tail(events) /\ Head(events).is = "ready" /\ events' \in Seq(Event)
    BY <1>1, HearsFacts DEF Hears
  <2>3. After(v, Head(events)) = v
    BY <2>2 DEF After
  <2>4. Head(events).is # "closed"
    BY <2>2
  <2>. QED BY <2>1, <2>2, <2>3, <2>4 DEF StillHears
<1>3. Flushes(held, env, card) /\ turn' = turn /\ queue' = queue /\ hook' = hook /\ taken' = taken
      /\ env' = env
  BY DEF HearsReady, hookVars
<1>4. held # <<>> /\ env = "up" /\ commands' # commands =>
         /\ \A i \in 1..Len(commands) : commands[i].do # "cancelAll"
         /\ \A i \in 1..Len(events') : events'[i].is \notin {"dropped", "failed"}
  <2>. SUFFICES ASSUME held # <<>>, env = "up", commands' # commands
                PROVE  /\ \A i \in 1..Len(commands) : commands[i].do # "cancelAll"
                       /\ \A i \in 1..Len(events') : events'[i].is \notin {"dropped", "failed"}
    OBVIOUS
  <2>1. session # "none"
    <3>1. client
      BY <1>1 DEF IInv, Life, Hears
    <3>2. Activated # "none"
      BY <1>3 DEF Flushes, HandsOver
    <3>. QED BY <3>1, <3>2 DEF Activated
  <2>2. /\ \A i \in 1..Len(commands) : commands[i].do # "cancelAll"
        /\ \A i \in 1..Len(events) : events[i].is # "dropped"
        /\ \A i \in 1..Len(events) : events[i].is # "failed"
    BY <2>1 DEF IInv, Drops
  <2>3. \A i \in 1..Len(events') : \E j \in 1..Len(events) : events'[i] = events[j]
    BY <1>2, HearingOn DEF IInv
  <2>. QED BY <2>2, <2>3
<1>5. held \in Seq(Message) /\ Once(held)
      /\ ToSet(held) \cap (ToSet(Messages(pending)) \cup ToSet(taken)) = {}
  BY DEF IInv, Apart, TypeOK
<1>6. \A m \in Message : card[m] # None \/ m \in ToSet(held) => card[m] # None
  BY DEF IInv, Apart
<1>. QED BY <1>2, <1>3, <1>4, <1>5, <1>6, FlushesKeep

LEMMA GivesBackKeeps == ASSUME TypeOK, IInv, NoSlip, GivesBack PROVE IInv'
<1>1. StillHears
  BY HearsNone DEF GivesBack
<1>2. /\ taken \in Seq(Message) /\ commands \in Seq(Command) /\ events \in Seq(Event)
      /\ held \in Seq(Message) /\ Once(taken) /\ Once(held) /\ ToSet(held) \cap ToSet(taken) = {}
      /\ ToSet(held) \cap ToSet(Messages(pending)) = {}
  BY DEF IInv, Apart, TypeOK
<1>3. taken # <<>> /\ hook = "answered" /\ hook' = "none" /\ taken' = <<>> /\ held' = held /\ stop' = stop
      /\ client' = client /\ env' = env /\ events' = events /\ turn' = turn /\ queue' = queue
      /\ session' = session
  BY DEF GivesBack, taskVars
<1>4. Asking(commands, hook')
  BY <1>3 DEF IInv, Hooked, Asking
<1>5. ToSet(taken') = {}
  BY <1>3 DEF ToSet
<1>6. None \notin {"Queued", "NotSent", "Held"}
  BY ChatAssumption DEF Waiting, Settled
<1>7. CASE client /\ session # "none"
  <2>1. /\ pending' = pending \o RowsOf(taken, TRUE)
        /\ commands' = commands \o PromptsOf(taken, TRUE)
        /\ card' = Cards(ToSet(taken), "Queued")
        /\ Spends(Slips(~stop \/ Overtakes \/ Dropping \/ Failing))
    BY <1>7 DEF GivesBack, RowsOf, PromptsOf
  <2>2. ~(~stop \/ Overtakes \/ Dropping \/ Failing)
    <3>1. Spends({} \cup Slips(~stop \/ Overtakes \/ Dropping \/ Failing))
      BY <2>1
    <3>. QED BY <3>1, SlipsNot
  <2>3. /\ \A i \in 1..Len(commands) : commands[i].do # "cancelAll"
        /\ \A i \in 1..Len(events') : events'[i].is \notin {"dropped", "failed"}
    BY <2>2, <1>3, Outlook
  <2>4. ToSet(Messages(pending)) \cap ToSet(taken) = {}
    <3>1. DOMAIN events = 1..Len(events)
      BY <1>2
    <3>2. \A i \in 1..Len(events) : events[i].is # "taken"
      BY <2>2, <3>1 DEF Overtakes
    <3>3. pending \in Seq(Row)
      BY DEF TypeOK
    <3>4. Replays(pending, events, ToSet(taken), NowOf(turn, queue, commands), session)
      BY DEF IInv, Matched
    <3>. QED BY <1>2, <3>2, <3>3, <3>4, ReplaysFacts
  <2>5. stop' = TRUE /\ client' = TRUE /\ session' = Activated /\ session' # "none"
    BY <1>3, <1>7, <2>2 DEF TypeOK, Activated
  <2>6. \A m \in Message : card[m] # None \/ m \in ToSet(taken) => card'[m] # None
    BY <2>1, <1>6 DEF Cards
  <2>. QED BY <1>1, <1>2, <1>3, <1>4, <1>5, <2>1, <2>3, <2>4, <2>5, <2>6, SendsOut
<1>8. CASE ~(client /\ session # "none")
  <2>1. /\ card' = Cards(ToSet(taken), "NotSent") /\ UNCHANGED <<pending, commands>>
    BY <1>8 DEF GivesBack
  <2>2. Orders /\ Hooked' /\ Named'
    BY <1>3, <1>4, <2>1 DEF Orders, Hooked, Named, IInv
  <2>3. \A m \in Message : card[m] # None \/ m \in ToSet(held') => card'[m] # None
    BY <1>3, <1>6, <2>1 DEF Cards, IInv, Apart
  <2>. QED BY <1>1, <1>2, <1>3, <2>1, <2>2, <2>3, StaysBack
<1>. QED BY <1>7, <1>8

LEMMA NothingMatches ==
  ASSUME NEW tk, NEW at
  PROVE  Replays(<<>>, <<>>, tk, NowOf(<<>>, <<>>, <<>>), at)
<1>. DEFINE none == NowOf(<<>>, <<>>, <<>>)
<1>1. none.ms = <<>> /\ none.k = 1 /\ Proper(none)
  BY NowNothing
<1>2. Messages(<<>>) = <<>>
  <2>1. Messages(<<>>) \in Seq(Message) /\ Len(Messages(<<>>)) = Len(<<>>)
    BY EmptyTyped, RowsFacts
  <2>. QED BY <2>1
<1>. HIDE DEF none
<1>3. Shows(<<>>, none)
  BY <1>1, <1>2 DEF Shows
<1>4. ToSet(none.ms) \cap tk = {}
  BY <1>1 DEF ToSet
<1>5. Replays(<<>>, <<>>, tk, none, at)
  BY <1>1, <1>3, <1>4, ReplaysNothing
<1>. QED BY <1>5 DEF none

LEMMA ReplacesKeeps == ASSUME TypeOK, IInv, NoSlip, Replaces PROVE IInv'
<1>1. pending = <<>>
  <2>1. Spends({"replace"} \cup Slips(pending # <<>>))
    BY DEF Replaces
  <2>. QED BY <2>1, SlipsNot
<1>2. /\ client /\ client' /\ session' = "starting" /\ pending' = <<>> /\ events' = <<>> /\ commands' = <<>>
      /\ turn' = <<>> /\ queue' = <<>> /\ stop' = FALSE /\ held' = held /\ taken' = taken /\ card' = card
      /\ hook' = (IF hook = "asked" THEN "none" ELSE hook)
  BY <1>1 DEF Replaces
<1>3. (\A i \in 1..Len(<<>>) : FALSE) /\ (\A i \in 2..Len(<<>>) : FALSE)
  OBVIOUS
<1>4. Matched'
  <2>1. Replays(<<>>, <<>>, ToSet(taken), NowOf(<<>>, <<>>, <<>>), "starting")
    BY NothingMatches
  <2>. QED BY <1>2, <2>1 DEF Matched
<1>5. Life' /\ Stops'
  BY <1>2, <1>3 DEF Life, Closing, Stops
<1>6. Apart'
  BY <1>1, <1>2 DEF IInv, Apart
<1>7. Hooked' /\ Drops' /\ Named' /\ Waits'
  BY <1>2, <1>3 DEF Hooked, Asking, Drops, Cancelling, Named, Expediting, Waits, IInv
<1>. QED BY <1>4, <1>5, <1>6, <1>7 DEF IInv

-----------------------------------------------------------------------------
(* The pane: Stop, the buttons on a card, and the hook.                    *)

LEMMA StopsAllKeeps == ASSUME TypeOK, IInv, StopsAll PROVE IInv'
<1>1. /\ held' = <<>> /\ card' = Cards(ToSet(held), "NotSent")
      /\ commands' = IF session # "none" THEN Append(commands, [do |-> "cancelAll"]) ELSE commands
      /\ UNCHANGED <<pending, stop, client, env, events, session, turn, queue, hook, taken>>
  BY DEF StopsAll, taskVars, hookVars
<1>2. StillHears
  BY <1>1, HearsNone
<1>. DEFINE c == [do |-> "cancelAll"]
<1>3. c \in Command /\ c.do = "cancelAll" /\ commands \in Seq(Command) /\ queue \in Seq(Entry)
  BY DEF Command, TypeOK
<1>. HIDE DEF c
<1>4. commands' = (IF session # "none" THEN Append(commands, c) ELSE commands)
  BY <1>1 DEF c
<1>5. Orders
  BY <1>1, <1>3, <1>4 DEF Orders
<1>6. /\ Expediting(turn, queue, commands) => Expediting(turn, queue, Append(commands, c))
      /\ Asking(commands, hook) => Asking(Append(commands, c), hook)
  BY <1>3, AddedKeeps
<1>7. Hooked' /\ Named'
  BY <1>1, <1>4, <1>6 DEF IInv, Hooked, Named
<1>8. held' \in Seq(Message) /\ Once(held') /\ ToSet(held') = {}
  BY <1>1, EmptyTyped DEF Once, ToSet
<1>9. \A m \in Message : card[m] # None \/ m \in ToSet(held') => card'[m] # None
  BY <1>1, <1>8, ChatAssumption DEF Cards, Settled
<1>. QED BY <1>1, <1>2, <1>5, <1>7, <1>8, <1>9, StaysBack

LEMMA CommandsOrder ==
  ASSUME TypeOK, IInv, NEW do \in {"withdraw", "expedite"}, NEW m \in Message, Commands(do, m), hook' = hook,
         taken' = taken
  PROVE  /\ Orders /\ Hooked'
         /\ \/ commands' = commands
            \/ \E c \in Command : c.do = do /\ commands' = Append(commands, c)
<1>. DEFINE c == [do |-> do, msg |-> m]
<1>1. c \in Command /\ c.do = do /\ commands \in Seq(Command) /\ queue \in Seq(Entry)
  BY DEF Command, TypeOK
<1>. HIDE DEF c
<1>2. commands' = commands \/ (commands' = Append(commands, c) /\ session # "none")
  BY DEF Commands, c
<1>3. c.do \notin {"prompt", "cancelAll", "take"}
  BY <1>1
<1>4. Orders
  BY <1>1, <1>2, <1>3 DEF Orders
<1>5. Asking(commands, hook) => Asking(Append(commands, c), hook)
  BY <1>1, <1>3, AddedKeeps
<1>6. Hooked'
  BY <1>2, <1>5 DEF IInv, Hooked
<1>. QED BY <1>1, <1>2, <1>4, <1>6

LEMMA WithdrawsKeeps == ASSUME TypeOK, IInv, NEW m \in Message, Withdraws(m) PROVE IInv'
<1>1. UNCHANGED <<pending, stop, client, env, events, session, turn, queue, hook, taken>>
  BY DEF Withdraws, taskVars, hookVars
<1>2. StillHears
  BY <1>1, HearsNone
<1>3. held \in Seq(Message) /\ Once(held) /\ card \in [Message -> Said]
      /\ ToSet(held) \cap (ToSet(Messages(pending)) \cup ToSet(taken)) = {}
      /\ \A n \in ToSet(held) : card[n] # None
  BY CardIsSaid DEF IInv, Apart, TypeOK
<1>4. CASE Contains(held, m) /\ held' = Less(held, m) /\ card' = Cards({m}, "NotSent") /\ UNCHANGED commands
  <2>1. held' \in Seq(Message) /\ Once(held') /\ ToSet(held') \subseteq ToSet(held)
    BY <1>3, <1>4, LessFacts
  <2>2. Orders /\ Hooked' /\ Named'
    BY <1>1, <1>4 DEF Orders, IInv, Hooked, Named
  <2>3. \A n \in Message : card[n] # None \/ n \in ToSet(held') => card'[n] # None
    BY <1>3, <1>4, <2>1, ChatAssumption DEF Cards, Settled
  <2>4. held' # <<>> => held # <<>>
    <3>1. m \in ToSet(held)
      BY <1>3, <1>4, ContainsIs
    <3>. QED BY <3>1 DEF ToSet
  <2>5. ToSet(held') \cap (ToSet(Messages(pending)) \cup ToSet(taken)) = {}
    BY <1>3, <2>1
  <2>. QED BY <1>1, <1>2, <2>1, <2>2, <2>3, <2>4, <2>5, StaysBack
<1>5. CASE Commands("withdraw", m) /\ UNCHANGED <<held, card>>
  <2>1. /\ Orders /\ Hooked'
        /\ \/ commands' = commands
           \/ \E c \in Command : c.do = "withdraw" /\ commands' = Append(commands, c)
    BY <1>1, <1>5, CommandsOrder
  <2>2. Named'
    <3>1. ASSUME NEW c \in Command, c.do = "withdraw", commands' = Append(commands, c)
          PROVE  Expediting(turn, queue, Append(commands, c))
      <4>1. commands \in Seq(Command) /\ queue \in Seq(Entry) /\ c.do # "prompt" /\ c.do # "expedite"
        BY <3>1 DEF TypeOK
      <4>2. Expediting(turn, queue, commands)
        BY DEF IInv, Named
      <4>. QED BY <4>1, <4>2, AddedKeeps
    <3>2. Expediting(turn, queue, commands)
      BY DEF IInv, Named
    <3>3. Expediting(turn, queue, commands')
      BY <2>1, <3>1, <3>2
    <3>. QED BY <1>1, <3>3 DEF Named
  <2>. QED BY <1>1, <1>2, <1>3, <1>5, <2>1, <2>2, StaysBack
<1>. QED BY <1>4, <1>5 DEF Withdraws

\* What waits behind a turn, or behind another, has its name, if all that was
\* not sent to wait went out with the turn.
LEMMA WaitingIsNamed ==
  ASSUME TypeOK, IInv, \A i \in 2..Len(pending) : pending[i].waits \/ pending[i].joined
  PROVE  /\ \A i \in 1..Len(queue) : i > 1 \/ turn # <<>> => queue[i].named
         /\ \A d \in 1..Len(commands) : commands[d].do = "prompt"
                /\ (turn # <<>> \/ queue # <<>> \/ \E e \in 1..(d - 1) : commands[e].do = "prompt")
                    => commands[d].named
<1>. DEFINE now == NowOf(turn, queue, commands)
            un == Unnamed(queue, commands)
<1>1. /\ pending \in Seq(Row) /\ turn \in Seq(Message) /\ queue \in Seq(Entry)
      /\ commands \in Seq(Command) /\ events \in Seq(Event)
  BY DEF TypeOK
<1>2. Replays(pending, events, ToSet(taken), now, session)
  BY DEF IInv, Matched
<1>3. /\ Proper(now) /\ ToSet(now.ms) \subseteq ToSet(Messages(pending))
      /\ \A i \in 1..Len(pending) :
            pending[i].joined /\ pending[i].msg \in ToSet(now.ms) => pending[i].msg \in Led(now)
      /\ \A i \in 2..Len(now.ms) : now.ms[i] # pending[1].msg
  BY <1>1, <1>2, ReplaysFacts
<1>4. /\ Len(now.ms) = Len(turn) + Len(queue) + Len(AskedOf(commands))
      /\ Len(turn) \in Nat /\ Len(queue) \in Nat /\ Len(AskedOf(commands)) \in Nat
      /\ \A i \in 1..Len(queue) : now.ms[Len(turn) + i] = queue[i].msg
      /\ \A i \in 1..Len(AskedOf(commands)) :
            now.ms[Len(turn) + Len(queue) + i] = AskedOf(commands)[i]
  BY <1>1, NowPlaces
<1>5. now.k = IF turn = <<>> THEN 1 ELSE Len(turn)
  BY <1>1, NowFacts
<1>6. now.ms \in Seq(Message) /\ \A i, j \in 1..Len(now.ms) : now.ms[i] = now.ms[j] => i = j
  <2>1. now.ms \in Seq(Message) /\ Once(now.ms)
    <3>. HIDE DEF now
    <3>. QED BY <1>3 DEF Proper, View
  <2>. HIDE DEF now
  <2>2. DOMAIN now.ms = 1..Len(now.ms)
    BY <2>1
  <2>. QED BY <2>1, <2>2 DEF Once
<1>7. \A i \in 2..Len(pending) : pending[i].waits => pending[i].msg \notin un
  BY DEF IInv, Waits
<1>8. \A m \in ToSet(Messages(pending)) : \E i \in 1..Len(pending) : pending[i].msg = m
  <2>1. /\ Messages(pending) \in Seq(Message) /\ Len(Messages(pending)) = Len(pending)
        /\ \A i \in 1..Len(pending) : Messages(pending)[i] = pending[i].msg
    <3>1. \A r \in Row : r.msg \in Message
      BY DEF Row
    <3>. QED BY <1>1, <3>1, MessagesFacts
  <2>. QED BY <2>1, ToSetIs
<1>9. \A i \in 1..Len(queue) : ~queue[i].named => queue[i].msg \in un
  <2>1. \A i \in 1..Len(queue) : queue[i].msg \in Message
    <3>1. \A i \in 1..Len(queue) : queue[i] \in Entry
      BY <1>1
    <3>. QED BY <3>1 DEF Entry
  <2>. QED BY <2>1 DEF Unnamed
<1>10. \A d \in 1..Len(commands) : commands[d].do = "prompt" /\ ~commands[d].named => commands[d].msg \in un
  <2>1. \A d \in 1..Len(commands) : commands[d] \in Command
    BY <1>1
  <2>. QED BY <2>1, CommandTypes DEF Unnamed
<1>11. \A d \in 1..Len(commands) : commands[d].do = "prompt" =>
          \E k \in 1..Len(AskedOf(commands)) :
             /\ AskedOf(commands)[k] = commands[d].msg
             /\ (\E e \in 1..(d - 1) : commands[e].do = "prompt") => k # 1
  BY <1>1, AskedAt
<1>. HIDE DEF now, un
<1>12. ASSUME NEW j \in 2..Len(now.ms), j > Len(turn) PROVE now.ms[j] \notin un
  <2>1. j \in 1..Len(now.ms) /\ now.ms[j] \in ToSet(now.ms)
    <3>1. j \in 1..Len(now.ms)
      BY <1>12, <1>4
    <3>. QED BY <3>1, <1>6, ToSetIs
  <2>2. PICK i \in 1..Len(pending) : pending[i].msg = now.ms[j]
    BY <2>1, <1>3, <1>8
  <2>3. i \in 2..Len(pending)
    <3>1. i # 1
      BY <2>2, <1>3
    <3>. QED BY <3>1
  <2>4. ~pending[i].joined
    <3>1. SUFFICES ASSUME pending[i].joined PROVE FALSE
      OBVIOUS
    <3>2. now.ms[j] \in Led(now)
      BY <3>1, <2>1, <2>2, <1>3
    <3>3. PICK x \in 2..now.k : now.ms[x] = now.ms[j]
      BY <3>2 DEF Led
    <3>4. x \in 1..Len(now.ms) /\ x # j
      BY <1>4, <1>5, <1>12
    <3>. QED BY <3>3, <3>4, <2>1, <1>6
  <2>. QED BY <2>2, <2>3, <2>4, <1>7
<1>13. ASSUME NEW i \in 1..Len(queue), i > 1 \/ turn # <<>> PROVE queue[i].named
  <2>1. turn # <<>> => Len(turn) >= 1
    BY <1>1
  <2>2. Len(turn) + i \in 2..Len(now.ms) /\ Len(turn) + i > Len(turn)
    BY <1>4, <1>13, <2>1
  <2>3. queue[i].msg \notin un
    BY <2>2, <1>4, <1>12
  <2>. QED BY <2>3, <1>9
<1>14. ASSUME NEW d \in 1..Len(commands), commands[d].do = "prompt",
              turn # <<>> \/ queue # <<>> \/ \E e \in 1..(d - 1) : commands[e].do = "prompt"
       PROVE  commands[d].named
  <2>1. (turn # <<>> => Len(turn) >= 1) /\ (queue # <<>> => Len(queue) >= 1)
    BY <1>1
  <2>2. PICK k \in 1..Len(AskedOf(commands)) :
             /\ AskedOf(commands)[k] = commands[d].msg
             /\ (\E e \in 1..(d - 1) : commands[e].do = "prompt") => k # 1
    BY <1>11, <1>14
  <2>3. Len(turn) + Len(queue) + k \in 2..Len(now.ms) /\ Len(turn) + Len(queue) + k > Len(turn)
    BY <1>4, <1>14, <2>1, <2>2
  <2>4. commands[d].msg \notin un
    BY <2>2, <2>3, <1>4, <1>12
  <2>. QED BY <2>4, <1>10, <1>14
<1>. QED BY <1>13, <1>14

LEMMA ExpeditesKeeps == ASSUME TypeOK, IInv, NoSlip, NEW m \in Message, Expedites(m) PROVE IInv'
<1>1. UNCHANGED <<pending, stop, client, env, events, session, turn, queue, hook, taken>>
  BY DEF Expedites, taskVars, hookVars
<1>2. StillHears
  BY <1>1, HearsNone
<1>3. held \in Seq(Message) /\ Once(held) /\ card \in [Message -> Said]
      /\ ToSet(held) \cap (ToSet(Messages(pending)) \cup ToSet(taken)) = {}
      /\ \A n \in ToSet(held) : card[n] # None
  BY CardIsSaid DEF IInv, Apart, TypeOK
<1>4. CASE Contains(held, m) /\ held' = <<m>> /\ card' = Cards(ToSet(held) \ {m}, "NotSent")
           /\ UNCHANGED commands
  <2>1. m \in ToSet(held) /\ held # <<>>
    <3>1. m \in ToSet(held)
      BY <1>3, <1>4, ContainsIs
    <3>. QED BY <3>1 DEF ToSet
  <2>2. held' \in Seq(Message) /\ Once(held') /\ ToSet(held') = {m}
    BY <1>4, OneOnly
  <2>3. Orders /\ Hooked' /\ Named'
    BY <1>1, <1>4 DEF Orders, IInv, Hooked, Named
  <2>4. \A n \in Message : card[n] # None \/ n \in ToSet(held') => card'[n] # None
    BY <1>3, <1>4, <2>1, <2>2, ChatAssumption DEF Cards, Settled
  <2>5. ToSet(held') \cap (ToSet(Messages(pending)) \cup ToSet(taken)) = {}
    BY <1>3, <2>1, <2>2
  <2>. QED BY <1>1, <1>2, <2>1, <2>2, <2>3, <2>4, <2>5, StaysBack
<1>5. CASE /\ Commands("expedite", m)
           /\ Spends({"act"} \cup Slips(\E i \in 2..Len(pending) :
                                            ~pending[i].waits /\ ~pending[i].joined))
           /\ UNCHANGED <<held, card>>
  <2>1. /\ Orders /\ Hooked'
        /\ \/ commands' = commands
           \/ \E c \in Command : c.do = "expedite" /\ commands' = Append(commands, c)
    BY <1>1, <1>5, CommandsOrder
  <2>2. \A i \in 2..Len(pending) : pending[i].waits \/ pending[i].joined
    <3>1. ~(\E i \in 2..Len(pending) : ~pending[i].waits /\ ~pending[i].joined)
      BY <1>5, SlipsNot
    <3>. QED BY <3>1
  <2>3. Named'
    <3>1. Expediting(turn, queue, commands)
      BY DEF IInv, Named
    <3>2. ASSUME NEW c \in Command, c.do = "expedite", commands' = Append(commands, c)
          PROVE  Expediting(turn, queue, commands')
      <4>1. commands \in Seq(Command)
        BY DEF TypeOK
      <4>2. /\ Len(commands') = Len(commands) + 1 /\ Len(commands) \in Nat
            /\ \A i \in 1..Len(commands) : commands'[i] = commands[i]
            /\ commands'[Len(commands) + 1] = c
        BY <4>1, <3>2
      <4>3. /\ \A i \in 1..Len(queue) : i > 1 \/ turn # <<>> => queue[i].named
            /\ \A d \in 1..Len(commands) : commands[d].do = "prompt"
                  /\ (turn # <<>> \/ queue # <<>> \/ \E e \in 1..(d - 1) : commands[e].do = "prompt")
                      => commands[d].named
        BY <2>2, WaitingIsNamed
      <4>4. ASSUME NEW x \in 1..Len(commands'), NEW d \in 1..x, commands'[d].do = "prompt",
                   turn # <<>> \/ queue # <<>> \/ \E e \in 1..(d - 1) : commands'[e].do = "prompt"
            PROVE  commands'[d].named
        <5>1. d # Len(commands) + 1
          BY <4>2, <4>4, <3>2
        <5>2. d \in 1..Len(commands)
          BY <4>2, <5>1
        <5>3. \A e \in 1..(d - 1) : commands'[e] = commands[e]
          BY <4>2, <5>2
        <5>. QED BY <4>2, <4>3, <4>4, <5>2, <5>3
      <4>. QED BY <4>3, <4>4 DEF Expediting
    <3>3. Expediting(turn, queue, commands')
      BY <2>1, <3>1, <3>2
    <3>. QED BY <1>1, <3>3 DEF Named
  <2>. QED BY <1>1, <1>2, <1>3, <1>5, <2>1, <2>3, StaysBack
<1>. QED BY <1>4, <1>5 DEF Expedites

LEMMA GoesFirstKeeps == ASSUME TypeOK, IInv, NEW m \in Message, GoesFirst(m) PROVE IInv'
<1>1. /\ UNCHANGED <<pending, stop, client, env, events, session, turn, queue, hook, taken, commands, card>>
      /\ held' = <<m>> \o Less(held, m) /\ Contains(held, m)
  BY DEF GoesFirst, taskVars, hookVars
<1>2. StillHears
  BY <1>1, HearsNone
<1>3. held \in Seq(Message) /\ Once(held)
      /\ ToSet(held) \cap (ToSet(Messages(pending)) \cup ToSet(taken)) = {}
      /\ \A n \in ToSet(held) : card[n] # None
  BY DEF IInv, Apart, TypeOK
<1>4. m \in ToSet(held) /\ held # <<>>
  <2>1. m \in ToSet(held)
    BY <1>1, <1>3, ContainsIs
  <2>. QED BY <2>1 DEF ToSet
<1>5. held' \in Seq(Message) /\ Once(held') /\ ToSet(held') \subseteq ToSet(held)
  <2>. DEFINE one == <<m>>
              less == Less(held, m)
  <2>1. one \in Seq(Message) /\ Once(one) /\ ToSet(one) = {m}
    BY OneOnly
  <2>2. less \in Seq(Message) /\ Once(less) /\ ToSet(less) = ToSet(held) \ {m}
    BY <1>3, LessFacts
  <2>3. held' = one \o less
    BY <1>1
  <2>. HIDE DEF one, less
  <2>4. one \o less \in Seq(Message) /\ ToSet(one \o less) = ToSet(one) \cup ToSet(less)
        /\ (Once(one \o less) <=> Once(one) /\ Once(less) /\ ToSet(one) \cap ToSet(less) = {})
    <3>1. one \in Seq(Message) /\ less \in Seq(Message)
      BY <2>1, <2>2
    <3>. QED BY <3>1, ToSetConcat, OnceConcat
  <2>. QED BY <2>1, <2>2, <2>3, <2>4, <1>4
<1>6. Orders /\ Hooked' /\ Named'
  BY <1>1 DEF Orders, IInv, Hooked, Named
<1>7. \A n \in Message : card[n] # None \/ n \in ToSet(held') => card'[n] # None
  BY <1>1, <1>3, <1>5
<1>8. ToSet(held') \cap (ToSet(Messages(pending)) \cup ToSet(taken)) = {}
  BY <1>3, <1>5
<1>. HIDE DEF StillHears
<1>. QED BY <1>1, <1>2, <1>4, <1>5, <1>6, <1>7, <1>8, StaysBack

LEMMA AsksKeeps == ASSUME TypeOK, IInv, Asks PROVE IInv'
<1>. DEFINE c == [do |-> "take"]
<1>1. /\ UNCHANGED <<pending, stop, client, env, events, session, turn, queue, taken, held, card>>
      /\ hook = "none" /\ hook' = "asked" /\ turn # <<>> /\ commands' = Append(commands, c)
  BY DEF Asks, paneVars, taskVars
<1>2. StillHears
  BY <1>1, HearsNone
<1>3. c \in Command /\ c.do = "take" /\ commands \in Seq(Command) /\ queue \in Seq(Entry)
  BY DEF Command, TypeOK
<1>. HIDE DEF c
<1>4. session # "none"
  BY <1>1 DEF IInv, Life
<1>5. Orders
  BY <1>1, <1>3, <1>4 DEF Orders
<1>6. Named'
  <2>1. Expediting(turn, queue, commands) /\ c.do # "prompt" /\ c.do # "expedite"
    BY <1>3 DEF IInv, Named
  <2>2. Expediting(turn, queue, Append(commands, c))
    BY <1>3, <2>1, AddedKeeps
  <2>. QED BY <1>1, <2>2 DEF Named
<1>7. Hooked'
  <2>1. \A i \in 1..Len(commands) : commands[i].do # "take"
    BY <1>1 DEF IInv, Hooked, Asking
  <2>2. /\ Len(commands') = Len(commands) + 1 /\ Len(commands) \in Nat
        /\ \A i \in 1..Len(commands) : commands'[i] = commands[i]
    BY <1>1, <1>3
  <2>3. \A i \in 1..Len(commands') : commands'[i].do = "take" => i = Len(commands) + 1
    BY <2>1, <2>2
  <2>4. Asking(commands', hook')
    BY <1>1, <2>3 DEF Asking
  <2>. QED BY <1>1, <2>4 DEF IInv, Hooked
<1>8. held \in Seq(Message) /\ Once(held)
      /\ ToSet(held) \cap (ToSet(Messages(pending)) \cup ToSet(taken)) = {}
      /\ \A n \in ToSet(held) : card[n] # None
  BY DEF IInv, Apart, TypeOK
<1>. QED BY <1>1, <1>2, <1>5, <1>6, <1>7, <1>8, StaysBack

LEMMA ReadsKeeps == ASSUME TypeOK, IInv, Reads PROVE IInv'
<1>1. /\ UNCHANGED <<pending, stop, client, env, events, session, turn, queue, held, card, commands>>
      /\ hook = "answered" /\ hook' = "none" /\ taken' = <<>>
  BY DEF Reads, paneVars, taskVars
<1>2. StillHears
  BY <1>1, HearsNone
<1>3. Orders /\ Named' /\ Hooked'
  BY <1>1 DEF Orders, IInv, Named, Hooked, Asking
<1>4. held \in Seq(Message) /\ Once(held)
      /\ ToSet(held) \cap (ToSet(Messages(pending)) \cup ToSet(taken)) = {}
      /\ \A n \in ToSet(held) : card[n] # None
  BY DEF IInv, Apart, TypeOK
<1>. QED BY <1>1, <1>2, <1>3, <1>4, StaysBack

-----------------------------------------------------------------------------
(* The session's task.                                                     *)

LEMMA TellsMatched ==
  ASSUME TypeOK, IInv, session # "none", NEW e \in Event, Meant(NowOf(turn, queue, commands), e),
         e.is = "failed" => Len(NowOf(turn, queue, commands).ms) = 1,
         NEW tk, tk = ToSet(taken) \/ (/\ e.is = "taken"
                                       /\ ToSet(After(NowOf(turn, queue, commands), e).ms) \cap tk = {}),
         NEW next
  PROVE  Replays(pending, Append(events, e), tk, After(NowOf(turn, queue, commands), e), next)
<1>. DEFINE now == NowOf(turn, queue, commands)
<1>1. Replays(pending, events, ToSet(taken), now, session) /\ events \in Seq(Event)
  BY DEF IInv, Matched, TypeOK
<1>. HIDE DEF now
<1>2. Meant(now, e) /\ (e.is = "failed" => session = "none" \/ Len(now.ms) = 1)
      /\ (tk = ToSet(taken) \/ (e.is = "taken" /\ ToSet(After(now, e).ms) \cap tk = {}))
  BY DEF now
<1>3. Replays(pending, Append(events, e), tk, After(now, e), session)
  BY <1>1, <1>2, ReplaysTell
<1>4. Replays(pending, Append(events, e), tk, After(now, e), next)
  BY <1>3, ReplaysStill
<1>. QED BY <1>4 DEF now

\* Nothing is told, or one thing.
Announced(e) ==
    /\ events' = Append(events, e) /\ e.is # "closed"
    /\ e.is = "failed" => held = <<>>
    /\ e.is = "dropped" => /\ ~(env = "up" /\ held # <<>>)
                           /\ \A i \in 1..Len(commands') : commands'[i].do # "prompt"

Announces == events' = events \/ \E e \in Event : Announced(e)

LEMMA ToldOn ==
  ASSUME NEW es \in Seq(Event), NEW e \in Event, NEW is
  PROVE  (\A i \in 1..Len(Append(es, e)) : Append(es, e)[i].is # is)
            <=> e.is # is /\ \A i \in 1..Len(es) : es[i].is # is
<1>. DEFINE told == Append(es, e)
<1>1. /\ Len(told) = Len(es) + 1 /\ Len(es) \in Nat /\ told[Len(es) + 1] = e
      /\ \A i \in 1..Len(es) : told[i] = es[i]
  OBVIOUS
<1>. HIDE DEF told
<1>2. ASSUME e.is # is, \A i \in 1..Len(es) : es[i].is # is, NEW i \in 1..Len(told) PROVE told[i].is # is
  <2>1. i \in 1..Len(es) \/ i = Len(es) + 1
    BY <1>1
  <2>. QED BY <2>1, <1>1, <1>2
<1>3. ASSUME \A i \in 1..Len(told) : told[i].is # is
      PROVE  e.is # is /\ \A i \in 1..Len(es) : es[i].is # is
  <2>1. Len(es) + 1 \in 1..Len(told) /\ \A i \in 1..Len(es) : i \in 1..Len(told)
    BY <1>1
  <2>. QED BY <2>1, <1>1, <1>3
<1>. QED BY <1>2, <1>3 DEF told

\* The pane is left alone, and its commands are taken.
LEMMA TaskKeeps ==
  ASSUME TypeOK, IInv, UNCHANGED <<paneVars, env>>, session # "none", session' # "none",
         session' # "serving" => turn' = <<>> /\ queue' = <<>>,
         Announces, Matched', Hooked', Named', Cancelling(commands'),
         \A i \in 1..Len(commands') : \E j \in 1..Len(commands) : commands'[i] = commands[j],
         Unnamed(queue', commands') \subseteq Unnamed(queue, commands),
         Once(taken'), taken' = taken \/ ToSet(taken') \subseteq ToSet(Messages(pending))
  PROVE  IInv'
<1>1. events \in Seq(Event)
  BY DEF TypeOK
<1>2. client /\ ~Closing
  BY DEF IInv, Life
<1>3. /\ \A i \in 1..Len(events') : events'[i].is # "closed"
      /\ env = "up" /\ held # <<>> /\ (\A i \in 1..Len(events) : events[i].is # "dropped")
            => \A i \in 1..Len(events') : events'[i].is # "dropped"
      /\ env = "up" /\ held # <<>> /\ (\A i \in 1..Len(events) : events[i].is # "failed")
            => \A i \in 1..Len(events') : events'[i].is # "failed"
      /\ (\E i \in 1..Len(events') : events'[i].is = "dropped") =>
            \A i \in 1..Len(commands') : commands'[i].do # "prompt"
  <2>1. (\E i \in 1..Len(events) : events[i].is = "dropped") =>
            \A i \in 1..Len(commands') : commands'[i].do # "prompt"
    BY DEF IInv, Drops
  <2>2. CASE events' = events
    BY <2>1, <2>2, <1>2 DEF Closing
  <2>3. CASE \E e \in Event : Announced(e)
    <3>0. PICK e \in Event : Announced(e)
      BY <2>3
    <3>1. /\ events' = Append(events, e) /\ e.is # "closed"
          /\ e.is = "failed" => held = <<>>
          /\ e.is = "dropped" => /\ ~(env = "up" /\ held # <<>>)
                                 /\ \A i \in 1..Len(commands') : commands'[i].do # "prompt"
      BY <3>0 DEF Announced
    <3>2. \A i \in 1..Len(events) : events[i].is # "closed"
      BY <1>2 DEF Closing
    <3>. DEFINE told == Append(events, e)
                Never(es, is) == \A i \in 1..Len(es) : es[i].is # is
    <3>3. \A is : Never(told, is) <=> e.is # is /\ Never(events, is)
      BY <1>1, ToldOn
    <3>4. events' = told
      BY <3>1
    <3>. HIDE DEF told
    <3>5. Never(events, "closed") /\ Never(told, "closed")
      BY <3>1, <3>2, <3>3
    <3>6. Never(events, "dropped") \/ \A i \in 1..Len(commands') : commands'[i].do # "prompt"
      BY <2>1
    <3>. HIDE DEF Never
    <3>7. env = "up" /\ held # <<>> /\ Never(events, "dropped") => Never(told, "dropped")
      BY <3>1, <3>3
    <3>8. env = "up" /\ held # <<>> /\ Never(events, "failed") => Never(told, "failed")
      BY <3>1, <3>3
    <3>9. Never(told, "dropped") \/ \A i \in 1..Len(commands') : commands'[i].do # "prompt"
      BY <3>1, <3>3, <3>6
    <3>. QED BY <3>4, <3>5, <3>7, <3>8, <3>9 DEF Never
  <2>. QED BY <2>2, <2>3 DEF Announces
<1>4. Life'
  BY <1>2, <1>3 DEF IInv, Life, Closing, paneVars
<1>5. Stops'
  BY DEF IInv, Stops, paneVars
<1>6. Apart'
  <2>1. /\ ToSet(Messages(pending)) \cap ToSet(held) = {}
        /\ ToSet(taken') \cap ToSet(held) = {}
    BY DEF IInv, Apart
  <2>2. \A m \in ToSet(Messages(pending)) \cup ToSet(held) \cup ToSet(taken') : card[m] # None
    BY DEF IInv, Apart
  <2>. QED BY <2>1, <2>2 DEF IInv, Apart, paneVars
<1>7. Drops'
  <2>1. env = "up" /\ held # <<>> =>
          /\ \A i \in 1..Len(commands) : commands[i].do # "cancelAll"
          /\ \A i \in 1..Len(events) : events[i].is # "dropped"
          /\ \A i \in 1..Len(events) : events[i].is # "failed"
    BY DEF IInv, Drops
  <2>2. env' = env /\ held' = held
    BY DEF paneVars
  <2>3. env = "up" /\ held # <<>> => \A i \in 1..Len(commands') : commands'[i].do # "cancelAll"
    BY <2>1
  <2>. QED BY <1>3, <2>1, <2>2, <2>3 DEF Drops
<1>8. Waits'
  BY DEF IInv, Waits, paneVars
<1>. QED BY <1>4, <1>5, <1>6, <1>7, <1>8 DEF IInv

LEMMA Prepared ==
  ASSUME TypeOK, IInv
  PROVE  /\ turn \in Seq(Message) /\ queue \in Seq(Entry) /\ commands \in Seq(Command)
         /\ events \in Seq(Event) /\ taken \in Seq(Message)
         /\ Expediting(turn, queue, commands) /\ Cancelling(commands) /\ Asking(commands, hook)
         /\ hook # "answered" => taken = <<>>
         /\ Once(taken) /\ Once(NowOf(turn, queue, commands).ms)
         /\ Replays(pending, events, ToSet(taken), NowOf(turn, queue, commands), session)
         /\ turn # <<>> => session = "serving"
<1>1. Proper(NowOf(turn, queue, commands))
  BY InvFacts
<1>. QED BY <1>1 DEF TypeOK, IInv, Matched, Named, Drops, Hooked, Apart, Life, Proper

LEMMA ReadiesKeeps == ASSUME TypeOK, IInv, Readies PROVE IInv'
<1>. DEFINE now == NowOf(turn, queue, commands)
            e == Tells("ready")
<1>1. /\ UNCHANGED <<paneVars, env>> /\ session = "starting" /\ session' = "serving" /\ events' = Append(events, e)
      /\ UNCHANGED <<commands, turn, queue, hook, taken>>
  BY DEF Readies, hookVars
<1>2. e \in Event /\ e.is = "ready"
  BY TellsType DEF Tells
<1>. HIDE DEF e
<1>3. Meant(now, e) /\ After(now, e) = now
  BY <1>2 DEF Meant, After
<1>4. Replays(pending, Append(events, e), ToSet(taken), now, "serving")
  <2>1. Replays(pending, Append(events, e), ToSet(taken), After(now, e), "serving")
    BY <1>1, <1>2, <1>3, TellsMatched
  <2>. HIDE DEF now
  <2>. QED BY <2>1, <1>3
<1>5. Matched'
  BY <1>1, <1>4 DEF Matched, paneVars
<1>6. Announces
  BY <1>1, <1>2 DEF Announces, Announced
<1>7. Hooked' /\ Named' /\ Cancelling(commands') /\ Once(taken')
  BY <1>1, Prepared DEF Hooked, Named
<1>. QED BY <1>1, <1>5, <1>6, <1>7, TaskKeeps

LEMMA TurnEndsKeeps == ASSUME TypeOK, IInv, TurnEnds PROVE IInv'
<1>. DEFINE now == NowOf(turn, queue, commands)
            e == Tells("ended")
<1>1. /\ UNCHANGED <<paneVars, env>> /\ turn # <<>> /\ turn' = <<>> /\ events' = Append(events, e)
      /\ UNCHANGED <<commands, session, queue, hook, taken>>
  BY DEF TurnEnds
<1>2. e \in Event /\ e.is = "ended"
  BY TellsType DEF Tells
<1>. HIDE DEF e
<1>3. Meant(now, e) /\ After(now, e) = NowOf(<<>>, queue, commands)
  BY <1>1, <1>2, NowEnded, Prepared
<1>4. Replays(pending, Append(events, e), ToSet(taken), NowOf(<<>>, queue, commands), session)
  <2>1. session # "none"
    BY <1>1, Prepared
  <2>2. Replays(pending, Append(events, e), ToSet(taken), After(now, e), session)
    BY <1>2, <1>3, <2>1, TellsMatched
  <2>. HIDE DEF now
  <2>. QED BY <2>2, <1>3
<1>5. Matched'
  BY <1>1, <1>4 DEF Matched, paneVars
<1>6. Announces
  BY <1>1, <1>2 DEF Announces, Announced
<1>7. Hooked' /\ Named' /\ Cancelling(commands') /\ Once(taken')
  BY <1>1, Prepared, ExpeditingRests DEF Hooked, Named
<1>8. session = "serving"
  BY <1>1, Prepared
<1>. QED BY <1>1, <1>5, <1>6, <1>7, <1>8, TaskKeeps

LEMMA TurnFailsKeeps == ASSUME TypeOK, IInv, NoSlip, TurnFails PROVE IInv'
<1>. DEFINE now == NowOf(turn, queue, commands)
            e == Tells("failed")
<1>1. /\ UNCHANGED <<paneVars, env>> /\ turn # <<>> /\ turn' = <<>> /\ events' = Append(events, e)
      /\ UNCHANGED <<commands, session, queue, hook, taken>>
  BY DEF TurnFails
<1>2. e \in Event /\ e.is = "failed"
  BY TellsType DEF Tells
<1>. HIDE DEF e
<1>3. Meant(now, e) /\ After(now, e) = NowOf(<<>>, queue, commands)
  BY <1>1, <1>2, NowEnded, Prepared
<1>4. Len(pending) <= 1 /\ held = <<>>
  <2>1. ~(Len(pending) > 1 \/ held # <<>>)
    BY SlipsNot DEF TurnFails
  <2>2. pending \in Seq(Row)
    BY DEF TypeOK
  <2>. QED BY <2>1, <2>2
<1>5. Len(now.ms) = 1
  <2>1. Len(now.ms) <= Len(pending) /\ pending \in Seq(Row)
    BY InvFacts DEF TypeOK
  <2>2. Len(now.ms) = Len(turn) + Len(queue) + Len(AskedOf(commands))
        /\ Len(turn) \in Nat /\ Len(queue) \in Nat /\ Len(AskedOf(commands)) \in Nat
    BY Prepared, NowPlaces
  <2>3. Len(turn) # 0
    BY <1>1, Prepared
  <2>. HIDE DEF now
  <2>. QED BY <2>1, <2>2, <2>3, <1>4
<1>6. Replays(pending, Append(events, e), ToSet(taken), NowOf(<<>>, queue, commands), session)
  <2>1. session # "none"
    BY <1>1, Prepared
  <2>2. Replays(pending, Append(events, e), ToSet(taken), After(now, e), session)
    BY <1>2, <1>3, <1>5, <2>1, TellsMatched
  <2>. HIDE DEF now
  <2>. QED BY <2>2, <1>3
<1>7. Matched'
  BY <1>1, <1>6 DEF Matched, paneVars
<1>8. Announces
  BY <1>1, <1>2, <1>4 DEF Announces, Announced
<1>9. Hooked' /\ Named' /\ Cancelling(commands') /\ Once(taken')
  BY <1>1, Prepared, ExpeditingRests DEF Hooked, Named
<1>10. session = "serving"
  BY <1>1, Prepared
<1>. QED BY <1>1, <1>7, <1>8, <1>9, <1>10, TaskKeeps

LEMMA ReceivesKeeps == ASSUME TypeOK, IInv, Receives PROVE IInv'
<1>1. /\ UNCHANGED <<paneVars, env>> /\ session = "serving" /\ session' = session /\ turn = <<>> /\ queue = <<>>
      /\ commands # <<>> /\ commands' = Tail(commands) /\ UNCHANGED <<events, queue, taken>>
      /\ hook' = (IF Head(commands).do = "take" THEN "answered" ELSE hook)
  BY DEF Receives
<1>2. Announces
  BY <1>1 DEF Announces
<1>3. commands \in Seq(Command) /\ queue \in Seq(Entry) /\ taken \in Seq(Message)
      /\ Expediting(turn, queue, commands) /\ Cancelling(commands) /\ Asking(commands, hook)
      /\ (hook # "answered" => taken = <<>>) /\ Once(taken)
      /\ Replays(pending, events, ToSet(taken), NowOf(turn, queue, commands), session)
  BY Prepared
<1>4. /\ Cancelling(Tail(commands)) /\ Asking(Tail(commands), hook)
      /\ Head(commands).do = "take" => \A i \in 1..Len(Tail(commands)) : Tail(commands)[i].do # "take"
      /\ Unnamed(queue, Tail(commands)) \subseteq Unnamed(queue, commands)
  BY <1>1, <1>3, PassedKeeps
<1>5. \A i \in 1..Len(Tail(commands)) : \E j \in 1..Len(commands) : Tail(commands)[i] = commands[j]
  BY <1>1, <1>3, TailAt
<1>6. Hooked'
  BY <1>1, <1>3, <1>4 DEF Hooked, Asking
<1>7. CASE Head(commands).do = "prompt"
  <2>1. turn' = <<Head(commands).msg>>
    BY <1>7 DEF Receives, Begins
  <2>2. NowOf(turn', <<>>, Tail(commands)) = NowOf(<<>>, <<>>, commands)
    BY <1>1, <1>3, <1>7, <2>1, NowBegun
  <2>3. Matched'
    BY <1>1, <1>3, <2>2 DEF Matched, paneVars
  <2>4. Expediting(turn', <<>>, Tail(commands))
    BY <1>1, <1>3, <1>7, ExpeditingPassed
  <2>5. Named'
    BY <1>1, <2>4 DEF Named
  <2>. QED BY <1>1, <1>2, <1>3, <1>4, <1>5, <1>6, <2>3, <2>5, TaskKeeps
<1>8. CASE Head(commands).do # "prompt"
  <2>1. turn' = turn
    BY <1>8 DEF Receives
  <2>2. NowOf(turn, queue, Tail(commands)) = NowOf(turn, queue, commands)
    BY <1>1, <1>3, <1>8, NowPassed
  <2>3. Matched'
    BY <1>1, <1>3, <2>1, <2>2 DEF Matched, paneVars
  <2>4. Expediting(turn, queue, Tail(commands))
    BY <1>1, <1>3, <1>8, ExpeditingPassed
  <2>5. Named'
    BY <1>1, <2>1, <2>4 DEF Named
  <2>. QED BY <1>1, <1>2, <1>3, <1>4, <1>5, <1>6, <2>3, <2>5, TaskKeeps
<1>. QED BY <1>7, <1>8

LEMMA TakesNextIs ==
  ASSUME TypeOK, IInv, TakesNext
  PROVE  /\ session = "serving" /\ turn = <<>> /\ queue # <<>>
         /\ UNCHANGED <<paneVars, env, commands, session, hook, taken>>
         /\ got' = got \o turn'
         /\ turn' \in Seq(Message) /\ turn' # <<>> /\ queue' \in Seq(Entry)
         /\ Messages(queue) = turn' \o Messages(queue')
         /\ \A i \in 1..Len(queue') : \E j \in 2..Len(queue) : queue'[i] = queue[j]
         /\ \E joined \in Seq(Message) : Len(turn') = Len(joined) + 1 /\ events' = ToldOf("joined", joined)
<1>. DEFINE joined == IF Head(queue).named THEN Joined(Tail(queue)) ELSE <<>>
            n == Len(joined)
<1>1. /\ session = "serving" /\ turn = <<>> /\ queue # <<>>
      /\ turn' = <<Head(queue).msg>> \o joined /\ got' = got \o turn'
      /\ queue' = SubSeq(queue, n + 2, Len(queue))
      /\ events' = ToldOf("joined", joined)
      /\ UNCHANGED <<paneVars, env, commands, session, hook, taken>>
  BY DEF TakesNext, Begins, hookVars
<1>2. /\ turn \in Seq(Message) /\ queue \in Seq(Entry) /\ commands \in Seq(Command)
      /\ events \in Seq(Event) /\ taken \in Seq(Message)
      /\ Expediting(turn, queue, commands) /\ Cancelling(commands) /\ Asking(commands, hook)
      /\ hook # "answered" => taken = <<>>
      /\ Once(taken)
      /\ Replays(pending, events, ToSet(taken), NowOf(turn, queue, commands), session)
  BY Prepared
<1>3. Tail(queue) \in Seq(Entry) /\ Len(Tail(queue)) = Len(queue) - 1 /\ Len(queue) \in Nat
      /\ Head(queue) \in Entry /\ Len(queue) >= 1
  BY <1>1, <1>2
<1>4. /\ joined \in Seq(Message) /\ n \in 0..(Len(queue) - 1)
      /\ joined = Messages(SubSeq(Tail(queue), 1, n))
  <2>1. CASE Head(queue).named
    <3>. DEFINE q == Tail(queue)
                places == {i \in DOMAIN q : q[i].named}
    <3>1. places \subseteq DOMAIN q /\ q \in Seq(Entry)
      BY <1>3
    <3>2. joined = Messages(SubSeq(q, 1, Leading(places)))
      BY <2>1 DEF Joined
    <3>. HIDE DEF places
    <3>3. /\ Leading(places) \in 0..Len(q)
          /\ Messages(SubSeq(q, 1, Leading(places))) \in Seq(Message)
          /\ Len(Messages(SubSeq(q, 1, Leading(places)))) = Leading(places)
      BY <3>1, FrontType
    <3>. QED BY <3>2, <3>3, <1>3
  <2>2. CASE ~Head(queue).named
    <3>1. joined = <<>>
      BY <2>2
    <3>. HIDE DEF joined
    <3>2. n = 0 /\ joined \in Seq(Message)
      BY <3>1, EmptyTyped
    <3>3. 0 \in 0..Len(Tail(queue))
      BY <1>3
    <3>4. SubSeq(Tail(queue), 1, 0) \in Seq(Entry) /\ Len(SubSeq(Tail(queue), 1, 0)) = 0
      BY <1>3, <3>3, SplitAt
    <3>5. Messages(SubSeq(Tail(queue), 1, 0)) \in Seq(Message) /\ Len(Messages(SubSeq(Tail(queue), 1, 0))) = 0
      BY <3>4, EntriesFacts
    <3>6. Messages(SubSeq(Tail(queue), 1, 0)) = <<>>
      BY <3>5
    <3>. QED BY <3>1, <3>2, <3>6, <1>3
  <2>. QED BY <2>1, <2>2
<1>. HIDE DEF joined
<1>5. /\ Messages(queue) = turn' \o Messages(queue')
      /\ queue' \in Seq(Entry)
      /\ \A i \in 1..Len(queue') : \E j \in 2..Len(queue) : queue'[i] = queue[j]
  <2>1. /\ Messages(queue) = (<<Head(queue).msg>> \o Messages(SubSeq(Tail(queue), 1, n)))
                             \o Messages(SubSeq(queue, n + 2, Len(queue)))
         /\ SubSeq(queue, n + 2, Len(queue)) \in Seq(Entry)
         /\ \A i \in 1..Len(SubSeq(queue, n + 2, Len(queue))) :
               \E j \in 2..Len(queue) : SubSeq(queue, n + 2, Len(queue))[i] = queue[j]
    BY <1>1, <1>2, <1>4, NextMessages
  <2>. QED BY <2>1, <1>1, <1>4
<1>6. turn' \in Seq(Message) /\ Len(turn') = n + 1 /\ turn' # <<>>
  <2>. DEFINE one == <<Head(queue).msg>>
  <2>1. one \in Seq(Message) /\ Len(one) = 1
    BY <1>3 DEF Entry
  <2>2. turn' = one \o joined
    BY <1>1
  <2>. HIDE DEF one
  <2>3. one \o joined \in Seq(Message) /\ Len(one \o joined) = Len(one) + Len(joined) /\ Len(joined) \in Nat
    <3>1. one \in Seq(Message) /\ joined \in Seq(Message)
      BY <2>1, <1>4
    <3>. QED BY <3>1
  <2>4. Len(turn') # 0
    BY <2>1, <2>2, <2>3
  <2>. QED BY <2>1, <2>2, <2>3, <2>4
<1>. QED BY <1>1, <1>4, <1>5, <1>6

LEMMA TakesNextKeeps == ASSUME TypeOK, IInv, TakesNext PROVE IInv'
<1>. DEFINE now == NowOf(turn, queue, commands)
<1>1. /\ session = "serving" /\ turn = <<>> /\ queue # <<>>
      /\ UNCHANGED <<paneVars, env, commands, session, hook, taken>>
      /\ turn' \in Seq(Message) /\ turn' # <<>> /\ queue' \in Seq(Entry)
      /\ Messages(queue) = turn' \o Messages(queue')
      /\ \A i \in 1..Len(queue') : \E j \in 2..Len(queue) : queue'[i] = queue[j]
  BY TakesNextIs
<1>2. /\ turn \in Seq(Message) /\ queue \in Seq(Entry) /\ commands \in Seq(Command)
      /\ events \in Seq(Event) /\ taken \in Seq(Message)
      /\ Expediting(turn, queue, commands) /\ Cancelling(commands) /\ Asking(commands, hook)
      /\ hook # "answered" => taken = <<>>
      /\ Once(taken)
      /\ Replays(pending, events, ToSet(taken), NowOf(turn, queue, commands), session)
  BY Prepared
<1>3. PICK joined \in Seq(Message) : Len(turn') = Len(joined) + 1 /\ events' = ToldOf("joined", joined)
  BY TakesNextIs
<1>. DEFINE e == TellsOf("joined", joined)
<1>4. Matched' /\ Announces
  <2>1. /\ Len(turn') = 1 => NowOf(turn', queue', commands) = NowOf(<<>>, queue, commands)
        /\ \A x : x.is = "joined" /\ Len(x.of) + 1 = Len(turn') =>
               Meant(NowOf(<<>>, queue, commands), x)
               /\ After(NowOf(<<>>, queue, commands), x) = NowOf(turn', queue', commands)
    BY <1>1, <1>2, NowJoined
  <2>2. CASE joined = <<>>
    <3>1. events' = events /\ Len(turn') = 1
      <4>1. Len(<<>>) = 0
        OBVIOUS
      <4>. QED BY <1>3, <2>2, <4>1 DEF ToldOf
    <3>2. NowOf(turn', queue', commands) = NowOf(turn, queue, commands)
      BY <1>1, <2>1, <3>1
    <3>. QED BY <1>1, <1>2, <3>1, <3>2 DEF Matched, Announces, paneVars
  <2>3. CASE joined # <<>>
    <3>1. e.is = "joined" /\ e.of = joined /\ e \in Event
      BY <2>3 DEF TellsOf, Event
    <3>2. events' = Append(events, e)
      BY <1>3, <2>3 DEF ToldOf
    <3>3. Meant(now, e) /\ After(now, e) = NowOf(turn', queue', commands)
      BY <1>1, <1>3, <2>1, <3>1
    <3>. HIDE DEF e
    <3>4. Replays(pending, Append(events, e), ToSet(taken), After(now, e), session)
      <4>1. session # "none" /\ e.is # "failed"
        BY <1>1, <3>1
      <4>. QED BY <3>1, <3>3, <4>1, TellsMatched
    <3>5. Replays(pending, Append(events, e), ToSet(taken), NowOf(turn', queue', commands), session)
      <4>. HIDE DEF now
      <4>. QED BY <3>3, <3>4
    <3>6. Announced(e)
      BY <3>1, <3>2 DEF Announced
    <3>. QED BY <1>1, <3>1, <3>2, <3>5, <3>6 DEF Matched, Announces, paneVars
  <2>. QED BY <2>2, <2>3
<1>5. Hooked' /\ Cancelling(commands') /\ Once(taken')
  BY <1>1, <1>2 DEF Hooked
<1>6. Named'
  <2>1. \A i \in 1..Len(queue') : \E j \in 1..Len(queue) : queue'[i] = queue[j] /\ (j > 1 \/ turn # <<>>)
    BY <1>1
  <2>2. turn # <<>> \/ queue # <<>>
    BY <1>1
  <2>. DEFINE left == queue'
  <2>3. \A i \in 1..Len(left) : \E j \in 1..Len(queue) : left[i] = queue[j] /\ (j > 1 \/ turn # <<>>)
    BY <2>1
  <2>. HIDE DEF left
  <2>4. \A u : Expediting(u, left, commands)
    BY <1>2, <2>2, <2>3, ExpeditingShrinks
  <2>5. Expediting(turn', left, commands)
    BY <2>4
  <2>. QED BY <1>1, <2>5 DEF Named, left
<1>7. Unnamed(queue', commands') \subseteq Unnamed(queue, commands)
  <2>1. \A i \in 1..Len(queue') : \E j \in 1..Len(queue) : queue'[i] = queue[j]
    BY <1>1
  <2>2. Unnamed(queue', commands) \subseteq Unnamed(queue, commands)
    BY <1>2, <2>1, UnnamedShrinks
  <2>. QED BY <1>1, <2>2
<1>8. session # "none" /\ session' # "none" /\ session' = "serving"
       /\ \A i \in 1..Len(commands') : \E j \in 1..Len(commands) : commands'[i] = commands[j]
  BY <1>1
<1>9. UNCHANGED <<paneVars, env>> /\ taken' = taken
  BY <1>1
<1>. QED BY <1>4, <1>5, <1>6, <1>7, <1>8, <1>9, TaskKeeps

\* During a turn, something but a prompt is served: some of the queue goes.
LEMMA QueueGoes ==
  ASSUME TypeOK, IInv, UNCHANGED <<paneVars, env, session, turn>>, turn # <<>>,
         commands # <<>>, commands' = Tail(commands), Head(commands).do # "prompt",
         \A i \in 1..Len(queue') : \E j \in 1..Len(queue) : queue'[i] = queue[j],
         Asking(Tail(commands), hook'), hook' # "answered" => taken' = <<>>,
         Once(taken'), taken' = taken \/ ToSet(taken') \subseteq ToSet(Messages(pending)),
         Announces, Replays(pending, events', ToSet(taken'), NowOf(turn, queue', commands), session)
  PROVE  IInv'
<1>1. /\ turn \in Seq(Message) /\ queue \in Seq(Entry) /\ commands \in Seq(Command)
      /\ Expediting(turn, queue, commands) /\ Cancelling(commands)
      /\ session = "serving"
  BY Prepared
<1>2. Cancelling(Tail(commands)) /\ Unnamed(queue, Tail(commands)) \subseteq Unnamed(queue, commands)
  BY <1>1, PassedKeeps
<1>3. \A i \in 1..Len(Tail(commands)) : \E j \in 1..Len(commands) : Tail(commands)[i] = commands[j]
  BY <1>1, TailAt
<1>4. NowOf(turn, queue', Tail(commands)) = NowOf(turn, queue', commands)
  BY <1>1, NowPassed
<1>5. Matched'
  BY <1>4 DEF Matched, paneVars
<1>6. Named'
  <2>1. Expediting(turn, queue, Tail(commands))
    BY <1>1, ExpeditingPassed
  <2>2. Expediting(turn, queue', Tail(commands))
    BY <1>1, <2>1, ExpeditingShrinks
  <2>. QED BY <2>2 DEF Named
<1>7. Unnamed(queue', commands') \subseteq Unnamed(queue, commands)
  <2>1. Unnamed(queue', Tail(commands)) \subseteq Unnamed(queue, Tail(commands))
    BY <1>1, UnnamedShrinks
  <2>. QED BY <1>2, <2>1
<1>8. Hooked'
  BY DEF Hooked
<1>9. UNCHANGED <<paneVars, env>> /\ session # "none" /\ session' = "serving" /\ session' # "none"
  BY <1>1
<1>. QED BY <1>2, <1>3, <1>5, <1>6, <1>7, <1>8, <1>9, TaskKeeps

\* What stands at some places stood at one of them.
LEMMA AtFrom ==
  ASSUME NEW S, NEW rows \in Seq(S), NEW places, places \subseteq DOMAIN rows
  PROVE  \A k \in 1..Len(At(rows, places)) :
            \E i \in 1..Len(rows) : i \in places /\ At(rows, places)[k] = rows[i]
<1>1. places \subseteq 1..Len(rows) /\ Len(rows) \in Nat
  OBVIOUS
<1>2. /\ Len(At(rows, places)) = Cardinality(places)
      /\ \A k \in 1..Cardinality(places) : At(rows, places)[k] = rows[Nth(places, k)]
  BY AtFacts, SMTT(60)
<1>3. \A k \in 1..Cardinality(places) : Nth(places, k) \in places
  BY <1>1, NthFacts
<1>. QED BY <1>1, <1>2, <1>3

LEMMA QueuesPromptKeeps ==
  ASSUME TypeOK, IInv, UNCHANGED <<paneVars, env, session, turn, events, hookVars>>,
         turn # <<>>, commands # <<>>, commands' = Tail(commands), Head(commands).do = "prompt",
         queue' = Append(queue, [msg |-> Head(commands).msg, named |-> Head(commands).named])
  PROVE  IInv'
<1>. DEFINE entry == [msg |-> Head(commands).msg, named |-> Head(commands).named]
<1>1. /\ turn \in Seq(Message) /\ queue \in Seq(Entry) /\ commands \in Seq(Command)
      /\ taken \in Seq(Message)
      /\ Expediting(turn, queue, commands) /\ Cancelling(commands) /\ Asking(commands, hook)
      /\ hook # "answered" => taken = <<>>
      /\ Once(taken)
      /\ Replays(pending, events, ToSet(taken), NowOf(turn, queue, commands), session)
      /\ session = "serving"
  BY Prepared
<1>2. /\ Cancelling(Tail(commands)) /\ Asking(Tail(commands), hook)
      /\ \A i \in 1..Len(Tail(commands)) : \E j \in 1..Len(commands) : Tail(commands)[i] = commands[j]
  <2>1. Cancelling(Tail(commands)) /\ Asking(Tail(commands), hook)
    BY <1>1, PassedKeeps
  <2>. QED BY <1>1, <2>1, TailAt
<1>3. entry \in Entry /\ entry.msg = Head(commands).msg /\ entry.named = Head(commands).named
  <2>1. Head(commands) \in Command
    BY <1>1
  <2>. QED BY <2>1, CommandTypes DEF Entry
<1>4. queue' = Append(queue, entry) /\ hook' = hook /\ taken' = taken /\ events' = events
  BY DEF hookVars
<1>. HIDE DEF entry
<1>5. NowOf(turn, Append(queue, entry), Tail(commands)) = NowOf(turn, queue, commands)
  BY <1>1, <1>3, NowQueued
<1>6. Matched'
  BY <1>1, <1>4, <1>5 DEF Matched, paneVars
<1>7. Named'
  <2>1. Expediting(turn, Append(queue, entry), Tail(commands))
    BY <1>1, <1>3, ExpeditingPassed
  <2>. QED BY <1>4, <2>1 DEF Named
<1>8. Unnamed(queue', commands') \subseteq Unnamed(queue, commands)
  BY <1>1, <1>3, <1>4, UnnamedQueued
<1>9. Hooked' /\ Announces /\ Once(taken') /\ Cancelling(commands')
  BY <1>1, <1>2, <1>4 DEF Hooked, Announces
<1>10. UNCHANGED <<paneVars, env>> /\ session # "none" /\ session' # "none" /\ session' = "serving"
       /\ taken' = taken
  BY <1>1, <1>4
<1>. QED BY <1>2, <1>6, <1>7, <1>8, <1>9, <1>10, TaskKeeps

\* What a served command tells, if it tells, when the queue goes with it.
LEMMA ServedTells ==
  ASSUME TypeOK, IInv, turn # <<>>, NEW left \in Seq(Entry), NEW of \in Seq(Message),
         NEW is \in {"withdrawn", "taken", "dropped"},
         events' = ToldOf(is, of), commands' = Tail(commands), commands # <<>>,
         NEW tk, tk = ToSet(taken) \/ (is = "taken" /\ ToSet(NowOf(turn, left, commands).ms) \cap tk = {}),
         of = <<>> => left = queue /\ tk \subseteq ToSet(taken),
         of # <<>> =>
            /\ Meant(NowOf(turn, queue, commands), TellsOf(is, of))
            /\ After(NowOf(turn, queue, commands), TellsOf(is, of)) = NowOf(turn, left, commands),
         is = "dropped" => /\ ~(env = "up" /\ held # <<>>)
                           /\ \A i \in 1..Len(commands') : commands'[i].do # "prompt"
  PROVE  Announces /\ Replays(pending, events', tk, NowOf(turn, left, commands), session)
<1>. DEFINE e == TellsOf(is, of)
            now == NowOf(turn, queue, commands)
<1>1. /\ Replays(pending, events, ToSet(taken), NowOf(turn, queue, commands), session)
      /\ session = "serving"
  BY Prepared
<1>2. CASE of = <<>>
  <2>1. events' = events
    BY <1>2 DEF ToldOf
  <2>2. Replays(pending, events, tk, NowOf(turn, queue, commands), session)
    BY <1>1, <1>2, ReplaysStill
  <2>. QED BY <1>2, <2>1, <2>2 DEF Announces
<1>3. CASE of # <<>>
  <2>1. e \in Event /\ e.is = is /\ e.of = of
    BY <1>3 DEF TellsOf, Event
  <2>2. events' = Append(events, e)
    BY <1>3 DEF ToldOf
  <2>3. Meant(now, e) /\ After(now, e) = NowOf(turn, left, commands)
    BY <1>3
  <2>. HIDE DEF e
  <2>4. Announced(e)
    BY <2>1, <2>2 DEF Announced
  <2>5. Replays(pending, Append(events, e), tk, After(now, e), session)
    <3>1. tk = ToSet(taken) \/ (e.is = "taken" /\ ToSet(After(now, e).ms) \cap tk = {})
      BY <2>1, <2>3
    <3>2. session # "none" /\ e.is # "failed"
      BY <1>1, <2>1
    <3>. QED BY <2>1, <2>3, <3>1, <3>2, TellsMatched
  <2>6. Replays(pending, Append(events, e), tk, NowOf(turn, left, commands), session)
    <3>. HIDE DEF now
    <3>. QED BY <2>3, <2>5
  <2>. QED BY <2>1, <2>2, <2>4, <2>6 DEF Announces
<1>. QED BY <1>2, <1>3

LEMMA ServesDropKeeps ==
  ASSUME TypeOK, IInv, UNCHANGED <<paneVars, env, session, turn, hookVars>>,
         turn # <<>>, commands # <<>>, commands' = Tail(commands), Head(commands).do = "cancelAll",
         queue' = <<>>, events' = ToldOf("dropped", Messages(queue))
  PROVE  IInv'
<1>1. /\ turn \in Seq(Message) /\ queue \in Seq(Entry) /\ commands \in Seq(Command)
      /\ taken \in Seq(Message)
      /\ Cancelling(commands) /\ Asking(commands, hook)
      /\ hook # "answered" => taken = <<>>
      /\ Once(taken) /\ Once(NowOf(turn, queue, commands).ms)
  BY Prepared
<1>2. /\ Head(commands) = commands[1] /\ 1 \in 1..Len(commands)
      /\ Len(commands) \in Nat /\ Len(Tail(commands)) = Len(commands) - 1
      /\ \A i \in 1..Len(Tail(commands)) : Tail(commands)[i] = commands[i + 1] /\ i + 1 \in 1..Len(commands)
  BY <1>1, TailAt
<1>3. \A i \in 1..Len(commands) : commands[i].do # "prompt"
  <2>1. \A d \in 1..Len(commands) : 1 <= d
    BY <1>2
  <2>. QED BY <1>1, <1>2, <2>1 DEF Cancelling
<1>4. ~(env = "up" /\ held # <<>>)
  BY <1>2 DEF IInv, Drops
<1>5. /\ Messages(queue) \in Seq(Message) /\ Len(Messages(queue)) = Len(queue) /\ Len(queue) \in Nat
  BY <1>1, EntriesFacts
<1>6. Messages(queue) = <<>> => queue = <<>>
  BY <1>1, <1>5
<1>7. \A i \in 1..Len(commands') : commands'[i].do # "prompt"
  BY <1>2, <1>3
<1>8. queue # <<>> =>
        /\ Meant(NowOf(turn, queue, commands), TellsOf("dropped", Messages(queue)))
        /\ After(NowOf(turn, queue, commands), TellsOf("dropped", Messages(queue)))
             = NowOf(turn, <<>>, commands)
  BY <1>1, <1>3, AllGoes
<1>9. Messages(queue) # <<>> => queue # <<>>
  BY <1>5
<1>10. Announces /\ Replays(pending, events', ToSet(taken), NowOf(turn, <<>>, commands), session)
  <2>. DEFINE of == Messages(queue)
              tk == ToSet(taken)
  <2>1. /\ of \in Seq(Message) /\ <<>> \in Seq(Entry) /\ events' = ToldOf("dropped", of)
        /\ of = <<>> => <<>> = queue
        /\ of # <<>> =>
            /\ Meant(NowOf(turn, queue, commands), TellsOf("dropped", of))
            /\ After(NowOf(turn, queue, commands), TellsOf("dropped", of)) = NowOf(turn, <<>>, commands)
    BY <1>5, <1>6, <1>8, <1>9, EmptyTyped
  <2>2. tk = ToSet(taken) /\ tk \subseteq ToSet(taken)
    OBVIOUS
  <2>. HIDE DEF of, tk
  <2>3. Announces /\ Replays(pending, events', tk, NowOf(turn, <<>>, commands), session)
    BY <1>4, <1>7, <2>1, <2>2, ServedTells
  <2>. QED BY <2>2, <2>3
<1>11. /\ Asking(Tail(commands), hook') /\ hook' = hook /\ taken' = taken
  BY <1>1, PassedKeeps DEF hookVars
<1>12. \A i \in 1..Len(queue') : \E j \in 1..Len(queue) : queue'[i] = queue[j]
  OBVIOUS
<1>13. Replays(pending, events', ToSet(taken'), NowOf(turn, queue', commands), session)
  BY <1>10, <1>11
<1>14. UNCHANGED <<paneVars, env, session, turn>> /\ Head(commands).do # "prompt"
  OBVIOUS
<1>. QED BY <1>1, <1>10, <1>11, <1>12, <1>13, <1>14, QueueGoes

\* What a withdrawal or an expediting finds of the queue, and what it leaves.
Known(m) == At(queue, {i \in DOMAIN queue : queue[i].msg \in {m} /\ queue[i].named})

Others(m) == Without(queue, {m})

LEMMA KnownFacts ==
  ASSUME TypeOK, IInv, turn # <<>>, NEW m \in Message
  PROVE  /\ Known(m) \in Seq(Entry) /\ Others(m) \in Seq(Entry)
         /\ Messages(Known(m)) \in Seq(Message) /\ Messages(Others(m)) \in Seq(Message)
         /\ \A i \in 1..Len(Known(m)) : \E j \in 1..Len(queue) : Known(m)[i] = queue[j]
         /\ \A i \in 1..Len(Others(m)) : \E j \in 1..Len(queue) : Others(m)[i] = queue[j]
         /\ Messages(Others(m)) = Minus(Messages(queue), {m})
         /\ ToSet(Messages(Others(m))) = ToSet(Messages(queue)) \ {m}
         /\ Known(m) # <<>> => ToSet(Messages(Known(m))) = {m} /\ m \in ToSet(Messages(queue))
<1>. DEFINE places == {i \in DOMAIN queue : queue[i].msg \in {m} /\ queue[i].named}
            rest == {i \in DOMAIN queue : queue[i].msg \notin {m}}
<1>. DEFINE known == Known(m)
            others == Others(m)
<1>1. queue \in Seq(Entry) /\ Messages(queue) \in Seq(Message) /\ Len(Messages(queue)) = Len(queue)
      /\ Len(queue) \in Nat
      /\ \A i \in 1..Len(queue) : Messages(queue)[i] = queue[i].msg
  <2>1. queue \in Seq(Entry) /\ \A e \in Entry : e.msg \in Message
    BY DEF TypeOK, Entry
  <2>. QED BY <2>1, MessagesFacts
<1>2. /\ places \subseteq DOMAIN queue /\ rest \subseteq DOMAIN queue
      /\ \A i \in places : queue[i].msg = m
      /\ known = At(queue, places) /\ others = At(queue, rest)
  BY DEF Without, Known, Others
<1>. HIDE DEF places, rest, known, others
<1>3. known \in Seq(Entry) /\ others \in Seq(Entry)
      /\ Messages(known) \in Seq(Message) /\ Messages(others) \in Seq(Message)
  BY <1>1, <1>2, SomeEntries
<1>4. /\ \A i \in 1..Len(known) : \E j \in 1..Len(queue) : j \in places /\ known[i] = queue[j]
      /\ \A i \in 1..Len(others) : \E j \in 1..Len(queue) : j \in rest /\ others[i] = queue[j]
  <2>1. \A k \in 1..Len(At(queue, places)) :
            \E i \in 1..Len(queue) : i \in places /\ At(queue, places)[k] = queue[i]
    BY <1>1, <1>2, AtFrom, SMTT(60)
  <2>2. \A k \in 1..Len(At(queue, rest)) :
            \E i \in 1..Len(queue) : i \in rest /\ At(queue, rest)[k] = queue[i]
    BY <1>1, <1>2, AtFrom, SMTT(60)
  <2>. QED BY <1>2, <2>1, <2>2
<1>5. /\ Messages(others) = Minus(Messages(queue), {m})
      /\ ToSet(Messages(others)) = ToSet(Messages(queue)) \ {m}
  <2>1. \A e \in Entry : e.msg \in Message
    BY DEF Entry
  <2>2. Messages(others) = Minus(Messages(queue), {m})
    BY <1>1, <2>1, MessagesWithout DEF others, Others
  <2>. QED BY <1>1, <2>2, MinusFacts
<1>6. known # <<>> => ToSet(Messages(known)) = {m} /\ m \in ToSet(Messages(queue))
  <2>. SUFFICES ASSUME known # <<>> PROVE ToSet(Messages(known)) = {m} /\ m \in ToSet(Messages(queue))
    OBVIOUS
  <2>1. Len(known) \in Nat /\ 1 \in 1..Len(known)
    BY <1>3
  <2>2. \A i \in 1..Len(known) : known[i].msg = m
    BY <1>2, <1>4
  <2>3. Len(Messages(known)) = Len(known) /\ \A i \in 1..Len(known) : Messages(known)[i] = known[i].msg
    <3>1. \A e \in Entry : e.msg \in Message
      BY DEF Entry
    <3>. QED BY <1>3, <3>1, MessagesFacts
  <2>4. \A x : x \in ToSet(Messages(known)) <=> \E i \in 1..Len(Messages(known)) : Messages(known)[i] = x
    BY <1>3, ToSetIs
  <2>. DEFINE ms == Messages(known)
              n == Len(known)
  <2>5. \A x : x \in ToSet(Messages(known)) <=> x = m
    <3>1. /\ n \in Nat /\ 1 \in 1..n /\ Len(ms) = n /\ \A i \in 1..n : ms[i] = m
          /\ \A x : x \in ToSet(ms) <=> \E i \in 1..Len(ms) : ms[i] = x
      BY <2>1, <2>2, <2>3, <2>4
    <3>. HIDE DEF ms, n
    <3>2. \A x : x \in ToSet(ms) <=> x = m
      BY <3>1
    <3>. QED BY <3>2 DEF ms
  <2>6. ToSet(Messages(known)) = {m}
    BY <2>5
  <2>7. m \in ToSet(Messages(queue))
    <3>1. \A x : x \in ToSet(Messages(queue)) <=> \E i \in 1..Len(Messages(queue)) : Messages(queue)[i] = x
      BY <1>1, ToSetIs
    <3>2. PICK j \in 1..Len(queue) : j \in places
      BY <1>4, <2>1
    <3>3. queue[j].msg = m
      BY <1>2, <3>2
    <3>. QED BY <1>1, <3>1, <3>3
  <2>. QED BY <2>6, <2>7
<1>. QED BY <1>3, <1>4, <1>5, <1>6 DEF known, others

LEMMA ServesWithdrawalKeeps ==
  ASSUME TypeOK, IInv, UNCHANGED <<paneVars, env, session, turn, hookVars>>,
         turn # <<>>, commands # <<>>, commands' = Tail(commands), Head(commands).do # "prompt",
         NEW left \in Seq(Entry), NEW of \in Seq(Message),
         queue' = left, events' = ToldOf("withdrawn", of),
         \A i \in 1..Len(left) : \E j \in 1..Len(queue) : left[i] = queue[j],
         ToSet(of) \subseteq ToSet(Messages(queue)),
         Messages(left) = Minus(Messages(queue), ToSet(of)),
         of = <<>> => left = queue
  PROVE  IInv'
<1>1. /\ turn \in Seq(Message) /\ queue \in Seq(Entry) /\ commands \in Seq(Command)
      /\ Asking(commands, hook)
      /\ hook # "answered" => taken = <<>>
      /\ Once(taken) /\ Once(NowOf(turn, queue, commands).ms)
  BY Prepared
<1>2. /\ Meant(NowOf(turn, queue, commands), TellsOf("withdrawn", of))
      /\ After(NowOf(turn, queue, commands), TellsOf("withdrawn", of)) = NowOf(turn, left, commands)
  <2>1. "withdrawn" \in {"withdrawn", "taken"}
    OBVIOUS
  <2>. QED BY <1>1, <2>1, NamedGoes
<1>3. Announces /\ Replays(pending, events', ToSet(taken), NowOf(turn, left, commands), session)
  <2>. DEFINE tk == ToSet(taken)
  <2>1. tk = ToSet(taken) /\ tk \subseteq ToSet(taken)
    OBVIOUS
  <2>. HIDE DEF tk
  <2>2. Announces /\ Replays(pending, events', tk, NowOf(turn, left, commands), session)
    BY <1>2, <2>1, ServedTells
  <2>. QED BY <2>1, <2>2
<1>4. Asking(Tail(commands), hook') /\ hook' = hook /\ taken' = taken
  BY <1>1, PassedKeeps DEF hookVars
<1>5. /\ \A i \in 1..Len(queue') : \E j \in 1..Len(queue) : queue'[i] = queue[j]
      /\ UNCHANGED <<paneVars, env, session, turn>>
  OBVIOUS
<1>6. Replays(pending, events', ToSet(taken'), NowOf(turn, queue', commands), session)
  BY <1>3, <1>4
<1>. QED BY <1>1, <1>3, <1>4, <1>5, <1>6, QueueGoes

NamedOf(q) == At(q, {i \in DOMAIN q : q[i].named})

\* When a message is expedited, all that waits is named.
LEMMA ExpeditedFacts ==
  ASSUME TypeOK, IInv, turn # <<>>, commands # <<>>, Head(commands).do = "expedite",
         NEW m \in Message
  PROVE  /\ NamedOf(Others(m)) = Others(m)
         /\ Messages(Known(m)) = Minus(Messages(queue), ToSet(Messages(Others(m))))
         /\ Messages(Others(m)) = <<>> => Known(m) = queue
<1>. DEFINE known == Known(m)
            others == Others(m)
<1>. DEFINE only == {i \in DOMAIN queue : queue[i].msg = m}
            ms == Messages(queue)
<1>1. /\ queue \in Seq(Entry) /\ commands \in Seq(Command) /\ Expediting(turn, queue, commands)
  BY Prepared
<1>2. /\ ms \in Seq(Message) /\ Len(ms) = Len(queue) /\ Len(queue) \in Nat
      /\ \A i \in 1..Len(queue) : ms[i] = queue[i].msg
  <2>1. \A e \in Entry : e.msg \in Message
    BY DEF Entry
  <2>. QED BY <1>1, <2>1, MessagesFacts
<1>3. \A i \in 1..Len(queue) : queue[i].named
  <2>1. Head(commands) = commands[1] /\ 1 \in 1..Len(commands)
    BY <1>1, TailAt
  <2>. QED BY <1>1, <2>1 DEF Expediting
<1>4. /\ others \in Seq(Entry) /\ \A i \in 1..Len(others) : \E j \in 1..Len(queue) : others[i] = queue[j]
      /\ ToSet(Messages(others)) = ToSet(ms) \ {m}
  BY KnownFacts
<1>. HIDE DEF known, others
<1>5. NamedOf(others) = others
  <2>1. DOMAIN others = 1..Len(others)
    BY <1>4
  <2>2. {i \in DOMAIN others : others[i].named} = DOMAIN others
    BY <1>3, <1>4, <2>1
  <2>3. At(others, DOMAIN others) = others
    BY <1>4, AtAll
  <2>. QED BY <2>2, <2>3 DEF NamedOf
<1>6. only \subseteq DOMAIN queue /\ DOMAIN queue = 1..Len(queue) /\ DOMAIN ms = 1..Len(queue)
  BY <1>1, <1>2
<1>7. known = At(queue, only)
  <2>1. {i \in DOMAIN queue : queue[i].msg \in {m} /\ queue[i].named} = only
    BY <1>1, <1>3
  <2>. QED BY <2>1 DEF known, Known
<1>8. \A i \in 1..Len(queue) : ms[i] \in ToSet(ms)
  <2>1. \A x : x \in ToSet(ms) <=> \E i \in 1..Len(ms) : ms[i] = x
    BY <1>2, ToSetIs
  <2>. QED BY <1>2, <2>1
<1>9. Messages(known) = Minus(ms, ToSet(Messages(others)))
  <2>1. Messages(At(queue, only)) = At(ms, only)
    <3>1. \A e \in Entry : e.msg \in Message
      BY DEF Entry
    <3>. HIDE DEF only
    <3>. QED BY <1>1, <1>6, <3>1, MessagesAt
  <2>2. \A i \in 1..Len(queue) : i \in only <=> ms[i] \notin ToSet(ms) \ {m}
    BY <1>2, <1>6, <1>8
  <2>3. {i \in DOMAIN ms : ms[i] \notin ToSet(ms) \ {m}} = only
    <3>. HIDE DEF only, ms
    <3>. QED BY <1>6, <2>2
  <2>4. Minus(ms, ToSet(ms) \ {m}) = At(ms, only)
    BY <2>3 DEF Minus
  <2>. QED BY <1>4, <1>7, <2>1, <2>4
<1>10. Messages(others) = <<>> => known = queue
  <2>. SUFFICES ASSUME Messages(others) = <<>> PROVE At(queue, only) = queue
    BY <1>7
  <2>1. ToSet(Messages(others)) = {}
    BY DEF ToSet
  <2>2. \A i \in 1..Len(queue) : ms[i] = m
    BY <1>4, <1>8, <2>1
  <2>3. only = DOMAIN queue
    BY <1>2, <1>6, <2>2
  <2>4. At(queue, DOMAIN queue) = queue
    BY <1>1, AtAll
  <2>. QED BY <2>3, <2>4
<1>. QED BY <1>5, <1>9, <1>10 DEF known, others

LEMMA ServesTakeKeeps ==
  ASSUME TypeOK, IInv, UNCHANGED <<paneVars, env, session, turn>>,
         turn # <<>>, commands # <<>>, commands' = Tail(commands), Head(commands).do = "take",
         queue' = SubSeq(queue, Len(Takeable(queue)) + 1, Len(queue)),
         events' = ToldOf("taken", Takeable(queue)), hook' = "answered", taken' = Takeable(queue)
  PROVE  IInv'
<1>. DEFINE of == Takeable(queue)
            n == Len(of)
            left == SubSeq(queue, n + 1, Len(queue))
<1>1. /\ turn \in Seq(Message) /\ queue \in Seq(Entry) /\ commands \in Seq(Command)
      /\ Asking(commands, hook)
      /\ hook # "answered" => taken = <<>>
      /\ Once(taken) /\ Once(NowOf(turn, queue, commands).ms)
  BY Prepared
<1>2. of \in Seq(Message) /\ n \in 0..Len(queue) /\ of = Messages(SubSeq(queue, 1, n))
  <2>. DEFINE places == {i \in DOMAIN queue : queue[i].named /\ queue[i].msg \notin Attached}
  <2>1. places \subseteq DOMAIN queue
    OBVIOUS
  <2>2. of = Messages(SubSeq(queue, 1, Leading(places)))
    BY DEF Takeable
  <2>. HIDE DEF places
  <2>3. Len(Messages(SubSeq(queue, 1, Leading(places)))) = Leading(places)
    BY <1>1, <2>1, FrontType
  <2>4. Takeable(queue) \in Seq(Message) /\ Len(Takeable(queue)) \in 0..Len(queue)
    BY <1>1, TakeableType
  <2>. QED BY <2>2, <2>3, <2>4
<1>. HIDE DEF of
<1>3. /\ left \in Seq(Entry) /\ Len(left) = Len(queue) - n
      /\ \A i \in 1..Len(left) : left[i] = queue[n + i] /\ n + i \in 1..Len(queue)
      /\ Len(queue) \in Nat
  <2>1. /\ left \in Seq(Entry) /\ Len(left) = Len(queue) - n
        /\ \A i \in 1..(Len(queue) - n) : left[i] = queue[n + i]
    BY <1>1, <1>2, SplitAt, SMTT(60)
  <2>. QED BY <1>1, <1>2, <2>1
<1>4. Messages(queue) = of \o Messages(left)
  BY <1>1, <1>2, SplitMessages
<1>. HIDE DEF left
<1>5. Messages(left) \in Seq(Message) /\ Messages(queue) \in Seq(Message)
  BY <1>1, <1>3, EntriesFacts
<1>6. Once(Messages(queue)) /\ ToSet(Messages(queue)) \subseteq ToSet(NowOf(turn, queue, commands).ms)
  BY <1>1, NowParts
<1>7. Once(of) /\ ToSet(of) \cap ToSet(Messages(left)) = {}
  <2>1. Once(of \o Messages(left))
    BY <1>4, <1>6
  <2>. QED BY <1>2, <1>5, <2>1, OnceConcat
<1>8. ToSet(of) \subseteq ToSet(Messages(queue))
  <2>1. ToSet(of \o Messages(left)) = ToSet(of) \cup ToSet(Messages(left))
    BY <1>2, <1>5, ToSetConcat, SMTT(60)
  <2>. QED BY <1>4, <2>1
<1>9. Messages(left) = Minus(Messages(queue), ToSet(of))
  <2>1. Minus(of \o Messages(left), ToSet(of)) = Minus(of, ToSet(of)) \o Minus(Messages(left), ToSet(of))
    BY <1>2, <1>5, MinusConcat
  <2>2. Minus(of, ToSet(of)) = <<>>
    BY <1>2, MinusAll
  <2>3. Minus(Messages(left), ToSet(of)) = Messages(left)
    <3>1. ToSet(Messages(left)) \cap ToSet(of) = {}
      BY <1>7
    <3>. QED BY <1>5, <3>1, MinusNone
  <2>4. <<>> \o Messages(left) = Messages(left)
    BY <1>5
  <2>. QED BY <1>4, <2>1, <2>2, <2>3, <2>4
<1>10. /\ Meant(NowOf(turn, queue, commands), TellsOf("taken", of))
       /\ After(NowOf(turn, queue, commands), TellsOf("taken", of)) = NowOf(turn, left, commands)
  <2>1. "taken" \in {"withdrawn", "taken"}
    OBVIOUS
  <2>. QED BY <1>1, <1>2, <1>3, <1>8, <1>9, <2>1, NamedGoes
<1>11. ToSet(NowOf(turn, left, commands).ms) \cap ToSet(of) = {}
  <2>1. NowOf(turn, left, commands) =
          [ms |-> Minus(NowOf(turn, queue, commands).ms, ToSet(of)), k |-> NowOf(turn, queue, commands).k]
    BY <1>1, <1>3, <1>8, <1>9, NowGone
  <2>2. NowOf(turn, queue, commands).ms \in Seq(Message)
    BY <1>1, NowFacts DEF View
  <2>3. ToSet(Minus(NowOf(turn, queue, commands).ms, ToSet(of)))
           = ToSet(NowOf(turn, queue, commands).ms) \ ToSet(of)
    BY <2>2, MinusFacts
  <2>. QED BY <2>1, <2>3
<1>12. of = <<>> => left = queue /\ ToSet(of) = {}
  <2>. SUFFICES ASSUME of = <<>> PROVE left = queue /\ ToSet(of) = {}
    OBVIOUS
  <2>1. n = 0 /\ ToSet(of) = {}
    BY DEF ToSet
  <2>2. Len(left) = Len(queue) /\ \A i \in 1..Len(left) : left[i] = queue[i]
    BY <1>3, <2>1
  <2>3. left = queue
    BY <1>1, <1>3, <2>2, SameSeq, SMTT(60)
  <2>. QED BY <2>1, <2>3
<1>13. Announces /\ Replays(pending, events', ToSet(of), NowOf(turn, left, commands), session)
  <2>. DEFINE tk == ToSet(of)
  <2>1. /\ ToSet(NowOf(turn, left, commands).ms) \cap tk = {}
        /\ of = <<>> => left = queue /\ tk \subseteq ToSet(taken)
        /\ events' = ToldOf("taken", of)
    BY <1>11, <1>12 DEF of
  <2>. HIDE DEF tk
  <2>2. Announces /\ Replays(pending, events', tk, NowOf(turn, left, commands), session)
    BY <1>2, <1>3, <1>10, <2>1, ServedTells
  <2>. QED BY <2>2 DEF tk
<1>14. taken' = of /\ queue' = left
  BY DEF of, left
<1>15. Asking(Tail(commands), hook') /\ (hook' # "answered" => taken' = <<>>)
  <2>1. \A i \in 1..Len(Tail(commands)) : Tail(commands)[i].do # "take"
    BY <1>1, PassedKeeps
  <2>. QED BY <2>1 DEF Asking
<1>16. ToSet(taken') \subseteq ToSet(Messages(pending)) /\ Once(taken')
  <2>1. ToSet(NowOf(turn, queue, commands).ms) \subseteq ToSet(Messages(pending))
    BY InvFacts
  <2>. QED BY <1>6, <1>7, <1>8, <1>14, <2>1
<1>17. \A i \in 1..Len(queue') : \E j \in 1..Len(queue) : queue'[i] = queue[j]
  BY <1>3, <1>14
<1>18. /\ Replays(pending, events', ToSet(taken'), NowOf(turn, queue', commands), session)
       /\ UNCHANGED <<paneVars, env, session, turn>>
       /\ Head(commands).do # "prompt"
  BY <1>13, <1>14
<1>. QED BY <1>13, <1>15, <1>16, <1>17, <1>18, QueueGoes

LEMMA ServesKeeps == ASSUME TypeOK, IInv, Serves PROVE IInv'
<1>. DEFINE command == Head(commands)
            out == IF command.do \in {"withdraw", "expedite"} THEN {command.msg} ELSE {}
            known == At(queue, {i \in DOMAIN queue : queue[i].msg \in out /\ queue[i].named})
            others == Without(queue, out)
            takes == Takeable(queue)
            m == command.msg
<1>1. /\ turn # <<>> /\ commands # <<>> /\ commands' = Tail(commands)
      /\ UNCHANGED <<paneVars, env, session, turn>>
  BY DEF Serves
<1>2. queue \in Seq(Entry) /\ commands \in Seq(Command) /\ command \in Command
      /\ Asking(commands, hook) /\ (hook # "answered" => taken = <<>>) /\ Once(taken)
      /\ Replays(pending, events, ToSet(taken), NowOf(turn, queue, commands), session)
  BY <1>1, Prepared
<1>3. command.do \in {"withdraw", "expedite"} =>
         m \in Message /\ known = Known(m) /\ others = Others(m)
  BY <1>2, CommandTypes DEF Known, Others
<1>4. CASE /\ command.do = "prompt"
           /\ queue' = Append(queue, [msg |-> command.msg, named |-> command.named])
           /\ UNCHANGED <<events, hookVars>>
  BY <1>1, <1>4, QueuesPromptKeeps
<1>5. CASE /\ command.do = "cancelAll"
           /\ queue' = <<>>
           /\ events' = ToldOf("dropped", Messages(queue))
           /\ UNCHANGED hookVars
  BY <1>1, <1>5, ServesDropKeeps
<1>6. CASE /\ command.do = "withdraw" /\ known # <<>>
           /\ queue' = others
           /\ events' = ToldOf("withdrawn", Messages(known))
           /\ UNCHANGED hookVars
  <2>. DEFINE left == Others(m)
              of == Messages(Known(m))
  <2>1. m \in Message /\ Known(m) # <<>> /\ queue' = left /\ events' = ToldOf("withdrawn", of)
    BY <1>3, <1>6
  <2>2. /\ left \in Seq(Entry) /\ of \in Seq(Message)
        /\ \A i \in 1..Len(left) : \E j \in 1..Len(queue) : left[i] = queue[j]
        /\ Messages(left) = Minus(Messages(queue), {m})
        /\ ToSet(of) = {m} /\ m \in ToSet(Messages(queue))
    BY <1>1, <2>1, KnownFacts
  <2>. HIDE DEF left, of
  <2>3. of # <<>>
    <3>1. of = <<>> => ToSet(of) = {}
      BY DEF ToSet
    <3>. QED BY <2>2, <3>1
  <2>4. command.do # "prompt" /\ UNCHANGED hookVars
    BY <1>6
  <2>5. Messages(left) = Minus(Messages(queue), ToSet(of)) /\ ToSet(of) \subseteq ToSet(Messages(queue))
    BY <2>2
  <2>. QED BY <1>1, <2>1, <2>2, <2>3, <2>4, <2>5, ServesWithdrawalKeeps
<1>7. CASE /\ command.do = "expedite" /\ known # <<>>
           /\ queue' = known
           /\ events' = ToldOf("withdrawn", Messages(At(others, {i \in DOMAIN others : others[i].named})))
           /\ UNCHANGED hookVars
  <2>. DEFINE left == Known(m)
              of == Messages(Others(m))
  <2>1. m \in Message /\ Known(m) # <<>> /\ queue' = left /\ command.do = "expedite"
    BY <1>3, <1>7
  <2>2. /\ NamedOf(Others(m)) = Others(m)
        /\ Messages(left) = Minus(Messages(queue), ToSet(of))
        /\ of = <<>> => left = queue
    BY <1>1, <2>1, ExpeditedFacts
  <2>3. events' = ToldOf("withdrawn", of)
    <3>1. events' = ToldOf("withdrawn", Messages(NamedOf(others)))
      BY <1>7 DEF NamedOf
    <3>2. others = Others(m)
      BY <1>3, <1>7
    <3>. HIDE DEF others
    <3>. QED BY <2>2, <3>1, <3>2
  <2>4. /\ left \in Seq(Entry) /\ of \in Seq(Message)
        /\ \A i \in 1..Len(left) : \E j \in 1..Len(queue) : left[i] = queue[j]
        /\ ToSet(of) = ToSet(Messages(queue)) \ {m}
    BY <1>1, <2>1, KnownFacts
  <2>5. command.do # "prompt" /\ UNCHANGED hookVars
    BY <1>7
  <2>. HIDE DEF left, of
  <2>6. ToSet(of) \subseteq ToSet(Messages(queue))
    BY <2>4
  <2>. QED BY <1>1, <2>1, <2>2, <2>3, <2>4, <2>5, <2>6, ServesWithdrawalKeeps
<1>8. CASE /\ command.do \in {"withdraw", "expedite"} /\ known = <<>>
           /\ UNCHANGED <<queue, events, hookVars>>
  <2>1. Asking(Tail(commands), hook') /\ hook' = hook /\ taken' = taken
    BY <1>1, <1>2, <1>8, PassedKeeps DEF hookVars
  <2>2. Announces /\ queue' = queue
    BY <1>8 DEF Announces
  <2>3. Replays(pending, events', ToSet(taken'), NowOf(turn, queue', commands), session)
    BY <1>2, <1>8, <2>1
  <2>4. \A i \in 1..Len(queue') : \E j \in 1..Len(queue) : queue'[i] = queue[j]
    BY <2>2
  <2>5. command.do # "prompt"
    BY <1>8
  <2>. QED BY <1>1, <1>2, <2>1, <2>2, <2>3, <2>4, <2>5, QueueGoes
<1>9. CASE /\ command.do = "take"
           /\ queue' = SubSeq(queue, Len(takes) + 1, Len(queue))
           /\ events' = ToldOf("taken", takes)
           /\ hook' = "answered" /\ taken' = takes /\ UNCHANGED reading
  BY <1>1, <1>9, ServesTakeKeeps
<1>. QED BY <1>4, <1>5, <1>6, <1>7, <1>8, <1>9 DEF Serves

\* The task ends: after the last turn, told or not to have failed, all that
\* waited is gone with its channel.
Endings(failed) == events \o (IF failed THEN <<Tells("failed")>> ELSE <<>>) \o <<Tells("closed")>>

LEMMA AppendAt ==
  ASSUME NEW S, NEW s \in Seq(S), NEW e \in S
  PROVE  /\ Append(s, e) \in Seq(S) /\ Append(s, e) # <<>>
         /\ Len(s) \in Nat /\ Len(Append(s, e)) = Len(s) + 1
         /\ \A i \in 1..Len(s) : Append(s, e)[i] = s[i]
         /\ Append(s, e)[Len(s) + 1] = e
OBVIOUS

LEMMA EndsMatch ==
  ASSUME TypeOK, IInv, NEW failed \in BOOLEAN, session # "none", failed => turn # <<>>
  PROVE  /\ Endings(failed) \in Seq(Event) /\ Endings(failed) # <<>>
         /\ Replays(pending, Endings(failed), ToSet(taken), NowOf(<<>>, <<>>, <<>>), "none")
         /\ \A i \in 1..Len(Endings(failed)) : Endings(failed)[i].is = "closed" <=> i = Len(Endings(failed))
         /\ \A i \in 1..Len(Endings(failed)) : Endings(failed)[i].is = "dropped" => \E j \in 1..Len(events) : events[j].is = "dropped"
<1>. DEFINE now == NowOf(turn, queue, commands)
            rest == NowOf(<<>>, queue, commands)
            f == Tells("failed")
            c == Tells("closed")
            mid == IF failed THEN Append(events, f) ELSE events
            tk == ToSet(taken)
<1>1. /\ turn \in Seq(Message) /\ queue \in Seq(Entry) /\ commands \in Seq(Command)
      /\ events \in Seq(Event)
      /\ Replays(pending, events, tk, now, session)
  BY Prepared
<1>2. f \in Event /\ c \in Event /\ f.is = "failed" /\ c.is = "closed"
  BY TellsType DEF Tells
<1>3. Replays(pending, events, tk, now, "none")
  BY <1>1, ReplaysStill
<1>4. \A i \in 1..Len(events) : events[i].is # "closed"
  BY DEF IInv, Life, Closing
<1>5. Endings(failed) = Append(mid, c) /\ mid \in Seq(Event)
  <2>1. events \o <<f>> = Append(events, f) /\ events \o <<>> = events
        /\ Append(events, f) \in Seq(Event)
    BY <1>1, <1>2
  <2>2. mid \in Seq(Event) /\ mid \o <<c>> = Append(mid, c)
    <3>1. mid \in Seq(Event)
      BY <1>1, <2>1
    <3>. HIDE DEF mid, c
    <3>. QED BY <1>2, <3>1
  <2>. HIDE DEF f, c
  <2>3. mid = events \o (IF failed THEN <<f>> ELSE <<>>)
    BY <2>1
  <2>. HIDE DEF mid
  <2>. QED BY <2>2, <2>3 DEF f, c, Endings
<1>6. \E s : Replays(pending, mid, tk, s, "none")
  <2>1. CASE ~failed
    BY <1>3, <2>1
  <2>2. CASE failed
    <3>1. Meant(now, f) /\ After(now, f) = rest
      BY <1>1, <1>2, <2>2, NowEnded
    <3>2. mid = Append(events, f)
      BY <2>2
    <3>. HIDE DEF now, rest, f, mid, tk
    <3>3. Replays(pending, Append(events, f), tk, After(now, f), "none")
      BY <1>1, <1>2, <1>3, <3>1, ReplaysTell
    <3>. QED BY <3>2, <3>3
  <2>. QED BY <2>1, <2>2
<1>7. Replays(pending, Append(mid, c), tk, NowOf(<<>>, <<>>, <<>>), "none")
  <2>. HIDE DEF mid, c, tk
  <2>1. PICK s : Replays(pending, mid, tk, s, "none")
    BY <1>6
  <2>2. Meant(s, c)
    BY <1>2 DEF Meant
  <2>3. After(s, c) = [ms |-> <<>>, k |-> 1]
    BY <1>2 DEF After
  <2>4. Replays(pending, Append(mid, c), tk, After(s, c), "none")
    BY <1>2, <1>5, <2>1, <2>2, ReplaysTell
  <2>. QED BY <2>3, <2>4, NowNothing
<1>8. /\ \A i \in 1..Len(mid) : mid[i].is # "closed"
      /\ \A i \in 1..Len(mid) : mid[i].is = "dropped" => \E j \in 1..Len(events) : events[j].is = "dropped"
  <2>1. CASE ~failed
    BY <1>4, <2>1
  <2>2. CASE failed
    <3>1. mid = Append(events, f)
      BY <2>2
    <3>. HIDE DEF mid, f
    <3>2. /\ Len(events) \in Nat /\ Len(Append(events, f)) = Len(events) + 1
          /\ \A i \in 1..Len(events) : Append(events, f)[i] = events[i]
          /\ Append(events, f)[Len(events) + 1] = f
      BY <1>1, <1>2
    <3>. QED BY <1>2, <1>4, <3>1, <3>2
  <2>. QED BY <2>1, <2>2
<1>9. /\ Append(mid, c) \in Seq(Event) /\ Append(mid, c) # <<>>
      /\ Len(mid) \in Nat /\ Len(Append(mid, c)) = Len(mid) + 1
      /\ \A i \in 1..Len(mid) : Append(mid, c)[i] = mid[i]
      /\ Append(mid, c)[Len(mid) + 1] = c
  <2>1. mid \in Seq(Event) /\ c \in Event
    BY <1>2, <1>5
  <2>. HIDE DEF mid, c
  <2>. QED BY <2>1, AppendAt, SMTT(60)
<1>10. /\ \A i \in 1..Len(Append(mid, c)) : Append(mid, c)[i].is = "closed" <=> i = Len(Append(mid, c))
       /\ \A i \in 1..Len(Append(mid, c)) : Append(mid, c)[i].is = "dropped" =>
             \E j \in 1..Len(events) : events[j].is = "dropped"
  <2>. HIDE DEF mid, c
  <2>1. \A i \in 1..(Len(mid) + 1) : i \in 1..Len(mid) \/ i = Len(mid) + 1
    BY <1>9
  <2>2. \A i \in 1..Len(mid) : i # Len(mid) + 1
    BY <1>9
  <2>. QED BY <1>2, <1>8, <1>9, <2>1, <2>2
<1>. HIDE DEF mid, c
<1>. QED BY <1>5, <1>7, <1>9, <1>10

LEMMA EndsKeeps ==
  ASSUME TypeOK, IInv, NEW failed \in BOOLEAN, failed => turn # <<>>, Ends(failed),
         env' = "up" => env = "up"
  PROVE  IInv'
<1>1. /\ session # "none" /\ session' = "none" /\ turn' = <<>> /\ queue' = <<>> /\ commands' = <<>>
      /\ events' = Endings(failed)
      /\ hook' = (IF hook = "asked" THEN "none" ELSE hook) /\ reading' = FALSE
      /\ UNCHANGED <<pending, held, card, stop, client, reconnect, taken>>
  BY DEF Ends, Endings, paneVars
<1>2. /\ Endings(failed) \in Seq(Event) /\ Endings(failed) # <<>>
      /\ Replays(pending, Endings(failed), ToSet(taken), NowOf(<<>>, <<>>, <<>>), "none")
      /\ \A i \in 1..Len(Endings(failed)) : Endings(failed)[i].is = "closed" <=> i = Len(Endings(failed))
      /\ \A i \in 1..Len(Endings(failed)) : Endings(failed)[i].is = "dropped" =>
            \E j \in 1..Len(events) : events[j].is = "dropped"
  BY <1>1, EndsMatch
<1>3. Len(Endings(failed)) \in 1..Len(Endings(failed))
  <2>. DEFINE es == Endings(failed)
  <2>1. es \in Seq(Event) /\ es # <<>>
    BY <1>2
  <2>. HIDE DEF es
  <2>2. Len(es) \in 1..Len(es)
    BY <2>1
  <2>. QED BY <2>2 DEF es
<1>4. Len(<<>>) = 0 /\ 1..0 = {}
  OBVIOUS
<1>5. Matched'
  BY <1>1, <1>2 DEF Matched
<1>6. Life'
  <2>1. client
    BY <1>1 DEF IInv, Life
  <2>2. Closing'
    BY <1>1, <1>2, <1>3 DEF Closing
  <2>. QED BY <1>1, <1>2, <2>1, <2>2 DEF Life
<1>7. Stops' /\ Apart'
  BY <1>1 DEF IInv, Stops, Apart
<1>8. Hooked'
  <2>1. Asking(<<>>, hook')
    BY <1>4 DEF Asking
  <2>2. hook' # "answered" => taken = <<>>
    BY <1>1 DEF IInv, Hooked
  <2>. QED BY <1>1, <2>1, <2>2 DEF Hooked
<1>9. Drops'
  <2>1. Cancelling(<<>>)
    BY <1>4 DEF Cancelling
  <2>2. \A i \in 1..Len(<<>>) : <<>>[i].do # "prompt" /\ <<>>[i].do # "cancelAll"
    BY <1>4
  <2>3. env' = "up" /\ held # <<>> => \A i \in 1..Len(Endings(failed)) : Endings(failed)[i].is # "dropped"
    BY <1>2 DEF IInv, Drops
  <2>. QED BY <1>1, <2>1, <2>2, <2>3 DEF Drops
<1>10. Named'
  <2>1. Expediting(<<>>, <<>>, <<>>)
    BY <1>4 DEF Expediting
  <2>. QED BY <1>1, <2>1 DEF Named
<1>11. Waits'
  <2>1. \A m : m \notin Unnamed(<<>>, <<>>)
    BY <1>4 DEF Unnamed
  <2>. QED BY <1>1, <2>1 DEF Waits
<1>. QED BY <1>5, <1>6, <1>7, <1>8, <1>9, <1>10, <1>11 DEF IInv

LEMMA DiesKeeps == ASSUME TypeOK, IInv, NEW failed \in BOOLEAN, Dies(failed) PROVE IInv'
BY EndsKeeps DEF Dies

LEMMA EnvMovesKeeps == ASSUME TypeOK, IInv, NEW failed \in BOOLEAN, EnvMoves(failed) PROVE IInv'
<1>1. env' = "moving" /\ (failed => turn # <<>>)
  BY DEF EnvMoves
<1>2. CASE Ends(failed)
  BY <1>1, <1>2, EndsKeeps
<1>3. CASE UNCHANGED <<paneVars, commands, events, taskVars, hookVars, ghosts>>
  <2>1. UNCHANGED <<pending, held, card, stop, client, commands, events, session, turn, queue, hook, taken>>
    BY <1>3 DEF paneVars, taskVars, hookVars
  <2>2. Matched' /\ Life' /\ Stops' /\ Apart'
    BY <2>1 DEF IInv, Matched, Life, Closing, Stops, Apart
  <2>3. Hooked' /\ Named' /\ Waits'
    BY <2>1 DEF IInv, Hooked, Named, Waits
  <2>4. Drops'
    BY <1>1, <2>1 DEF IInv, Drops
  <2>. QED BY <2>2, <2>3, <2>4 DEF IInv
<1>. QED BY <1>2, <1>3 DEF EnvMoves

-----------------------------------------------------------------------------
(* The pane: hearing.                                                      *)

\* What the pane hears leaves the rest to follow: the rows show the next view,
\* and no row waits that did not.
LEMMA HeardKeeps ==
  ASSUME TypeOK, IInv, TypeOK', NEW is, Hears(is), is # "closed",
         UNCHANGED <<held, client, env, commands, taskVars, hookVars>>,
         Replays(pending', events', ToSet(taken), NowOf(turn, queue, commands), session),
         KeepsWaiting(pending, pending'),
         ToSet(Messages(pending')) \subseteq ToSet(Messages(pending)),
         \A m \in Message : card[m] # None => card'[m] # None,
         session # "none" => (stop' <=> pending' # <<>>)
  PROVE  IInv'
<1>1. /\ events \in Seq(Event) /\ events # <<>> /\ events' = Tail(events) /\ Head(events).is = is
      /\ UNCHANGED <<held, client, env, commands, session, turn, queue, hook, taken>>
  BY DEF Hears, TypeOK, taskVars, hookVars
<1>2. /\ Tail(events) \in Seq(Event) /\ Len(events) \in Nat /\ Len(events) >= 1
      /\ Len(Tail(events)) = Len(events) - 1
      /\ \A i \in 1..Len(Tail(events)) : Tail(events)[i] = events[i + 1] /\ i + 1 \in 1..Len(events)
      /\ Head(events) = events[1] /\ 1 \in 1..Len(events)
  BY <1>1, TailAt, SMTT(60)
<1>3. Matched'
  BY <1>1 DEF Matched
<1>4. Life'
  <2>1. client
    BY <1>1 DEF IInv, Life
  <2>2. Closing' <=> Closing
    <3>. DEFINE less == Tail(events)
    <3>1. ASSUME NEW i \in 1..Len(events), events[i].is = "closed"
          PROVE  \E j \in 1..Len(less) : less[j].is = "closed"
      <4>1. i # 1
        BY <1>1, <1>2, <3>1
      <4>2. i - 1 \in 1..Len(less) /\ (i - 1) + 1 = i
        BY <1>2, <4>1
      <4>3. less[i - 1] = events[i]
        BY <1>2, <4>2
      <4>. HIDE DEF less
      <4>. QED BY <3>1, <4>2, <4>3
    <3>2. ASSUME NEW j \in 1..Len(less), less[j].is = "closed"
          PROVE  \E i \in 1..Len(events) : events[i].is = "closed"
      BY <1>2, <3>2
    <3>. HIDE DEF less
    <3>3. (\E j \in 1..Len(less) : less[j].is = "closed")
             <=> \E i \in 1..Len(events) : events[i].is = "closed"
      BY <3>1, <3>2
    <3>. QED BY <1>1, <3>3 DEF Closing, less
  <2>3. \A i \in 1..Len(Tail(events)) : Tail(events)[i].is = "closed" => i = Len(Tail(events))
    <3>1. \A i \in 1..Len(events) : events[i].is = "closed" => i = Len(events)
      BY DEF IInv, Life
    <3>2. \A i \in 1..Len(Tail(events)) : i + 1 = Len(events) => i = Len(Tail(events))
      <4>. DEFINE n == Len(events)
                  k == Len(Tail(events))
      <4>1. n \in Nat /\ k = n - 1 /\ n >= 1
        BY <1>2
      <4>. HIDE DEF n, k
      <4>2. \A i \in 1..k : i + 1 = n => i = k
        BY <4>1
      <4>. QED BY <4>2 DEF n, k
    <3>. QED BY <1>2, <3>1, <3>2
  <2>. QED BY <1>1, <2>1, <2>2, <2>3 DEF IInv, Life
<1>5. Stops'
  BY <1>1 DEF Stops
<1>6. Apart'
  <2>1. \A m \in ToSet(Messages(pending')) \cup ToSet(held) \cup ToSet(taken) :
            m \in Message /\ card[m] # None
    <3>1. Messages(pending) \in Seq(Message) /\ held \in Seq(Message) /\ taken \in Seq(Message)
      BY RowsFacts DEF TypeOK
    <3>2. ToSet(Messages(pending)) \subseteq Message /\ ToSet(held) \subseteq Message
          /\ ToSet(taken) \subseteq Message
      BY <3>1, ToSetType
    <3>. QED BY <3>2 DEF IInv, Apart
  <2>. QED BY <1>1, <2>1 DEF IInv, Apart
<1>7. Hooked' /\ Named'
  BY <1>1 DEF IInv, Hooked, Named
<1>8. Drops'
  BY <1>1, <1>2 DEF IInv, Drops
<1>9. Waits'
  BY <1>1 DEF IInv, Waits, KeepsWaiting
<1>. QED BY <1>3, <1>4, <1>5, <1>6, <1>7, <1>8, <1>9 DEF IInv

LEMMA KeepsWaitingOn ==
  ASSUME NEW rows, NEW mid \in Seq(Row), NEW heard, KeepsWaiting(rows, mid), Alike(mid, heard)
  PROVE  KeepsWaiting(rows, heard)
BY DEF KeepsWaiting, Alike

\* Nothing that a card says is nothing.
LEMMA SaysSomething ==
  ASSUME NEW says \in Waiting \cup Settled, NEW ms
  PROVE  \A m \in Message : card[m] # None => Cards(ms, says)[m] # None
BY ChatAssumption DEF Cards

\* What the rows show of their view after a word that spares them.
LEMMA ShownIn ==
  ASSUME NEW rows \in Seq(Row), NEW v, Proper(v), Shows(rows, v),
         NEW heard \in Seq(Row), NEW w, Shows(heard, w), Within(w, v)
  PROVE  ToSet(Messages(heard)) \subseteq ToSet(Messages(rows))
BY DEF Shows, Within

\* What the rows show when the pane hears an event.
Hearing(v, e) ==
    /\ e = Head(events) /\ e \in Event
    /\ Shows(pending, v) /\ Proper(v) /\ Meant(v, e)
    /\ \A heard : Shows(heard, After(v, e)) =>
           Replays(heard, events', ToSet(taken), NowOf(turn, queue, commands), session)

LEMMA HearingIs ==
  ASSUME TypeOK, IInv, NEW is, Hears(is)
  PROVE  \E v : \E e : /\ Hearing(v, e) /\ e.is = is
                       /\ is = "failed" => session = "none" \/ Len(v.ms) = 1
<1>1. Head(events) \in Event /\ Head(events).is = is
  BY HearsFacts
<1>2. PICK v : /\ Shows(pending, v) /\ Proper(v) /\ Meant(v, Head(events))
               /\ is = "failed" => session = "none" \/ Len(v.ms) = 1
               /\ \A heard : Shows(heard, After(v, Head(events))) =>
                     Replays(heard, events', ToSet(taken), NowOf(turn, queue, commands), session)
  BY HearsView
<1>3. Hearing(v, Head(events))
  BY <1>1, <1>2 DEF Hearing
<1>. QED BY <1>1, <1>2, <1>3

LEMMA HearingShows ==
  ASSUME TypeOK, IInv, NEW v, NEW e, Hearing(v, e), NEW heard \in Seq(Row), Shows(heard, After(v, e))
  PROVE  /\ Replays(heard, events', ToSet(taken), NowOf(turn, queue, commands), session)
         /\ ToSet(Messages(heard)) \subseteq ToSet(Messages(pending))
<1>1. pending \in Seq(Row)
  BY DEF TypeOK
<1>2. Within(After(v, e), v)
  BY AfterProper DEF Hearing
<1>. QED BY <1>1, <1>2, ShownIn DEF Hearing

\* What the pane does with each event is what the event means.
LEMMA HearsGoneIs ==
  ASSUME TypeOK, TypeOK', NEW is \in {"withdrawn", "taken"}, NEW says, HearsGone(is, says),
         NEW v, NEW e, Hearing(v, e), e.is = is
  PROVE  /\ card' = Cards(ToSet(e.of), says)
         /\ Shows(pending', After(v, e)) /\ KeepsWaiting(pending, pending')
         /\ pending' # <<>> /\ pending # <<>>
<1>. DEFINE gone == {pending[i].msg : i \in {j \in 2..Len(pending) :
                        pending[j].msg \in ToSet(Head(events).of) /\ ~pending[j].joined}}
<1>1. pending' = Without(pending, gone) /\ card' = Cards(gone, says)
  BY DEF HearsGone
<1>2. pending \in Seq(Row)
  BY DEF TypeOK
<1>3. gone = ToSet(e.of)
  <2>1. e = Head(events) /\ e \in Event /\ e.is \in {"withdrawn", "taken"}
        /\ Shows(pending, v) /\ Proper(v) /\ Meant(v, e)
    BY DEF Hearing
  <2>2. {pending[i].msg : i \in {j \in 2..Len(pending) :
                pending[j].msg \in ToSet(e.of) /\ ~pending[j].joined}} = ToSet(e.of)
    BY <1>2, <2>1, NamedGone
  <2>. QED BY <2>1, <2>2
<1>. HIDE DEF gone
<1>4. e \in Event /\ e.is \in {"withdrawn", "taken", "dropped"}
      /\ Shows(pending, v) /\ Proper(v) /\ Meant(v, e)
  BY DEF Hearing
<1>. QED BY <1>1, <1>2, <1>3, <1>4, GoneShown

LEMMA HearsGoneKeeps ==
  ASSUME TypeOK, IInv, TypeOK', NEW is, NEW says,
         \/ is = "withdrawn" /\ says = "NotSent"
         \/ is = "taken" /\ says = "WithinTurn",
         HearsGone(is, says)
  PROVE  IInv'
<1>1. /\ Hears(is) /\ UNCHANGED <<held, client, env, commands, taskVars, hookVars>> /\ stop' = stop
  BY DEF HearsGone
<1>2. PICK v, e : Hearing(v, e) /\ e.is = is
  BY <1>1, HearingIs
<1>3. pending' \in Seq(Row)
  BY DEF TypeOK
<1>4. /\ card' = Cards(ToSet(e.of), says)
      /\ Shows(pending', After(v, e)) /\ KeepsWaiting(pending, pending')
      /\ pending' # <<>> /\ pending # <<>>
  <2>1. is \in {"withdrawn", "taken"}
    OBVIOUS
  <2>. QED BY <1>2, <2>1, HearsGoneIs
<1>5. /\ Replays(pending', events', ToSet(taken), NowOf(turn, queue, commands), session)
      /\ ToSet(Messages(pending')) \subseteq ToSet(Messages(pending))
  BY <1>2, <1>3, <1>4, HearingShows
<1>6. \A m \in Message : card[m] # None => card'[m] # None
  <2>1. says \in Waiting \cup Settled
    BY DEF Settled
  <2>. QED BY <1>4, <2>1, SaysSomething
<1>7. session # "none" => (stop' <=> pending' # <<>>)
  BY <1>1, <1>4 DEF IInv, Stops
<1>8. is # "closed"
  OBVIOUS
<1>. QED BY <1>1, <1>4, <1>5, <1>6, <1>7, <1>8, HeardKeeps

LEMMA HearsDroppedIs ==
  ASSUME TypeOK, TypeOK', HearsDropped, NEW v, NEW e, Hearing(v, e), e.is = "dropped"
  PROVE  /\ card' = Cards(ToSet(e.of), "NotSent")
         /\ Shows(pending', After(v, e)) /\ KeepsWaiting(pending, pending')
         /\ pending' # <<>> /\ pending # <<>>
<1>. DEFINE from == Len(pending) - Len(Head(events).of) + 1
            Goes(i) == i > 1 /\ i >= from /\ ~pending[i].joined
            gone == {pending[i].msg : i \in {j \in DOMAIN pending : Goes(j)}}
<1>1. pending' = Without(pending, gone) /\ card' = Cards(gone, "NotSent")
  BY DEF HearsDropped
<1>2. pending \in Seq(Row)
  BY DEF TypeOK
<1>3. gone = ToSet(e.of)
  <2>1. e = Head(events) /\ e \in Event /\ Shows(pending, v) /\ Proper(v) /\ Meant(v, e)
    BY DEF Hearing
  <2>2. {pending[i].msg : i \in {j \in DOMAIN pending :
                j > 1 /\ j >= Len(pending) - Len(e.of) + 1 /\ ~pending[j].joined}} = ToSet(e.of)
    BY <1>2, <2>1, CountedGone
  <2>. QED BY <2>1, <2>2
<1>. HIDE DEF gone
<1>4. e \in Event /\ e.is \in {"withdrawn", "taken", "dropped"}
      /\ Shows(pending, v) /\ Proper(v) /\ Meant(v, e)
  BY DEF Hearing
<1>. QED BY <1>1, <1>2, <1>3, <1>4, GoneShown

LEMMA HearsDroppedKeeps == ASSUME TypeOK, IInv, TypeOK', HearsDropped PROVE IInv'
<1>1. /\ Hears("dropped") /\ UNCHANGED <<held, client, env, commands, taskVars, hookVars>> /\ stop' = stop
  BY DEF HearsDropped
<1>2. PICK v, e : Hearing(v, e) /\ e.is = "dropped"
  BY <1>1, HearingIs
<1>3. pending' \in Seq(Row)
  BY DEF TypeOK
<1>4. /\ card' = Cards(ToSet(e.of), "NotSent")
      /\ Shows(pending', After(v, e)) /\ KeepsWaiting(pending, pending')
      /\ pending' # <<>> /\ pending # <<>>
  BY <1>2, HearsDroppedIs
<1>5. /\ Replays(pending', events', ToSet(taken), NowOf(turn, queue, commands), session)
      /\ ToSet(Messages(pending')) \subseteq ToSet(Messages(pending))
  BY <1>2, <1>3, <1>4, HearingShows
<1>6. \A m \in Message : card[m] # None => card'[m] # None
  <2>1. "NotSent" \in Waiting \cup Settled
    BY DEF Settled
  <2>. QED BY <1>4, <2>1, SaysSomething
<1>7. session # "none" => (stop' <=> pending' # <<>>)
  BY <1>1, <1>4 DEF IInv, Stops
<1>. QED BY <1>1, <1>4, <1>5, <1>6, <1>7, HeardKeeps

LEMMA HearsJoinedIs ==
  ASSUME TypeOK, TypeOK', HearsJoined, NEW v, NEW e, Hearing(v, e), e.is = "joined"
  PROVE  /\ \E gone : card' = Cards(gone, "Taken") /\ gone \subseteq ToSet(Messages(pending'))
         /\ Shows(pending', After(v, e)) /\ KeepsWaiting(pending, pending')
         /\ pending' # <<>> <=> pending # <<>>
<1>. DEFINE last == Len(Head(events).of) + 1
            Goes(i) == i \in 2..last
            heard == [i \in DOMAIN pending |->
                        IF Goes(i) THEN [pending[i] EXCEPT !.waits = FALSE, !.joined = TRUE]
                        ELSE pending[i]]
            gone == {pending[i].msg : i \in {j \in DOMAIN pending : Goes(j) /\ pending[j].waits}}
<1>1. pending' = heard /\ card' = Cards(gone, "Taken")
  BY DEF HearsJoined
<1>2. pending \in Seq(Row) /\ heard \in Seq(Row)
  BY <1>1 DEF TypeOK
<1>3. DOMAIN pending = 1..Len(pending) /\ Len(pending) \in Nat /\ \A i \in 1..Len(pending) : pending[i] \in Row
  <2>1. pending \in Seq(Row)
    BY DEF TypeOK
  <2>. QED BY <2>1
<1>4. Len(heard) = Len(pending)
  <2>1. DOMAIN heard = 1..Len(pending)
    BY <1>3
  <2>2. heard \in Seq(Row)
    BY <1>2
  <2>. HIDE DEF heard
  <2>. QED BY <1>3, <2>1, <2>2
<1>5. /\ \A i \in 1..Len(pending) : heard[i].msg = pending[i].msg /\ (heard[i].waits => pending[i].waits)
      /\ \A i \in 1..Len(pending) : heard[i].joined <=> pending[i].joined \/ i \in 2..(Len(Head(events).of) + 1)
  BY <1>3 DEF Row
<1>6. e = Head(events) /\ Shows(pending, v) /\ Proper(v) /\ Meant(v, e)
  BY DEF Hearing
<1>7. \A m \in gone : \E i \in 1..Len(pending) : pending[i].msg = m
  BY <1>3
<1>. HIDE DEF heard, gone
<1>8. Alike(pending, heard)
  BY <1>2, <1>4, <1>5 DEF Alike
<1>9. Shows(heard, After(v, e)) /\ KeepsWaiting(pending, heard) /\ Messages(heard) = Messages(pending)
  BY <1>2, <1>5, <1>6, <1>8, AlikeShown, JoinedShown
<1>10. gone \subseteq ToSet(Messages(heard))
  <2>1. Messages(pending) \in Seq(Message) /\ Len(Messages(pending)) = Len(pending)
        /\ \A i \in 1..Len(pending) : Messages(pending)[i] = pending[i].msg
    <3>1. \A r \in Row : r.msg \in Message
      BY DEF Row
    <3>. QED BY <1>2, <3>1, MessagesFacts
  <2>2. \A m : m \in ToSet(Messages(pending)) <=> \E i \in 1..Len(Messages(pending)) : Messages(pending)[i] = m
    BY <2>1, ToSetIs
  <2>. QED BY <1>7, <1>9, <2>1, <2>2
<1>11. heard # <<>> <=> pending # <<>>
  BY <1>2, <1>4
<1>. QED BY <1>1, <1>9, <1>10, <1>11

LEMMA HearsJoinedKeeps == ASSUME TypeOK, IInv, TypeOK', HearsJoined PROVE IInv'
<1>1. /\ Hears("joined") /\ UNCHANGED <<held, client, env, commands, taskVars, hookVars>> /\ stop' = stop
  BY DEF HearsJoined
<1>2. PICK v, e : Hearing(v, e) /\ e.is = "joined"
  BY <1>1, HearingIs
<1>3. pending' \in Seq(Row)
  BY DEF TypeOK
<1>4. /\ \E gone : card' = Cards(gone, "Taken") /\ gone \subseteq ToSet(Messages(pending'))
      /\ Shows(pending', After(v, e)) /\ KeepsWaiting(pending, pending')
      /\ pending' # <<>> <=> pending # <<>>
  BY <1>2, HearsJoinedIs
<1>5. /\ Replays(pending', events', ToSet(taken), NowOf(turn, queue, commands), session)
      /\ ToSet(Messages(pending')) \subseteq ToSet(Messages(pending))
  BY <1>2, <1>3, <1>4, HearingShows
<1>6. \A m \in Message : card[m] # None => card'[m] # None
  <2>1. "Taken" \in Waiting \cup Settled
    BY DEF Settled
  <2>. QED BY <1>4, <2>1, SaysSomething
<1>7. session # "none" => (stop' <=> pending' # <<>>)
  BY <1>1, <1>4 DEF IInv, Stops
<1>. QED BY <1>1, <1>4, <1>5, <1>6, <1>7, HeardKeeps

\* The turn's messages, and the others that the pane waits on.
LEMMA TurnIs ==
  ASSUME NEW rows \in Seq(Row), rows # <<>>, NEW v, Proper(v), Shows(rows, v)
  PROVE  Turn(rows) = {v.ms[p] : p \in 1..v.k}
<1>1. Popped(rows) = v.k
  BY PoppedIs
<1>2. \A p \in 1..v.k : v.ms[p] = rows[p].msg
  BY ShownFacts
<1>. QED BY <1>1, <1>2 DEF Turn

LEMMA HearsEndedIs ==
  ASSUME TypeOK, TypeOK', HearsEnded, NEW v, NEW e, Hearing(v, e), e.is = "ended"
  PROVE  /\ \A m \in Message :
               \/ card'[m] = "Taken" /\ (m \in {v.ms[p] : p \in 1..v.k} \/ m \in ToSet(Messages(pending')))
               \/ card'[m] = card[m] /\ m \notin {v.ms[p] : p \in 1..v.k}
         /\ Shows(pending', After(v, e)) /\ KeepsWaiting(pending, pending')
         /\ pending # <<>> /\ (stop' <=> stop /\ pending' # <<>>)
<1>. DEFINE rows == Rest(pending)
            heard == [i \in DOMAIN rows |-> IF i = 1 THEN [rows[i] EXCEPT !.waits = FALSE] ELSE rows[i]]
            says == Cards(Turn(pending), "Taken")
<1>1. /\ pending' = heard
      /\ card' = [m \in Message |->
                    IF rows # <<>> /\ rows[1].waits /\ m = rows[1].msg THEN "Taken" ELSE says[m]]
      /\ stop' = (stop /\ rows # <<>>)
  BY DEF HearsEnded, Accepts
<1>2. e = Head(events) /\ Shows(pending, v) /\ Proper(v) /\ Meant(v, e)
  BY DEF Hearing
<1>3. pending \in Seq(Row) /\ Len(pending) \in Nat
  BY DEF TypeOK
<1>4. pending # <<>>
  <2>1. v.ms # <<>> /\ v.ms = Messages(pending)
    BY <1>2 DEF Meant, Shows
  <2>2. Len(Messages(pending)) = Len(pending) /\ Messages(pending) \in Seq(Message)
    BY <1>3, RowsFacts
  <2>. QED BY <1>3, <2>1, <2>2
<1>5. Turn(pending) = {v.ms[p] : p \in 1..v.k}
  BY <1>2, <1>3, <1>4, TurnIs
<1>6. /\ Shows(rows, After(v, e)) /\ KeepsWaiting(pending, rows) /\ rows \in Seq(Row)
  <2>1. e.is \in {"ended", "failed"}
    OBVIOUS
  <2>. QED BY <1>2, <1>3, <1>4, <2>1, RestShown
<1>7. heard \in Seq(Row)
  BY <1>1 DEF TypeOK
<1>. HIDE DEF rows
<1>8. DOMAIN rows = 1..Len(rows) /\ Len(rows) \in Nat /\ \A i \in 1..Len(rows) : rows[i] \in Row
  BY <1>6
<1>9. Len(heard) = Len(rows)
  <2>1. DOMAIN heard = 1..Len(rows)
    BY <1>8
  <2>2. heard \in Seq(Row)
    BY <1>7
  <2>. HIDE DEF heard
  <2>. QED BY <1>8, <2>1, <2>2
<1>10. \A i \in 1..Len(rows) : /\ heard[i].msg = rows[i].msg /\ (heard[i].waits => rows[i].waits)
                               /\ heard[i].joined = rows[i].joined
  BY <1>8 DEF Row
<1>. HIDE DEF heard
<1>11. Alike(rows, heard)
  BY <1>7, <1>9, <1>10 DEF Alike
<1>12. Messages(heard) = Messages(rows)
  BY <1>6, <1>11, AlikeShown
<1>13. Shows(heard, After(v, e))
  BY <1>6, <1>9, <1>10, <1>12 DEF Shows
<1>14. KeepsWaiting(pending, heard)
  BY <1>6, <1>11, KeepsWaitingOn
<1>15. heard # <<>> <=> rows # <<>>
  BY <1>6, <1>7, <1>9
<1>16. rows # <<>> => rows[1].msg \in ToSet(Messages(heard))
  <2>1. Messages(rows) \in Seq(Message) /\ Len(Messages(rows)) = Len(rows)
        /\ \A i \in 1..Len(rows) : Messages(rows)[i] = rows[i].msg
    <3>1. \A r \in Row : r.msg \in Message
      BY DEF Row
    <3>. QED BY <1>6, <3>1, MessagesFacts
  <2>2. rows # <<>> => 1 \in 1..Len(rows)
    BY <1>6
  <2>3. \A m : m \in ToSet(Messages(rows)) <=> \E i \in 1..Len(Messages(rows)) : Messages(rows)[i] = m
    BY <2>1, ToSetIs
  <2>. QED BY <1>12, <2>1, <2>2, <2>3
<1>17. ASSUME NEW m \in Message
       PROVE  \/ card'[m] = "Taken" /\ (m \in {v.ms[p] : p \in 1..v.k} \/ m \in ToSet(Messages(pending')))
              \/ card'[m] = card[m] /\ m \notin {v.ms[p] : p \in 1..v.k}
  <2>1. says[m] = IF m \in {v.ms[p] : p \in 1..v.k} THEN "Taken" ELSE card[m]
    BY <1>5 DEF Cards
  <2>. HIDE DEF says
  <2>. QED BY <1>1, <1>16, <2>1
<1>. QED BY <1>1, <1>4, <1>13, <1>14, <1>15, <1>17

LEMMA HearsEndedKeeps == ASSUME TypeOK, IInv, TypeOK', HearsEnded PROVE IInv'
<1>1. Hears("ended") /\ UNCHANGED <<held, client, env, commands, taskVars, hookVars>>
  BY DEF HearsEnded
<1>2. PICK v, e : Hearing(v, e) /\ e.is = "ended"
  BY <1>1, HearingIs
<1>3. pending' \in Seq(Row)
  BY DEF TypeOK
<1>4. /\ \A m \in Message : card'[m] = "Taken" \/ card'[m] = card[m]
      /\ Shows(pending', After(v, e)) /\ KeepsWaiting(pending, pending')
      /\ pending # <<>> /\ (stop' <=> stop /\ pending' # <<>>)
  BY <1>2, HearsEndedIs
<1>5. /\ Replays(pending', events', ToSet(taken), NowOf(turn, queue, commands), session)
      /\ ToSet(Messages(pending')) \subseteq ToSet(Messages(pending))
  BY <1>2, <1>3, <1>4, HearingShows
<1>6. \A m \in Message : card[m] # None => card'[m] # None
  <2>1. "Taken" # None
    BY ChatAssumption DEF Settled
  <2>. QED BY <1>4, <2>1
<1>7. session # "none" => (stop' <=> pending' # <<>>)
  BY <1>4 DEF IInv, Stops
<1>. QED BY <1>1, <1>4, <1>5, <1>6, <1>7, HeardKeeps

LEMMA HearsFailedIs ==
  ASSUME TypeOK, TypeOK', HearsFailed, NEW v, NEW e, Hearing(v, e), e.is = "failed"
  PROVE  /\ \E says \in {"Taken", "Refused"} : card' = Cards({v.ms[p] : p \in 1..v.k}, says)
         /\ Shows(pending', After(v, e)) /\ KeepsWaiting(pending, pending')
         /\ pending # <<>> /\ Len(v.ms) = Len(pending) /\ v.k \in 1..Len(pending)
         /\ Len(pending') = Len(pending) - v.k
<1>1. /\ pending' = Rest(pending)
      /\ card' = Cards(Turn(pending), IF env = "moving" THEN "Taken" ELSE "Refused")
  BY DEF HearsFailed
<1>2. e = Head(events) /\ Shows(pending, v) /\ Proper(v) /\ Meant(v, e)
  BY DEF Hearing
<1>3. pending \in Seq(Row) /\ Len(pending) \in Nat
  BY DEF TypeOK
<1>4. pending # <<>> /\ Len(v.ms) = Len(pending)
  <2>1. v.ms # <<>> /\ v.ms = Messages(pending)
    BY <1>2 DEF Meant, Shows
  <2>2. Len(Messages(pending)) = Len(pending) /\ Messages(pending) \in Seq(Message)
    BY <1>3, RowsFacts
  <2>. QED BY <1>3, <2>1, <2>2
<1>5. Turn(pending) = {v.ms[p] : p \in 1..v.k}
  BY <1>2, <1>3, <1>4, TurnIs
<1>6. /\ Shows(Rest(pending), After(v, e)) /\ KeepsWaiting(pending, Rest(pending))
      /\ Len(Rest(pending)) = Len(pending) - v.k
  <2>1. e.is \in {"ended", "failed"}
    OBVIOUS
  <2>. QED BY <1>2, <1>3, <1>4, <2>1, RestShown
<1>7. v.k \in 1..Len(pending)
  BY <1>2, <1>3, <1>4, ShownFacts
<1>. QED BY <1>1, <1>4, <1>5, <1>6, <1>7

LEMMA HearsFailedKeeps == ASSUME TypeOK, IInv, TypeOK', HearsFailed PROVE IInv'
<1>1. /\ Hears("failed") /\ UNCHANGED <<held, client, env, commands, taskVars, hookVars>> /\ stop' = FALSE
  BY DEF HearsFailed
<1>2. PICK v, e : /\ Hearing(v, e) /\ e.is = "failed"
                  /\ session = "none" \/ Len(v.ms) = 1
  BY <1>1, HearingIs
<1>3. pending \in Seq(Row) /\ pending' \in Seq(Row) /\ Len(pending) \in Nat
  BY DEF TypeOK
<1>4. /\ \E says \in {"Taken", "Refused"} : card' = Cards({v.ms[p] : p \in 1..v.k}, says)
      /\ Shows(pending', After(v, e)) /\ KeepsWaiting(pending, pending')
      /\ pending # <<>> /\ Len(v.ms) = Len(pending) /\ v.k \in 1..Len(pending)
      /\ Len(pending') = Len(pending) - v.k
  BY <1>2, HearsFailedIs
<1>5. /\ Replays(pending', events', ToSet(taken), NowOf(turn, queue, commands), session)
      /\ ToSet(Messages(pending')) \subseteq ToSet(Messages(pending))
  BY <1>2, <1>3, <1>4, HearingShows
<1>6. \A m \in Message : card[m] # None => card'[m] # None
  <2>1. {"Taken", "Refused"} \subseteq Waiting \cup Settled
    BY DEF Settled
  <2>. QED BY <1>4, <2>1, SaysSomething
<1>7. session # "none" => pending' = <<>>
  <2>1. session # "none" => Len(pending') = 0
    BY <1>2, <1>3, <1>4
  <2>. QED BY <1>3, <2>1
<1>8. session # "none" => (stop' <=> pending' # <<>>)
  BY <1>1, <1>7
<1>. QED BY <1>1, <1>4, <1>5, <1>6, <1>8, HeardKeeps

\* What waits behind the turn, when the turn is taken off.
LEMMA RestFacts ==
  ASSUME NEW rows \in Seq(Row), Once(Messages(rows))
  PROVE  /\ Rest(rows) \in Seq(Row) /\ Messages(Rest(rows)) \in Seq(Message) /\ Once(Messages(Rest(rows)))
         /\ Messages(Rest(rows)) = SubSeq(Messages(rows), Popped(rows) + 1, Len(Messages(rows)))
         /\ ToSet(Messages(Rest(rows))) \subseteq ToSet(Messages(rows))
         /\ ToSet(Messages(rows)) \subseteq Turn(rows) \cup ToSet(Messages(Rest(rows)))
         /\ Turn(rows) \cap ToSet(Messages(Rest(rows))) = {}
<1>. DEFINE rest == Rest(rows)
            k == Popped(rows)
            ms == Messages(rows)
<1>1. k \in 0..Len(rows) /\ Len(rows) \in Nat
  BY PoppedFacts
<1>2. \A r \in Row : r.msg \in Message
  BY DEF Row
<1>3. ms \in Seq(Message) /\ Len(ms) = Len(rows) /\ \A i \in 1..Len(rows) : ms[i] = rows[i].msg
  BY <1>2, MessagesFacts
<1>4. Turn(rows) = {rows[i].msg : i \in 1..k} /\ rest = SubSeq(rows, k + 1, Len(rows))
  BY DEF Rest, Turn
<1>. HIDE DEF k, rest, ms
<1>5. /\ rest \in Seq(Row) /\ Len(rest) = Len(rows) - k
      /\ \A i \in 1..(Len(rows) - k) : rest[i] = rows[k + i]
  BY <1>1, <1>4, BehindFacts, SMTT(60)
<1>6. /\ SubSeq(ms, k + 1, Len(ms)) \in Seq(Message) /\ Len(SubSeq(ms, k + 1, Len(ms))) = Len(ms) - k
      /\ \A i \in 1..(Len(ms) - k) : SubSeq(ms, k + 1, Len(ms))[i] = ms[k + i]
  BY <1>1, <1>3, BehindFacts, SMTT(60)
<1>7. Messages(rest) \in Seq(Message) /\ Len(Messages(rest)) = Len(rest)
      /\ \A i \in 1..Len(rest) : Messages(rest)[i] = rest[i].msg
  BY <1>2, <1>5, MessagesFacts
<1>8. \A i \in 1..(Len(rows) - k) : Messages(rest)[i] = ms[k + i] /\ k + i \in 1..Len(rows)
  BY <1>1, <1>3, <1>5, <1>7
<1>9. Messages(rest) = SubSeq(ms, k + 1, Len(ms))
  BY <1>1, <1>3, <1>5, <1>6, <1>7, <1>8, SameSeq
<1>10. /\ Once(Messages(rest)) /\ ToSet(Messages(rest)) \subseteq ToSet(ms)
       /\ \A i \in 1..k : ms[i] \notin ToSet(Messages(rest))
  <2>1. k \in 0..Len(ms) /\ Once(ms)
    BY <1>1, <1>3 DEF ms
  <2>. QED BY <1>3, <1>9, <2>1, OnceBehind
<1>11. ASSUME NEW m \in ToSet(ms), m \notin Turn(rows) PROVE m \in ToSet(Messages(rest))
  <2>1. PICK i \in 1..Len(ms) : ms[i] = m
    BY <1>3, ToSetIs
  <2>2. i \notin 1..k
    BY <1>3, <1>4, <1>11, <2>1
  <2>3. i - k \in 1..(Len(rows) - k) /\ k + (i - k) = i
    BY <1>1, <1>3, <2>2
  <2>4. Messages(rest)[i - k] = m
    BY <1>8, <2>1, <2>3
  <2>. QED BY <1>5, <1>7, <2>3, <2>4, ToSetIs
<1>12. Turn(rows) \cap ToSet(Messages(rest)) = {}
  <2>1. \A i \in 1..k : rows[i].msg = ms[i]
    BY <1>1, <1>3
  <2>. QED BY <1>4, <1>10, <2>1
<1>. QED BY <1>5, <1>7, <1>9, <1>10, <1>11, <1>12 DEF ms, rest, k

\* What the pane waits on still when its task is heard to have ended.
Left == IF env = "moving" THEN Messages(Rest(pending)) ELSE Messages(pending)

LEMMA HearsClosedIs ==
  ASSUME TypeOK, IInv, HearsClosed
  PROVE  /\ events # <<>> /\ Head(events).is = "closed" /\ events' = <<>>
         /\ session = "none" /\ commands = <<>> /\ turn = <<>> /\ queue = <<>>
         /\ UNCHANGED <<env, commands, session, turn, queue, hook, taken, ghosts>>
         /\ pending' = <<>> /\ stop' = FALSE /\ client' = FALSE
         /\ Left \in Seq(Message) /\ Once(Left) /\ ToSet(Left) \subseteq ToSet(Messages(pending))
         /\ env # "moving" => Left = Messages(pending)
         /\ env = "moving" => /\ ToSet(Messages(pending)) \subseteq Turn(pending) \cup ToSet(Left)
                              /\ Turn(pending) \cap ToSet(Left) = {}
         /\ held' = Minus(Left, Utility) \o held
         /\ card' = [m \in Message |->
                       CASE m \in (IF env = "moving" THEN Turn(pending) ELSE {}) -> "Taken"
                         [] m \in ToSet(Left) \cap Utility -> "Lost"
                         [] m \in ToSet(Left) \ (ToSet(Left) \cap Utility) -> "Held"
                         [] OTHER -> card[m]]
         /\ ToSet(Messages(pending)) \cap ToSet(taken) = {}
<1>. DEFINE delivered == IF env = "moving" THEN Turn(pending) ELSE {}
            rows == IF env = "moving" THEN Rest(pending) ELSE pending
            left == Messages(rows)
            lost == ToSet(left) \cap Utility
            goes == Messages(Without(rows, Utility))
<1>1. /\ Hears("closed")
      /\ held' = goes \o held
      /\ card' = [m \in Message |->
                    CASE m \in delivered -> "Taken"
                      [] m \in lost -> "Lost"
                      [] m \in ToSet(left) \ lost -> "Held"
                      [] OTHER -> card[m]]
      /\ pending' = <<>> /\ stop' = FALSE /\ client' = FALSE
      /\ UNCHANGED <<env, commands, session, turn, queue, hook, taken, ghosts>>
  BY DEF HearsClosed, taskVars, hookVars
<1>2. /\ pending \in Seq(Row) /\ held \in Seq(Message) /\ taken \in Seq(Message)
      /\ events \in Seq(Event) /\ events # <<>> /\ events' = Tail(events) /\ Head(events).is = "closed"
  BY <1>1 DEF TypeOK, Hears
<1>3. Head(events) = events[1] /\ 1 \in 1..Len(events) /\ Len(events) \in Nat
      /\ Tail(events) \in Seq(Event) /\ Len(Tail(events)) = Len(events) - 1
  BY <1>2, TailAt, SMTT(60)
<1>4. Len(events) = 1 /\ Closing /\ client
  BY <1>2, <1>3 DEF IInv, Life, Closing
<1>5. events' = <<>>
  <2>1. Len(Tail(events)) = 0
    BY <1>3, <1>4
  <2>2. Tail(events) = <<>>
    <3>. DEFINE rest == Tail(events)
    <3>1. rest \in Seq(Event) /\ Len(rest) = 0
      BY <1>3, <2>1
    <3>. HIDE DEF rest
    <3>2. rest = <<>>
      BY <3>1
    <3>. QED BY <3>2 DEF rest
  <2>. QED BY <1>2, <2>2
<1>6. session = "none" /\ commands = <<>> /\ turn = <<>> /\ queue = <<>>
  BY <1>4 DEF IInv, Life
<1>7. /\ Once(Messages(pending)) /\ Messages(pending) \in Seq(Message)
      /\ Len(Messages(pending)) = Len(pending) /\ Len(pending) \in Nat
      /\ \A i \in 1..Len(pending) : Messages(pending)[i] = pending[i].msg
  <2>1. Once(Messages(pending)) /\ Messages(pending) \in Seq(Message)
    BY InvFacts
  <2>2. \A r \in Row : r.msg \in Message
    BY DEF Row
  <2>. QED BY <1>2, <2>1, <2>2, MessagesFacts
<1>8. ToSet(Messages(pending)) \cap ToSet(taken) = {}
  <2>1. \A i \in 1..Len(events) : events[i].is # "taken"
    BY <1>2, <1>3, <1>4
  <2>2. Replays(pending, events, ToSet(taken), NowOf(turn, queue, commands), session)
    BY Prepared
  <2>. QED BY <1>2, <2>1, <2>2, ReplaysFacts
<1>9. /\ rows \in Seq(Row) /\ left = Left /\ left \in Seq(Message) /\ Once(left)
      /\ ToSet(left) \subseteq ToSet(Messages(pending))
      /\ env = "moving" => /\ ToSet(Messages(pending)) \subseteq Turn(pending) \cup ToSet(left)
                           /\ Turn(pending) \cap ToSet(left) = {}
  <2>1. CASE env # "moving"
    BY <1>2, <1>7, <2>1 DEF Left
  <2>2. CASE env = "moving"
    <3>1. rows = Rest(pending) /\ Left = Messages(Rest(pending))
      BY <2>2 DEF Left
    <3>. HIDE DEF rows
    <3>. QED BY <1>2, <1>7, <3>1, RestFacts
  <2>. QED BY <2>1, <2>2
<1>10. goes = Minus(Left, Utility)
  <2>1. \A r \in Row : r.msg \in Message
    BY DEF Row
  <2>. HIDE DEF rows
  <2>2. rows \in Seq(Row) /\ Messages(rows) = Left
    BY <1>9
  <2>. QED BY <2>1, <2>2, MessagesWithout
<1>. HIDE DEF rows, goes, left
<1>11. env # "moving" => Left = Messages(pending)
  BY DEF Left
<1>12. held' = Minus(Left, Utility) \o held
  BY <1>1, <1>10
<1>13. card' = [m \in Message |->
                  CASE m \in delivered -> "Taken"
                    [] m \in ToSet(Left) \cap Utility -> "Lost"
                    [] m \in ToSet(Left) \ (ToSet(Left) \cap Utility) -> "Held"
                    [] OTHER -> card[m]]
  <2>1. left = Left
    BY <1>9
  <2>. QED BY <1>1, <2>1
<1>14. /\ Left \in Seq(Message) /\ Once(Left) /\ ToSet(Left) \subseteq ToSet(Messages(pending))
       /\ env = "moving" => /\ ToSet(Messages(pending)) \subseteq Turn(pending) \cup ToSet(Left)
                            /\ Turn(pending) \cap ToSet(Left) = {}
  BY <1>9
<1>15. /\ UNCHANGED <<env, commands, session, turn, queue, hook, taken, ghosts>>
       /\ pending' = <<>> /\ stop' = FALSE /\ client' = FALSE
  BY <1>1
<1>16. events # <<>> /\ Head(events).is = "closed"
  BY <1>2
<1>. QED BY <1>5, <1>6, <1>8, <1>11, <1>12, <1>13, <1>14, <1>15, <1>16

LEMMA HearsClosedKeeps == ASSUME TypeOK, IInv, TypeOK', HearsClosed PROVE IInv'
<1>. DEFINE goes == Minus(Left, Utility)
<1>1. /\ events # <<>> /\ Head(events).is = "closed" /\ events' = <<>>
      /\ session = "none" /\ commands = <<>> /\ turn = <<>> /\ queue = <<>>
      /\ UNCHANGED <<env, commands, session, turn, queue, hook, taken, ghosts>>
      /\ pending' = <<>> /\ stop' = FALSE /\ client' = FALSE
      /\ Left \in Seq(Message) /\ Once(Left) /\ ToSet(Left) \subseteq ToSet(Messages(pending))
      /\ held' = goes \o held
      /\ ToSet(Messages(pending)) \cap ToSet(taken) = {}
  BY HearsClosedIs
<1>2. \A m \in Message : card'[m] \in {"Taken", "Lost", "Held", card[m]}
  <2>1. card' = [m \in Message |->
                   CASE m \in (IF env = "moving" THEN Turn(pending) ELSE {}) -> "Taken"
                     [] m \in ToSet(Left) \cap Utility -> "Lost"
                     [] m \in ToSet(Left) \ (ToSet(Left) \cap Utility) -> "Held"
                     [] OTHER -> card[m]]
    BY HearsClosedIs
  <2>. QED BY <2>1
<1>3. held \in Seq(Message) /\ taken \in Seq(Message)
  BY DEF TypeOK
<1>4. goes \in Seq(Message) /\ Once(goes) /\ ToSet(goes) \subseteq ToSet(Left)
  BY <1>1, MinusFacts
<1>. HIDE DEF goes
<1>5. /\ Once(held) /\ Once(taken)
      /\ ToSet(Messages(pending)) \cap ToSet(held) = {} /\ ToSet(held) \cap ToSet(taken) = {}
      /\ \A m \in ToSet(Messages(pending)) \cup ToSet(held) \cup ToSet(taken) : card[m] # None
  BY DEF IInv, Apart
<1>6. Once(goes \o held) /\ ToSet(goes \o held) = ToSet(goes) \cup ToSet(held)
  <2>1. ToSet(goes) \cap ToSet(held) = {}
    BY <1>1, <1>4, <1>5
  <2>2. ToSet(goes \o held) = ToSet(goes) \cup ToSet(held)
    BY <1>3, <1>4, ToSetConcat, SMTT(60)
  <2>. QED BY <1>3, <1>4, <1>5, <2>1, <2>2, OnceConcat
<1>7. \A m \in Message : card[m] # None => card'[m] # None
  <2>1. "Taken" # None /\ "Lost" # None /\ "Held" # None
    BY ChatAssumption DEF Settled, Waiting
  <2>. QED BY <1>2, <2>1
<1>8. Matched'
  <2>1. Replays(<<>>, <<>>, ToSet(taken), NowOf(<<>>, <<>>, <<>>), session)
    BY NothingMatches
  <2>. QED BY <1>1, <2>1 DEF Matched
<1>9. Len(<<>>) = 0 /\ 1..0 = {}
  OBVIOUS
<1>10. Life'
  BY <1>1, <1>9 DEF Life
<1>11. Stops'
  BY <1>1 DEF Stops
<1>12. Apart'
  <2>1. ToSet(Messages(<<>>)) = {}
    BY DEF ToSet, Messages
  <2>2. \A m \in ToSet(goes) \cup ToSet(held) \cup ToSet(taken) : m \in Message /\ card[m] # None
    <3>1. ToSet(goes) \subseteq Message /\ ToSet(held) \subseteq Message /\ ToSet(taken) \subseteq Message
      BY <1>3, <1>4, ToSetType
    <3>. QED BY <1>1, <1>4, <1>5, <3>1
  <2>3. (ToSet(goes) \cup ToSet(held)) \cap ToSet(taken) = {}
    BY <1>1, <1>4, <1>5
  <2>. QED BY <1>1, <1>5, <1>6, <1>7, <2>1, <2>2, <2>3 DEF Apart
<1>13. Hooked' /\ Named'
  BY <1>1 DEF IInv, Hooked, Named
<1>14. Drops'
  BY <1>1, <1>9 DEF IInv, Drops
<1>15. Waits'
  BY <1>1, <1>9 DEF Waits
<1>. QED BY <1>8, <1>10, <1>11, <1>12, <1>13, <1>14, <1>15 DEF IInv

-----------------------------------------------------------------------------
(* The theorems.                                                           *)

LEMMA HearsKeeps == ASSUME TypeOK, IInv, TypeOK', HearsAny PROVE IInv'
<1>1. ASSUME HearsGone("withdrawn", "NotSent") PROVE IInv'
  BY <1>1, HearsGoneKeeps
<1>2. ASSUME HearsGone("taken", "WithinTurn") PROVE IInv'
  BY <1>2, HearsGoneKeeps
<1>. QED BY <1>1, <1>2, HearsReadyKeeps, HearsEndedKeeps, HearsFailedKeeps, HearsJoinedKeeps,
            HearsDroppedKeeps, HearsClosedKeeps DEF HearsAny

LEMMA InitHolds == Init => IInv
<1>. SUFFICES ASSUME Init PROVE IInv
  OBVIOUS
<1>1. /\ pending = <<>> /\ held = <<>> /\ taken = <<>> /\ commands = <<>> /\ events = <<>>
      /\ turn = <<>> /\ queue = <<>> /\ session = "none" /\ ~client /\ ~stop /\ hook = "none"
  BY DEF Init
<1>2. Len(<<>>) = 0 /\ 1..0 = {} /\ 2..0 = {} /\ DOMAIN <<>> = {}
  OBVIOUS
<1>3. Matched
  BY <1>1, NothingMatches DEF Matched
<1>4. Life /\ Stops
  BY <1>1, <1>2 DEF Life, Stops, Closing
<1>5. Apart
  <2>1. ToSet(Messages(<<>>)) = {} /\ ToSet(<<>>) = {}
    BY <1>2 DEF ToSet, Messages
  <2>2. Once(<<>>)
    BY <1>2 DEF Once
  <2>. QED BY <1>1, <2>1, <2>2 DEF Apart
<1>6. Hooked /\ Drops
  BY <1>1, <1>2 DEF Hooked, Asking, Drops, Cancelling
<1>7. Named /\ Waits
  BY <1>1, <1>2 DEF Named, Expediting, Waits
<1>. QED BY <1>3, <1>4, <1>5, <1>6, <1>7 DEF IInv

\* No step gives what was spent back.
LEMMA NoSlipKeeps == ASSUME TypeOK, NoSlip, [Next]_vars PROVE NoSlip'
<1>1. budget \in [Kind -> Nat]
  BY DEF TypeOK
<1>2. ASSUME NEW kinds, Spends(kinds) PROVE NoSlip'
  BY <1>1, <1>2, NothingSlips
<1>3. ASSUME UNCHANGED budget PROVE NoSlip'
  BY <1>3 DEF NoSlip
<1>4. ASSUME NEW m \in Message,
             Send(m) \/ RequestText(m) \/ Withdraws(m) \/ Expedites(m) \/ GoesFirst(m)
      PROVE  NoSlip'
  <2>1. CASE Expedites(m)
    BY <1>2, <2>1 DEF Expedites
  <2>. QED BY <1>2, <1>4, <2>1 DEF Send, RequestText, Withdraws, GoesFirst
<1>5. ASSUME StopsAll \/ Replaces \/ Asks \/ GivesBack \/ TurnFails \/ EnvSettles PROVE NoSlip'
  <2>1. CASE GivesBack
    BY <1>2, <2>1 DEF GivesBack
  <2>. QED BY <1>2, <1>5, <2>1 DEF StopsAll, Replaces, Asks, TurnFails, EnvSettles
<1>6. ASSUME Reads \/ Readies \/ TakesNext \/ Receives \/ Serves \/ TurnEnds \/ HearsAny \/ Reconnects
      PROVE  NoSlip'
  <2>1. CASE HearsAny
    BY <1>3, <2>1 DEF HearsAny, HearsReady, HearsEnded, HearsFailed, HearsJoined, HearsDropped,
                      HearsClosed, HearsGone, ghosts
  <2>. QED BY <1>3, <1>6, <2>1 DEF Reads, Readies, TakesNext, Receives, Serves, TurnEnds, Reconnects, ghosts
<1>7. ASSUME NEW failed \in BOOLEAN, Dies(failed) \/ EnvMoves(failed) PROVE NoSlip'
  BY <1>2, <1>7 DEF Dies, EnvMoves
<1>8. ASSUME UNCHANGED vars PROVE NoSlip'
  BY <1>3, <1>8 DEF vars
<1>. QED BY <1>4, <1>5, <1>6, <1>7, <1>8 DEF Next

LEMMA StepKeeps == ASSUME TypeOK, TypeOK', IInv, NoSlip, [Next]_vars PROVE IInv'
<1>1. ASSUME NEW m \in Message,
             Send(m) \/ RequestText(m) \/ Withdraws(m) \/ Expedites(m) \/ GoesFirst(m)
      PROVE  IInv'
  BY <1>1, SendKeeps, RequestTextKeeps, WithdrawsKeeps, ExpeditesKeeps, GoesFirstKeeps
<1>2. ASSUME StopsAll \/ Replaces \/ Asks \/ Reads \/ GivesBack PROVE IInv'
  BY <1>2, StopsAllKeeps, ReplacesKeeps, AsksKeeps, ReadsKeeps, GivesBackKeeps
<1>3. ASSUME Readies \/ TakesNext \/ Receives \/ Serves \/ TurnEnds \/ TurnFails PROVE IInv'
  BY <1>3, ReadiesKeeps, TakesNextKeeps, ReceivesKeeps, ServesKeeps, TurnEndsKeeps, TurnFailsKeeps
<1>4. ASSUME NEW failed \in BOOLEAN, Dies(failed) \/ EnvMoves(failed) PROVE IInv'
  BY <1>4, DiesKeeps, EnvMovesKeeps
<1>5. ASSUME EnvSettles \/ HearsAny \/ Reconnects PROVE IInv'
  BY <1>5, EnvSettlesKeeps, HearsKeeps, ReconnectsKeeps
<1>6. ASSUME UNCHANGED vars PROVE IInv'
  <2>1. UNCHANGED <<pending, held, card, stop, client, env, commands, events, session, turn, queue, hook, taken>>
    BY <1>6 DEF vars, paneVars, taskVars, hookVars
  <2>2. Matched' /\ Life' /\ Stops' /\ Apart'
    BY <2>1 DEF IInv, Matched, Life, Closing, Stops, Apart
  <2>3. Hooked' /\ Named' /\ Waits' /\ Drops'
    BY <2>1 DEF IInv, Hooked, Named, Waits, Drops
  <2>. QED BY <2>2, <2>3 DEF IInv
<1>. QED BY <1>1, <1>2, <1>3, <1>4, <1>5, <1>6 DEF Next

\* When all is told and heard, the pane's copy is what the agent is on and
\* what waits behind it, in that order; what is marked as gone out with the
\* front did; and nothing in it is held as well, or stands in it twice.
CopyIsTrue ==
    /\ commands = <<>> /\ events = <<>> =>
          /\ Messages(pending) = turn \o Messages(queue)
          /\ \A i \in 1..Len(pending) : pending[i].joined <=> i \in 2..Len(turn)
    /\ \A i, j \in 1..Len(pending) : pending[i].msg = pending[j].msg => i = j
    /\ ToSet(Messages(pending)) \cap ToSet(held) = {}

LEMMA AllHeard == ASSUME TypeOK, IInv PROVE CopyIsTrue
<1>1. turn \in Seq(Message) /\ queue \in Seq(Entry) /\ commands \in Seq(Command) /\ pending \in Seq(Row)
  BY DEF TypeOK
<1>2. ASSUME commands = <<>>, events = <<>>
      PROVE  /\ Messages(pending) = turn \o Messages(queue)
             /\ \A i \in 1..Len(pending) : pending[i].joined <=> i \in 2..Len(turn)
  <2>1. Shows(pending, NowOf(turn, queue, commands))
    BY <1>2, InvFacts
  <2>2. AskedOf(commands) = <<>>
    <3>1. \A i \in 1..Len(commands) : commands[i].do # "prompt"
      BY <1>2
    <3>. QED BY <1>1, <3>1, AskedNone
  <2>3. /\ NowOf(turn, queue, commands).ms = (turn \o Messages(queue)) \o AskedOf(commands)
        /\ NowOf(turn, queue, commands).k = IF turn = <<>> THEN 1 ELSE Len(turn)
        /\ Messages(queue) \in Seq(Message)
    BY <1>1, NowFacts
  <2>4. (turn \o Messages(queue)) \o <<>> = turn \o Messages(queue)
    <3>. DEFINE ms == turn \o Messages(queue)
    <3>1. ms \in Seq(Message)
      BY <1>1, <2>3
    <3>. HIDE DEF ms
    <3>2. ms \o <<>> = ms
      BY <3>1
    <3>. QED BY <3>2 DEF ms
  <2>5. turn = <<>> => 2..Len(turn) = {} /\ 2..1 = {}
    OBVIOUS
  <2>6. Messages(pending) = turn \o Messages(queue)
    BY <2>1, <2>2, <2>3, <2>4 DEF Shows
  <2>7. \A i \in 1..Len(pending) : pending[i].joined <=> i \in 2..Len(turn)
    BY <2>1, <2>3, <2>5 DEF Shows
  <2>. QED BY <2>6, <2>7
<1>3. \A i, j \in 1..Len(pending) : pending[i].msg = pending[j].msg => i = j
  <2>1. Once(Messages(pending)) /\ Messages(pending) \in Seq(Message)
    BY InvFacts
  <2>2. \A r \in Row : r.msg \in Message
    BY DEF Row
  <2>3. /\ Len(Messages(pending)) = Len(pending)
        /\ \A i \in 1..Len(pending) : Messages(pending)[i] = pending[i].msg
    BY <1>1, <2>2, MessagesFacts
  <2>4. DOMAIN Messages(pending) = 1..Len(pending)
    BY <2>1, <2>3
  <2>. QED BY <2>1, <2>3, <2>4 DEF Once
<1>4. ToSet(Messages(pending)) \cap ToSet(held) = {}
  BY DEF IInv, Apart
<1>. QED BY <1>2, <1>3, <1>4 DEF CopyIsTrue

\* So Stop is offered exactly while the agent has something to do.
LEMMA AllOffered == ASSUME TypeOK, IInv PROVE StopTells
<1>. SUFFICES ASSUME client, session = "serving", commands = <<>>, events = <<>>
              PROVE  stop <=> turn # <<>> \/ queue # <<>>
  BY DEF StopTells
<1>1. Shows(pending, NowOf(turn, queue, commands))
  BY InvFacts
<1>2. turn \in Seq(Message) /\ queue \in Seq(Entry) /\ commands \in Seq(Command) /\ pending \in Seq(Row)
  BY DEF TypeOK
<1>3. /\ Len(NowOf(turn, queue, commands).ms) = Len(turn) + Len(queue) + Len(AskedOf(commands))
      /\ Len(turn) \in Nat /\ Len(queue) \in Nat
  BY <1>2, NowPlaces
<1>4. AskedOf(commands) = <<>>
  <2>1. \A i \in 1..Len(commands) : commands[i].do # "prompt"
    OBVIOUS
  <2>. QED BY <1>2, <2>1, AskedNone
<1>5. Len(AskedOf(commands)) = 0
  BY <1>4
<1>6. Len(pending) = Len(turn) + Len(queue)
  <2>1. Messages(pending) = NowOf(turn, queue, commands).ms
    BY <1>1 DEF Shows
  <2>2. Len(Messages(pending)) = Len(pending)
    BY <1>2, RowsFacts
  <2>. QED BY <1>3, <1>5, <2>1, <2>2
<1>7. pending # <<>> <=> turn # <<>> \/ queue # <<>>
  <2>1. /\ Len(turn) = 0 <=> turn = <<>>
        /\ Len(queue) = 0 <=> queue = <<>>
        /\ Len(pending) = 0 <=> pending = <<>>
    BY <1>2
  <2>. QED BY <1>3, <1>6, <2>1
<1>. QED BY <1>7 DEF IInv, Stops

\* However commands and events cross, when all is told and heard the pane
\* offers Stop exactly while the agent has something to do.
THEOREM StopIsOffered == ASSUME Budget["slip"] = 0 PROVE Spec => []StopTells
<1>. DEFINE Inv == IInv /\ NoSlip
<1>1. Init => Inv
  <2>1. Init => NoSlip
    BY DEF Init, NoSlip
  <2>. QED BY <2>1, InitHolds
<1>2. TypeOK /\ TypeOK' /\ Inv /\ [Next]_vars => Inv'
  BY StepKeeps, NoSlipKeeps
<1>3. TypeOK /\ Inv => StopTells
  BY AllOffered
<1>. HIDE DEF Inv
<1>. QED BY <1>1, <1>2, <1>3, TypeCorrect, PTL DEF Spec

\* However they cross, the pane's copy of the session's queue comes true, in
\* its order, and no message is ever waited on twice.
THEOREM CopyComesTrue == ASSUME Budget["slip"] = 0 PROVE Spec => []CopyIsTrue
<1>. DEFINE Inv == IInv /\ NoSlip
<1>1. Init => Inv
  <2>1. Init => NoSlip
    BY DEF Init, NoSlip
  <2>. QED BY <2>1, InitHolds
<1>2. TypeOK /\ TypeOK' /\ Inv /\ [Next]_vars => Inv'
  BY StepKeeps, NoSlipKeeps
<1>3. TypeOK /\ Inv => CopyIsTrue
  BY AllHeard
<1>. HIDE DEF Inv
<1>. QED BY <1>1, <1>2, <1>3, TypeCorrect, PTL DEF Spec
=============================================================================
