--------------------------- MODULE PositionProofs ----------------------------
(***************************************************************************)
(* What is proved of module Position, for every set of branches and ids    *)
(* and every budget: its types; that no commit is lost which nobody        *)
(* dropped; and that what is recorded as agreed was in Personal.           *)
(*                                                                         *)
(* The strengthening follows each commit through the pass: what the fetch, *)
(* the record, the scripts and the mirror hold of a branch is still, but   *)
(* for what somebody gave, in the checkout's copy of it.                   *)
(***************************************************************************)
EXTENDS Position, TLAPS

Reach(s) == {i \in Id : \E b \in Branch : i \in tip[s][b]}

\* What no move of the checkout's HEAD takes away.
Held == CommitAt(Folder) \cup Reach(Folder) \cup Reach(Checkout)

\* The commit of a detached HEAD.
Loose(h) == IF h \in Branch \cup {None} THEN {} ELSE h

\* The fetched branches, and those the IDE alone moves in the folder.
FetchedKept == \A b \in Branch : fetched[b] \subseteq tip[Checkout][b] \cup given
IdesKept ==
    \A b \in Branch : mover[b] = "ide" \/ b \in Published =>
        Mine(b) \subseteq tip[Checkout][b] \cup given

\* What is recorded of a branch, or of a detached HEAD.
RecordedKept ==
    \A b \in Branch : recorded.head = b =>
        \A s \in Side : recorded.tip \subseteq tip[s][b] \cup given
RecordedHeadKept == Loose(recorded.head) \subseteq Held \cup given

\* And the fetch, later than the record, has it.
RecordedFetched ==
    \/ pc \in {"branches", "staged", "checked", "switching", "switched", "mirroring"}
    \/ pc = "settle" /\ ~unsettled
    => \A b \in Branch : recorded.head = b => recorded.tip \subseteq fetched[b] \cup given

\* A branch on its way into the checkout.
StagedKept ==
    pc \in {"staged", "checked"} =>
        /\ push.to \in Branch /\ push.commit \in Commit
        /\ push.expect \subseteq push.commit \cup given
CheckedKept ==
    pc = "checked" =>
        /\ tip[Checkout][push.to] \subseteq push.commit \cup given
        /\ head[Checkout] = push.here \/ CommitAt(Checkout) \subseteq given

\* A switch on its way there.
SwitchBegun ==
    pc = "switching" =>
        /\ push.here = there /\ there = recorded.head
        /\ push.to \in Branch => Mine(push.to) \subseteq push.commit \cup given
        /\ push.to \notin Branch => push.commit = push.to
        /\ \/ head[Folder] \in Branch
           \/ head[Folder] = push.to
           \/ head[Folder] \subseteq given
SwitchDone ==
    pc = "switched" =>
        (push.to \in Branch => Mine(push.to) \subseteq tip[Checkout][push.to] \cup given)
SwitchKept ==
    pc \in {"switching", "switched"} =>
        /\ IsHead(push.to)
        /\ push.to \notin Branch => push.to \subseteq Held \cup given

\* The position the mirror brings the folder to.
MirrorKept ==
    pc \in {"mirroring", "placed"} =>
        /\ IsHead(follow)
        /\ follow \in Branch => Mine(follow) \subseteq tip[Checkout][follow] \cup given
        /\ follow \notin Branch /\ pc = "mirroring" => pinned = follow
        /\ follow \notin Branch /\ pc = "placed" => follow \subseteq Held \cup given

\* The checkout's HEAD as this pass knows it, when no branch holds it.
Anchor ==
    CASE pc \in {"idle", "looked"} -> CommitAt(Checkout)
      [] pc \in {"headed", "branches", "staged", "checked", "switching"} -> Loose(there)
      [] pc = "switched" -> Loose(push.to)
      [] pc \in {"settle", "mirroring", "placed"} -> Loose(follow)

AnchorKept == Anchor \subseteq CommitAt(Checkout) \cup Reach(Checkout) \cup given
FolderHeadKept ==
    head[Folder] \notin Branch => head[Folder] \subseteq Reach(Checkout) \cup Anchor \cup given

\* Ids, of what is in the checkout and of what is anywhere.
KnownKept == CommitAt(Checkout) \cup Reach(Checkout) \subseteq known
BornKept == born \subseteq Held \cup CommitAt(Checkout) \cup given

BranchesKept == FetchedKept /\ IdesKept /\ RecordedKept /\ RecordedHeadKept /\ RecordedFetched
PushesKept == StagedKept /\ CheckedKept /\ SwitchBegun /\ SwitchDone /\ SwitchKept
HeadsKept == MirrorKept /\ AnchorKept /\ FolderHeadKept
IdsKept == KnownKept /\ BornKept /\ AgreedWasShared

IInv == TypeOK /\ BranchesKept /\ PushesKept /\ HeadsKept /\ IdsKept

-----------------------------------------------------------------------------
(* Types.                                                                  *)

\* Personal begun from the folder is in order.
LEMMA InitType == Init => TypeOK
  <1>. SUFFICES ASSUME Init PROVE TypeOK
    OBVIOUS
  <1>1. PICK b \in Branch, root \in Id, unborn \in BOOLEAN :
          LET none == [c \in Branch |-> {}]
              only == [none EXCEPT ![b] = {root}]
          IN /\ tip = [s \in Side |-> IF s = Folder /\ unborn THEN none ELSE only]
             /\ head = [s \in Side |-> b]
             /\ recorded \in {NoRecord} \cup
                    (IF unborn THEN {} ELSE {[head |-> b, tip |-> {root}]})
             /\ born = {root}
             /\ known = {root}
    BY DEF Init
  <1>2. tip \in [Side -> [Branch -> History]]
    BY <1>1 DEF History
  <1>3. recorded.head \in {None, b} /\ recorded.tip \in History
    BY <1>1 DEF NoRecord, History
  <1>4. head \in [Side -> Branch]
    BY <1>1
  <1>5. op \in [Side -> Branch \cup {None}] /\ mover \in [Branch -> {"ide", "user"}]
        /\ fetched \in [Branch -> History]
    BY DEF Init, History
  <1>6. born \subseteq Id /\ known \subseteq Id /\ given \subseteq Id
    BY <1>1 DEF Init
  <1>7. /\ push.to = None /\ push.here = None /\ push.commit = {} /\ push.expect = {}
        /\ DOMAIN push = {"to", "commit", "expect", "here"}
    BY DEF Init, NoPush
  <1>8. budget \in [Kind -> Nat]
    BY PositionAssumption DEF Init
  <1>. QED
    BY <1>2, <1>3, <1>4, <1>5, <1>6, <1>7, <1>8 DEF Init, TypeOK, IsHead, MayBeHead, History

\* Spending from a budget leaves a budget.
LEMMA SpendKept ==
  ASSUME NEW kind \in Kind, budget \in [Kind -> Nat], Spend(kind)
  PROVE  budget' \in [Kind -> Nat]
  BY DEF Spend

\* A side's HEAD names a set of ids.
LEMMA CommitType ==
  ASSUME TypeOK, NEW s \in Side
  PROVE  CommitAt(s) \in History
  BY DEF TypeOK, CommitAt, CommitOf, IsHead, Commit, History

\* An act that leaves a side at a HEAD.
LEMMA ActType ==
  ASSUME TypeOK, NEW s \in Side, NEW tips \in [Branch -> History], NEW h, IsHead(h),
         NEW b \in Branch \cup {None}, NEW made \in SUBSET Id, NEW dropped \in SUBSET Id,
         Act(s, tips, h, b, made, dropped)
  PROVE  TypeOK'
  <1>1. budget' \in [Kind -> Nat]
    BY SpendKept DEF Act, Kind, TypeOK
  <1>2. Risked(s, IF h \in Branch THEN tips[h] ELSE h, h) \subseteq Id
    BY DEF Risked, IsHead, Commit, History
  <1>3. /\ tip' \in [Side -> [Branch -> History]]
        /\ DOMAIN head' = Side /\ \A t \in Side : IsHead(head'[t])
        /\ op' \in [Side -> Branch \cup {None}]
    BY DEF Act, TypeOK
  <1>4. mover' \in [Branch -> {"ide", "user"}]
    BY DEF Act, TypeOK
  <1>5. born' \subseteq Id /\ given' \subseteq Id /\ known' \subseteq Id
    BY <1>2 DEF Act, TypeOK
  <1>. QED
    BY <1>1, <1>3, <1>4, <1>5 DEF Act, TypeOK, passVars, IsHead, MayBeHead

\* Whoever acts, on either side, keeps the types.
LEMMA ActorsType == TypeOK /\ Actors => TypeOK'
  <1>. SUFFICES ASSUME TypeOK, NEW s \in Side,
                       \/ \E c \in Id : Commits(s, c) \/ RebaseEnds(s, c)
                       \/ \E c, d \in Id : Amends(s, d, c)
                       \/ \E d \in Id : RebaseBegins(s, d)
                       \/ \E h \in Branch \cup {CommitAt(s)} : Switches(s, h)
                PROVE  TypeOK'
    BY DEF Actors
  <1>. USE CommitType, PositionAssumption
  <1>0. /\ tip[s] \in [Branch -> History] /\ IsHead(head[s])
        /\ CommitAt(s) \subseteq Id /\ \A b \in Branch : tip[s][b] \subseteq Id
    BY DEF TypeOK, History
  <1>1. ASSUME NEW c \in Id, Commits(s, c) PROVE TypeOK'
    <2>1. CommitAt(s) \cup {c} \in Commit
      BY <1>0 DEF Commit, History
    <2>. DEFINE grown == CommitAt(s) \cup {c}
                tips == [tip[s] EXCEPT ![head[s]] = grown]
    <2>2. tips \in [Branch -> History]
      BY <1>0, <2>1 DEF Commit
    <2>3. CASE head[s] \in Branch
      <3>1. Act(s, tips, head[s], None, {c}, {})
        BY <1>1, <2>3 DEF Commits
      <3>. HIDE DEF tips
      <3>. QED BY <1>0, <2>2, <3>1, ActType
    <2>4. CASE head[s] \notin Branch
      <3>1. Act(s, tip[s], grown, None, {c}, {})
        BY <1>1, <2>4 DEF Commits
      <3>2. IsHead(grown)
        BY <2>1 DEF IsHead
      <3>. HIDE DEF grown
      <3>. QED BY <1>0, <3>1, <3>2, ActType
    <2>. QED BY <2>3, <2>4
  <1>2. ASSUME NEW c \in Id, RebaseEnds(s, c) PROVE TypeOK'
    <2>1. op[s] \in Branch
      BY <1>2 DEF RebaseEnds, TypeOK
    <2>. DEFINE rebased == CommitAt(s) \cup {c}
                tips == [tip[s] EXCEPT ![op[s]] = rebased]
                dropped == tip[s][op[s]] \ rebased
    <2>2. tips \in [Branch -> History] /\ dropped \subseteq Id
      BY <1>0, <2>1 DEF History
    <2>3. Act(s, tips, op[s], None, {c}, dropped)
      BY <1>2 DEF RebaseEnds
    <2>4. IsHead(op[s])
      BY <2>1 DEF IsHead
    <2>. HIDE DEF tips, dropped
    <2>. QED BY <2>2, <2>3, <2>4, ActType
  <1>3. ASSUME NEW c \in Id, NEW d \in Id, Amends(s, d, c) PROVE TypeOK'
    <2>. DEFINE tips == [tip[s] EXCEPT ![head[s]] = (@ \ {d}) \cup {c}]
    <2>1. tips \in [Branch -> History]
      BY <1>0 DEF History
    <2>2. Act(s, tips, head[s], None, {c}, {d})
      BY <1>3 DEF Amends
    <2>. HIDE DEF tips
    <2>. QED BY <1>0, <2>1, <2>2, ActType
  <1>4. ASSUME NEW d \in Id, RebaseBegins(s, d) PROVE TypeOK'
    <2>1. IsHead(tip[s][head[s]] \ {d})
      BY <1>0, <1>4 DEF RebaseBegins, IsHead, Commit, History
    <2>. QED BY <1>0, <1>4, <2>1, ActType DEF RebaseBegins
  <1>5. ASSUME NEW h \in Branch \cup {CommitAt(s)}, Switches(s, h) PROVE TypeOK'
    <2>1. IsHead(h)
      BY <1>5 DEF Switches, IsHead, Commit
    <2>2. [tip[s] EXCEPT ![h] = CommitAt(s)] \in [Branch -> History]
      BY <1>0 DEF History
    <2>. DEFINE tips == IF h \in Branch /\ tip[s][h] = {}
                        THEN [tip[s] EXCEPT ![h] = CommitAt(s)] ELSE tip[s]
                left == CommitAt(s) \ (CommitOf(s, h) \cup UNION {tips[b] : b \in Branch})
    <2>3. tips \in [Branch -> History] /\ left \subseteq Id
      BY <1>0, <2>2
    <2>4. Act(s, tips, h, None, {}, left)
      BY <1>5 DEF Switches
    <2>. HIDE DEF tips, left
    <2>. QED BY <2>1, <2>3, <2>4, ActType
  <1>. QED BY <1>1, <1>2, <1>3, <1>4, <1>5

PushType ==
    /\ DOMAIN push = {"to", "commit", "expect", "here"}
    /\ MayBeHead(push.to) /\ MayBeHead(push.here)
    /\ push.commit \in History /\ push.expect \in History

\* Nothing pushed is in order.
LEMMA NoPushType == push' = NoPush => PushType'
  BY DEF NoPush, PushType, MayBeHead, History

\* Each step of the pass keeps the types.
LEMMA PassType == TypeOK /\ PushesKept /\ MirrorKept /\ (Pass \/ Stop) => TypeOK'
  <1>. SUFFICES ASSUME TypeOK, PushesKept, MirrorKept, Pass \/ Stop PROVE TypeOK'
    OBVIOUS
  <1>. USE PositionAssumption, NoPushType DEF passVars, sideVars, ghosts, Goes, Ends, Says, Stays
  <1>0. /\ \A s \in Side : IsHead(head[s]) /\ CommitAt(s) \in History
        /\ \A s \in Side, b \in Branch : tip[s][b] \in History
        /\ PushType
    BY CommitType DEF TypeOK, PushType
  <1>1. CASE StandDown BY <1>1 DEF StandDown, TypeOK
  <1>2. CASE Look BY <1>0, <1>2 DEF Look, TypeOK, MayBeHead, Side
  <1>3. CASE ReadHead BY <1>0, <1>3 DEF ReadHead, TypeOK, MayBeHead, Side
  <1>4. CASE Fetch BY <1>0, <1>4 DEF Fetch, TypeOK, Side
  <1>5. ASSUME NEW b \in Branch, Decides(b) PROVE TypeOK'
    <2>1. /\ tip' \in [Side -> [Branch -> History]] /\ mover' \in [Branch -> {"ide", "user"}]
          /\ head' = head /\ op' = op
      BY <1>5 DEF Decides, DecidesElsewhere, DecidesCurrent, FolderMoves, Theirs, TypeOK, Side
    <2>2. unsettled' \in BOOLEAN
      BY <1>5 DEF Decides, DecidesElsewhere, DecidesCurrent, TypeOK
    <2>3. note' \in BOOLEAN
      BY <1>5 DEF Decides, DecidesElsewhere, DecidesCurrent, TypeOK
    <2>. QED BY <1>5, <2>1, <2>2, <2>3 DEF Decides, TypeOK
  <1>6. ASSUME NEW b \in Branch, Sends(b) PROVE TypeOK'
    <2>1. Mine(b) \in History /\ Theirs(b) \in History
      BY <1>0 DEF Mine, Theirs, TypeOK, Side
    <2>2. PushType'
      BY <1>6, <2>1 DEF Sends, PushType, MayBeHead, IsHead, History
    <2>. QED BY <1>6, <2>2 DEF Sends, TypeOK, PushType
  <1>7. CASE ScriptChecks
    <2>1. CASE push' = [push EXCEPT !.here = head[Checkout]] /\ note' = note
      <3>1. PushType'
        BY <1>0, <2>1 DEF PushType, MayBeHead, Side
      <3>. QED BY <1>7, <2>1, <3>1 DEF ScriptChecks, Refused, PassGoesOn, TypeOK, PushType
    <2>2. CASE Refused
      <3>1. note' \in BOOLEAN
        BY <2>2 DEF Refused, TypeOK
      <3>. QED BY <1>7, <2>2, <3>1 DEF ScriptChecks, Refused, PassGoesOn, TypeOK, PushType
    <2>. QED BY <1>7, <2>1, <2>2 DEF ScriptChecks
  <1>8. CASE ScriptMoves
    <2>1. push.to \in Branch /\ push.commit \in Commit
      BY <1>8 DEF ScriptMoves, PushesKept, StagedKept
    <2>2. ASSUME NEW h, IsHead(h), CheckoutMoves(h), push' = NoPush, note' = note, budget' = budget,
                 pc' = "branches"
          PROVE  TypeOK'
      <3>1. CASE h \in Branch
        <4>1. tip' \in [Side -> [Branch -> History]] /\ head' = head
          BY <2>1, <2>2, <3>1 DEF CheckoutMoves, TypeOK, Side, Commit
        <4>. QED BY <1>0, <1>8, <2>1, <2>2, <4>1 DEF ScriptMoves, CheckoutMoves, PassGoesOn, TypeOK, PushType, Commit, History
      <3>2. CASE h \notin Branch
        <4>1. tip' = tip /\ DOMAIN head' = Side /\ \A s \in Side : IsHead(head'[s])
          BY <1>0, <2>1, <2>2, <3>2 DEF CheckoutMoves, TypeOK, Side, IsHead
        <4>. QED BY <1>0, <1>8, <2>1, <2>2, <4>1 DEF ScriptMoves, CheckoutMoves, PassGoesOn, TypeOK, PushType, Commit, History
      <3>. QED BY <3>1, <3>2
    <2>3. ASSUME Refused, budget' \in [Kind -> Nat] PROVE TypeOK'
      <3>1. note' \in BOOLEAN
        BY <2>3 DEF Refused, TypeOK
      <3>. QED BY <1>8, <2>3, <3>1 DEF ScriptMoves, Refused, PassGoesOn, TypeOK, PushType
    <2>4. IsHead(push.to) /\ IsHead(head[Checkout])
      BY <1>0, <2>1 DEF IsHead, Side
    <2>5. CASE (ArrivesElsewhere \/ ArrivesHere) /\ Goes("branches") /\ push' = NoPush
               /\ UNCHANGED <<note, budget>>
      BY <2>2, <2>4, <2>5 DEF ArrivesElsewhere, ArrivesHere
    <2>6. CASE Refused /\ (Spend("fault") \/ UNCHANGED budget)
      <3>1. budget' \in [Kind -> Nat]
        BY <2>6, SpendKept DEF TypeOK, Kind
      <3>. QED BY <2>3, <2>6, <3>1
    <2>. QED BY <1>8, <2>5, <2>6 DEF ScriptMoves
  <1>9. CASE FollowHead
    <2>1. PushType' /\ MayBeHead(follow')
      BY <1>0, <1>9 DEF FollowHead, Follows, PushType, MayBeHead, Side, History, TypeOK
    <2>2. note' \in BOOLEAN
      BY <1>9 DEF FollowHead, TypeOK
    <2>. QED BY <1>9, <2>1, <2>2 DEF FollowHead, Follows, TypeOK, PushType
  <1>10. CASE SwitchScript
    <2>1. IsHead(push.to) /\ push.commit \in History
      BY <1>0, <1>10 DEF SwitchScript, PushesKept, SwitchKept, PushType
    <2>2. CASE MaySwitch /\ pc' = "switched"
      <3>1. tip' \in [Side -> [Branch -> History]]
        BY <1>10, <2>1, <2>2 DEF SwitchScript, Follows, TypeOK, Side
      <3>2. DOMAIN head' = Side /\ \A s \in Side : IsHead(head'[s])
        BY <1>0, <1>10, <2>1, <2>2 DEF SwitchScript, Follows, TypeOK, Side
      <3>. QED BY <1>10, <2>1, <2>2, <3>1, <3>2 DEF SwitchScript, Follows, TypeOK, History
    <2>3. CASE Follows(there) /\ Says(TRUE) /\ push' = NoPush /\ UNCHANGED <<sideVars, ghosts>>
               /\ (Spend("fault") \/ UNCHANGED budget)
      <3>1. budget' \in [Kind -> Nat]
        BY <2>3, SpendKept DEF TypeOK, Kind
      <3>. QED BY <1>10, <2>3, <3>1 DEF SwitchScript, Follows, TypeOK, PushType
    <2>. QED BY <1>10, <2>2, <2>3 DEF SwitchScript
  <1>11. CASE RecordSwitch
    <2>1. IsHead(push.to)
      BY <1>11 DEF RecordSwitch, PushesKept, SwitchKept
    <2>2. CommitOf(Folder, push.to) \in History
      BY <1>0, <2>1 DEF CommitOf, IsHead, Commit, Side
    <2>. QED BY <1>0, <1>11, <2>2 DEF RecordSwitch, Follows, TypeOK, PushType
  <1>12. CASE Settle
    <2>1. note' \in BOOLEAN
      BY <1>12 DEF Settle, TypeOK
    <2>. QED BY <1>12, <2>1 DEF Settle, TypeOK
  <1>13. CASE Place
    <2>1. IsHead(follow)
      BY <1>13 DEF Place, MirrorKept
    <2>2. CASE AtTarget
      BY <1>13, <2>2 DEF Place, TypeOK
    <2>3. CASE ~AtTarget
      <3>1. Target \in History \/ follow \notin Branch
        BY DEF Target, TypeOK
      <3>2. tip' \in [Side -> [Branch -> History]]
        BY <1>13, <2>3, <3>1 DEF Place, TypeOK, Side
      <3>3. DOMAIN head' = Side /\ \A s \in Side : IsHead(head'[s])
        BY <1>0, <1>13, <2>1, <2>3 DEF Place, TypeOK, Side
      <3>4. mover' \in [Branch -> {"ide", "user"}]
        BY <1>13, <2>3 DEF Place, TypeOK
      <3>. QED BY <1>13, <2>3, <3>2, <3>3, <3>4 DEF Place, TypeOK
    <2>. QED BY <2>2, <2>3
  <1>14. CASE Record
    <2>1. IsHead(follow) /\ (follow \in Branch => Mine(follow) \in History)
      BY <1>0, <1>14 DEF Record, MirrorKept, Mine, Side
    <2>2. /\ MayBeHead(recorded'.head) /\ recorded'.tip \in History
          /\ note' \in BOOLEAN
      BY <1>14, <2>1 DEF Record, TypeOK, IsHead, MayBeHead, Commit
    <2>. QED BY <1>14, <2>2 DEF Record, TypeOK
  <1>15. CASE Stop
    BY <1>15, SpendKept DEF Stop, TypeOK, PushType, Kind
  <1>. QED
    BY <1>1, <1>2, <1>3, <1>4, <1>5, <1>6, <1>7, <1>8, <1>9, <1>10, <1>11, <1>12, <1>13, <1>14,
       <1>15 DEF Pass

-----------------------------------------------------------------------------
(* What the actors' acts have in common.                                   *)

\* An act on one side takes away nothing it does not give, moves only the
\* branch it leaves HEAD on, and gives what it leaves where it must.
ActsOn(s) ==
    /\ UNCHANGED <<fetched, pinned, recorded, pc, passVars>>
    /\ \A t \in Side \ {s} : tip'[t] = tip[t] /\ head'[t] = head[t]
    /\ \A b \in Branch : tip[s][b] \subseteq tip'[s][b] \cup given'
    /\ \A b \in Branch : tip'[s][b] # tip[s][b] => head'[s] = b
    /\ \A b \in Branch : mover'[b] = "ide" =>
           mover[b] = "ide" /\ tip'[Folder][b] = tip[Folder][b]
    /\ CommitAt(s) \subseteq CommitAt(s)' \cup Reach(s)' \cup given'
    /\ Window(s) => CommitAt(s)' \subseteq given'
    /\ s = Folder /\ head'[s] \notin Branch \ Published => CommitAt(s)' \subseteq given'
    /\ given \subseteq given' /\ known \subseteq known'
    /\ born' \subseteq born \cup CommitAt(s)'
    /\ s = Checkout => CommitAt(s)' \cup Reach(s)' \subseteq CommitAt(s) \cup Reach(s) \cup known'

\* What tips and HEAD an act leaves, and what it drops, make it such.
LEMMA ActKept ==
  ASSUME TypeOK, NEW s \in Side, NEW tips \in [Branch -> History], NEW h, IsHead(h),
         NEW rebased, NEW made \in SUBSET Id, NEW dropped \in SUBSET Id, NEW at,
         at = IF h \in Branch THEN tips[h] ELSE h,
         \A b \in Branch : tip[s][b] \subseteq tips[b] \cup dropped,
         \A b \in Branch : tips[b] # tip[s][b] => h = b,
         \A i \in CommitAt(s) : i \in at \/ i \in dropped \/ \E b \in Branch : i \in tips[b],
         made \subseteq at,
         at \subseteq CommitAt(s) \cup Reach(s) \cup made,
         Act(s, tips, h, rebased, made, dropped)
  PROVE  ActsOn(s)
  <1>1. /\ tip'[s] = tips /\ head'[s] = h
        /\ \A t \in Side \ {s} : tip'[t] = tip[t] /\ head'[t] = head[t]
    BY DEF Act, TypeOK
  <1>2. CommitAt(s)' = at
    BY <1>1 DEF CommitAt, CommitOf
  <1>3. \A i : i \in Reach(s)' <=> i \in Id /\ \E b \in Branch : i \in tips[b]
    BY <1>1 DEF Reach
  <1>4. given' = given \cup dropped \cup Risked(s, at, h)
    BY DEF Act
  <1>5. \A b \in Branch : tips[b] \subseteq Id
    BY DEF History
  <1>6. CommitAt(s) \subseteq CommitAt(s)' \cup Reach(s)' \cup given'
    BY <1>2, <1>3, <1>4, <1>5
  <1>7. /\ Window(s) => CommitAt(s)' \subseteq given'
        /\ s = Folder /\ head'[s] \notin Branch \ Published => CommitAt(s)' \subseteq given'
    BY <1>1, <1>2, <1>4 DEF Risked
  <1>8. \A b \in Branch : mover'[b] = "ide" =>
           mover[b] = "ide" /\ tip'[Folder][b] = tip[Folder][b]
    BY <1>1 DEF Act, TypeOK, Side
  <1>9. known \subseteq known' /\ born' \subseteq born \cup CommitAt(s)'
    BY <1>2 DEF Act
  <1>10. ASSUME s = Checkout
         PROVE  CommitAt(s)' \cup Reach(s)' \subseteq CommitAt(s) \cup Reach(s) \cup known'
    <2>1. made \subseteq known'
      BY <1>10 DEF Act
    <2>2. \A b \in Branch : tips[b] \subseteq at \/ tips[b] = tip[s][b]
      OBVIOUS
    <2>3. Reach(s)' \subseteq at \cup Reach(s)
      BY <1>3, <2>2 DEF Reach
    <2>. QED BY <1>2, <2>1, <2>3
  <1>. QED
    BY <1>1, <1>4, <1>6, <1>7, <1>8, <1>9, <1>10 DEF Act, ActsOn

\* Every actor's step is such an act.
LEMMA ActorsAct ==
  ASSUME TypeOK, Actors
  PROVE  \E s \in Side : ActsOn(s)
  <1>. SUFFICES ASSUME NEW s \in Side,
                       \/ \E c \in Id : Commits(s, c) \/ RebaseEnds(s, c)
                       \/ \E c, d \in Id : Amends(s, d, c)
                       \/ \E d \in Id : RebaseBegins(s, d)
                       \/ \E h \in Branch \cup {CommitAt(s)} : Switches(s, h)
                PROVE  ActsOn(s)
    BY DEF Actors
  <1>. USE CommitType, PositionAssumption
  <1>0. /\ tip[s] \in [Branch -> History] /\ IsHead(head[s])
        /\ CommitAt(s) \subseteq Id /\ \A b \in Branch : tip[s][b] \subseteq Id
        /\ head[s] \in Branch => CommitAt(s) = tip[s][head[s]]
        /\ head[s] \notin Branch => CommitAt(s) = head[s]
    BY DEF TypeOK, History, CommitAt, CommitOf
  <1>1. ASSUME NEW c \in Id, Commits(s, c) PROVE ActsOn(s)
    <2>1. CommitAt(s) \cup {c} \in Commit
      BY <1>0 DEF Commit, History
    <2>. DEFINE grown == CommitAt(s) \cup {c}
                tips == [tip[s] EXCEPT ![head[s]] = grown]
    <2>2. tips \in [Branch -> History] /\ IsHead(grown) /\ grown \notin Branch
      BY <1>0, <2>1 DEF Commit, IsHead
    <2>3. CASE head[s] \in Branch
      <3>1. Act(s, tips, head[s], None, {c}, {})
        BY <1>1, <2>3 DEF Commits
      <3>2. /\ tips[head[s]] = grown
            /\ \A b \in Branch : tip[s][b] \subseteq tips[b] \cup {}
            /\ \A b \in Branch : tips[b] # tip[s][b] => head[s] = b
        BY <1>0, <2>3
      <3>3. /\ \A i \in CommitAt(s) : i \in grown
            /\ {c} \subseteq grown /\ grown \subseteq CommitAt(s) \cup Reach(s) \cup {c}
        OBVIOUS
      <3>. HIDE DEF tips, grown
      <3>. QED BY <1>0, <2>2, <2>3, <3>1, <3>2, <3>3, ActKept
    <2>4. CASE head[s] \notin Branch
      <3>1. Act(s, tip[s], grown, None, {c}, {})
        BY <1>1, <2>4 DEF Commits
      <3>3. /\ \A i \in CommitAt(s) : i \in grown
            /\ {c} \subseteq grown /\ grown \subseteq CommitAt(s) \cup Reach(s) \cup {c}
        OBVIOUS
      <3>. HIDE DEF grown
      <3>. QED BY <1>0, <2>2, <3>1, <3>3, ActKept
    <2>. QED BY <2>3, <2>4
  <1>2. ASSUME NEW c \in Id, RebaseEnds(s, c) PROVE ActsOn(s)
    <2>1. op[s] \in Branch /\ IsHead(op[s])
      BY <1>2 DEF RebaseEnds, TypeOK, IsHead
    <2>. DEFINE rebased == CommitAt(s) \cup {c}
                tips == [tip[s] EXCEPT ![op[s]] = rebased]
                dropped == tip[s][op[s]] \ rebased
    <2>2. tips \in [Branch -> History] /\ dropped \subseteq Id
      BY <1>0, <2>1 DEF History
    <2>3. Act(s, tips, op[s], None, {c}, dropped)
      BY <1>2 DEF RebaseEnds
    <2>4. /\ tips[op[s]] = rebased
          /\ \A b \in Branch : tip[s][b] \subseteq tips[b] \cup dropped
          /\ \A b \in Branch : tips[b] # tip[s][b] => op[s] = b
      BY <1>0, <2>1
    <2>5. /\ \A i \in CommitAt(s) : i \in rebased
          /\ {c} \subseteq rebased /\ rebased \subseteq CommitAt(s) \cup Reach(s) \cup {c}
      OBVIOUS
    <2>. HIDE DEF tips, dropped, rebased
    <2>. QED BY <2>1, <2>2, <2>3, <2>4, <2>5, ActKept
  <1>3. ASSUME NEW c \in Id, NEW d \in Id, Amends(s, d, c) PROVE ActsOn(s)
    <2>. DEFINE tips == [tip[s] EXCEPT ![head[s]] = (@ \ {d}) \cup {c}]
                at == (CommitAt(s) \ {d}) \cup {c}
    <2>1. tips \in [Branch -> History] /\ head[s] \in Branch
      BY <1>0, <1>3 DEF History, Amends
    <2>2. Act(s, tips, head[s], None, {c}, {d})
      BY <1>3 DEF Amends
    <2>3. /\ tips[head[s]] = at
          /\ \A b \in Branch : tip[s][b] \subseteq tips[b] \cup {d}
          /\ \A b \in Branch : tips[b] # tip[s][b] => head[s] = b
      BY <1>0, <2>1
    <2>4. /\ \A i \in CommitAt(s) : i \in at \/ i \in {d}
          /\ {c} \subseteq at /\ at \subseteq CommitAt(s) \cup Reach(s) \cup {c}
      OBVIOUS
    <2>. HIDE DEF tips, at
    <2>. QED BY <1>0, <2>1, <2>2, <2>3, <2>4, ActKept
  <1>4. ASSUME NEW d \in Id, RebaseBegins(s, d) PROVE ActsOn(s)
    <2>. DEFINE at == tip[s][head[s]] \ {d}
    <2>1. head[s] \in Branch /\ IsHead(at) /\ at \notin Branch
      BY <1>0, <1>4 DEF RebaseBegins, IsHead, Commit, History
    <2>2. Act(s, tip[s], at, head[s], {}, {})
      BY <1>4 DEF RebaseBegins
    <2>3. /\ \A i \in CommitAt(s) : \E b \in Branch : i \in tip[s][b]
          /\ at \subseteq CommitAt(s) \cup Reach(s) \cup {}
      BY <1>0, <2>1
    <2>. HIDE DEF at
    <2>. QED BY <1>0, <2>1, <2>2, <2>3, ActKept
  <1>5. ASSUME NEW h \in Branch \cup {CommitAt(s)}, Switches(s, h) PROVE ActsOn(s)
    <2>. DEFINE tips == IF h \in Branch /\ tip[s][h] = {}
                        THEN [tip[s] EXCEPT ![h] = CommitAt(s)] ELSE tip[s]
                left == CommitAt(s) \ (CommitOf(s, h) \cup UNION {tips[b] : b \in Branch})
                at == IF h \in Branch THEN tips[h] ELSE h
    <2>1. IsHead(h)
      BY <1>5 DEF Switches, IsHead, Commit
    <2>2. [tip[s] EXCEPT ![h] = CommitAt(s)] \in [Branch -> History]
      BY <1>0 DEF History
    <2>3. tips \in [Branch -> History] /\ left \subseteq Id
      BY <1>0, <2>2
    <2>4. Act(s, tips, h, None, {}, left)
      BY <1>5 DEF Switches
    <2>5. /\ \A b \in Branch : tip[s][b] \subseteq tips[b] \cup left
          /\ \A b \in Branch : tips[b] # tip[s][b] => h = b
      BY <1>0
    <2>6. CommitOf(s, h) \subseteq at
      BY <2>5 DEF CommitOf
    <2>7. \A i \in CommitAt(s) : i \in at \/ i \in left \/ \E b \in Branch : i \in tips[b]
      <3>. HIDE DEF tips, at
      <3>. QED BY <2>6
    <2>8. at \subseteq CommitAt(s) \cup Reach(s) \cup {}
      BY <1>0 DEF Reach
    <2>. HIDE DEF tips, left, at
    <2>9. at = IF h \in Branch THEN tips[h] ELSE h
      BY DEF at
    <2>. QED BY <2>1, <2>3, <2>4, <2>5, <2>7, <2>8, <2>9, ActKept
  <1>. QED BY <1>1, <1>2, <1>3, <1>4, <1>5

-----------------------------------------------------------------------------
(* The acts keep the rest of the invariant.                                *)

Kept == BranchesKept /\ PushesKept /\ HeadsKept /\ IdsKept

\* What a side holds in a branch or under HEAD, and its ids.
LEMMA Reaches ==
  ASSUME TypeOK
  PROVE  \A s \in Side :
           /\ CommitAt(s) \subseteq Id
           /\ \A b \in Branch : tip[s][b] \subseteq Reach(s)
           /\ head[s] \in Branch => CommitAt(s) = tip[s][head[s]] /\ CommitAt(s) \subseteq Reach(s)
           /\ head[s] \notin Branch => CommitAt(s) = head[s]
  BY CommitType DEF TypeOK, History, Reach, CommitAt, CommitOf

\* The same after a step.
LEMMA ReachesNext ==
  ASSUME TypeOK'
  PROVE  \A s \in Side :
           /\ \A b \in Branch : tip'[s][b] \subseteq Reach(s)'
           /\ head'[s] \in Branch => CommitAt(s)' = tip'[s][head'[s]] /\ CommitAt(s)' \subseteq Reach(s)'
           /\ head'[s] \notin Branch => CommitAt(s)' = head'[s]
  BY DEF TypeOK, History, Reach, CommitAt, CommitOf

\* A HEAD that names no branch names what is loose.
LEMMA LooseHead ==
  ASSUME NEW h, IsHead(h), h \notin Branch
  PROVE  Loose(h) = h /\ h # None
  BY PositionAssumption DEF Loose, IsHead, Commit

\* What a step leaves of each branch, it leaves of what is reached.
LEMMA ReachKept ==
  ASSUME TypeOK, TypeOK', NEW s \in Side,
         \A b \in Branch : tip[s][b] \subseteq tip'[s][b] \cup given'
  PROVE  Reach(s) \subseteq Reach(s)' \cup given'
  BY DEF Reach

\* An act leaves what a side holds in the branches or under the HEADs.
LEMMA ActHolds ==
  ASSUME TypeOK, TypeOK', NEW s \in Side, ActsOn(s)
  PROVE  /\ \A t \in Side, b \in Branch : tip[t][b] \subseteq tip'[t][b] \cup given'
         /\ \A t \in Side : Reach(t) \subseteq Reach(t)' \cup given'
         /\ \A t \in Side : CommitAt(t) \subseteq CommitAt(t)' \cup Reach(t)' \cup given'
         /\ Held \subseteq Held' \cup given'
  <1>1. \A t \in Side, b \in Branch : tip[t][b] \subseteq tip'[t][b] \cup given'
    BY DEF ActsOn
  <1>2. \A t \in Side : Reach(t) \subseteq Reach(t)' \cup given'
    BY <1>1, ReachKept
  <1>3. ASSUME NEW t \in Side \ {s} PROVE CommitAt(t)' = CommitAt(t)
    BY <1>3 DEF ActsOn, CommitAt, CommitOf
  <1>4. \A t \in Side : CommitAt(t) \subseteq CommitAt(t)' \cup Reach(t)' \cup given'
    BY <1>3 DEF ActsOn
  <1>. QED BY <1>1, <1>2, <1>4 DEF Held, Side

\* Acts, and what is known of branches.
LEMMA ActKeepsBranches ==
  ASSUME TypeOK, TypeOK', BranchesKept, NEW s \in Side, ActsOn(s)
  PROVE  BranchesKept'
  <1>1. FetchedKept'
    BY ActHolds DEF BranchesKept, FetchedKept, ActsOn, Side
  <1>2. IdesKept'
    <2>. SUFFICES ASSUME NEW b \in Branch, mover'[b] = "ide" \/ b \in Published
                  PROVE  tip'[Folder][b] \subseteq tip'[Checkout][b] \cup given'
      BY DEF IdesKept, Mine
    <2>1. CASE tip'[Folder][b] = tip[Folder][b]
      <3>1. mover[b] = "ide" \/ b \in Published
        BY DEF ActsOn
      <3>2. tip[Folder][b] \subseteq tip[Checkout][b] \cup given
        BY <3>1 DEF BranchesKept, IdesKept, Mine
      <3>. QED BY <2>1, <3>2, ActHolds DEF ActsOn, Side
    <2>2. CASE tip'[Folder][b] # tip[Folder][b]
      <3>1. s = Folder /\ head'[Folder] = b /\ b \in Published
        BY <2>2 DEF ActsOn, Side
      <3>2. CommitAt(Folder)' \subseteq given'
        BY <3>1 DEF ActsOn
      <3>. QED BY <3>1, <3>2 DEF CommitAt, CommitOf
    <2>. QED BY <2>1, <2>2
  <1>3. RecordedKept'
    BY ActHolds DEF BranchesKept, RecordedKept, ActsOn
  <1>4. RecordedHeadKept'
    BY ActHolds DEF BranchesKept, RecordedHeadKept, ActsOn, Loose
  <1>5. RecordedFetched'
    BY DEF BranchesKept, RecordedFetched, ActsOn, passVars
  <1>. QED BY <1>1, <1>2, <1>3, <1>4, <1>5 DEF BranchesKept

\* Acts, and what a script was given: theirs in a window are given.
LEMMA ActKeepsPushes ==
  ASSUME TypeOK, TypeOK', PushesKept, NEW s \in Side, ActsOn(s)
  PROVE  PushesKept'
  <1>. USE DEF passVars
  <1>0. given \subseteq given' /\ pc' = pc /\ push' = push
    BY DEF ActsOn
  <1>1. StagedKept'
    BY <1>0 DEF PushesKept, StagedKept
  <1>2. CheckedKept'
    <2>. SUFFICES ASSUME pc = "checked"
                  PROVE  /\ tip'[Checkout][push.to] \subseteq push.commit \cup given'
                         /\ head'[Checkout] = push.here \/ CommitAt(Checkout)' \subseteq given'
      BY <1>0 DEF CheckedKept
    <2>1. push.to \in Branch
      BY DEF PushesKept, StagedKept
    <2>2. CASE s = Folder
      BY <1>0, <2>2 DEF PushesKept, CheckedKept, ActsOn, CommitAt, CommitOf, Side, Folder, Checkout
    <2>3. CASE s = Checkout
      <3>1. CommitAt(Checkout)' \subseteq given'
        BY <2>3 DEF ActsOn, Window
      <3>2. CASE tip'[Checkout][push.to] = tip[Checkout][push.to]
        BY <1>0, <3>1, <3>2 DEF PushesKept, CheckedKept
      <3>3. CASE tip'[Checkout][push.to] # tip[Checkout][push.to]
        <4>1. head'[Checkout] = push.to
          BY <2>1, <2>3, <3>3 DEF ActsOn
        <4>. QED BY <2>1, <3>1, <4>1 DEF CommitAt, CommitOf
      <3>. QED BY <3>2, <3>3
    <2>. QED BY <2>2, <2>3 DEF Side
  <1>3. SwitchBegun'
    <2>. SUFFICES ASSUME pc = "switching"
                  PROVE  /\ push.here = there /\ there = recorded.head
                         /\ push.to \in Branch => tip'[Folder][push.to] \subseteq push.commit \cup given'
                         /\ push.to \notin Branch => push.commit = push.to
                         /\ \/ head'[Folder] \in Branch
                            \/ head'[Folder] = push.to
                            \/ head'[Folder] \subseteq given'
      BY DEF SwitchBegun, ActsOn, Mine
    <2>0. /\ push.here = there /\ there = recorded.head
          /\ push.to \in Branch => tip[Folder][push.to] \subseteq push.commit \cup given'
          /\ push.to \notin Branch => push.commit = push.to
          /\ \/ head[Folder] \in Branch
             \/ head[Folder] = push.to
             \/ head[Folder] \subseteq given'
      BY <1>0 DEF PushesKept, SwitchBegun, Mine
    <2>1. CASE s = Checkout
      BY <2>0, <2>1 DEF ActsOn, Side, Folder, Checkout
    <2>2. CASE s = Folder
      <3>1. CommitAt(Folder)' \subseteq given'
        BY <2>2 DEF ActsOn, Window, Folder, Checkout
      <3>2. head'[Folder] \in Branch \/ head'[Folder] \subseteq given'
        BY <3>1 DEF CommitAt, CommitOf
      <3>3. ASSUME push.to \in Branch PROVE tip'[Folder][push.to] \subseteq push.commit \cup given'
        <4>1. CASE tip'[Folder][push.to] = tip[Folder][push.to]
          BY <2>0, <3>3, <4>1
        <4>2. CASE tip'[Folder][push.to] # tip[Folder][push.to]
          <5>1. head'[Folder] = push.to
            BY <2>2, <3>3, <4>2 DEF ActsOn
          <5>. QED BY <3>1, <3>3, <5>1 DEF CommitAt, CommitOf
        <4>. QED BY <4>1, <4>2
      <3>. QED BY <2>0, <3>2, <3>3
    <2>. QED BY <2>1, <2>2 DEF Side
  <1>4. SwitchDone'
    <2>. SUFFICES ASSUME pc = "switched", push.to \in Branch
                  PROVE  tip'[Folder][push.to] \subseteq tip'[Checkout][push.to] \cup given'
      BY <1>0 DEF SwitchDone, Mine
    <2>0. tip[Folder][push.to] \subseteq tip'[Checkout][push.to] \cup given'
      BY <1>0, ActHolds DEF PushesKept, SwitchDone, Mine, Side
    <2>1. CASE tip'[Folder][push.to] = tip[Folder][push.to]
      BY <2>0, <2>1
    <2>2. CASE tip'[Folder][push.to] # tip[Folder][push.to]
      <3>1. s = Folder /\ head'[Folder] = push.to
        BY <2>2 DEF ActsOn, Side
      <3>2. CommitAt(Folder)' \subseteq given'
        BY <3>1 DEF ActsOn, Window, Folder, Checkout
      <3>. QED BY <3>1, <3>2 DEF CommitAt, CommitOf
    <2>. QED BY <2>1, <2>2
  <1>5. SwitchKept'
    BY <1>0, ActHolds DEF PushesKept, SwitchKept, IsHead
  <1>. QED BY <1>1, <1>2, <1>3, <1>4, <1>5 DEF PushesKept

\* Acts, and the position followed.
LEMMA ActKeepsHeads ==
  ASSUME TypeOK, TypeOK', HeadsKept, NEW s \in Side, ActsOn(s)
  PROVE  HeadsKept'
  <1>. USE DEF passVars
  <1>0. given \subseteq given' /\ pc' = pc /\ follow' = follow /\ pinned' = pinned
    BY DEF ActsOn
  <1>1. MirrorKept'
    <2>. SUFFICES ASSUME pc \in {"mirroring", "placed"}, follow \in Branch
                  PROVE  tip'[Folder][follow] \subseteq tip'[Checkout][follow] \cup given'
      BY <1>0, ActHolds DEF HeadsKept, MirrorKept, Mine, IsHead
    <2>0. tip[Folder][follow] \subseteq tip'[Checkout][follow] \cup given'
      BY <1>0, ActHolds DEF HeadsKept, MirrorKept, Mine, Side
    <2>1. CASE tip'[Folder][follow] = tip[Folder][follow]
      BY <2>0, <2>1
    <2>2. CASE tip'[Folder][follow] # tip[Folder][follow]
      <3>1. s = Folder /\ head'[Folder] = follow
        BY <2>2 DEF ActsOn, Side
      <3>2. CommitAt(Folder)' \subseteq given'
        BY <3>1 DEF ActsOn, Window, Folder, Checkout
      <3>. QED BY <3>1, <3>2 DEF CommitAt, CommitOf
    <2>. QED BY <2>1, <2>2
  <1>2. \/ Anchor' = Anchor
        \/ Anchor = CommitAt(Checkout) /\ Anchor' = CommitAt(Checkout)'
    BY DEF Anchor, ActsOn, Loose, TypeOK
  <1>3. AnchorKept'
    BY <1>0, <1>2, ActHolds DEF HeadsKept, AnchorKept, Side
  <1>4. FolderHeadKept'
    <2>1. Reach(Checkout) \cup Anchor \subseteq Reach(Checkout)' \cup Anchor' \cup given'
      BY <1>2, ActHolds DEF Side
    <2>2. CASE s = Checkout
      BY <1>0, <2>1, <2>2 DEF HeadsKept, FolderHeadKept, ActsOn, Side, Folder, Checkout
    <2>3. CASE s = Folder
      <3>1. head'[Folder] \notin Branch => CommitAt(Folder)' \subseteq given'
        BY <2>3 DEF ActsOn
      <3>. QED BY <3>1 DEF FolderHeadKept, CommitAt, CommitOf
    <2>. QED BY <2>2, <2>3 DEF Side
  <1>. QED BY <1>1, <1>3, <1>4 DEF HeadsKept

\* Acts, and what was made and shared.
LEMMA ActKeepsIds ==
  ASSUME TypeOK, TypeOK', IdsKept, NEW s \in Side, ActsOn(s)
  PROVE  IdsKept'
  <1>1. KnownKept'
    <2>1. CASE s = Checkout
      BY <2>1 DEF IdsKept, KnownKept, ActsOn
    <2>2. CASE s = Folder
      <3>1. CommitAt(Checkout)' = CommitAt(Checkout) /\ Reach(Checkout)' = Reach(Checkout)
        BY <2>2 DEF ActsOn, CommitAt, CommitOf, Reach, Side, Folder, Checkout
      <3>. QED BY <3>1 DEF IdsKept, KnownKept, ActsOn
    <2>. QED BY <2>1, <2>2 DEF Side
  <1>2. BornKept'
    <2>1. CommitAt(s)' \subseteq Held' \cup CommitAt(Checkout)'
      BY DEF Held, Side
    <2>2. Held \cup CommitAt(Checkout) \subseteq Held' \cup CommitAt(Checkout)' \cup given'
      BY ActHolds DEF Held, Side
    <2>. QED BY <2>1, <2>2 DEF IdsKept, BornKept, ActsOn
  <1>3. AgreedWasShared'
    BY DEF IdsKept, AgreedWasShared, ActsOn
  <1>. QED BY <1>1, <1>2, <1>3 DEF IdsKept

\* No act of anybody breaks what the pass counts on.
LEMMA ActorsKept ==
  ASSUME TypeOK, TypeOK', Kept, Actors
  PROVE  Kept'
  BY ActorsAct, ActKeepsBranches, ActKeepsPushes, ActKeepsHeads, ActKeepsIds DEF Kept

-----------------------------------------------------------------------------
(* The steps of the pass that move neither side.                           *)

Quiet == UNCHANGED <<sideVars, ghosts>>

\* What such a step leaves as it was.
LEMMA QuietSame ==
  ASSUME Quiet
  PROVE  /\ tip' = tip /\ head' = head /\ mover' = mover
         /\ given' = given /\ known' = known /\ born' = born
         /\ \A s \in Side : CommitAt(s)' = CommitAt(s) /\ Reach(s)' = Reach(s)
         /\ Held' = Held
  BY DEF Quiet, sideVars, ghosts, CommitAt, CommitOf, Reach, Held, Side

\* One that records nothing and fetches nothing, of branches and ids.
LEMMA QuietKeeps ==
  ASSUME Kept, Quiet, fetched' = fetched, recorded' = recorded
  PROVE  FetchedKept' /\ IdesKept' /\ RecordedKept' /\ RecordedHeadKept' /\ IdsKept'
  <1>. USE QuietSame DEF Kept, BranchesKept, IdsKept
  <1>1. FetchedKept' /\ IdesKept'
    BY DEF FetchedKept, IdesKept, Mine
  <1>2. RecordedKept' /\ RecordedHeadKept'
    BY DEF RecordedKept, RecordedHeadKept, Loose
  <1>3. KnownKept' /\ BornKept' /\ AgreedWasShared'
    BY DEF KnownKept, BornKept, AgreedWasShared, Side
  <1>. QED BY <1>1, <1>2, <1>3

\* A pass that ends here leaves each HEAD where the pass knew it to be.
LEMMA EndKeeps ==
  ASSUME TypeOK, Kept, Quiet, pc' = "idle"
  PROVE  RecordedFetched' /\ PushesKept' /\ HeadsKept'
  <1>. USE QuietSame
  <1>1. RecordedFetched' /\ PushesKept' /\ MirrorKept'
    BY DEF RecordedFetched, PushesKept, StagedKept, CheckedKept, SwitchBegun, SwitchDone,
           SwitchKept, MirrorKept
  <1>2. Anchor' = CommitAt(Checkout)
    BY DEF Anchor, Side
  <1>3. AnchorKept'
    BY <1>2 DEF AnchorKept, Side
  <1>4. Anchor \subseteq CommitAt(Checkout) \cup Reach(Checkout) \cup given
    BY DEF Kept, HeadsKept, AnchorKept
  <1>5. FolderHeadKept'
    BY <1>2, <1>4 DEF Kept, HeadsKept, FolderHeadKept, Side
  <1>. QED BY <1>1, <1>3, <1>5 DEF HeadsKept

\* One within the pass, while the checkout's HEAD is known the same way.
LEMMA HeadsStay ==
  ASSUME Kept, Quiet, Anchor' = Anchor, MirrorKept'
  PROVE  HeadsKept'
  BY QuietSame DEF Kept, HeadsKept, AnchorKept, FolderHeadKept, Side

\* A stop, at any point.
LEMMA StopKeeps == ASSUME TypeOK, Kept, Stop PROVE Kept'
  <1>1. Quiet /\ pc' = "idle" /\ fetched' = fetched /\ recorded' = recorded
    BY DEF Stop, Quiet, Goes
  <1>. QED BY <1>1, QuietKeeps, EndKeeps DEF Kept, BranchesKept

\* Standing down, and the looks that begin a pass.
LEMMA LooksKeep == ASSUME TypeOK, Kept, StandDown \/ Look \/ ReadHead PROVE Kept'
  <1>1. Quiet /\ fetched' = fetched /\ recorded' = recorded
    BY DEF StandDown, Look, ReadHead, Quiet
  <1>2. pc' \in {"idle", "looked", "headed"}
    BY DEF StandDown, Look, ReadHead, Goes
  <1>3. RecordedFetched' /\ PushesKept' /\ MirrorKept'
    BY <1>2 DEF RecordedFetched, PushesKept, StagedKept, CheckedKept, SwitchBegun, SwitchDone,
           SwitchKept, MirrorKept
  <1>4. HeadsKept'
    <2>1. CASE StandDown \/ Look
      <3>1. Anchor' = Anchor
        BY <1>1, <1>2, <2>1, QuietSame DEF StandDown, Look, Goes, Anchor, Side
      <3>. QED BY <1>1, <1>3, <3>1, HeadsStay
    <2>2. CASE ReadHead
      <3>1. Anchor = CommitAt(Checkout) /\ Anchor' = Loose(head[Checkout])
        BY <2>2 DEF ReadHead, Goes, Anchor, Loose
      <3>2. \/ head[Checkout] \in Branch /\ CommitAt(Checkout) \subseteq Reach(Checkout)
                 /\ Loose(head[Checkout]) = {}
            \/ Loose(head[Checkout]) = CommitAt(Checkout)
        BY Reaches, LooseHead DEF TypeOK, Side, Loose
      <3>3. AnchorKept'
        BY <1>1, <3>1, <3>2, QuietSame DEF AnchorKept, Side
      <3>4. FolderHeadKept'
        BY <1>1, <3>1, <3>2, QuietSame DEF Kept, HeadsKept, FolderHeadKept, Side
      <3>. QED BY <1>3, <3>3, <3>4 DEF HeadsKept
    <2>. QED BY <2>1, <2>2
  <1>. QED BY <1>1, <1>3, <1>4, QuietKeeps DEF Kept, BranchesKept

\* The fetch brings every branch as the checkout holds it.
LEMMA FetchKeeps == ASSUME TypeOK, Kept, Fetch PROVE Kept'
  <1>1. Quiet /\ recorded' = recorded /\ pc = "headed" /\ pc' = "branches" /\ there' = there
    BY DEF Fetch, Quiet, Goes
  <1>2. \A b \in Branch : /\ fetched'[b] \subseteq tip[Checkout][b] \cup given
                          /\ tip[Checkout][b] \subseteq fetched'[b]
    BY DEF Fetch, Kept, BranchesKept, FetchedKept
  <1>3. FetchedKept'
    BY <1>1, <1>2, QuietSame DEF FetchedKept
  <1>4. IdesKept' /\ RecordedKept' /\ RecordedHeadKept'
    BY <1>1, QuietSame DEF Kept, BranchesKept, IdesKept, RecordedKept, RecordedHeadKept, Mine, Loose
  <1>5. RecordedFetched'
    <2>1. \A b \in Branch : recorded.head = b => recorded.tip \subseteq tip[Checkout][b] \cup given
      BY DEF Kept, BranchesKept, RecordedKept, Side
    <2>. QED BY <1>1, <1>2, <2>1, QuietSame DEF RecordedFetched
  <1>6. PushesKept' /\ MirrorKept'
    BY <1>1 DEF PushesKept, StagedKept, CheckedKept, SwitchBegun, SwitchDone, SwitchKept, MirrorKept
  <1>7. HeadsKept'
    BY <1>1, <1>6, HeadsStay DEF Anchor, Loose
  <1>8. IdsKept'
    BY <1>1, QuietSame DEF Kept, IdsKept, KnownKept, BornKept, AgreedWasShared, Side
  <1>. QED BY <1>3, <1>4, <1>5, <1>6, <1>7, <1>8 DEF Kept, BranchesKept

\* Staging a branch: a rewrite expects of the checkout what the two last
\* agreed on, which the folder still holds.
LEMMA SendsKeep == ASSUME TypeOK, Kept, NEW b \in Branch, Sends(b) PROVE Kept'
  <1>1. /\ Quiet /\ recorded' = recorded /\ fetched' = fetched
        /\ pc = "branches" /\ pc' = "staged" /\ there' = there
        /\ push'.to = b /\ push'.commit = Mine(b)
        /\ push'.expect = IF Diverged(b) THEN Theirs(b) ELSE {}
        /\ Mine(b) # {}
    BY DEF Sends, Quiet, Goes
  <1>2. Mine(b) \in Commit
    BY <1>1 DEF Mine, TypeOK, Side, Commit
  <1>3. ASSUME Diverged(b) PROVE Theirs(b) \subseteq Mine(b) \cup given
    <2>1. Behind(b) # {}
      BY <1>3 DEF Diverged
    <2>2. SendsRewrite(b)
      BY <2>1 DEF Sends, SendsCurrent, SendsElsewhere
    <2>3. Theirs(b) # {} /\ AgreedTip(b) = Theirs(b)
      BY <2>1, <2>2 DEF Behind, SendsRewrite
    <2>4. recorded.head = b /\ recorded.tip = Theirs(b)
      BY <2>3 DEF AgreedTip
    <2>. QED BY <2>4 DEF Kept, BranchesKept, RecordedKept, Mine, Side
  <1>4. StagedKept'
    BY <1>1, <1>2, <1>3, QuietSame DEF StagedKept
  <1>5. PushesKept' /\ MirrorKept'
    BY <1>1, <1>4 DEF PushesKept, CheckedKept, SwitchBegun, SwitchDone, SwitchKept, MirrorKept
  <1>6. HeadsKept'
    BY <1>1, <1>5, HeadsStay DEF Anchor, Loose
  <1>7. RecordedFetched'
    BY <1>1, QuietSame DEF Kept, BranchesKept, RecordedFetched
  <1>. QED BY <1>1, <1>5, <1>6, <1>7, QuietKeeps DEF Kept, BranchesKept

\* A script's refusal.
LEMMA RefusedKeeps ==
  ASSUME TypeOK, Kept, Refused, PassGoesOn, pc \in {"staged", "checked"}
  PROVE  Kept'
  <1>1. /\ Quiet /\ recorded' = recorded /\ fetched' = fetched
        /\ pc' = "branches" /\ there' = there
    BY DEF Refused, PassGoesOn, Quiet, Goes
  <1>2. PushesKept' /\ MirrorKept'
    BY <1>1 DEF PushesKept, StagedKept, CheckedKept, SwitchBegun, SwitchDone, SwitchKept, MirrorKept
  <1>3. HeadsKept'
    BY <1>1, <1>2, HeadsStay DEF Anchor, Loose
  <1>4. RecordedFetched'
    BY <1>1, QuietSame DEF Kept, BranchesKept, RecordedFetched
  <1>. QED BY <1>1, <1>2, <1>3, <1>4, QuietKeeps DEF Kept, BranchesKept

\* What the script finds in the checkout is no more than what it was given.
LEMMA ScriptChecksKeeps == ASSUME TypeOK, Kept, ScriptChecks PROVE Kept'
  <1>1. CASE Refused
    BY <1>1, RefusedKeeps DEF ScriptChecks
  <1>2. CASE MayArrive /\ Goes("checked") /\ push' = [push EXCEPT !.here = head[Checkout]]
             /\ UNCHANGED <<sideVars, ghosts, note>>
    <2>1. /\ Quiet /\ recorded' = recorded /\ fetched' = fetched
          /\ pc = "staged" /\ pc' = "checked" /\ there' = there
          /\ push'.to = push.to /\ push'.commit = push.commit /\ push'.expect = push.expect
          /\ push'.here = head[Checkout]
      BY <1>2 DEF ScriptChecks, PassGoesOn, Quiet, Goes, TypeOK
    <2>2. push.to \in Branch /\ push.commit \in Commit /\ push.expect \subseteq push.commit \cup given
      BY <2>1 DEF Kept, PushesKept, StagedKept
    <2>3. tip[Checkout][push.to] \subseteq push.commit \cup given
      BY <1>2, <2>2 DEF MayArrive
    <2>4. PushesKept' /\ MirrorKept'
      BY <2>1, <2>2, <2>3, QuietSame DEF PushesKept, StagedKept, CheckedKept, SwitchBegun,
         SwitchDone, SwitchKept, MirrorKept
    <2>5. HeadsKept'
      BY <2>1, <2>4, HeadsStay DEF Anchor, Loose
    <2>6. RecordedFetched'
      BY <2>1, QuietSame DEF Kept, BranchesKept, RecordedFetched
    <2>. QED BY <2>1, <2>4, <2>5, <2>6, QuietKeeps DEF Kept, BranchesKept
  <1>. QED BY <1>1, <1>2 DEF ScriptChecks

\* A switch of the folder's begun, or the checkout's position followed.
LEMMA FollowHeadKeeps == ASSUME TypeOK, Kept, FollowHead PROVE Kept'
  <1>1. /\ Quiet /\ recorded' = recorded /\ fetched' = fetched /\ there' = there
        /\ pc = "branches" /\ unsettled' = unsettled
    BY DEF FollowHead, Quiet
  <1>2. RecordedFetched'
    BY <1>1, QuietSame DEF Kept, BranchesKept, RecordedFetched, FollowHead, Follows, Goes
  <1>3. CASE Follows(there)
    <2>1. PushesKept' /\ MirrorKept'
      BY <1>3 DEF Follows, Goes, PushesKept, StagedKept, CheckedKept, SwitchBegun, SwitchDone,
         SwitchKept, MirrorKept
    <2>2. HeadsKept'
      BY <1>1, <1>3, <2>1, HeadsStay DEF Follows, Goes, Anchor, Loose
    <2>. QED BY <1>1, <1>2, <2>1, <2>2, QuietKeeps DEF Kept, BranchesKept
  <1>4. CASE FolderSwitched /\ there = recorded.head /\ Goes("switching")
             /\ push' = [to |-> head[Folder], commit |-> CommitAt(Folder), expect |-> {},
                         here |-> there]
    <2>1. /\ pc' = "switching" /\ push'.to = head[Folder] /\ push'.commit = CommitAt(Folder)
          /\ push'.here = there
      BY <1>4 DEF Goes
    <2>2. /\ IsHead(head[Folder])
          /\ head[Folder] \in Branch => CommitAt(Folder) = tip[Folder][head[Folder]]
          /\ head[Folder] \notin Branch => CommitAt(Folder) = head[Folder]
      BY Reaches DEF TypeOK, Side
    <2>3. SwitchBegun'
      BY <1>1, <1>4, <2>1, <2>2, QuietSame DEF SwitchBegun, Mine
    <2>4. SwitchKept'
      BY <1>1, <2>1, <2>2, QuietSame DEF SwitchKept, IsHead, Held
    <2>5. PushesKept' /\ MirrorKept'
      BY <2>1, <2>3, <2>4 DEF PushesKept, StagedKept, CheckedKept, SwitchDone, MirrorKept
    <2>6. HeadsKept'
      BY <1>1, <2>1, <2>5, HeadsStay DEF Anchor, Loose
    <2>. QED BY <1>1, <1>2, <2>5, <2>6, QuietKeeps DEF Kept, BranchesKept
  <1>. QED BY <1>3, <1>4 DEF FollowHead

\* The script's refusal of a switch: the checkout's position is followed.
LEMMA SwitchRefusedKeeps ==
  ASSUME TypeOK, Kept, SwitchScript, Follows(there), UNCHANGED <<sideVars, ghosts>>
  PROVE  Kept'
  <1>1. /\ Quiet /\ recorded' = recorded /\ fetched' = fetched /\ there' = there
        /\ pc = "switching" /\ pc' = "settle" /\ follow' = there /\ unsettled' = unsettled
    BY DEF SwitchScript, Quiet, Follows, Goes
  <1>2. RecordedFetched'
    BY <1>1, QuietSame DEF Kept, BranchesKept, RecordedFetched
  <1>3. PushesKept' /\ MirrorKept'
    BY <1>1 DEF PushesKept, StagedKept, CheckedKept, SwitchBegun, SwitchDone, SwitchKept, MirrorKept
  <1>4. HeadsKept'
    BY <1>1, <1>3, HeadsStay DEF Anchor, Loose
  <1>. QED BY <1>1, <1>2, <1>3, <1>4, QuietKeeps DEF Kept, BranchesKept

\* What is recorded of a switch is what the checkout was given.
LEMMA RecordSwitchKeeps == ASSUME TypeOK, Kept, RecordSwitch PROVE Kept'
  <1>1. /\ Quiet /\ fetched' = fetched
        /\ pc = "switched" /\ pc' = "settle" /\ follow' = push.to /\ unsettled'
        /\ recorded'.head = push.to /\ recorded'.tip = CommitOf(Folder, push.to)
    BY DEF RecordSwitch, Quiet, Follows, Goes
  <1>2. /\ IsHead(push.to)
        /\ push.to \notin Branch => push.to \subseteq Held \cup given
        /\ push.to \in Branch => tip[Folder][push.to] \subseteq tip[Checkout][push.to] \cup given
    BY <1>1 DEF Kept, PushesKept, SwitchKept, SwitchDone, Mine
  <1>3. /\ push.to \in Branch => recorded'.tip = tip[Folder][push.to]
        /\ push.to \notin Branch => recorded'.tip = push.to /\ Loose(push.to) = push.to
    BY <1>1, <1>2, LooseHead DEF CommitOf
  <1>4. Anchor = Loose(push.to) /\ Anchor' = Loose(push.to)
    BY <1>1 DEF Anchor, Loose
  <1>5. FetchedKept' /\ IdesKept'
    BY <1>1, QuietSame DEF Kept, BranchesKept, FetchedKept, IdesKept, Mine
  <1>6. RecordedKept'
    BY <1>1, <1>2, <1>3, QuietSame DEF RecordedKept, Side
  <1>7. RecordedHeadKept'
    BY <1>1, <1>2, <1>3, QuietSame DEF RecordedHeadKept, Loose
  <1>8. RecordedFetched' /\ PushesKept' /\ MirrorKept'
    BY <1>1 DEF RecordedFetched, PushesKept, StagedKept, CheckedKept, SwitchBegun, SwitchDone,
       SwitchKept, MirrorKept
  <1>9. HeadsKept'
    BY <1>1, <1>4, <1>8, HeadsStay
  <1>10. KnownKept' /\ BornKept'
    BY <1>1, QuietSame DEF Kept, IdsKept, KnownKept, BornKept, Side
  <1>11. AgreedWasShared'
    <2>1. CASE push.to \in Branch
      <3>1. tip[Checkout][push.to] \subseteq known
        BY <2>1, Reaches DEF Kept, IdsKept, KnownKept, Side
      <3>. QED BY <1>1, <1>2, <1>3, <2>1, <3>1, QuietSame DEF AgreedWasShared
    <2>2. CASE push.to \notin Branch
      <3>1. push.to \subseteq CommitAt(Checkout) \cup Reach(Checkout) \cup given
        BY <1>3, <1>4, <2>2 DEF Kept, HeadsKept, AnchorKept
      <3>. QED BY <1>1, <1>3, <2>2, <3>1, QuietSame DEF AgreedWasShared, Kept, IdsKept, KnownKept
    <2>. QED BY <2>1, <2>2
  <1>. QED BY <1>5, <1>6, <1>7, <1>8, <1>9, <1>10, <1>11 DEF Kept, BranchesKept, IdsKept

\* The mirror begins over commits the checkout has.
LEMMA SettleKeeps == ASSUME TypeOK, Kept, Settle PROVE Kept'
  <1>1. /\ Quiet /\ recorded' = recorded /\ fetched' = fetched /\ follow' = follow
        /\ pinned' = pinned /\ pc = "settle"
    BY DEF Settle, Quiet
  <1>2. CASE pc' = "idle"
    BY <1>1, <1>2, QuietKeeps, EndKeeps DEF Kept, BranchesKept
  <1>3. CASE Mirrors /\ pc' = "mirroring"
    <2>1. ~unsettled /\ HasTarget /\ ~HoldsUnshared
      BY <1>3 DEF Mirrors
    <2>2. IsHead(follow) /\ (follow \notin Branch => pinned = follow)
      BY <2>1, PositionAssumption DEF HasTarget, TypeOK, MayBeHead, IsHead
    <2>3. ASSUME follow \in Branch PROVE Mine(follow) \subseteq tip[Checkout][follow] \cup given
      <3>1. fetched[follow] \subseteq tip[Checkout][follow] \cup given
        BY <2>3 DEF Kept, BranchesKept, FetchedKept
      <3>2. CASE Mine(follow) = {}
        BY <3>2
      <3>3. CASE Mine(follow) = Target \/ Ahead(follow) = {}
        BY <2>3, <3>1, <3>3 DEF Target, Ahead, Theirs
      <3>4. CASE UnmovedSinceMirror(follow)
        <4>1. recorded.head = follow /\ recorded.tip = Mine(follow)
          BY <3>4 DEF UnmovedSinceMirror, AgreedTip
        <4>. QED BY <2>3, <4>1 DEF Kept, BranchesKept, RecordedKept, Side
      <3>5. CASE MovedOnlyByIde(follow)
        BY <2>3, <3>5 DEF MovedOnlyByIde, Kept, BranchesKept, IdesKept
      <3>. QED BY <2>1, <2>3, <3>2, <3>3, <3>4, <3>5 DEF HoldsUnshared
    <2>4. MirrorKept'
      BY <1>1, <1>3, <2>2, <2>3, QuietSame DEF MirrorKept, IsHead, Mine
    <2>5. HeadsKept'
      BY <1>1, <1>3, <2>4, HeadsStay DEF Anchor, Loose
    <2>6. PushesKept'
      BY <1>3 DEF PushesKept, StagedKept, CheckedKept, SwitchBegun, SwitchDone, SwitchKept
    <2>7. RecordedFetched'
      BY <1>1, <1>3, <2>1, QuietSame DEF Kept, BranchesKept, RecordedFetched
    <2>. QED BY <1>1, <2>5, <2>6, <2>7, QuietKeeps DEF Kept, BranchesKept
  <1>. QED BY <1>2, <1>3 DEF Settle, Goes, Ends

\* The mirror's record is of a position the checkout has.
LEMMA RecordKeeps == ASSUME TypeOK, Kept, Record PROVE Kept'
  <1>1. /\ Quiet /\ fetched' = fetched /\ pc = "placed" /\ pc' = "idle"
        /\ recorded'.head = follow
        /\ recorded'.tip = IF follow \in Branch THEN Mine(follow) ELSE follow
    BY DEF Record, Quiet, Ends, Goes
  <1>2. /\ IsHead(follow)
        /\ follow \in Branch => Mine(follow) \subseteq tip[Checkout][follow] \cup given
        /\ follow \notin Branch => follow \subseteq Held \cup given
    BY <1>1 DEF Kept, HeadsKept, MirrorKept
  <1>3. follow \notin Branch => Loose(follow) = follow /\ Anchor = follow
    BY <1>1, <1>2, LooseHead DEF Anchor
  <1>4. FetchedKept' /\ IdesKept'
    BY <1>1, QuietSame DEF Kept, BranchesKept, FetchedKept, IdesKept, Mine
  <1>5. RecordedKept'
    BY <1>1, <1>2, QuietSame DEF RecordedKept, Side, Mine
  <1>6. RecordedHeadKept'
    BY <1>1, <1>2, <1>3, QuietSame DEF RecordedHeadKept, Loose
  <1>7. KnownKept' /\ BornKept'
    BY <1>1, QuietSame DEF Kept, IdsKept, KnownKept, BornKept, Side
  <1>8. AgreedWasShared'
    <2>1. CASE follow \in Branch
      <3>1. tip[Checkout][follow] \subseteq known
        BY <2>1, Reaches DEF Kept, IdsKept, KnownKept, Side
      <3>. QED BY <1>1, <1>2, <2>1, <3>1, QuietSame DEF AgreedWasShared
    <2>2. CASE follow \notin Branch
      <3>1. follow \subseteq CommitAt(Checkout) \cup Reach(Checkout) \cup given
        BY <1>3, <2>2 DEF Kept, HeadsKept, AnchorKept
      <3>. QED BY <1>1, <2>2, <3>1, QuietSame DEF AgreedWasShared, Kept, IdsKept, KnownKept
    <2>. QED BY <2>1, <2>2
  <1>. QED BY <1>1, <1>4, <1>5, <1>6, <1>7, <1>8, EndKeeps DEF Kept, BranchesKept, IdsKept

-----------------------------------------------------------------------------
(* The steps that move the checkout.                                       *)

\* A move of the checkout that takes no branch and no HEAD away unless given.
CheckoutGoes ==
    /\ UNCHANGED <<fetched, recorded, op, mover, born, given>>
    /\ tip'[Folder] = tip[Folder] /\ head'[Folder] = head[Folder]
    /\ \A b \in Branch : tip[Checkout][b] \subseteq tip'[Checkout][b] \cup given
    /\ \A b \in Branch : tip'[Checkout][b] \subseteq tip[Checkout][b] \cup known'
    /\ CommitAt(Checkout) \subseteq CommitAt(Checkout)' \cup Held' \cup given
    /\ CommitAt(Checkout)' \subseteq CommitAt(Checkout) \cup known'
    /\ known \subseteq known'

\* What such a move of the checkout keeps.
LEMMA CheckoutGoesKeeps ==
  ASSUME TypeOK, TypeOK', Kept, CheckoutGoes
  PROVE  /\ FetchedKept' /\ IdesKept' /\ RecordedKept' /\ RecordedHeadKept' /\ IdsKept'
         /\ Reach(Checkout) \subseteq Reach(Checkout)' \cup given'
         /\ Held \subseteq Held' \cup given'
  <1>. USE DEF Kept, BranchesKept, IdsKept
  <1>1. given' = given /\ Reach(Folder)' = Reach(Folder) /\ CommitAt(Folder)' = CommitAt(Folder)
    BY DEF CheckoutGoes, Reach, CommitAt, CommitOf
  <1>2. Reach(Checkout) \subseteq Reach(Checkout)' \cup given'
    BY <1>1, ReachKept DEF CheckoutGoes, Side
  <1>3. Held \subseteq Held' \cup given'
    BY <1>1, <1>2 DEF Held
  <1>4. FetchedKept' /\ IdesKept'
    BY DEF FetchedKept, IdesKept, Mine, CheckoutGoes
  <1>5. RecordedKept'
    BY DEF RecordedKept, CheckoutGoes, Side, Folder, Checkout
  <1>6. RecordedHeadKept'
    BY <1>1, <1>3 DEF RecordedHeadKept, CheckoutGoes, Loose
  <1>7. KnownKept'
    <2>1. Reach(Checkout)' \subseteq Reach(Checkout) \cup known'
      BY DEF Reach, CheckoutGoes
    <2>. QED BY <2>1 DEF KnownKept, CheckoutGoes
  <1>8. BornKept'
    BY <1>1, <1>3 DEF BornKept, CheckoutGoes
  <1>9. AgreedWasShared'
    BY DEF AgreedWasShared, CheckoutGoes
  <1>. QED BY <1>2, <1>3, <1>4, <1>5, <1>6, <1>7, <1>8, <1>9

\* A script moves the branch it was given, or HEAD: over what it found
\* there, or over what was put there since.
LEMMA ArrivalGoes ==
  ASSUME TypeOK, TypeOK', Kept, pc = "checked", PassGoesOn, ArrivesElsewhere \/ ArrivesHere
  PROVE  CheckoutGoes /\ CommitAt(Checkout) \subseteq CommitAt(Checkout)' \cup Reach(Checkout)' \cup given
  <1>1. /\ push.to \in Branch /\ push.commit \in Commit
        /\ tip[Checkout][push.to] \subseteq push.commit \cup given
        /\ head[Checkout] = push.here \/ CommitAt(Checkout) \subseteq given
    BY DEF Kept, PushesKept, StagedKept, CheckedKept
  <1>2. PICK h \in {push.to, head[Checkout]} :
          CheckoutMoves(h) /\ (h # push.to => h = head[Checkout] /\ push.here = push.to)
    <2>1. CASE CheckoutMoves(push.to)
      BY <2>1
    <2>2. CASE push.here = push.to /\ CheckoutMoves(head[Checkout])
      BY <2>2
    <2>. QED BY <2>1, <2>2 DEF ArrivesElsewhere, ArrivesHere
  <1>3. /\ head[Checkout] \in Branch => CommitAt(Checkout) = tip[Checkout][head[Checkout]]
        /\ IsHead(head[Checkout])
    BY Reaches DEF TypeOK, Side
  <1>4. UNCHANGED <<fetched, recorded, op, mover, born, given>>
        /\ tip'[Folder] = tip[Folder] /\ head'[Folder] = head[Folder]
        /\ known' = known \cup push.commit
    BY <1>2 DEF CheckoutMoves, PassGoesOn, TypeOK, Folder, Checkout, Side
  <1>5. CASE h \in Branch
    <2>1. /\ head' = head
          /\ tip'[Checkout][h] = push.commit
          /\ \A b \in Branch \ {h} : tip'[Checkout][b] = tip[Checkout][b]
      BY <1>2, <1>5 DEF CheckoutMoves, TypeOK, Side
    <2>2. tip[Checkout][h] \subseteq push.commit \cup given
      BY <1>1, <1>2, <1>3, <1>5
    <2>3. \A b \in Branch : tip[Checkout][b] \subseteq tip'[Checkout][b] \cup given
      BY <2>1, <2>2
    <2>4. \A b \in Branch : tip'[Checkout][b] \subseteq tip[Checkout][b] \cup known'
      BY <1>4, <2>1
    <2>5. CommitAt(Checkout) \subseteq CommitAt(Checkout)' \cup given
      BY <2>1, <2>3 DEF CommitAt, CommitOf
    <2>6. CommitAt(Checkout)' \subseteq CommitAt(Checkout) \cup known'
      BY <2>1, <2>4 DEF CommitAt, CommitOf
    <2>. QED BY <1>4, <2>3, <2>4, <2>5, <2>6 DEF CheckoutGoes
  <1>6. CASE h \notin Branch
    <2>1. /\ tip' = tip /\ head'[Checkout] = push.commit
          /\ h = head[Checkout] /\ CommitAt(Checkout) \subseteq given
      BY <1>1, <1>2, <1>6 DEF CheckoutMoves, TypeOK, Side
    <2>2. CommitAt(Checkout)' = push.commit
      BY <1>1, <2>1, PositionAssumption DEF CommitAt, CommitOf, Commit
    <2>. QED BY <1>4, <2>1, <2>2 DEF CheckoutGoes
  <1>. QED BY <1>5, <1>6

\* The script's move, or its refusal.
LEMMA ScriptMovesKeeps == ASSUME TypeOK, TypeOK', Kept, ScriptMoves PROVE Kept'
  <1>1. CASE Refused
    BY <1>1, RefusedKeeps DEF ScriptMoves
  <1>2. CASE (ArrivesElsewhere \/ ArrivesHere) /\ Goes("branches")
    <2>1. pc = "checked" /\ pc' = "branches" /\ PassGoesOn
      BY <1>2 DEF ScriptMoves, Goes
    <2>2. /\ CheckoutGoes
          /\ CommitAt(Checkout) \subseteq CommitAt(Checkout)' \cup Reach(Checkout)' \cup given
      BY <1>2, <2>1, ArrivalGoes
    <2>3. given' = given /\ recorded' = recorded /\ fetched' = fetched /\ there' = there
          /\ head'[Folder] = head[Folder]
      BY <2>1, <2>2 DEF CheckoutGoes, PassGoesOn
    <2>4. PushesKept' /\ MirrorKept'
      BY <2>1 DEF PushesKept, StagedKept, CheckedKept, SwitchBegun, SwitchDone, SwitchKept, MirrorKept
    <2>5. RecordedFetched'
      BY <2>1, <2>3 DEF Kept, BranchesKept, RecordedFetched
    <2>6. Anchor' = Anchor
      BY <2>1, <2>3 DEF Anchor, Loose
    <2>7. Reach(Checkout) \subseteq Reach(Checkout)' \cup given
      BY <2>2, <2>3, CheckoutGoesKeeps
    <2>8. AnchorKept'
      BY <2>2, <2>3, <2>6, <2>7 DEF Kept, HeadsKept, AnchorKept
    <2>9. FolderHeadKept'
      BY <2>3, <2>6, <2>7 DEF Kept, HeadsKept, FolderHeadKept
    <2>. QED BY <2>2, <2>4, <2>5, <2>8, <2>9, CheckoutGoesKeeps DEF Kept, BranchesKept, HeadsKept
  <1>. QED BY <1>1, <1>2 DEF ScriptMoves

\* A switch over nothing of the checkout's own: a detached HEAD it leaves
\* is where the two last agreed, and the folder still holds that.
LEMMA SwitchGoes ==
  ASSUME TypeOK, TypeOK', Kept, SwitchScript, MaySwitch, pc' = "switched"
  PROVE  /\ CheckoutGoes
         /\ push' = push /\ given' = given /\ head'[Checkout] = push.to
         /\ push.to \in Branch => tip'[Checkout][push.to] = push.commit
  <1>0. pc = "switching"
    BY DEF SwitchScript
  <1>1. /\ push.here = there /\ there = recorded.head /\ IsHead(push.to)
        /\ push.to \notin Branch => push.commit = push.to
    BY <1>0 DEF Kept, PushesKept, SwitchBegun, SwitchKept
  <1>2. /\ tip' = IF push.to \in Branch THEN [tip EXCEPT ![Checkout][push.to] = push.commit] ELSE tip
        /\ head' = [head EXCEPT ![Checkout] = push.to]
        /\ known' = known \cup push.commit
        /\ UNCHANGED <<fetched, recorded, op, mover, born, given, push>>
    BY DEF SwitchScript, Follows, Goes
  <1>3. /\ tip'[Folder] = tip[Folder] /\ head'[Folder] = head[Folder] /\ head'[Checkout] = push.to
        /\ push.to \in Branch => tip'[Checkout][push.to] = push.commit
        /\ \A b \in Branch \ {push.to} : tip'[Checkout][b] = tip[Checkout][b]
    BY <1>2 DEF TypeOK, Folder, Checkout, Side
  <1>4. head[Checkout] = recorded.head
        /\ (push.to \in Branch => tip[Checkout][push.to] \subseteq push.commit)
    BY <1>1 DEF MaySwitch
  <1>5. \A b \in Branch : /\ tip[Checkout][b] \subseteq tip'[Checkout][b] \cup given
                          /\ tip'[Checkout][b] \subseteq tip[Checkout][b] \cup known'
    BY <1>2, <1>3, <1>4
  <1>6. CommitAt(Checkout)' \subseteq known'
    BY <1>1, <1>2, <1>3 DEF CommitAt, CommitOf
  <1>7. Held \subseteq Held' \cup given
    <2>1. Reach(Folder)' = Reach(Folder) /\ CommitAt(Folder)' = CommitAt(Folder)
      BY <1>3 DEF Reach, CommitAt, CommitOf
    <2>2. Reach(Checkout) \subseteq Reach(Checkout)' \cup given'
      BY <1>2, <1>5, ReachKept DEF Side
    <2>. QED BY <1>2, <2>1, <2>2 DEF Held
  <1>8. CommitAt(Checkout) \subseteq Held \cup given
    <2>1. CASE head[Checkout] \in Branch
      BY <2>1, Reaches DEF Held, Side
    <2>2. CASE head[Checkout] \notin Branch
      <3>1. Loose(recorded.head) = CommitAt(Checkout)
        BY <1>4, <2>2, Reaches, LooseHead DEF TypeOK, Side
      <3>. QED BY <3>1 DEF Kept, BranchesKept, RecordedHeadKept
    <2>. QED BY <2>1, <2>2
  <1>. QED BY <1>2, <1>3, <1>5, <1>6, <1>7, <1>8 DEF CheckoutGoes

\* The switch, or its refusal.
LEMMA SwitchScriptKeeps == ASSUME TypeOK, TypeOK', Kept, SwitchScript PROVE Kept'
  <1>1. CASE Follows(there) /\ UNCHANGED <<sideVars, ghosts>>
    BY <1>1, SwitchRefusedKeeps
  <1>2. CASE MaySwitch /\ pc' = "switched"
    <2>1. /\ CheckoutGoes
          /\ push' = push /\ given' = given /\ head'[Checkout] = push.to
          /\ push.to \in Branch => tip'[Checkout][push.to] = push.commit
      BY <1>2, SwitchGoes
    <2>2. /\ IsHead(push.to)
          /\ push.to \notin Branch => push.to \subseteq Held \cup given
          /\ push.to \in Branch => Mine(push.to) \subseteq push.commit \cup given
          /\ \/ head[Folder] \in Branch
             \/ head[Folder] = push.to
             \/ head[Folder] \subseteq given
      BY DEF SwitchScript, Kept, PushesKept, SwitchBegun, SwitchKept
    <2>3. /\ recorded' = recorded /\ head'[Folder] = head[Folder] /\ tip'[Folder] = tip[Folder]
          /\ fetched' = fetched
      BY <2>1 DEF CheckoutGoes
    <2>4. PushesKept' /\ MirrorKept'
      <3>1. SwitchDone'
        BY <2>1, <2>2, <2>3 DEF SwitchDone, Mine
      <3>2. SwitchKept'
        BY <2>1, <2>2, CheckoutGoesKeeps DEF SwitchKept, IsHead
      <3>. QED BY <1>2, <3>1, <3>2 DEF PushesKept, StagedKept, CheckedKept, SwitchBegun, MirrorKept
    <2>5. RecordedFetched'
      BY <1>2, <2>1, <2>3 DEF SwitchScript, Kept, BranchesKept, RecordedFetched
    <2>6. Anchor' = Loose(push.to)
      BY <1>2, <2>1 DEF Anchor, Loose
    <2>7. AnchorKept'
      <3>1. CASE push.to \in Branch
        BY <2>6, <3>1 DEF AnchorKept, Loose
      <3>2. CASE push.to \notin Branch
        <4>1. Anchor' = CommitAt(Checkout)'
          BY <2>1, <2>2, <2>6, <3>2, LooseHead DEF CommitAt, CommitOf
        <4>. QED BY <4>1 DEF AnchorKept
      <3>. QED BY <3>1, <3>2
    <2>8. FolderHeadKept'
      <3>. SUFFICES ASSUME head[Folder] \notin Branch
                    PROVE  head[Folder] \subseteq Anchor' \cup given
        BY <2>1, <2>3 DEF FolderHeadKept
      <3>. QED BY <2>2, <2>6, LooseHead
    <2>. QED BY <2>1, <2>4, <2>5, <2>7, <2>8, CheckoutGoesKeeps DEF Kept, BranchesKept, HeadsKept
  <1>. QED BY <1>1, <1>2 DEF SwitchScript, Goes

-----------------------------------------------------------------------------
(* The steps that move the folder.                                         *)

\* A move of the folder, to what the checkout has, over what it has.
FolderGoes ==
    /\ UNCHANGED <<fetched, recorded, born, given, known>>
    /\ tip'[Checkout] = tip[Checkout] /\ head'[Checkout] = head[Checkout]
    /\ \A b \in Branch : tip[Folder][b] \subseteq tip'[Folder][b] \cup tip[Checkout][b] \cup given
    /\ \A b \in Branch : \/ tip'[Folder][b] = tip[Folder][b] /\ mover'[b] = mover[b]
                         \/ tip'[Folder][b] = fetched[b]
    /\ CommitAt(Folder) \subseteq Held' \cup given

\* What such a move of the folder keeps.
LEMMA FolderGoesKeeps ==
  ASSUME TypeOK, TypeOK', Kept, FolderGoes, pc \in {"branches", "mirroring"}
  PROVE  /\ FetchedKept' /\ IdesKept' /\ RecordedKept' /\ RecordedHeadKept' /\ IdsKept'
         /\ Reach(Checkout)' = Reach(Checkout) /\ CommitAt(Checkout)' = CommitAt(Checkout)
         /\ Held \subseteq Held' \cup given
  <1>. USE DEF Kept, BranchesKept, IdsKept
  <1>1. Reach(Checkout)' = Reach(Checkout) /\ CommitAt(Checkout)' = CommitAt(Checkout)
    BY DEF FolderGoes, Reach, CommitAt, CommitOf
  <1>2. Held \subseteq Held' \cup given
    <2>1. Reach(Folder) \subseteq Reach(Folder)' \cup Reach(Checkout) \cup given
      BY DEF FolderGoes, Reach
    <2>. QED BY <1>1, <2>1 DEF Held, FolderGoes
  <1>3. FetchedKept'
    BY DEF FetchedKept, FolderGoes
  <1>4. IdesKept'
    BY DEF FetchedKept, IdesKept, Mine, FolderGoes
  <1>5. RecordedKept'
    <2>. SUFFICES ASSUME NEW b \in Branch, recorded.head = b
                  PROVE  /\ recorded.tip \subseteq tip'[Folder][b] \cup given
                         /\ recorded.tip \subseteq tip'[Checkout][b] \cup given
      BY DEF RecordedKept, FolderGoes, Side
    <2>1. recorded.tip \subseteq tip[Folder][b] \cup given
          /\ recorded.tip \subseteq tip[Checkout][b] \cup given
      BY DEF RecordedKept, Side
    <2>2. recorded.tip \subseteq fetched[b] \cup given
      BY DEF RecordedFetched
    <2>. QED BY <2>1, <2>2 DEF FolderGoes
  <1>6. RecordedHeadKept'
    BY <1>2 DEF RecordedHeadKept, FolderGoes, Loose
  <1>7. KnownKept' /\ BornKept' /\ AgreedWasShared'
    BY <1>1, <1>2 DEF KnownKept, BornKept, AgreedWasShared, FolderGoes
  <1>. QED BY <1>1, <1>2, <1>3, <1>4, <1>5, <1>6, <1>7

\* A branch of the folder moved to the checkout's, as fetched: forward, or
\* over what only the IDE moved.
LEMMA DecidesKeeps ==
  ASSUME TypeOK, TypeOK', Kept, NEW b \in Branch, Decides(b)
  PROVE  Kept'
  <1>1. /\ pc = "branches" /\ pc' = "branches" /\ there' = there
        /\ UNCHANGED <<fetched, recorded, born, given, known>>
    BY DEF Decides, ghosts
  <1>2. PushesKept' /\ MirrorKept'
    BY <1>1 DEF PushesKept, StagedKept, CheckedKept, SwitchBegun, SwitchDone, SwitchKept, MirrorKept
  <1>3. RecordedFetched'
    BY <1>1 DEF Kept, BranchesKept, RecordedFetched
  <1>4. Anchor' = Anchor
    BY <1>1 DEF Anchor, Loose
  <1>5. CASE Stays
    <2>1. Quiet
      BY <1>5 DEF Decides, Quiet, Stays
    <2>. QED BY <1>1, <1>2, <1>3, <1>4, <2>1, QuietKeeps, HeadsStay DEF Kept, BranchesKept
  <1>6. ASSUME NEW by, FolderMoves(b, Theirs(b), by), Mine(b) # Theirs(b),
               Mine(b) = {} \/ Ahead(b) = {} \/ b \in Published \/ MovedOnlyByIde(b)
        PROVE  Kept'
    <2>1. /\ head' = head /\ tip'[Checkout] = tip[Checkout]
          /\ tip'[Folder][b] = fetched[b]
          /\ \A c \in Branch \ {b} : tip'[Folder][c] = tip[Folder][c] /\ mover'[c] = mover[c]
      BY <1>6 DEF FolderMoves, Theirs, TypeOK, Side, Folder, Checkout
    <2>2. tip[Folder][b] \subseteq fetched[b] \cup tip[Checkout][b] \cup given
      <3>1. CASE Mine(b) = {} \/ Ahead(b) = {}
        BY <3>1 DEF Mine, Ahead, Theirs
      <3>2. CASE b \in Published \/ MovedOnlyByIde(b)
        BY <3>2 DEF Kept, BranchesKept, IdesKept, MovedOnlyByIde, Mine
      <3>. QED BY <1>6, <3>1, <3>2
    <2>3. CommitAt(Folder) \subseteq Held' \cup given
      <3>1. CASE head[Folder] = b
        <4>1. CommitAt(Folder) = tip[Folder][b] /\ CommitAt(Folder)' = fetched[b]
          BY <2>1, <3>1 DEF CommitAt, CommitOf
        <4>2. tip[Checkout][b] \subseteq Reach(Checkout)'
          BY <2>1, ReachesNext DEF Side
        <4>. QED BY <2>2, <4>1, <4>2 DEF Held
      <3>2. CASE head[Folder] # b
        BY <2>1, <3>2 DEF CommitAt, CommitOf, Held
      <3>. QED BY <3>1, <3>2
    <2>4. FolderGoes
      BY <1>1, <2>1, <2>2, <2>3 DEF FolderGoes
    <2>5. AnchorKept' /\ FolderHeadKept'
      BY <1>1, <1>4, <2>1, <2>4, FolderGoesKeeps DEF Kept, HeadsKept, AnchorKept, FolderHeadKept
    <2>. QED BY <1>1, <1>2, <1>3, <2>4, <2>5, FolderGoesKeeps DEF Kept, BranchesKept, HeadsKept
  <1>. QED
    BY <1>5, <1>6 DEF Decides, DecidesElsewhere, DecidesCurrent, FollowsElsewhere

\* The mirror places the folder at the position fetched.
LEMMA PlaceKeeps == ASSUME TypeOK, TypeOK', Kept, Place PROVE Kept'
  <1>1. /\ pc = "mirroring" /\ pc' = "placed" /\ follow' = follow
        /\ UNCHANGED <<fetched, recorded, born, given, known>>
    BY DEF Place, Goes, passVars, ghosts
  <1>2. /\ IsHead(follow)
        /\ follow \in Branch => tip[Folder][follow] \subseteq tip[Checkout][follow] \cup given
    BY <1>1 DEF Kept, HeadsKept, MirrorKept, Mine
  <1>3. follow \in Branch => fetched[follow] \subseteq tip[Checkout][follow] \cup given
    BY DEF Kept, BranchesKept, FetchedKept
  <1>4. PushesKept' /\ RecordedFetched'
    BY <1>1 DEF PushesKept, StagedKept, CheckedKept, SwitchBegun, SwitchDone, SwitchKept, RecordedFetched
  <1>5. Anchor = Loose(follow) /\ Anchor' = Loose(follow)
    BY <1>1 DEF Anchor, Loose
  <1>6. CASE AtTarget
    <2>1. Quiet
      BY <1>6 DEF Place, Stays, Quiet
    <2>2. follow \notin Branch => follow \subseteq Held
      BY <1>6 DEF AtTarget, Target, Held
    <2>3. MirrorKept'
      BY <1>1, <1>2, <2>1, <2>2, QuietSame DEF MirrorKept, Mine
    <2>. QED BY <1>1, <1>4, <1>5, <2>1, <2>3, QuietKeeps, HeadsStay DEF Kept, BranchesKept
  <1>7. CASE ~AtTarget
    <2>1. /\ tip'[Checkout] = tip[Checkout] /\ head'[Checkout] = head[Checkout]
          /\ head'[Folder] = follow
          /\ follow \in Branch => tip'[Folder][follow] = fetched[follow]
          /\ \A b \in Branch \ {follow} : tip'[Folder][b] = tip[Folder][b] /\ mover'[b] = mover[b]
      BY <1>7 DEF Place, Target, TypeOK, Side, Folder, Checkout
    <2>2. CommitAt(Folder) \subseteq Held' \cup given
      <3>1. Reach(Checkout)' = Reach(Checkout)
        BY <2>1 DEF Reach
      <3>2. CASE head[Folder] \in Branch
        <4>1. CommitAt(Folder) = tip[Folder][head[Folder]]
          BY <3>2 DEF CommitAt, CommitOf
        <4>2. CASE head[Folder] = follow
          BY <1>2, <3>1, <3>2, <4>1, <4>2, Reaches DEF Held, Side
        <4>3. CASE head[Folder] # follow
          BY <2>1, <3>2, <4>1, <4>3, ReachesNext DEF Held, Side
        <4>. QED BY <4>2, <4>3
      <3>3. CASE head[Folder] \notin Branch
        <4>1. CommitAt(Folder) \subseteq Reach(Checkout) \cup Loose(follow) \cup given
          BY <1>5, <3>3 DEF Kept, HeadsKept, FolderHeadKept, CommitAt, CommitOf
        <4>2. Loose(follow) \subseteq CommitAt(Folder)'
          BY <1>2, <2>1, LooseHead DEF CommitAt, CommitOf, Loose
        <4>. QED BY <3>1, <4>1, <4>2 DEF Held
      <3>. QED BY <3>2, <3>3
    <2>3. FolderGoes
      BY <1>1, <1>2, <2>1, <2>2 DEF FolderGoes
    <2>4. MirrorKept'
      <3>1. follow \in Branch => tip'[Folder][follow] \subseteq tip'[Checkout][follow] \cup given'
        BY <1>1, <1>3, <2>1
      <3>2. follow \notin Branch => follow \subseteq Held'
        BY <2>1 DEF Held, CommitAt, CommitOf
      <3>. QED BY <1>1, <1>2, <3>1, <3>2 DEF MirrorKept, Mine, IsHead
    <2>5. AnchorKept'
      BY <1>1, <1>5, <2>3, FolderGoesKeeps DEF Kept, HeadsKept, AnchorKept
    <2>6. FolderHeadKept'
      BY <1>2, <1>5, <2>1, LooseHead DEF FolderHeadKept
    <2>. QED BY <1>1, <1>4, <2>3, <2>4, <2>5, <2>6, FolderGoesKeeps DEF Kept, BranchesKept, HeadsKept
  <1>. QED BY <1>6, <1>7

-----------------------------------------------------------------------------
(* The theorems.                                                           *)

\* Personal begun from the folder has lost nothing.
LEMMA InitKept == Init => Kept
  <1>. SUFFICES ASSUME Init PROVE Kept
    OBVIOUS
  <1>0. TypeOK
    BY InitType
  <1>1. PICK b \in Branch, root \in Id, unborn \in BOOLEAN :
          LET none == [c \in Branch |-> {}]
              only == [none EXCEPT ![b] = {root}]
          IN /\ tip = [s \in Side |-> IF s = Folder /\ unborn THEN none ELSE only]
             /\ head = [s \in Side |-> b]
             /\ recorded \in {NoRecord} \cup
                    (IF unborn THEN {} ELSE {[head |-> b, tip |-> {root}]})
             /\ born = {root}
             /\ known = {root}
    BY DEF Init
  <1>2. /\ tip[Checkout][b] = {root} /\ \A c \in Branch \ {b} : tip[Checkout][c] = {}
        /\ \A c \in Branch : tip[Folder][c] \subseteq tip[Checkout][c]
        /\ \A s \in Side : head[s] = b
        /\ \A c \in Branch : fetched[c] = {}
    BY <1>1 DEF Side, Folder, Checkout, Init
  <1>3. \/ recorded.head = None /\ recorded.tip = {}
        \/ recorded.head = b /\ recorded.tip = {root} /\ tip[Folder][b] = {root}
    BY <1>1 DEF Side, Folder, Checkout, NoRecord
  <1>4. CommitAt(Checkout) = {root} /\ Reach(Checkout) \subseteq {root}
    BY <1>2 DEF CommitAt, CommitOf, Side, Reach
  <1>5. pc = "idle" /\ born = {root} /\ known = {root}
    BY <1>1 DEF Init
  <1>6. FetchedKept /\ IdesKept
    BY <1>2 DEF FetchedKept, IdesKept, Mine
  <1>7. RecordedKept
    BY <1>2, <1>3, PositionAssumption DEF RecordedKept, Side
  <1>8. RecordedHeadKept
    BY <1>3 DEF RecordedHeadKept, Loose
  <1>9. RecordedFetched /\ PushesKept /\ MirrorKept
    BY <1>5 DEF RecordedFetched, PushesKept, StagedKept, CheckedKept, SwitchBegun, SwitchDone,
       SwitchKept, MirrorKept
  <1>10. AnchorKept
    <2>1. Anchor = CommitAt(Checkout)
      BY <1>5 DEF Anchor
    <2>. QED BY <2>1 DEF AnchorKept
  <1>11. FolderHeadKept
    BY <1>2 DEF FolderHeadKept, Side
  <1>12. IdsKept
    BY <1>3, <1>4, <1>5 DEF IdsKept, KnownKept, BornKept, AgreedWasShared
  <1>. QED BY <1>6, <1>7, <1>8, <1>9, <1>10, <1>11, <1>12 DEF Kept, BranchesKept, HeadsKept

\* One step of anybody keeps the invariant.
LEMMA StepKept == IInv /\ [Next]_vars => IInv'
  <1>. SUFFICES ASSUME IInv, [Next]_vars PROVE IInv'
    OBVIOUS
  <1>0. TypeOK /\ Kept /\ PushesKept /\ MirrorKept
    BY DEF IInv, Kept, HeadsKept
  <1>1. CASE UNCHANGED vars
    <2>1. TypeOK'
      BY <1>0, <1>1 DEF TypeOK, vars, sideVars, passVars, ghosts
    <2>2. Quiet /\ fetched' = fetched /\ recorded' = recorded /\ UNCHANGED <<pinned, pc, passVars>>
      BY <1>1 DEF vars, Quiet
    <2>3. FetchedKept' /\ IdesKept' /\ RecordedKept' /\ RecordedHeadKept' /\ IdsKept'
      BY <1>0, <2>2, QuietKeeps
    <2>4. RecordedFetched' /\ PushesKept'
      BY <1>0, <2>2, QuietSame DEF Kept, BranchesKept, RecordedFetched, PushesKept, StagedKept,
         CheckedKept, SwitchBegun, SwitchDone, SwitchKept, passVars, Side, IsHead, Mine
    <2>5. HeadsKept'
      <3>1. MirrorKept'
        BY <1>0, <2>2, QuietSame DEF MirrorKept, passVars, IsHead, Mine
      <3>2. Anchor' = Anchor
        BY <2>2, QuietSame DEF Anchor, passVars, Loose, Side
      <3>. QED BY <1>0, <2>2, <3>1, <3>2, HeadsStay
    <2>. QED BY <2>1, <2>3, <2>4, <2>5 DEF IInv, BranchesKept
  <1>2. CASE Actors
    <2>1. TypeOK'
      BY <1>0, <1>2, ActorsType
    <2>2. Kept'
      BY <1>0, <1>2, <2>1, ActorsKept
    <2>. QED BY <2>1, <2>2 DEF IInv, Kept
  <1>3. CASE Pass \/ Stop
    <2>1. TypeOK'
      BY <1>0, <1>3, PassType
    <2>2. Kept'
      BY <1>0, <1>3, <2>1, StopKeeps, LooksKeep, FetchKeeps, DecidesKeeps, SendsKeep,
         ScriptChecksKeeps, ScriptMovesKeeps, FollowHeadKeeps, SwitchScriptKeeps,
         RecordSwitchKeeps, SettleKeeps, PlaceKeeps, RecordKeeps DEF Pass
    <2>. QED BY <2>1, <2>2 DEF IInv, Kept
  <1>. QED BY <1>1, <1>2, <1>3 DEF Next

\* What a side holds is what it has checked out and what its branches reach.
LEMMA NothingLost == IInv => NoCommitLost
  <1>. SUFFICES ASSUME IInv, NEW i \in born \ given
                PROVE  i \in Holds(Folder) \cup Holds(Checkout)
    BY DEF NoCommitLost
  <1>1. i \in Held \cup CommitAt(Checkout)
    BY DEF IInv, IdsKept, BornKept
  <1>2. \A s \in Side : CommitAt(s) \subseteq Holds(s) /\ Reach(s) \subseteq Holds(s)
    BY DEF Holds, Reach
  <1>. QED BY <1>1, <1>2 DEF Held, Side

\* The invariant holds of every behaviour.
LEMMA Invariant == Spec => []IInv
  <1>1. Init => IInv
    BY InitType, InitKept DEF IInv, Kept
  <1>. QED BY <1>1, StepKept, PTL DEF Spec

\* Whatever the actors, the pass and its interruptions do, branches, HEADs
\* and what the pass holds of them are what the code takes them for.
THEOREM TypeCorrect == Spec => []TypeOK
  BY Invariant, PTL DEF IInv

\* P1, of commits: whatever the pass moves on either side, and wherever it
\* is interrupted, a commit nobody dropped or put in a window stays in a
\* branch or under a HEAD of one side or the other.
THEOREM NoCommitIsLost == Spec => []NoCommitLost
  BY Invariant, NothingLost, PTL

\* mirror_recorded_tip: what is recorded as agreed on has been in Personal,
\* so a branch the folder holds at that tip may be moved without loss.
THEOREM AgreedIsShared == Spec => []AgreedWasShared
  <1>1. IInv => AgreedWasShared
    BY DEF IInv, IdsKept
  <1>. QED BY <1>1, Invariant, PTL
=============================================================================
