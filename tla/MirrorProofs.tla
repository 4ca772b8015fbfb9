---------------------------- MODULE MirrorProofs ----------------------------
(***************************************************************************)
(* The mirror pass keeps its types, whatever happens; and it keeps every   *)
(* version safe, for any paths, entries and bounds, where no chat turn's   *)
(* snapshot runs beside it (Budget["turn"] = 0): with one, TLC finds a     *)
(* version lost (MCMirrorTurn).                                            *)
(*                                                                         *)
(* Then what a pass leaves agreed, while the sides' rules stand as well    *)
(* (Budget["rule"] = 0): one nobody disturbed lands all it planned, and    *)
(* the sync's own writes are nobody's change.  And, rules and turns as     *)
(* they may come, that while no pass is stopped the sync takes no version  *)
(* away that neither side holds and nobody replaced.                       *)
(***************************************************************************)
EXTENDS Mirror, PlanProofs

-----------------------------------------------------------------------------
(* Types.                                                                  *)

\* The ref, once there, stays: a script that read a commit there finds one.
TypeInv ==
    /\ TypeOK
    /\ \A t \in Taker : look[t].prev # NoSnapshot => snapRef \in Snapshot

LEMMA Types ==
    /\ None \in Held /\ None \notin Entry
    /\ Empty \in Copy /\ NoTree \in Tree /\ NoLook \in Look
    /\ NoAnswer \in Resolve
    /\ NothingObserved \in Observed
    /\ NoPlan \in PlanType
    /\ NoSnapshot \in Commit /\ NoSnapshot \notin Snapshot
    /\ Folder \in Side /\ Checkout \in Side /\ Folder # Checkout
    /\ "pass" \in Taker /\ "turn" \in Taker
PROOF
  <1>1. None \in Held /\ None \notin Entry
    BY PlanAssumption DEF Held
  <1>2. Empty \in Copy
    BY <1>1 DEF Empty, Copy
  <1>3. NoTree \in Tree
    BY <1>2 DEF NoTree, Tree
  <1>4. NoSnapshot \in Commit /\ NoSnapshot \notin Snapshot
    BY MirrorAssumption DEF Commit
  <1>5. NoLook \in Look
    BY <1>3, <1>4 DEF NoLook, Look
  <1>6. NoAnswer \in Resolve
    BY DEF NoAnswer, Resolve, Side
  <1>7. NothingObserved \in Observed
    BY <1>2 DEF NothingObserved, Observed
  <1>8. NoPlan \in PlanType
    BY DEF NoPlan, PlanType
  <1>q. QED BY <1>1, <1>2, <1>3, <1>4, <1>5, <1>6, <1>7, <1>8
            DEF Side, Folder, Checkout, Taker

LEMMA TypeInit == Init => TypeInv
PROOF
  <1> SUFFICES ASSUME Init PROVE TypeInv
    OBVIOUS
  <1> USE Types DEF Init
  <1>1. archive \in Copy /\ disk \in [Side -> Copy]
    OBVIOUS
  <1>2. observation \in [snapshot : Commit, wrote : BOOLEAN]
    BY DEF NoObservation
  <1>3. look \in [Taker -> Look] /\ \A t \in Taker : look[t] = NoLook
    OBVIOUS
  <1>4. \A t \in Taker : look[t].at = "idle" /\ look[t].prev = NoSnapshot
    BY <1>3 DEF NoLook
  <1>5. budget \in [Kind -> Nat]
    BY MirrorAssumption
  <1>6. ignored \in [Side -> SUBSET Path] /\ byActor \in [Side -> [Path -> BOOLEAN]]
    OBVIOUS
  <1>q. QED BY <1>1, <1>2, <1>3, <1>4, <1>5, <1>6 DEF TypeInv, TypeOK, PlanType

LEMMA SpendType ==
    ASSUME TypeOK, NEW kind \in Kind, Spend(kind)
    PROVE  budget' \in [Kind -> Nat]
PROOF BY DEF TypeOK, Spend

LEMMA VisibleType ==
    ASSUME TypeOK, NEW side \in Side
    PROVE  Visible(side) \in Copy
PROOF BY Types DEF TypeOK, Visible, Copy

LEMMA LookedType ==
    ASSUME TypeOK, NEW avoid \in Commit
    PROVE  Looked(avoid) \in Look
PROOF
  <1>1. TreeNow \in Tree
    BY Types, VisibleType DEF TypeOK, TreeNow, Tree
  <1>q. QED BY <1>1 DEF TypeOK, Looked, Look

\* A script that begins to look has read the ref as it is.
LEMMA LookBegun ==
    ASSUME TypeInv, NEW taker \in Taker, NEW avoid \in Commit,
           look' = [look EXCEPT ![taker] = Looked(avoid)]
    PROVE  /\ look' \in [Taker -> Look]
           /\ \A t \in Taker :
                  /\ look'[t].at = "done" => snapRef \in Snapshot
                  /\ look'[t].prev # NoSnapshot => snapRef \in Snapshot
PROOF
  <1>1. Looked(avoid) \in Look
    BY LookedType DEF TypeInv
  <1>2. look' \in [Taker -> Look]
    BY <1>1 DEF TypeInv, TypeOK
  <1>3. ASSUME NEW t \in Taker
        PROVE  /\ look'[t].at = "done" => snapRef \in Snapshot
               /\ look'[t].prev # NoSnapshot => snapRef \in Snapshot
    <2>1. CASE t = taker
      <3>1. look'[t] = Looked(avoid)
        BY <2>1 DEF TypeInv, TypeOK
      <3>2. look'[t].at = "looked" /\ look'[t].prev = snapRef
        BY <3>1 DEF Looked
      <3>q. QED BY <3>2 DEF TypeInv, TypeOK, Commit
    <2>2. CASE t # taker
      <3>1. look'[t] = look[t]
        BY <2>2 DEF TypeInv, TypeOK
      <3>q. QED BY <3>1 DEF TypeInv, TypeOK
    <2>q. QED BY <2>1, <2>2
  <1>q. QED BY <1>2, <1>3

LEMMA ForgottenType ==
    ASSUME TypeOK, Forgotten
    PROVE  /\ pc' = "idle" /\ answer' \in Resolve /\ snapshot' \in Commit
           /\ seen' \in Copy /\ observed' \in Observed /\ plan' \in PlanType
           /\ left' \subseteq Write /\ landed' \subseteq Write
           /\ look' \in [Taker -> Look]
           /\ look'["pass"] = NoLook
           /\ \A t \in Taker : look'[t] = look[t] \/ look'[t] = NoLook
PROOF BY Types DEF TypeOK, Forgotten

LEMMA AsksType ==
    ASSUME TypeOK, NEW conflicts \in SUBSET Path, Asks(conflicts)
    PROVE  asked' \subseteq Path /\ dialog' \subseteq Path
PROOF BY DEF TypeOK, Asks

LEMMA ObservationType ==
    ASSUME TypeOK, pc = "read"
    PROVE  Observation \in Observed
PROOF
  <1>1. snapshot \in Snapshot
    BY DEF TypeOK
  <1>2. snapshot.tree.files \in Copy
    BY <1>1 DEF Snapshot, Tree
  <1>3. Unseen \subseteq Path
    BY DEF Unseen, Present
  <1>q. QED BY <1>2, <1>3 DEF Observation, Observed, TypeOK

LEMMA CarryType ==
    ASSUME TypeInv, NEW side \in Side, NEW w \in left, Carry(side, w)
    PROVE  TypeInv'
PROOF
  <1> USE DEF TypeInv, TypeOK, Carry
  <1>1. w \in Write /\ w.path \in Path /\ w.entry \in Held
    BY DEF Write
  <1>2. disk' \in [Side -> Copy] /\ byActor' \in [Side -> [Path -> BOOLEAN]]
    <2>1. CASE Written(side, w)
      BY <1>1, <2>1 DEF Written, Copy
    <2>q. QED BY <2>1
  <1>3. budget' \in [Kind -> Nat]
    BY SpendType DEF Kind
  <1>4. landed' \subseteq Write /\ left' \subseteq Write
    BY <1>1
  <1>5. calm' \in BOOLEAN
    OBVIOUS
  <1>q. QED BY <1>2, <1>3, <1>4, <1>5 DEF recordVars

LEMMA TypeStep == TypeInv /\ [Next]_vars => TypeInv'
PROOF
  <1> SUFFICES ASSUME TypeInv, [Next]_vars PROVE TypeInv'
    OBVIOUS
  <1> USE DEF TypeInv
  <1>a. TypeOK
    OBVIOUS
  <1>1. ASSUME NEW side \in Side, NEW p \in Path, NEW e \in Held, Edit(side, p, e)
        PROVE  TypeInv'
    <2>1. budget' \in [Kind -> Nat]
      BY <1>1, SpendType DEF Edit, Kind
    <2>2. disk' \in [Side -> Copy] /\ byActor' \in [Side -> [Path -> BOOLEAN]]
      BY <1>1 DEF Edit, TypeOK, Copy
    <2>3. replaced' \subseteq Path \X Entry
      BY <1>1 DEF Edit, TypeOK, Copy, Held
    <2>q. QED BY <1>1, <2>1, <2>2, <2>3 DEF Edit, TypeOK, recordVars, passVars
  <1>2. ASSUME NEW side \in Side, NEW p \in Path, ChangeRules(side, p)
        PROVE  TypeInv'
    <2>1. budget' \in [Kind -> Nat]
      BY <1>2, SpendType DEF ChangeRules, Kind
    <2>2. ignored' \in [Side -> SUBSET Path]
      BY <1>2 DEF ChangeRules, TypeOK
    <2>q. QED BY <1>2, <2>1, <2>2 DEF ChangeRules, TypeOK, recordVars, passVars
  <1>3. ASSUME NEW r \in Resolve, Begin(r), budget' \in [Kind -> Nat], dialog' \subseteq Path
        PROVE  TypeInv'
    <2>1. WrittenOver \in Commit
      BY Types DEF TypeOK, WrittenOver
    <2>2. look' = [look EXCEPT !["pass"] = Looked(WrittenOver)]
      BY <1>3 DEF Begin
    <2>3. calm' \in BOOLEAN
      BY <1>3 DEF Begin
    <2>q. QED BY <1>3, <2>1, <2>2, <2>3, LookBegun, Types DEF Begin, TypeOK, sideVars
  <1>4. CASE BeginUnasked
    BY <1>3, <1>4, Types DEF BeginUnasked, TypeOK
  <1>5. ASSUME NEW side \in Side, BeginAnswered(side)
        PROVE  TypeInv'
    <2>1. [keep |-> side, paths |-> asked] \in Resolve
      BY DEF TypeOK, Resolve
    <2>2. budget' \in [Kind -> Nat] /\ dialog' \subseteq Path
      BY <1>5, SpendType DEF BeginAnswered, Kind
    <2>q. QED BY <1>3, <1>5, <2>1, <2>2 DEF BeginAnswered
  <1>6. CASE Resolving
    BY <1>6 DEF Resolving, TypeOK, sideVars, passVars
  <1>7. ASSUME NEW t \in Taker, Publish(t)
        PROVE  TypeInv'
    <2>1. look[t] \in Look
      BY DEF TypeOK
    <2>2. CASE /\ Unchanged(look[t])
               /\ look' = [look EXCEPT ![t].at = "done"]
               /\ UNCHANGED snapRef
      <3>1. snapRef \in Snapshot
        BY <2>2 DEF Unchanged
      <3>2. look' \in [Taker -> Look] /\ \A u \in Taker : look'[u].prev = look[u].prev
        BY <2>1, <2>2 DEF TypeOK, Look
      <3>q. QED BY <1>7, <2>2, <3>1, <3>2 DEF Publish, TypeOK, sideVars, recordVars, passVars
    <2>3. CASE /\ snapRef' \in CommitsOf(look[t])
               /\ look' = [look EXCEPT ![t].at = "done"]
      <3>1. snapRef' \in Snapshot
        BY <2>1, <2>3 DEF CommitsOf, Look, Snapshot
      <3>2. look' \in [Taker -> Look]
        BY <2>1, <2>3 DEF TypeOK, Look
      <3>q. QED BY <1>7, <3>1, <3>2 DEF Publish, TypeOK, Commit, sideVars, recordVars, passVars
    <2>4. CASE /\ look' = [look EXCEPT ![t].prev = snapRef]
               /\ UNCHANGED snapRef
               /\ look[t].at = "looked"
      <3>1. look' \in [Taker -> Look]
        BY <2>1, <2>4 DEF TypeOK, Look
      <3>2. \A u \in Taker : look'[u].at = look[u].at
                             /\ look'[u].prev \in {look[u].prev, snapRef}
        BY <2>1, <2>4 DEF TypeOK, Look
      <3>q. QED BY <1>7, <2>4, <3>1, <3>2
                DEF Publish, TypeOK, Commit, sideVars, recordVars, passVars
    <2>q. QED BY <1>7, <2>2, <2>3, <2>4 DEF Publish
  <1>8. CASE TurnEnds
    <2>1. budget' \in [Kind -> Nat]
      BY <1>8, SpendType DEF TurnEnds, Kind
    <2>2. look' = [look EXCEPT !["turn"] = Looked(NoSnapshot)]
      BY <1>8 DEF TurnEnds
    <2>q. QED BY <1>8, <2>1, <2>2, LookBegun, Types
              DEF TurnEnds, TypeOK, sideVars, recordVars, passVars
  <1>9. ASSUME NEW t \in Taker, look' = [look EXCEPT ![t] = NoLook]
        PROVE  /\ look' \in [Taker -> Look]
               /\ \A u \in Taker : look'[u] = look[u] \/ look'[u] = NoLook
    BY <1>9, Types DEF TypeOK
  <1>b. NoLook.at = "idle" /\ NoLook.prev = NoSnapshot
    BY DEF NoLook
  <1>10. CASE TurnTaken
    <2>1. look' = [look EXCEPT !["turn"] = NoLook]
      BY <1>10 DEF TurnTaken
    <2>q. QED BY <1>9, <1>b, <1>10, <2>1, Types
              DEF TurnTaken, TypeOK, sideVars, recordVars, passVars
  <1>11. CASE Fetch
    <2>1. look' = [look EXCEPT !["pass"] = NoLook] /\ snapRef \in Snapshot
      BY <1>11, Types DEF Fetch, FetchNow, TypeOK
    <2>q. QED BY <1>9, <1>b, <1>11, <2>1, Types
              DEF Fetch, FetchNow, TypeOK, Commit, sideVars, recordVars
  <1>12. ASSUME Forgotten, asked' \subseteq Path, dialog' \subseteq Path,
                calm' \in BOOLEAN, budget' \in [Kind -> Nat], orphan' \subseteq Write,
                archive' \in Copy,
                observation' \in [snapshot : Commit, wrote : BOOLEAN],
                UNCHANGED <<sideVars, snapRef>>
         PROVE  TypeInv'
    BY <1>a, <1>b, <1>12, ForgottenType, Types DEF TypeOK, sideVars, PlanType
  <1>13. CASE FetchStale
    BY <1>12, <1>13, AsksType DEF FetchStale, TypeOK
  <1>14. CASE ReadFolder
    BY <1>14, VisibleType, Types DEF ReadFolder, TypeOK, sideVars, recordVars
  <1>15. CASE Decide
    <2>1. Observation \in Observed
      BY <1>15, ObservationType DEF Decide
    <2>2. plan' \in PlanType /\ observed' \in Observed
      BY <1>15, <2>1, PlannedType DEF Decide
    <2>3. left' \subseteq Write
      BY <1>15, <2>2 DEF Decide, PlanType
    <2>4. GivenUp(Observation, answer, plan'.toCheckout \cup plan'.toFolder)
              \subseteq Path \X Entry
      BY <2>2 DEF PlanType, GivenUp, Write, Held
    <2>q. QED BY <1>15, <2>2, <2>3, <2>4 DEF Decide, TypeOK, recordVars, PlanType
  <1>16. CASE Pause
    BY <1>12, <1>16, AsksType, SpendType DEF Pause, TypeOK, Kind
  <1>17. CASE Send
    BY <1>17, CarryType, Types DEF Send, FirstOf
  <1>18. CASE Sent
    BY <1>18 DEF Sent, TypeOK, sideVars, recordVars
  <1>19. CASE Receive
    BY <1>19, CarryType, Types DEF Receive, FirstOf
  <1>20. CASE Record
    <2>1. plan \in PlanType
      BY DEF TypeOK, PlanType
    <2>2. archive' \in Copy
      BY <1>20, <2>1, ArchivedType, AsTreeType DEF Record, Recorded, TypeOK
    <2>3. asked' \subseteq Path /\ dialog' \subseteq Path
      BY <1>20, AsksType DEF Record, Recorded, TypeOK
    <2>4. observation' \in [snapshot : Commit, wrote : BOOLEAN]
      BY <1>20 DEF Record, Recorded, TypeOK
    <2>q. QED BY <1>12, <1>20, <2>2, <2>3, <2>4 DEF Record, Recorded, TypeOK
  <1>21. CASE Stop
    <2>1. budget' \in [Kind -> Nat]
      BY <1>21, SpendType DEF Stop, Kind
    <2>q. QED BY <1>12, <1>21, <2>1 DEF Stop, TypeOK
  <1>22. CASE OrphanWrites
    <2>1. PICK w \in orphan : IF Lands(Checkout, w) THEN Written(Checkout, w)
                                                 ELSE UNCHANGED <<disk, byActor>>
      BY <1>22 DEF OrphanWrites, FirstOf
    <2>2. w \in Write /\ w.path \in Path /\ w.entry \in Held
      BY DEF TypeOK, Write
    <2>3. disk' \in [Side -> Copy] /\ byActor' \in [Side -> [Path -> BOOLEAN]]
      <3>1. CASE Written(Checkout, w)
        BY <2>2, <3>1 DEF TypeOK, Written, Copy
      <3>2. CASE UNCHANGED <<disk, byActor>>
        BY <3>2 DEF TypeOK
      <3>q. QED BY <2>1, <3>1, <3>2
    <2>4. orphan' \subseteq Write
      BY <1>22 DEF OrphanWrites, TypeOK
    <2>q. QED BY <1>22, <2>3, <2>4 DEF OrphanWrites, TypeOK, recordVars, passVars
  <1>23. CASE UNCHANGED vars
    BY <1>23 DEF vars, TypeOK, sideVars, recordVars, passVars
  <1>q. QED
    BY <1>1, <1>2, <1>4, <1>5, <1>6, <1>7, <1>8, <1>10, <1>11, <1>13, <1>14, <1>15,
       <1>16, <1>17, <1>18, <1>19, <1>20, <1>21, <1>22, <1>23, Types
    DEF Next, Actors, Pass

\* The pass, its script and its records keep their types, whoever acts and
\* wherever the pass stops; and a script that is done has left a snapshot.
THEOREM TypeKept == Spec => []TypeOK
PROOF
  <1>1. Spec => []TypeInv
    BY TypeInit, TypeStep, PTL DEF Spec
  <1>2. TypeInv => TypeOK
    BY DEF TypeInv
  <1>q. QED BY <1>1, <1>2, PTL

-----------------------------------------------------------------------------
(* What takes a version away, and what the pass decided to.                *)

\* Only three things change what a side holds: an actor, a write of the pass
\* and a write of a script whose pass has stopped - the last two only where
\* the side holds what the write expects.
LEMMA WhoWrites ==
    ASSUME TypeInv, [Next]_vars, NEW s \in Side, NEW p \in Path,
           disk'[s][p] # disk[s][p]
    PROVE  \/ /\ disk[s][p] = None \/ <<p, disk[s][p]>> \in replaced'
              /\ byActor'[s][p]
           \/ /\ \/ pc = "sending" /\ s = Checkout
                 \/ pc = "receiving" /\ s = Folder
              /\ \E w \in left : w.path = p /\ w.expect = disk[s][p]
           \/ /\ orphan' # orphan
              /\ \E w \in orphan : w.path = p /\ w.expect = disk[s][p]
PROOF
  <1> USE DEF TypeInv, TypeOK
  <1>1. ASSUME NEW side \in Side, NEW q \in Path, NEW e \in Held, Edit(side, q, e)
        PROVE  /\ disk[s][p] = None \/ <<p, disk[s][p]>> \in replaced'
               /\ byActor'[s][p]
    <2>1. side = s /\ q = p
      BY <1>1 DEF Edit, Copy
    <2>q. QED BY <1>1, <2>1 DEF Edit, Copy
  <1>2. ASSUME NEW side \in Side, NEW w \in left, w \in Write, Written(side, w)
        PROVE  side = s /\ w.path = p
    BY <1>2 DEF Written, Copy
  <1>3. ASSUME NEW side \in Side, NEW w \in left, Carry(side, w)
        PROVE  side = s /\ w.path = p /\ w.expect = disk[s][p]
    <2>1. Lands(side, w) /\ Written(side, w)
      BY <1>3 DEF Carry
    <2>q. QED BY <1>2, <2>1 DEF Lands
  <1>4. CASE Send
    BY <1>3, <1>4, Types DEF Send, FirstOf
  <1>5. CASE Receive
    BY <1>3, <1>5, Types DEF Receive, FirstOf
  <1>6. CASE OrphanWrites
    <2>1. PICK w \in orphan :
              /\ orphan' = orphan \ {w}
              /\ IF Lands(Checkout, w) THEN Written(Checkout, w)
                                       ELSE UNCHANGED <<disk, byActor>>
      BY <1>6 DEF OrphanWrites, FirstOf
    <2>2. Lands(Checkout, w) /\ Written(Checkout, w)
      BY <2>1
    <2>3. w.path = p /\ s = Checkout
      BY <2>2, Types DEF Written, Copy, Write
    <2>q. QED BY <2>1, <2>2, <2>3 DEF Lands
  <1>7. CASE UNCHANGED sideVars
    BY <1>7 DEF sideVars
  <1>q. QED
    BY <1>1, <1>4, <1>5, <1>6, <1>7
    DEF Next, Actors, Pass, vars, ChangeRules, BeginUnasked, BeginAnswered, Begin, Resolving,
        Publish, Fetch, FetchNow, FetchStale, ReadFolder, Decide, Pause, Sent, Record,
        Recorded, Stop, TurnEnds, TurnTaken, sideVars

\* What was replaced stays replaced.
LEMMA StaysReplaced ==
    ASSUME [Next]_vars
    PROVE  replaced \subseteq replaced'
PROOF
  BY DEF Next, Actors, Pass, vars, Edit, ChangeRules, BeginUnasked, BeginAnswered, Begin,
     Resolving, Publish, Fetch, FetchNow, FetchStale, ReadFolder, Decide, Pause, Send, Sent,
     Receive, Carry, Record, Recorded, Stop, TurnEnds, TurnTaken, OrphanWrites, sideVars

\* The writes of a leg are the plan's; and one nobody's word is on expects
\* what the two last agreed on.
Decided ==
    /\ pc = "sending" => left \subseteq plan.toCheckout
    /\ pc = "receiving" => left \subseteq plan.toFolder
    /\ pc \in {"sending", "receiving"} =>
           \A w \in plan.toCheckout \cup plan.toFolder :
               w.path \in answer.paths \/ w.expect = archive[w.path]

LEMMA DecidedStep == TypeInv /\ Decided /\ [Next]_vars => Decided'
PROOF
  <1> SUFFICES ASSUME TypeInv, Decided, [Next]_vars PROVE Decided'
    OBVIOUS
  <1>1. CASE Decide
    <2> DEFINE o == Observation
    <2>1. /\ plan' = Planned(o, answer) /\ left' = plan'.toCheckout
          /\ pc' = "sending" /\ UNCHANGED <<answer, archive>>
      BY <1>1 DEF Decide, recordVars
    <2>2. o \in Observed /\ o.archive = archive
      BY <1>1, ObservationType DEF Decide, Observation, TypeInv
    <2>3. /\ plan'.toCheckout \subseteq CheckoutWrites(o, answer)
          /\ plan'.toFolder \subseteq FolderWrites(o, answer)
      BY <2>1, <2>2, PlannedType DEF Kept, Without
    <2>4. \A w \in CheckoutWrites(o, answer) :
              w.path \in answer.paths \/ w.expect = archive[w.path]
      BY <2>2 DEF CheckoutWrites, SendsToCheckout, Answered, CheckoutChanged
    <2>5. \A w \in FolderWrites(o, answer) :
              w.path \in answer.paths \/ w.expect = archive[w.path]
      BY <2>2 DEF FolderWrites, SendsToFolder, Answered, FolderChanged
    <2>q. QED BY <2>1, <2>3, <2>4, <2>5 DEF Decided
  <1>2. ASSUME NEW side \in Side, NEW w \in left, Carry(side, w)
        PROVE  Decided'
    BY <1>2 DEF Carry, Decided, recordVars
  <1>3. CASE Send
    BY <1>2, <1>3, Types DEF Send, FirstOf
  <1>4. CASE Receive
    BY <1>2, <1>4, Types DEF Receive, FirstOf
  <1>5. CASE Sent
    BY <1>5 DEF Sent, Decided, recordVars
  <1>6. CASE pc' \notin {"sending", "receiving"}
    BY <1>6 DEF Decided
  <1>7. CASE UNCHANGED <<pc, left, plan, answer, archive>>
    BY <1>7 DEF Decided
  <1>q. QED
    BY <1>1, <1>3, <1>4, <1>5, <1>6, <1>7
    DEF Next, Actors, Pass, vars, Edit, ChangeRules, BeginUnasked, BeginAnswered, Begin,
        Resolving, Publish, Fetch, FetchNow, FetchStale, Forgotten, ReadFolder, Pause, Record,
        Recorded, Stop, TurnEnds, TurnTaken, OrphanWrites, recordVars, passVars

LEMMA DecidedHolds == Spec => [](TypeInv /\ Decided)
PROOF
  <1>1. Init => Decided
    BY DEF Init, Decided
  <1>q. QED BY <1>1, TypeInit, TypeStep, DecidedStep, PTL DEF Spec

\* SYNC.md, P1 and P2: a path nobody gave an answer for is written by the
\* pass only over what the two sides last agreed on, whatever is edited,
\* cut short or snapshot meanwhile.
THEOREM OnlyOverTheAgreed == Spec => OnlyOverAgreed
PROOF
  <1>1. ASSUME TypeInv, Decided, [Next]_vars, NEW s \in Side, NEW p \in Path,
               disk'[s][p] # disk[s][p], orphan' = orphan, ~byActor'[s][p]
        PROVE  p \in answer.paths \/ disk[s][p] = archive[p]
    <2>1. PICK w \in left : /\ w.path = p /\ w.expect = disk[s][p]
                            /\ pc \in {"sending", "receiving"}
      BY <1>1, WhoWrites
    <2>2. w \in plan.toCheckout \cup plan.toFolder
      BY <1>1, <2>1 DEF Decided
    <2>q. QED BY <1>1, <2>1, <2>2 DEF Decided
  <1>2. TypeInv /\ Decided /\ [Next]_vars =>
            [\A s \in Side, p \in Path :
               /\ disk'[s][p] # disk[s][p]
               /\ pc \in {"sending", "receiving"} /\ orphan' = orphan /\ ~byActor'[s][p]
               => p \in answer.paths \/ disk[s][p] = archive[p]]_vars
    BY <1>1
  <1>q. QED BY <1>2, DecidedHolds, PTL DEF Spec, OnlyOverAgreed

\* SYNC.md, P7: what the folder holds and git does not show - ignored there,
\* by whatever rules - is never removed from the checkout for being absent
\* from what the pass read.
THEOREM NeverRemovedUnseen == Spec => UnseenKept
PROOF
  <1>1. ASSUME TypeInv, [Next]_vars, pc = "read", pc' = "sending"
        PROVE  Decide
    BY <1>1 DEF Next, Actors, Pass, vars, Edit, ChangeRules, BeginUnasked, BeginAnswered,
       Begin, Resolving, Publish, Fetch, FetchNow, FetchStale, Forgotten, ReadFolder, Pause,
       Send, Sent, Receive, Carry, Record, Recorded, Stop, TurnEnds, TurnTaken, OrphanWrites,
       recordVars, passVars
  <1>2. ASSUME TypeInv, [Next]_vars, pc = "read", pc' = "sending",
               NEW w \in Removals(plan'.toCheckout)
        PROVE  disk[Folder][w.path] = None
    <2> DEFINE o == Observation
    <2>1. Decide /\ plan' = Planned(o, answer)
      BY <1>1, <1>2 DEF Decide
    <2>2. o \in Observed
      BY <1>2, ObservationType DEF TypeInv
    <2>3. w \in CheckoutWrites(o, answer) /\ w.entry = None
      BY <1>2, <2>1, <2>2, PlannedType DEF Kept, Without, Removals
    <2>4. /\ w.path \in Path /\ FolderEntry(o, w.path) = None
          /\ SendsToCheckout(o, answer, w.path)
      BY <2>2, <2>3 DEF CheckoutWrites, Observed
    <2>5. w.path \notin o.unseen
      BY <2>4 DEF SendsToCheckout, Answered, FolderChanged, FolderEntry
    <2>6. o.folder[w.path] = None
          /\ (o.archive[w.path] # None \/ o.checkout[w.path] # None)
      BY <2>4, <2>5 DEF SendsToCheckout, Answered, FolderChanged, FolderEntry, Differs
    <2>q. QED BY <2>4, <2>5, <2>6 DEF Observation, Unseen, Present
  <1>3. TypeInv /\ [Next]_vars =>
            [pc = "read" /\ pc' = "sending" =>
               \A w \in Removals(plan'.toCheckout) : disk[Folder][w.path] = None]_vars
    BY <1>2
  <1>4. Spec => []TypeInv
    BY TypeInit, TypeStep, PTL DEF Spec
  <1>q. QED BY <1>3, <1>4, PTL DEF Spec, UnseenKept

-----------------------------------------------------------------------------
(* No version lost.  The inductive invariant's one idea: what a side was   *)
(* once seen to hold at p, it still holds, or somebody replaced it - and a *)
(* write only takes away what somebody replaced.                           *)

Backs(s, p, e) == disk[s][p] = e \/ Expendable(p, e)

\* A tree the checkout was looked at with: what it shows at p is what the
\* checkout held, and where that is not what the archive has, an actor has
\* replaced the archive's.
Witnessed(tree) ==
    /\ \A p \in Path : Backs(Checkout, p, tree.files[p])
    /\ \A p \in Path \ tree.ignored :
          tree.files[p] = archive[p] \/ Expendable(p, archive[p])

\* No snapshot but the pass's own moves the ref while the pass looks.
PassAlone ==
    /\ budget["turn"] = 0
    /\ look["turn"].at = "idle"
    /\ look["pass"].at = "looked" => snapRef = look["pass"].prev
    /\ look["pass"].at = "done" => snapRef.tree = look["pass"].tree

LookedFaithfully ==
    /\ look["pass"].at # "idle" => pc = "looking" /\ Witnessed(look["pass"].tree)
    /\ pc \in {"fetched", "read"} => Witnessed(snapshot.tree)

ReadFaithfully ==
    pc = "read" =>
        \A p \in Path :
            /\ Backs(Folder, p, seen[p])
            /\ seen[p] \in {None, archive[p]} \/ Expendable(p, archive[p])

\* The writes: each takes away only what may go, and brings what the other
\* side has.
Carriable ==
    pc \in {"sending", "receiving"} =>
        /\ observed.archive = archive
        /\ \A w \in plan.toCheckout :
              Expendable(w.path, w.expect) /\ Backs(Folder, w.path, w.entry)
        /\ \A w \in plan.toFolder :
              Expendable(w.path, w.expect) /\ Backs(Checkout, w.path, w.entry)
        /\ \A p \in plan.agreed, s \in Side : Backs(s, p, FolderEntry(observed, p))

LandsSafely ==
    /\ \A w \in landed, s \in Side : Backs(s, w.path, w.entry)
    /\ \A w \in orphan :
          Expendable(w.path, w.expect) /\ Backs(Folder, w.path, w.entry)

SafeInv ==
    /\ TypeInv
    /\ Decided
    /\ ArchiveBacked
    /\ PassAlone
    /\ LookedFaithfully
    /\ ReadFaithfully
    /\ Carriable
    /\ LandsSafely

LEMMA NoneIsExpendable == \A p : Expendable(p, None)
PROOF BY DEF Expendable

LEMMA SafeInit == Budget["turn"] = 0 /\ Init => SafeInv
PROOF
  <1> SUFFICES ASSUME Budget["turn"] = 0, Init PROVE SafeInv
    OBVIOUS
  <1>1. TypeInv
    BY TypeInit
  <1>2. Decided
    BY DEF Init, Decided
  <1>3. ArchiveBacked
    BY DEF Init, ArchiveBacked
  <1>4. look["pass"] = NoLook /\ look["turn"] = NoLook /\ NoLook.at = "idle"
    BY DEF Init, NoLook, Taker
  <1>5. PassAlone /\ LookedFaithfully /\ ReadFaithfully /\ Carriable /\ LandsSafely
    BY <1>4 DEF Init, PassAlone, LookedFaithfully, ReadFaithfully, Carriable, LandsSafely
  <1>q. QED BY <1>1, <1>2, <1>3, <1>5 DEF SafeInv

\* The step of NoVersionLost.
LEMMA NothingLost ==
    ASSUME SafeInv, [Next]_vars, NEW s \in Side, NEW p \in Path,
           disk'[s][p] # disk[s][p]
    PROVE  disk[s][p] = None \/ <<p, disk[s][p]>> \in replaced'
PROOF
  <1>1. replaced \subseteq replaced'
    BY StaysReplaced
  <1>2. ASSUME NEW w \in left, w.path = p, w.expect = disk[s][p],
               pc = "sending" \/ pc = "receiving"
        PROVE  Expendable(p, disk[s][p])
    BY <1>2 DEF SafeInv, Decided, Carriable
  <1>3. ASSUME NEW w \in orphan, w.path = p, w.expect = disk[s][p]
        PROVE  Expendable(p, disk[s][p])
    BY <1>3 DEF SafeInv, LandsSafely
  <1>q. QED BY <1>1, <1>2, <1>3, WhoWrites DEF SafeInv, Expendable

\* The same, after the step.
WillBack(s, p, e) == disk'[s][p] = e \/ e = None \/ <<p, e>> \in replaced'

WillWitness(tree) ==
    /\ \A p \in Path : WillBack(Checkout, p, tree.files[p])
    /\ \A p \in Path \ tree.ignored :
          \/ tree.files[p] = archive'[p]
          \/ archive'[p] = None \/ <<p, archive'[p]>> \in replaced'

\* So what was backed is backed still, and who bore witness does so while
\* the archive stands.
LEMMA StillBacked ==
    ASSUME SafeInv, [Next]_vars
    PROVE  /\ \A p, e : Expendable(p, e) => e = None \/ <<p, e>> \in replaced'
           /\ \A s \in Side, p \in Path : \A e : Backs(s, p, e) => WillBack(s, p, e)
           /\ UNCHANGED archive => \A tree : Witnessed(tree) => WillWitness(tree)
PROOF
  <1>1. replaced \subseteq replaced'
    BY StaysReplaced
  <1>2. \A p, e : Expendable(p, e) => e = None \/ <<p, e>> \in replaced'
    BY <1>1 DEF Expendable
  <1>3. ASSUME NEW s \in Side, NEW p \in Path, NEW e, Backs(s, p, e)
        PROVE  WillBack(s, p, e)
    <2>1. CASE disk'[s][p] = disk[s][p]
      BY <1>2, <1>3, <2>1 DEF Backs, WillBack
    <2>2. CASE disk'[s][p] # disk[s][p]
      BY <1>2, <1>3, <2>2, NothingLost DEF Backs, WillBack
    <2>q. QED BY <2>1, <2>2
  <1>4. ASSUME UNCHANGED archive, NEW tree, Witnessed(tree)
        PROVE  WillWitness(tree)
    BY <1>2, <1>3, <1>4, Types DEF Witnessed, WillWitness
  <1>q. QED BY <1>2, <1>3, <1>4

\* No turn's snapshot begins, so none is under way.
LEMMA StaysAlone ==
    ASSUME SafeInv, [Next]_vars
    PROVE  /\ budget'["turn"] = 0
           /\ look'["turn"] = look["turn"]
           /\ ~TurnEnds /\ ~TurnTaken /\ ~Publish("turn")
PROOF
  <1>1. ~TurnEnds /\ ~TurnTaken /\ ~Publish("turn")
    BY DEF SafeInv, PassAlone, TurnEnds, TurnTaken, Publish, Spend
  <1>2. \A kind \in Kind \ {"turn"} : Spend(kind) => budget'["turn"] = budget["turn"]
    BY DEF SafeInv, TypeInv, TypeOK, Spend
  <1>3. budget'["turn"] = budget["turn"]
    BY <1>1, <1>2
    DEF Kind, Next, Actors, Pass, vars, Edit, ChangeRules, BeginUnasked, BeginAnswered, Begin,
        Resolving, Publish, Fetch, FetchNow, FetchStale, ReadFolder, Decide, Pause, Send, Sent,
        Receive, Carry, Record, Recorded, Stop, OrphanWrites
  <1>4. look'["turn"] = look["turn"]
    BY <1>1
    DEF SafeInv, TypeInv, TypeOK, Taker, Next, Actors, Pass, vars, Edit, ChangeRules,
        BeginUnasked, BeginAnswered, Begin, Resolving, Publish, Fetch, FetchNow, FetchStale,
        Forgotten, ReadFolder, Decide, Pause, Send, Sent, Receive, Carry, Record, Recorded,
        Stop, OrphanWrites
  <1>q. QED BY <1>1, <1>3, <1>4 DEF SafeInv, PassAlone

\* Who may change the archive.
LEMMA OnlyRecordRecords ==
    ASSUME [Next]_vars
    PROVE  UNCHANGED archive \/ Record
PROOF
  BY DEF Next, Actors, Pass, vars, Edit, ChangeRules, BeginUnasked, BeginAnswered, Begin,
     Resolving, Publish, Fetch, FetchNow, FetchStale, ReadFolder, Decide, Pause, Send, Sent,
     Receive, Carry, Stop, TurnEnds, TurnTaken, OrphanWrites, recordVars

LEMMA ArchiveStaysBacked ==
    ASSUME SafeInv, [Next]_vars
    PROVE  ArchiveBacked'
PROOF
  <1>1. ASSUME \A s \in Side, p \in Path : Backs(s, p, archive'[p])
        PROVE  ArchiveBacked'
    <2>1. \A s \in Side, p \in Path : WillBack(s, p, archive'[p])
      BY <1>1, StillBacked
    <2>q. QED BY <2>1 DEF ArchiveBacked, WillBack, Expendable
  <1>2. \A s \in Side, p \in Path : Backs(s, p, archive[p])
    BY DEF SafeInv, ArchiveBacked, Backs
  <1>3. CASE Record
    <2> DEFINE held == Archived(observed, plan, landed)
    <2>1. archive' = AsTree(held) /\ pc = "receiving"
      BY <1>3 DEF Record, Recorded
    <2>2. observed.archive = archive
      BY <2>1 DEF SafeInv, Carriable
    <2>3. ASSUME NEW s \in Side, NEW p \in Path
          PROVE  Backs(s, p, held[p])
      <3>1. CASE p \in plan.forget
        BY <3>1, NoneIsExpendable DEF Archived, Backs
      <3>2. CASE p \notin plan.forget /\ p \in plan.agreed
        BY <2>1, <3>2 DEF Archived, SafeInv, Carriable
      <3>3. CASE p \notin plan.forget /\ p \notin plan.agreed /\ p \in Paths(landed)
        <4>1. \E w \in landed : w.path = p
          BY <3>3 DEF Paths
        <4>2. PICK w \in landed : w.path = p /\ held[p] = w.entry
          BY <3>3, <4>1 DEF Archived, Applied
        <4>q. QED BY <4>2 DEF SafeInv, LandsSafely
      <3>4. CASE p \notin plan.forget /\ p \notin plan.agreed /\ p \notin Paths(landed)
        BY <1>2, <2>2, <3>4 DEF Archived, Applied
      <3>q. QED BY <3>1, <3>2, <3>3, <3>4
    <2>4. \A p \in Path : archive'[p] = held[p] \/ archive'[p] = None
      BY <2>1 DEF AsTree
    <2>q. QED BY <1>1, <2>3, <2>4, NoneIsExpendable DEF Backs
  <1>4. CASE UNCHANGED archive
    BY <1>1, <1>2, <1>4
  <1>q. QED BY <1>3, <1>4, OnlyRecordRecords

\* The pass's script looks once and publishes once.
LEMMA PassStaysAlone ==
    ASSUME SafeInv, [Next]_vars
    PROVE  PassAlone'
PROOF
  <1> USE DEF SafeInv, PassAlone
  <1>a. "pass" \in Taker /\ look \in [Taker -> Look]
    BY DEF TypeInv, TypeOK, Taker
  <1>b. /\ budget'["turn"] = 0 /\ look'["turn"].at = "idle"
        /\ ~TurnEnds /\ ~TurnTaken /\ ~Publish("turn")
    BY StaysAlone
  <1>1. ASSUME NEW r, Begin(r)
        PROVE  PassAlone'
    <2>1. look'["pass"] = Looked(WrittenOver)
      BY <1>1, <1>a DEF Begin
    <2>q. QED BY <1>1, <1>b, <2>1 DEF Begin, Looked
  <1>2. CASE Publish("pass")
    <2> DEFINE l == look["pass"]
    <2>1. l.at = "looked" /\ snapRef = l.prev
      BY <1>2 DEF Publish
    <2>2. look'["pass"].at = "done" /\ look'["pass"].tree = l.tree
      BY <1>2, <1>a, <2>1 DEF Publish, Look
    <2>3. snapRef'.tree = l.tree
      BY <1>2, <2>1 DEF Publish, Unchanged, CommitsOf
    <2>q. QED BY <1>b, <2>2, <2>3
  <1>3. CASE look'["pass"].at = "idle"
    BY <1>3, <1>b
  <1>4. CASE UNCHANGED <<look, snapRef>>
    BY <1>4, <1>b
  <1>5. Forgotten => look'["pass"].at = "idle"
    BY <1>a DEF Forgotten, NoLook
  <1>6. Fetch => look'["pass"].at = "idle"
    BY <1>a DEF Fetch, FetchNow, NoLook
  <1>q. QED
    BY <1>b, <1>1, <1>2, <1>3, <1>4, <1>5, <1>6
    DEF Next, Actors, Pass, vars, Edit, ChangeRules, BeginUnasked, BeginAnswered, Resolving,
        FetchStale, ReadFolder, Decide, Pause, Send, Sent, Receive, Carry, Record, Recorded,
        Stop, OrphanWrites

LEMMA StaysLooked ==
    ASSUME SafeInv, [Next]_vars
    PROVE  LookedFaithfully'
PROOF
  <1>a. "pass" \in Taker /\ look \in [Taker -> Look]
    BY DEF SafeInv, TypeInv, TypeOK, Taker
  <1>b. ~TurnEnds /\ ~TurnTaken /\ ~Publish("turn")
    BY StaysAlone
  <1>1. ASSUME NEW r, Begin(r)
        PROVE  LookedFaithfully'
    <2>1. /\ look'["pass"].tree = TreeNow /\ pc' = "looking"
          /\ UNCHANGED <<disk, replaced, archive>>
      BY <1>1, <1>a DEF Begin, Looked, sideVars
    <2>2. Witnessed(TreeNow)
      BY NoneIsExpendable, Types
      DEF SafeInv, ArchiveBacked, Witnessed, Backs, TreeNow, Visible
    <2>3. WillWitness(TreeNow)
      BY <2>1, <2>2, StillBacked
    <2>q. QED BY <2>1, <2>3, <1>a DEF LookedFaithfully, WillWitness, WillBack, Witnessed, Backs, Expendable
  <1>2. CASE Publish("pass")
    <2>1. /\ look["pass"].at = "looked" /\ look'["pass"].tree = look["pass"].tree
          /\ UNCHANGED <<archive, pc>>
      BY <1>2, <1>a DEF Publish, recordVars, sideVars, Look
    <2>2. pc = "looking" /\ WillWitness(look["pass"].tree)
      BY <2>1, StillBacked DEF SafeInv, LookedFaithfully
    <2>q. QED BY <2>1, <2>2 DEF LookedFaithfully, WillWitness, WillBack, Witnessed, Backs, Expendable
  <1>3. CASE Fetch
    <2>1. /\ snapshot' = snapRef /\ look'["pass"].at = "idle"
          /\ look["pass"].at = "done" /\ UNCHANGED archive
      BY <1>3, <1>a DEF Fetch, FetchNow, NoLook, recordVars
    <2>2. WillWitness(snapRef.tree)
      BY <2>1, StillBacked DEF SafeInv, LookedFaithfully, PassAlone
    <2>q. QED BY <2>1, <2>2 DEF LookedFaithfully, WillWitness, WillBack, Witnessed, Backs, Expendable
  <1>4. CASE look'["pass"].at = "idle" /\ pc' \notin {"fetched", "read"}
    BY <1>4 DEF LookedFaithfully
  <1>5. CASE /\ UNCHANGED <<look, archive, snapshot>>
             /\ \/ UNCHANGED pc
                \/ /\ pc # "looking"
                   /\ pc' \in {"fetched", "read"} => pc = "fetched"
    BY <1>5, StillBacked
    DEF SafeInv, LookedFaithfully, WillWitness, WillBack, Witnessed, Backs, Expendable
  <1>6. Forgotten => look'["pass"].at = "idle" /\ pc' = "idle"
    BY <1>a DEF Forgotten, NoLook
  <1>q. QED
    BY <1>b, <1>1, <1>2, <1>3, <1>4, <1>5, <1>6
    DEF Next, Actors, Pass, vars, Edit, ChangeRules, BeginUnasked, BeginAnswered, Resolving,
        FetchStale, ReadFolder, Decide, Pause, Send, Sent, Receive, Carry, Record, Recorded,
        Stop, OrphanWrites, passVars, recordVars

LEMMA StaysRead ==
    ASSUME SafeInv, [Next]_vars
    PROVE  ReadFaithfully'
PROOF
  <1>1. CASE ReadFolder
    <2>1. /\ seen' = Visible(Folder) /\ UNCHANGED <<archive, disk, replaced>>
      BY <1>1 DEF ReadFolder, recordVars, sideVars
    <2>2. \A p \in Path :
             /\ Backs(Folder, p, seen'[p])
             /\ seen'[p] \in {None, archive[p]} \/ Expendable(p, archive[p])
      BY <2>1, Types, NoneIsExpendable DEF SafeInv, ArchiveBacked, Backs, Visible
    <2>q. QED BY <2>1, <2>2 DEF ReadFaithfully, Backs, Expendable
  <1>2. CASE pc' = "read" => UNCHANGED <<pc, seen, archive>>
    BY <1>2, StillBacked, Types DEF SafeInv, ReadFaithfully, Backs, WillBack, Expendable
  <1>q. QED
    BY <1>1, <1>2
    DEF Next, Actors, Pass, vars, Edit, ChangeRules, BeginUnasked, BeginAnswered, Begin,
        Resolving, Publish, Fetch, FetchNow, FetchStale, Forgotten, Decide, Pause, Send, Sent,
        Receive, Carry, Record, Recorded, Stop, TurnEnds, TurnTaken, OrphanWrites, passVars,
        recordVars

\* The decision itself: where nobody gave an answer, the side written over
\* still has what was agreed on while the other was seen to have moved on,
\* so an actor has replaced what goes.
LEMMA DecidesCarriable ==
    ASSUME SafeInv, Decide
    PROVE  Carriable'
PROOF
  <1> DEFINE o == Observation
             r == answer
  <1>1. /\ pc = "read" /\ observed' = o /\ plan' = Planned(o, r)
        /\ replaced' = replaced \cup GivenUp(o, r, plan'.toCheckout \cup plan'.toFolder)
        /\ UNCHANGED <<archive, disk>>
    BY DEF Decide, recordVars
  <1>2. o \in Observed /\ o.archive = archive /\ o.folder = seen
        /\ o.checkout = snapshot.tree.files /\ o.unseen = Unseen
        /\ o.scope = Path \ (ignored[Folder] \cup snapshot.tree.ignored)
    BY <1>1, ObservationType DEF Observation, SafeInv, TypeInv
  <1>3. /\ plan'.toCheckout \subseteq CheckoutWrites(o, r)
        /\ plan'.toFolder \subseteq FolderWrites(o, r)
        /\ plan'.agreed = {p \in o.scope : Agrees(o, p)}
    BY <1>1, <1>2, PlannedType DEF Kept, Without, Planned
  \* What the answer gives up.
  <1>4. ASSUME NEW w \in plan'.toCheckout \cup plan'.toFolder, Answered(o, r, w.path)
        PROVE  w.expect = None \/ <<w.path, w.expect>> \in replaced'
    BY <1>1, <1>4 DEF GivenUp
  \* Each side still holds, or had replaced, what it was seen to hold.
  <1>5. \A p \in Path :
            Backs(Folder, p, FolderEntry(o, p)) /\ Backs(Checkout, p, o.checkout[p])
    <2>1. \A p \in Path : Backs(Folder, p, archive[p])
      BY Types DEF SafeInv, ArchiveBacked, Backs
    <2>q. QED BY <1>1, <1>2, <2>1
              DEF SafeInv, ReadFaithfully, LookedFaithfully, Witnessed, FolderEntry
  <1>6. ASSUME NEW p \in o.scope, FolderChanged(o, p)
        PROVE  Expendable(p, archive[p])
    <2>1. p \in Path /\ p \notin Unseen /\ seen[p] # archive[p]
      BY <1>2, <1>6 DEF FolderChanged, FolderEntry
    <2>2. CASE seen[p] # None
      BY <1>1, <2>1, <2>2 DEF SafeInv, ReadFaithfully
    <2>3. CASE seen[p] = None
      <3>1. disk[Folder][p] = None
        BY <2>1, <2>3 DEF Unseen, Present
      <3>q. QED BY <2>1, <2>3, <3>1, Types DEF SafeInv, ArchiveBacked
    <2>q. QED BY <2>2, <2>3
  <1>7. ASSUME NEW p \in o.scope, CheckoutChanged(o, p)
        PROVE  Expendable(p, archive[p])
    BY <1>1, <1>2, <1>7 DEF SafeInv, LookedFaithfully, Witnessed, CheckoutChanged
  <1>8. \A p, e : Expendable(p, e) => e = None \/ <<p, e>> \in replaced'
    BY <1>1 DEF Expendable
  <1>9. \A s \in Side, p \in Path : \A e : Backs(s, p, e) => WillBack(s, p, e)
    BY <1>1, <1>8 DEF Backs, WillBack
  <1>10. ASSUME NEW w \in plan'.toCheckout
         PROVE  /\ w.expect = None \/ <<w.path, w.expect>> \in replaced'
                /\ WillBack(Folder, w.path, w.entry)
    <2>1. /\ w.path \in o.scope /\ w.entry = FolderEntry(o, w.path)
          /\ w.expect = o.checkout[w.path] /\ SendsToCheckout(o, r, w.path)
      BY <1>3 DEF CheckoutWrites
    <2>2. w.path \in Path
      BY <1>2, <2>1
    <2>3. CASE ~Answered(o, r, w.path)
      <3>1. FolderChanged(o, w.path) /\ w.expect = archive[w.path]
        BY <1>2, <2>1, <2>3 DEF SendsToCheckout, CheckoutChanged
      <3>q. QED BY <1>5, <1>6, <1>8, <1>9, <2>1, <2>2, <3>1, Types
    <2>q. QED BY <1>4, <1>5, <1>9, <2>1, <2>2, <2>3, Types
  <1>11. ASSUME NEW w \in plan'.toFolder
         PROVE  /\ w.expect = None \/ <<w.path, w.expect>> \in replaced'
                /\ WillBack(Checkout, w.path, w.entry)
    <2>1. /\ w.path \in o.scope /\ w.entry = o.checkout[w.path]
          /\ w.expect = FolderEntry(o, w.path) /\ SendsToFolder(o, r, w.path)
      BY <1>3 DEF FolderWrites
    <2>2. w.path \in Path
      BY <1>2, <2>1
    <2>3. CASE ~Answered(o, r, w.path)
      <3>1. CheckoutChanged(o, w.path) /\ w.expect = archive[w.path]
        BY <1>2, <2>1, <2>3 DEF SendsToFolder, FolderChanged
      <3>q. QED BY <1>5, <1>7, <1>8, <1>9, <2>1, <2>2, <3>1, Types
    <2>q. QED BY <1>4, <1>5, <1>9, <2>1, <2>2, <2>3, Types
  <1>12. ASSUME NEW p \in plan'.agreed, NEW s \in Side
         PROVE  WillBack(s, p, FolderEntry(observed', p))
    <2>1. p \in Path /\ FolderEntry(o, p) = o.checkout[p]
      BY <1>2, <1>3 DEF Agrees, Differs
    <2>q. QED BY <1>1, <1>5, <1>9, <2>1 DEF Side
  <1>q. QED BY <1>1, <1>2, <1>10, <1>11, <1>12
            DEF Carriable, WillBack, Backs, Expendable

LEMMA StaysCarriable ==
    ASSUME SafeInv, [Next]_vars
    PROVE  Carriable'
PROOF
  <1>1. CASE Decide
    BY <1>1, DecidesCarriable
  <1>2. CASE /\ pc' \in {"sending", "receiving"} => pc \in {"sending", "receiving"}
             /\ UNCHANGED <<observed, plan, archive>>
    <2>1. CASE pc' \notin {"sending", "receiving"}
      BY <2>1 DEF Carriable
    <2>2. CASE pc' \in {"sending", "receiving"}
      <3>1. plan \in PlanType
        BY DEF SafeInv, TypeInv, TypeOK, PlanType
      <3>2. \A w \in plan.toCheckout \cup plan.toFolder : w.path \in Path
        BY <3>1 DEF PlanType, Write
      <3>3. plan.agreed \subseteq Path
        BY <3>1 DEF PlanType
      <3>4. \A w \in plan.toCheckout :
               /\ w.expect = None \/ <<w.path, w.expect>> \in replaced'
               /\ WillBack(Folder, w.path, w.entry)
        BY <1>2, <2>2, <3>2, StillBacked, Types DEF SafeInv, Carriable
      <3>5. \A w \in plan.toFolder :
               /\ w.expect = None \/ <<w.path, w.expect>> \in replaced'
               /\ WillBack(Checkout, w.path, w.entry)
        BY <1>2, <2>2, <3>2, StillBacked, Types DEF SafeInv, Carriable
      <3>6. \A p \in plan.agreed, s \in Side : WillBack(s, p, FolderEntry(observed, p))
        BY <1>2, <2>2, <3>3, StillBacked DEF SafeInv, Carriable
      <3>7. observed.archive = archive
        BY <1>2, <2>2 DEF SafeInv, Carriable
      <3>q. QED BY <1>2, <3>4, <3>5, <3>6, <3>7
                DEF Carriable, WillBack, Backs, Expendable
    <2>q. QED BY <2>1, <2>2
  <1>3. CASE pc' \notin {"sending", "receiving"}
    BY <1>3 DEF Carriable
  <1>q. QED
    BY <1>1, <1>2, <1>3
    DEF Next, Actors, Pass, vars, Edit, ChangeRules, BeginUnasked, BeginAnswered, Begin,
        Resolving, Publish, Fetch, FetchNow, FetchStale, Forgotten, ReadFolder, Pause, Send,
        Sent, Receive, Carry, Record, Recorded, Stop, TurnEnds, TurnTaken, OrphanWrites,
        passVars, recordVars

LEMMA StaysCarried ==
    ASSUME SafeInv, [Next]_vars
    PROVE  LandsSafely'
PROOF
  <1>1. /\ \A w \in landed, s \in Side : WillBack(s, w.path, w.entry)
        /\ \A w \in orphan : /\ w.expect = None \/ <<w.path, w.expect>> \in replaced'
                            /\ WillBack(Folder, w.path, w.entry)
    <2>1. \A w \in landed \cup orphan : w.path \in Path
      BY DEF SafeInv, TypeInv, TypeOK, Write
    <2>q. QED BY <2>1, StillBacked, Types DEF SafeInv, LandsSafely
  <1>2. ASSUME NEW side \in Side, NEW w \in left, Carry(side, w),
               Backs(Other(side), w.path, w.entry)
        PROVE  LandsSafely'
    <2>1. w \in Write /\ w.path \in Path
      BY DEF SafeInv, TypeInv, TypeOK, Write
    <2>2. CASE landed' = landed \cup {w} /\ Written(side, w)
      <3>1. disk'[side][w.path] = w.entry
        BY <2>1, <2>2 DEF Written, SafeInv, TypeInv, TypeOK, Copy
      <3>2. WillBack(Other(side), w.path, w.entry)
        BY <1>2, <2>1, StillBacked, Types DEF Other
      <3>3. \A s \in Side : s = side \/ s = Other(side)
        BY DEF Side, Other
      <3>4. \A s \in Side : WillBack(s, w.path, w.entry)
        BY <3>1, <3>2, <3>3 DEF WillBack
      <3>q. QED BY <1>1, <1>2, <2>2, <3>4
                DEF Carry, LandsSafely, WillBack, Backs, Expendable
    <2>3. CASE UNCHANGED landed
      BY <1>1, <1>2, <2>3 DEF Carry, LandsSafely, WillBack, Backs, Expendable
    <2>q. QED BY <1>2, <2>2, <2>3 DEF Carry
  <1>3. CASE Send
    <2>1. PICK w \in left : Carry(Checkout, w) /\ pc = "sending"
      BY <1>3 DEF Send, FirstOf
    <2>2. Backs(Folder, w.path, w.entry)
      BY <2>1 DEF SafeInv, Decided, Carriable
    <2>q. QED BY <1>2, <2>1, <2>2, Types DEF Other
  <1>4. CASE Receive
    <2>1. PICK w \in left : Carry(Folder, w) /\ pc = "receiving"
      BY <1>4 DEF Receive, FirstOf
    <2>2. Backs(Checkout, w.path, w.entry)
      BY <2>1 DEF SafeInv, Decided, Carriable
    <2>q. QED BY <1>2, <2>1, <2>2, Types DEF Other
  <1>5. CASE Stop
    <2>1. \A w \in orphan' : /\ w.expect = None \/ <<w.path, w.expect>> \in replaced'
                            /\ WillBack(Folder, w.path, w.entry)
      <3>1. pc = "sending" =>
                \A w \in left : /\ w.path \in Path
                               /\ Expendable(w.path, w.expect)
                               /\ Backs(Folder, w.path, w.entry)
        BY DEF SafeInv, TypeInv, TypeOK, Write, Decided, Carriable
      <3>2. orphan' = orphan \/ (pc = "sending" /\ orphan' = orphan \cup left)
        BY <1>5 DEF Stop
      <3>q. QED BY <1>1, <3>1, <3>2, StillBacked, Types
    <2>q. QED BY <1>5, <2>1 DEF Stop, Forgotten, LandsSafely, WillBack, Backs, Expendable
  <1>6. CASE /\ landed' \subseteq landed
             /\ orphan' \subseteq orphan
    BY <1>1, <1>6 DEF LandsSafely, WillBack, Backs, Expendable
  <1>q. QED
    BY <1>3, <1>4, <1>5, <1>6
    DEF Next, Actors, Pass, vars, Edit, ChangeRules, BeginUnasked, BeginAnswered, Begin,
        Resolving, Publish, Fetch, FetchNow, FetchStale, Forgotten, ReadFolder, Decide, Pause,
        Sent, Record, Recorded, TurnEnds, TurnTaken, OrphanWrites, passVars

LEMMA SafeHolds ==
    ASSUME Budget["turn"] = 0
    PROVE  Spec => []SafeInv
PROOF
  <1>1. Init => SafeInv
    BY SafeInit
  <1>2. SafeInv /\ [Next]_vars => SafeInv'
    BY TypeStep, DecidedStep, ArchiveStaysBacked, PassStaysAlone, StaysLooked, StaysRead,
       StaysCarriable, StaysCarried DEF SafeInv
  <1>q. QED BY <1>1, <1>2, PTL DEF Spec

\* SYNC.md, P10: where a side holds something other than the archive
\* records, somebody has replaced what it records - wherever passes stopped.
THEOREM ArchiveAlwaysBacked ==
    ASSUME Budget["turn"] = 0
    PROVE  Spec => []ArchiveBacked
PROOF
  <1>1. SafeInv => ArchiveBacked
    BY DEF SafeInv
  <1>q. QED BY <1>1, SafeHolds, PTL

\* SYNC.md, P1: no write of the sync - of a pass, or of a script whose pass
\* has stopped - takes away a version nobody has replaced.
THEOREM NoneLost ==
    ASSUME Budget["turn"] = 0
    PROVE  Spec => NoVersionLost
PROOF
  <1>1. SafeInv /\ [Next]_vars =>
            [\A s \in Side, p \in Path :
               disk'[s][p] # disk[s][p] =>
                   disk[s][p] = None \/ <<p, disk[s][p]>> \in replaced']_vars
    BY NothingLost
  <1>q. QED BY <1>1, SafeHolds, PTL DEF Spec, NoVersionLost

-----------------------------------------------------------------------------
(* The refinement.                                                         *)

\* A write under way, of the pass or of a script whose pass is gone, that
\* reaches the disk.
LEMMA CarriesOver ==
    ASSUME SafeInv, NEW s \in Side, NEW w \in Write, Lands(s, w), Written(s, w),
           Expendable(w.path, w.expect), Backs(Other(s), w.path, w.entry),
           UNCHANGED <<archive, replaced>>
    PROVE  R!Carries
PROOF
  <1>1. w.path \in Path /\ w.entry \in R!Content
    BY DEF Write, Held, R!Content
  <1>2. R!Gone(w.path, disk[s][w.path])
    BY DEF Lands, Expendable, R!Gone
  <1>3. R!Gone(w.path, w.entry) \/ \E t \in Side : disk[t][w.path] = w.entry
    BY DEF Backs, Expendable, R!Gone, Other, Side
  <1>4. disk' = [disk EXCEPT ![s][w.path] = w.entry]
    BY DEF Written
  <1>q. QED BY <1>1, <1>2, <1>3, <1>4 DEF R!Carries

\* A decision changes nothing the promise is about, but for what the user's
\* answer gives up: what a side holds, or has been replaced there.
LEMMA DecidesGivesUp ==
    ASSUME SafeInv, [Next]_vars, Decide
    PROVE  R!GivesUp
PROOF
  <1> DEFINE writes == plan'.toCheckout \cup plan'.toFolder
  <1>1. /\ pc = "read" /\ plan' = Planned(Observation, answer)
        /\ replaced' = replaced \cup GivenUp(Observation, answer, writes)
        /\ UNCHANGED <<disk, archive>>
    BY DEF Decide, recordVars
  <1>2. Observation \in Observed
    BY <1>1, ObservationType DEF SafeInv, TypeInv
  <1>3. /\ plan'.toCheckout \subseteq CheckoutWrites(Observation, answer)
        /\ plan'.toFolder \subseteq FolderWrites(Observation, answer)
        /\ Observation.folder = seen /\ Observation.archive = archive
        /\ Observation.checkout = snapshot.tree.files
    BY <1>1, <1>2, PlannedType DEF Kept, Without, Observation
  <1>4. replaced' \in SUBSET (Path \X Entry)
    <2>1. TypeInv'
      BY TypeStep DEF SafeInv
    <2>q. QED BY <2>1 DEF TypeInv, TypeOK
  <1>5. \A p \in Path : /\ Backs(Folder, p, FolderEntry(Observation, p))
                        /\ Backs(Checkout, p, Observation.checkout[p])
    <2>1. \A p \in Path : Backs(Folder, p, archive[p])
      BY Types DEF SafeInv, ArchiveBacked, Backs
    <2>q. QED BY <1>1, <1>3, <2>1
              DEF SafeInv, ReadFaithfully, LookedFaithfully, Witnessed, FolderEntry
  <1>6. ASSUME NEW r \in replaced' \ replaced
        PROVE  \E s \in Side : disk[s][r[1]] = r[2]
    <2>1. PICK w \in writes : r = <<w.path, w.expect>> /\ w.expect # None
      BY <1>1, <1>2, <1>4, <1>6, PlannedType DEF GivenUp, PlanType, Write
    <2>2. CASE w \in plan'.toCheckout
      <3>1. w.path \in Path /\ w.expect = Observation.checkout[w.path]
        BY <1>2, <1>3, <2>2 DEF CheckoutWrites, Observed
      <3>q. QED BY <1>5, <1>6, <2>1, <3>1, Types DEF Backs, Expendable
    <2>3. CASE w \in plan'.toFolder
      <3>1. w.path \in Path /\ w.expect = FolderEntry(Observation, w.path)
        BY <1>2, <1>3, <2>3 DEF FolderWrites, Observed
      <3>q. QED BY <1>5, <1>6, <2>1, <3>1, Types DEF Backs, Expendable
    <2>q. QED BY <2>1, <2>2, <2>3
  <1>q. QED BY <1>1, <1>4, <1>6 DEF R!GivesUp

LEMMA RefinesInit == Init => R!Init
PROOF
  <1>1. Init => archive \in [Path -> R!Content]
    BY DEF Init, Copy, Held, R!Content
  <1>q. QED BY <1>1 DEF Init, R!Init

LEMMA RefinesStep == SafeInv /\ [Next]_vars => [R!Next]_(R!vars)
PROOF
  <1> SUFFICES ASSUME SafeInv, [Next]_vars PROVE [R!Next]_(R!vars)
    OBVIOUS
  <1> USE DEF R!Next, R!vars
  <1>a. left \subseteq Write /\ orphan \subseteq Write
    BY DEF SafeInv, TypeInv, TypeOK
  <1>1. ASSUME NEW side \in Side, NEW p \in Path, NEW e \in Held, Edit(side, p, e)
        PROVE  R!Edits
    BY <1>1 DEF Edit, recordVars, R!Edits, Held, R!Content
  <1>2. ASSUME NEW s \in Side, NEW w \in left, Carry(s, w),
               Expendable(w.path, w.expect), Backs(Other(s), w.path, w.entry)
        PROVE  R!Carries \/ UNCHANGED <<disk, archive, replaced>>
    <2>1. UNCHANGED <<archive, replaced>>
      BY <1>2 DEF Carry, recordVars
    <2>2. UNCHANGED disk \/ (Lands(s, w) /\ Written(s, w))
      BY <1>2 DEF Carry
    <2>q. QED BY <1>a, <1>2, <2>1, <2>2, CarriesOver
  <1>3. CASE Send
    <2>1. PICK w \in left : Carry(Checkout, w) /\ pc = "sending"
      BY <1>3 DEF Send, FirstOf
    <2>2. Expendable(w.path, w.expect) /\ Backs(Folder, w.path, w.entry)
      BY <2>1 DEF SafeInv, Decided, Carriable
    <2>q. QED BY <1>2, <2>1, <2>2, Types DEF Other
  <1>4. CASE Receive
    <2>1. PICK w \in left : Carry(Folder, w) /\ pc = "receiving"
      BY <1>4 DEF Receive, FirstOf
    <2>2. Expendable(w.path, w.expect) /\ Backs(Checkout, w.path, w.entry)
      BY <2>1 DEF SafeInv, Decided, Carriable
    <2>q. QED BY <1>2, <2>1, <2>2, Types DEF Other
  <1>5. CASE OrphanWrites
    <2>1. PICK w \in orphan :
              /\ IF Lands(Checkout, w) THEN Written(Checkout, w)
                                       ELSE UNCHANGED <<disk, byActor>>
              /\ UNCHANGED <<archive, replaced>>
      BY <1>5 DEF OrphanWrites, FirstOf, recordVars
    <2>2. Expendable(w.path, w.expect) /\ Backs(Folder, w.path, w.entry)
      BY DEF SafeInv, LandsSafely
    <2>q. QED BY <1>a, <2>1, <2>2, CarriesOver, Types DEF Other
  <1>6. CASE Record
    <2>1. UNCHANGED <<disk, replaced>>
      BY <1>6 DEF Record, Recorded, sideVars
    <2>2. archive' \in [Path -> R!Content]
      <3>1. TypeInv'
        BY TypeStep DEF SafeInv
      <3>q. QED BY <3>1 DEF TypeInv, TypeOK, Copy, Held, R!Content
    <2>3. \A s \in Side, p \in Path :
             disk[s][p] = archive'[p] \/ R!Gone(p, archive'[p])
      BY <2>1, ArchiveStaysBacked DEF ArchiveBacked, Expendable, R!Gone
    <2>q. QED BY <2>1, <2>2, <2>3 DEF R!Agrees
  <1>7. CASE Decide
    BY <1>7, DecidesGivesUp
  <1>8. CASE UNCHANGED <<disk, archive, replaced>>
    BY <1>8
  <1>q. QED
    BY <1>1, <1>3, <1>4, <1>5, <1>6, <1>7, <1>8
    DEF Next, Actors, Pass, vars, ChangeRules, BeginUnasked, BeginAnswered, Begin, Resolving,
        Publish, Fetch, FetchNow, FetchStale, ReadFolder, Pause, Sent, Stop, TurnEnds,
        TurnTaken, sideVars, recordVars

\* The pass implements the promise: whatever is edited, cut short, left to a
\* script on its own or answered, the two copies and their record move only
\* as module Reconcile allows.
THEOREM MirrorReconciles ==
    ASSUME Budget["turn"] = 0
    PROVE  Spec => Reconciles
PROOF
  <1>q. QED BY RefinesInit, RefinesStep, SafeHolds, PTL DEF Spec, Reconciles, R!Spec

-----------------------------------------------------------------------------
(* No copy holds a file and one beneath it.                                *)

RulesStand == budget["rule"] = 0 /\ \A s \in Side : ignored[s] = {}

\* A tree looked at while the rules stand.
Plain(tree) == WellFormed(tree.files) /\ tree.ignored = {}

CopiesFit ==
    /\ WellFormed(archive)
    /\ \A s \in Side : WellFormed(disk[s])
    /\ \A t \in Taker : Plain(look[t].tree)
    /\ snapRef # NoSnapshot => Plain(snapRef.tree)
    /\ pc \in {"fetched", "read"} => Plain(snapshot.tree)
    /\ WellFormed(seen)
    /\ WellFormed(observed.folder) /\ WellFormed(observed.checkout)

\* The plan is of what was observed, and what landed is of the plan.
Planning ==
    /\ pc \in {"sending", "receiving"} =>
          /\ observed.scope = Path /\ observed.archive = archive
          /\ plan = Planned(observed, answer)
          /\ landed \subseteq plan.toCheckout \cup plan.toFolder
    /\ pc \notin {"sending", "receiving"} => landed = {}

FitInv ==
    /\ TypeInv
    /\ Decided
    /\ RulesStand
    /\ CopiesFit
    /\ Planning

LEMMA EmptyFits == WellFormed(Empty)
PROOF BY DEF WellFormed, Present, Empty

\* The archive, as a tree, fits whatever is to go into it.
LEMMA TreeFits ==
    ASSUME NEW copy
    PROVE  WellFormed(AsTree(copy))
PROOF
  <1>1. Present(AsTree(copy)) \subseteq Present(copy)
    BY DEF Present, AsTree
  <1>2. \A p \in Present(AsTree(copy)), q \in Present(copy) : <<p, q>> \notin Above
    BY DEF Present, AsTree
  <1>q. QED BY <1>1, <1>2 DEF WellFormed, Crossing

\* One more file, or one fewer.
LEMMA StillFits ==
    ASSUME NEW copy \in Copy, WellFormed(copy), NEW p \in Path, NEW e \in Held,
           e # None => Fits(copy, p)
    PROVE  WellFormed([copy EXCEPT ![p] = e])
PROOF
  <1> DEFINE new == [copy EXCEPT ![p] = e]
  <1>1. \A q \in Path : new[q] = IF q = p THEN e ELSE copy[q]
    BY DEF Copy
  <1> HIDE DEF new
  <1>2. \A q \in Present(new) : (q = p /\ e # None) \/ (q # p /\ q \in Present(copy))
    BY <1>1 DEF Present
  <1>3. ~Crossing(p, p)
    BY PlanAssumption DEF Crossing
  <1>4. \A x, y : Crossing(x, y) => Crossing(y, x)
    BY DEF Crossing
  <1>5. WellFormed(new)
    BY <1>2, <1>3, <1>4 DEF WellFormed, Fits
  <1>q. QED BY <1>5 DEF new

LEMMA FitInit == Budget["rule"] = 0 /\ Init => FitInv
PROOF
  <1> SUFFICES ASSUME Budget["rule"] = 0, Init PROVE FitInv
    OBVIOUS
  <1>1. TypeInv
    BY TypeInit
  <1>2. Decided
    BY DEF Init, Decided
  <1>3. RulesStand
    BY DEF Init, RulesStand
  <1>4. \A t \in Taker : Plain(look[t].tree)
    BY EmptyFits DEF Init, NoLook, NoTree, Plain
  <1>5. WellFormed(observed.folder) /\ WellFormed(observed.checkout)
    BY EmptyFits DEF Init, NothingObserved
  <1>6. CopiesFit
    BY <1>4, <1>5, EmptyFits DEF Init, CopiesFit
  <1>7. Planning
    BY DEF Init, Planning
  <1>q. QED BY <1>1, <1>2, <1>3, <1>6, <1>7 DEF FitInv

LEMMA RulesStay ==
    ASSUME TypeInv, RulesStand, [Next]_vars
    PROVE  RulesStand'
PROOF
  <1>1. \A side \in Side, p \in Path : ~ChangeRules(side, p)
    BY DEF RulesStand, ChangeRules, Spend
  <1>2. \A kind \in Kind \ {"rule"} : Spend(kind) => budget'["rule"] = budget["rule"]
    BY DEF TypeInv, TypeOK, Spend
  <1>q. QED
    BY <1>1, <1>2
    DEF RulesStand, Kind, Next, Actors, Pass, vars, Edit, BeginUnasked, BeginAnswered, Begin,
        Resolving, Publish, Fetch, FetchNow, FetchStale, ReadFolder, Decide, Pause, Send, Sent,
        Receive, Carry, Record, Recorded, Stop, OrphanWrites, TurnEnds, TurnTaken, sideVars

\* While the rules stand git reads all a side holds.
LEMMA AllVisible ==
    ASSUME TypeInv, RulesStand, NEW s \in Side
    PROVE  Visible(s) = disk[s]
PROOF BY DEF TypeInv, TypeOK, Copy, RulesStand, Visible

LEMMA DiskFits ==
    ASSUME TypeInv, CopiesFit, [Next]_vars, NEW s \in Side
    PROVE  WellFormed(disk'[s])
PROOF
  <1>a. disk \in [Side -> Copy] /\ \A t \in Side : WellFormed(disk[t])
    BY DEF TypeInv, TypeOK, CopiesFit
  <1>1. ASSUME NEW side \in Side, NEW p \in Path, NEW e \in Held,
               disk' = [disk EXCEPT ![side][p] = e], e # None => Fits(disk[side], p)
        PROVE  WellFormed(disk'[s])
    <2>1. CASE side = s
      <3>1. disk'[s] = [disk[s] EXCEPT ![p] = e]
        BY <1>a, <1>1, <2>1
      <3>2. disk[s] \in Copy
        BY <1>a
      <3>q. QED BY <1>a, <1>1, <2>1, <3>1, <3>2, StillFits
    <2>2. CASE side # s
      BY <1>a, <1>1, <2>2
    <2>q. QED BY <2>1, <2>2
  <1>2. ASSUME NEW side \in Side, NEW w \in Write, Lands(side, w), Written(side, w)
        PROVE  WellFormed(disk'[s])
    BY <1>1, <1>2 DEF Lands, Written, Write
  <1>3. ASSUME NEW side \in Side, NEW w \in left, Carry(side, w)
        PROVE  WellFormed(disk'[s])
    BY <1>a, <1>2, <1>3 DEF Carry, TypeInv, TypeOK
  <1>4. CASE Send
    BY <1>3, <1>4, Types DEF Send, FirstOf
  <1>5. CASE Receive
    BY <1>3, <1>5, Types DEF Receive, FirstOf
  <1>6. CASE OrphanWrites
    BY <1>a, <1>2, <1>6, Types DEF OrphanWrites, FirstOf, TypeInv, TypeOK
  <1>7. ASSUME NEW side \in Side, NEW p \in Path, NEW e \in Held, Edit(side, p, e)
        PROVE  WellFormed(disk'[s])
    BY <1>1, <1>7 DEF Edit
  <1>8. CASE UNCHANGED disk
    BY <1>a, <1>8
  <1>q. QED
    BY <1>4, <1>5, <1>6, <1>7, <1>8
    DEF Next, Actors, Pass, vars, ChangeRules, BeginUnasked, BeginAnswered, Begin, Resolving,
        Publish, Fetch, FetchNow, FetchStale, ReadFolder, Decide, Pause, Sent, Record,
        Recorded, Stop, TurnEnds, TurnTaken, sideVars

\* What a script looks at, and what it publishes, fits as the checkout does.
LEMMA LooksPlain ==
    ASSUME FitInv, [Next]_vars
    PROVE  /\ \A t \in Taker : Plain(look'[t].tree)
           /\ snapRef' # NoSnapshot => Plain(snapRef'.tree)
PROOF
  <1> USE DEF FitInv
  <1>a. look \in [Taker -> Look] /\ "pass" \in Taker /\ "turn" \in Taker
    BY DEF TypeInv, TypeOK, Taker
  <1>b. /\ \A t \in Taker : Plain(look[t].tree)
        /\ snapRef # NoSnapshot => Plain(snapRef.tree)
        /\ Plain(NoLook.tree)
    BY EmptyFits DEF CopiesFit, NoLook, NoTree, Plain
  <1>c. Plain(TreeNow)
    BY AllVisible, Types DEF Plain, TreeNow, CopiesFit, RulesStand
  <1>1. ASSUME NEW t \in Taker, NEW avoid, look' = [look EXCEPT ![t] = Looked(avoid)],
               UNCHANGED snapRef
        PROVE  /\ \A u \in Taker : Plain(look'[u].tree)
               /\ snapRef' # NoSnapshot => Plain(snapRef'.tree)
    <2>1. \A u \in Taker : look'[u] = look[u] \/ look'[u] = Looked(avoid)
      BY <1>a, <1>1
    <2>q. QED BY <1>b, <1>c, <1>1, <2>1 DEF Looked
  <1>2. ASSUME NEW t \in Taker, Publish(t)
        PROVE  /\ \A u \in Taker : Plain(look'[u].tree)
               /\ snapRef' # NoSnapshot => Plain(snapRef'.tree)
    <2>1. \A u \in Taker : look'[u].tree = look[u].tree
      BY <1>a, <1>2 DEF Publish, Look
    <2>2. snapRef' = snapRef \/ snapRef'.tree = look[t].tree
      BY <1>2 DEF Publish, CommitsOf
    <2>q. QED BY <1>b, <2>1, <2>2
  <1>3. ASSUME NEW t \in Taker, look' = [look EXCEPT ![t] = NoLook], UNCHANGED snapRef
        PROVE  /\ \A u \in Taker : Plain(look'[u].tree)
               /\ snapRef' # NoSnapshot => Plain(snapRef'.tree)
    BY <1>a, <1>b, <1>3
  <1>4. CASE UNCHANGED <<look, snapRef>>
    BY <1>b, <1>4
  <1>5. ASSUME NEW r, Begin(r)
        PROVE  /\ \A u \in Taker : Plain(look'[u].tree)
               /\ snapRef' # NoSnapshot => Plain(snapRef'.tree)
    BY <1>a, <1>1, <1>5 DEF Begin
  <1>q. QED
    BY <1>a, <1>1, <1>2, <1>3, <1>4, <1>5
    DEF Next, Actors, Pass, vars, Edit, ChangeRules, BeginUnasked, BeginAnswered, Resolving,
        Fetch, FetchNow, FetchStale, Forgotten, ReadFolder, Decide, Pause, Send, Sent, Receive,
        Carry, Record, Recorded, Stop, OrphanWrites, TurnEnds, TurnTaken

LEMMA CopiesStayFit ==
    ASSUME FitInv, [Next]_vars
    PROVE  CopiesFit'
PROOF
  <1> USE DEF FitInv
  <1>1. \A s \in Side : WellFormed(disk'[s])
    BY DiskFits
  <1>2. WellFormed(archive')
    <2>1. CASE Record
      BY <2>1, TreeFits DEF Record, Recorded
    <2>q. QED BY <2>1, OnlyRecordRecords DEF CopiesFit
  <1>3. pc' \in {"fetched", "read"} => Plain(snapshot'.tree)
    <2>1. CASE Fetch
      BY <2>1, Types DEF Fetch, FetchNow, CopiesFit, TypeInv, TypeOK
    <2>2. CASE pc' \in {"fetched", "read"} => UNCHANGED snapshot /\ pc \in {"fetched", "read"}
      BY <2>2 DEF CopiesFit
    <2>q. QED
      BY <2>1, <2>2
      DEF Next, Actors, Pass, vars, Edit, ChangeRules, BeginUnasked, BeginAnswered, Begin,
          Resolving, Publish, FetchStale, Forgotten, ReadFolder, Decide, Pause, Send, Sent,
          Receive, Carry, Record, Recorded, Stop, OrphanWrites, TurnEnds, TurnTaken, passVars
  <1>4. WellFormed(seen')
    <2>1. CASE ReadFolder
      BY <2>1, AllVisible, Types DEF ReadFolder, CopiesFit
    <2>2. CASE UNCHANGED seen \/ seen' = Empty
      BY <2>2, EmptyFits DEF CopiesFit
    <2>q. QED
      BY <2>1, <2>2
      DEF Next, Actors, Pass, vars, Edit, ChangeRules, BeginUnasked, BeginAnswered, Begin,
          Resolving, Publish, Fetch, FetchNow, FetchStale, Forgotten, Decide, Pause, Send, Sent,
          Receive, Carry, Record, Recorded, Stop, OrphanWrites, TurnEnds, TurnTaken, passVars
  <1>5. WellFormed(observed'.folder) /\ WellFormed(observed'.checkout)
    <2>1. CASE Decide
      BY <2>1 DEF Decide, Observation, CopiesFit, Plain
    <2>2. CASE UNCHANGED observed \/ observed' = NothingObserved
      BY <2>2, EmptyFits DEF CopiesFit, NothingObserved
    <2>q. QED
      BY <2>1, <2>2
      DEF Next, Actors, Pass, vars, Edit, ChangeRules, BeginUnasked, BeginAnswered, Begin,
          Resolving, Publish, Fetch, FetchNow, FetchStale, Forgotten, ReadFolder, Pause, Send,
          Sent, Receive, Carry, Record, Recorded, Stop, OrphanWrites, TurnEnds, TurnTaken,
          passVars
  <1>q. QED BY <1>1, <1>2, <1>3, <1>4, <1>5, LooksPlain DEF CopiesFit

LEMMA StaysPlanned ==
    ASSUME FitInv, [Next]_vars
    PROVE  Planning'
PROOF
  <1> USE DEF FitInv
  <1>1. CASE Decide
    <2>1. /\ pc = "read" /\ pc' = "sending" /\ observed' = Observation
          /\ plan' = Planned(Observation, answer)
          /\ UNCHANGED <<answer, archive, landed>>
      BY <1>1 DEF Decide, recordVars
    <2>2. landed = {}
      BY <2>1 DEF Planning
    <2>3. Observation.scope = Path /\ Observation.archive = archive
      BY <2>1, Types DEF Observation, CopiesFit, Plain, RulesStand
    <2>q. QED BY <2>1, <2>2, <2>3 DEF Planning
  <1>2. ASSUME NEW side \in Side, NEW w \in left, Carry(side, w),
               pc \in {"sending", "receiving"}
        PROVE  Planning'
    <2>1. w \in plan.toCheckout \cup plan.toFolder
      BY <1>2 DEF Decided
    <2>2. /\ landed' \subseteq landed \cup {w}
          /\ UNCHANGED <<pc, observed, plan, answer, archive>>
      BY <1>2 DEF Carry, recordVars
    <2>q. QED BY <1>2, <2>1, <2>2 DEF Planning
  <1>3. CASE Send
    BY <1>2, <1>3, Types DEF Send, FirstOf
  <1>4. CASE Receive
    BY <1>2, <1>4, Types DEF Receive, FirstOf
  <1>5. CASE pc' \notin {"sending", "receiving"} /\ landed' = {}
    BY <1>5 DEF Planning
  <1>6. CASE /\ UNCHANGED <<observed, plan, answer, archive, landed>>
             /\ pc' \in {"sending", "receiving"} <=> pc \in {"sending", "receiving"}
    BY <1>6 DEF Planning
  <1>7. CASE /\ pc \notin {"sending", "receiving"} /\ pc' \notin {"sending", "receiving"}
             /\ UNCHANGED landed
    BY <1>7 DEF Planning
  <1>q. QED
    BY <1>1, <1>3, <1>4, <1>5, <1>6, <1>7
    DEF Next, Actors, Pass, vars, Edit, ChangeRules, BeginUnasked, BeginAnswered, Begin,
        Resolving, Publish, Fetch, FetchNow, FetchStale, Forgotten, ReadFolder, Pause, Sent,
        Record, Recorded, Stop, OrphanWrites, TurnEnds, TurnTaken, passVars, recordVars

LEMMA FitHolds ==
    ASSUME Budget["rule"] = 0
    PROVE  Spec => []FitInv
PROOF
  <1>1. Init => FitInv
    BY FitInit
  <1>2. FitInv /\ [Next]_vars => FitInv'
    BY TypeStep, DecidedStep, RulesStay, CopiesStayFit, StaysPlanned DEF FitInv
  <1>q. QED BY <1>1, <1>2, PTL DEF Spec

-----------------------------------------------------------------------------
(* A pass nobody disturbs: P3, P4, P12.                                    *)

\* Removals first, deepest first, then puts: taken in that order, every write
\* of a list that fits lands.
LEMMA EveryWriteLands ==
    ASSUME disk \in [Side -> Copy], NEW side \in Side,
           NEW copy \in Copy, NEW writes \in SUBSET Write, Distinct(writes),
           \A v \in Puts(writes), q \in After(Present(copy), writes) :
               ~Crossing(v.path, q),
           NEW rest \in SUBSET writes, NEW w \in FirstOf(rest),
           w.expect = copy[w.path],
           disk[side] = Applied(copy, writes \ rest)
    PROVE  /\ Lands(side, w)
           /\ Written(side, w) =>
                /\ disk'[side] = Applied(copy, writes \ (rest \ {w}))
                /\ disk'[Other(side)] = disk[Other(side)]
PROOF
  <1> DEFINE done == writes \ rest
             now == writes \ (rest \ {w})
  <1>1. w \in rest /\ w \in writes /\ w.path \in Path /\ w.entry \in Held
    BY DEF FirstOf, Write
  <1>2. Distinct(done) /\ Distinct(now) /\ done \in SUBSET Write /\ now = done \cup {w}
    BY <1>1 DEF Distinct
  <1>3. w.path \notin Paths(done)
    BY <1>1 DEF Distinct, Paths
  <1>4. disk[side][w.path] = w.expect
    BY <1>1, <1>2, <1>3, AppliedAt DEF Distinct
  <1>5. ASSUME w.entry # None, NEW q \in Present(disk[side])
        PROVE  ~Crossing(w.path, q)
    <2>1. Removals(rest) = {}
      BY <1>5 DEF FirstOf, Before, Removals
    <2>2. q \in After(Present(copy), done)
      BY <1>2, <1>5, AppliedIsAfter DEF Distinct
    <2>3. Removals(done) = Removals(writes) /\ Puts(done) \subseteq Puts(writes)
      BY <2>1 DEF Removals, Puts
    <2>4. q \in After(Present(copy), writes)
      BY <2>2, <2>3 DEF After, Paths
    <2>q. QED BY <1>1, <1>5, <2>4 DEF Puts
  <1>6. Lands(side, w)
    BY <1>4, <1>5 DEF Lands, Fits
  <1>7. ASSUME Written(side, w)
        PROVE  /\ disk'[side] = Applied(copy, now)
               /\ disk'[Other(side)] = disk[Other(side)]
    <2>1. disk' = [disk EXCEPT ![side][w.path] = w.entry]
      BY <1>7 DEF Written
    <2>2. disk'[side] = [disk[side] EXCEPT ![w.path] = w.entry]
      BY <2>1
    <2>3. disk[side] \in Copy /\ Applied(copy, now) \in Copy
      BY <1>1, <1>2, AppliedType
    <2>4. ASSUME NEW p \in Path
          PROVE  disk'[side][p] = Applied(copy, now)[p]
      <3>1. CASE p = w.path
        <4>1. Applied(copy, now)[p] = w.entry
          BY <1>1, <1>2, <3>1, AppliedAt DEF Distinct
        <4>q. QED BY <2>2, <2>3, <3>1, <4>1 DEF Copy
      <3>2. CASE p # w.path /\ p \notin Paths(done)
        <4>1. p \notin Paths(now)
          BY <1>2, <3>2 DEF Paths
        <4>2. Applied(copy, now)[p] = copy[p] /\ Applied(copy, done)[p] = copy[p]
          BY <1>2, <3>2, <4>1, AppliedAt DEF Distinct
        <4>q. QED BY <2>2, <2>3, <3>2, <4>2 DEF Copy
      <3>3. CASE p # w.path /\ p \in Paths(done)
        <4>1. PICK v \in done : v.path = p
          BY <3>3 DEF Paths
        <4>2. Applied(copy, now)[p] = v.entry /\ Applied(copy, done)[p] = v.entry
          BY <1>2, <4>1, AppliedAt DEF Distinct
        <4>q. QED BY <2>2, <2>3, <3>3, <4>2 DEF Copy
      <3>q. QED BY <3>1, <3>2, <3>3
    <2>5. disk'[side] = Applied(copy, now)
      <3> DEFINE f == disk'[side]
                 g == Applied(copy, now)
      <3>1. f \in Copy
        BY <1>1, <2>2, <2>3 DEF Copy
      <3>2. g \in Copy /\ \A p \in Path : f[p] = g[p]
        BY <2>3, <2>4
      <3> HIDE DEF f, g
      <3>3. f = g
        BY <3>1, <3>2 DEF Copy
      <3>q. QED BY <3>3 DEF f, g
    <2>6. disk'[Other(side)] = disk[Other(side)]
      BY <2>1, Types DEF Other, Side
    <2>q. QED BY <2>5, <2>6
  <1>q. QED BY <1>6, <1>7

\* While nothing but the pass acts, what it looked at and read is what the
\* sides hold, and each holds what has been written there since.
CalmInv ==
    /\ calm /\ look["pass"].at # "idle" => look["pass"].tree.files = disk[Checkout]
    /\ calm /\ pc \in {"fetched", "read"} => snapshot.tree.files = disk[Checkout]
    /\ calm /\ pc = "read" => seen = disk[Folder]
    /\ calm /\ pc \in {"sending", "receiving"} => observed.unseen = {}
    /\ calm /\ pc = "sending" =>
          /\ landed = plan.toCheckout \ left
          /\ disk[Checkout] = Applied(observed.checkout, plan.toCheckout \ left)
          /\ disk[Folder] = Applied(observed.folder, {})
    /\ calm /\ pc = "receiving" =>
          /\ landed = plan.toCheckout \cup (plan.toFolder \ left)
          /\ disk[Checkout] = Applied(observed.checkout, plan.toCheckout)
          /\ disk[Folder] = Applied(observed.folder, plan.toFolder \ left)
    /\ CalmMeansAgreed

LEMMA NothingApplied ==
    ASSUME NEW copy \in Copy
    PROVE  Applied(copy, {}) = copy
PROOF
  <1>1. \A p \in Path : p \notin Paths({})
    BY DEF Paths
  <1>2. Applied(copy, {}) = [p \in Path |-> copy[p]]
    BY <1>1 DEF Applied
  <1>q. QED BY <1>2 DEF Copy

\* Calm, every write of a leg lands in its turn.
LEMMA CalmCarries ==
    ASSUME FitInv, CalmInv, calm
    PROVE  /\ pc = "sending" => \A w \in FirstOf(left) :
                /\ Lands(Checkout, w)
                /\ Written(Checkout, w) =>
                     /\ disk'[Checkout] =
                            Applied(observed.checkout, plan.toCheckout \ (left \ {w}))
                     /\ disk'[Folder] = disk[Folder]
           /\ pc = "receiving" => \A w \in FirstOf(left) :
                /\ Lands(Folder, w)
                /\ Written(Folder, w) =>
                     /\ disk'[Folder] =
                            Applied(observed.folder, plan.toFolder \ (left \ {w}))
                     /\ disk'[Checkout] = disk[Checkout]
PROOF
  <1> DEFINE o == observed
             r == answer
  <1> USE DEF FitInv
  <1>1. /\ o \in Observed /\ o.checkout \in Copy /\ o.folder \in Copy
        /\ disk \in [Side -> Copy]
    BY DEF TypeInv, TypeOK, Observed
  <1>2. CASE pc = "sending"
    <2> DEFINE list == plan.toCheckout
    <2>1. plan = Planned(o, r) /\ left \subseteq list
      BY <1>2 DEF Planning, Decided
    <2>2. list \in SUBSET Write /\ Distinct(list) /\ list \subseteq CheckoutWrites(o, r)
      BY <1>1, <2>1, PlannedLists, PlannedType DEF PlanType
    <2>3. \A v \in Puts(list), q \in After(Present(o.checkout), list) : ~Crossing(v.path, q)
      BY <1>1, <2>1, PlannedType, OneRound
    <2>4. \A w \in list : w.expect = o.checkout[w.path]
      BY <2>2 DEF CheckoutWrites
    <2>5. disk[Checkout] = Applied(o.checkout, list \ left)
      BY <1>2 DEF CalmInv
    <2>6. \A w \in FirstOf(left) : w \in list
      BY <2>1 DEF FirstOf
    <2>7. Other(Checkout) = Folder /\ Checkout \in Side
      BY Types DEF Other
    <2> HIDE DEF list
    <2>8. \A w \in FirstOf(left) :
              /\ Lands(Checkout, w)
              /\ Written(Checkout, w) =>
                   /\ disk'[Checkout] = Applied(o.checkout, list \ (left \ {w}))
                   /\ disk'[Other(Checkout)] = disk[Other(Checkout)]
      BY <1>1, <2>1, <2>2, <2>3, <2>4, <2>5, <2>6, <2>7, EveryWriteLands
    <2>q. QED BY <1>2, <2>7, <2>8, Types DEF list
  <1>3. CASE pc = "receiving"
    <2> DEFINE list == plan.toFolder
    <2>1. plan = Planned(o, r) /\ left \subseteq list /\ o.unseen = {}
      BY <1>3 DEF Planning, Decided, CalmInv
    <2>2. list \in SUBSET Write /\ Distinct(list) /\ list \subseteq FolderWrites(o, r)
      BY <1>1, <2>1, PlannedLists, PlannedType DEF PlanType
    <2>3. \A v \in Puts(list), q \in After(Present(o.folder), list) : ~Crossing(v.path, q)
      <3>1. Present(o.folder) \cup o.unseen = Present(o.folder)
        BY <2>1
      <3>q. QED BY <1>1, <2>1, <3>1, PlannedType, OneRound
    <2>4. \A w \in list : w.expect = o.folder[w.path]
      BY <2>1, <2>2 DEF FolderWrites, FolderEntry
    <2>5. disk[Folder] = Applied(o.folder, list \ left)
      BY <1>3 DEF CalmInv
    <2>6. \A w \in FirstOf(left) : w \in list
      BY <2>1 DEF FirstOf
    <2>7. Other(Folder) = Checkout /\ Folder \in Side
      BY Types DEF Other
    <2> HIDE DEF list
    <2>8. \A w \in FirstOf(left) :
              /\ Lands(Folder, w)
              /\ Written(Folder, w) =>
                   /\ disk'[Folder] = Applied(o.folder, list \ (left \ {w}))
                   /\ disk'[Other(Folder)] = disk[Other(Folder)]
      BY <1>1, <2>1, <2>2, <2>3, <2>4, <2>5, <2>6, <2>7, EveryWriteLands
    <2>q. QED BY <1>3, <2>7, <2>8, Types DEF list
  <1>q. QED BY <1>2, <1>3

LEMMA CalmInit == Init => CalmInv
PROOF
  <1> SUFFICES ASSUME Init PROVE CalmInv
    OBVIOUS
  <1>1. look["pass"].at = "idle"
    BY DEF Init, NoLook, Taker
  <1>q. QED BY <1>1 DEF Init, CalmInv, CalmMeansAgreed

\* The record of a calm pass.
LEMMA CalmRecords ==
    ASSUME FitInv, CalmInv, Record
    PROVE  CalmMeansAgreed'
PROOF
  <1> SUFFICES ASSUME calm, NEW p \in Path \ asked', NEW s \in Side
               PROVE  disk'[s][p] = archive'[p]
    BY DEF CalmMeansAgreed, Record, Recorded
  <1> DEFINE o == observed
             r == answer
  <1> USE DEF FitInv
  <1>1. /\ pc = "receiving" /\ left = {} /\ disk' = disk
        /\ asked' = plan.conflicts
        /\ archive' = AsTree(Archived(o, plan, landed))
    BY DEF Record, Recorded, Asks, sideVars
  <1>2. /\ o \in Observed /\ r \in Resolve /\ plan = Planned(o, r)
        /\ o.scope = Path /\ o.archive = archive /\ o.unseen = {}
    BY <1>1 DEF TypeInv, TypeOK, Planning, CalmInv
  <1>3. Fitting(o)
    BY <1>2 DEF Fitting, CopiesFit
  <1>4. landed = Landed(o, r)
    BY <1>1, <1>2 DEF CalmInv, Landed
  <1>5. archive' = AsTree(ArchiveNow(o, r))
    BY <1>1, <1>2, <1>4 DEF ArchiveNow
  <1>6. disk[Checkout] = CheckoutNow(o, r) /\ disk[Folder] = FolderNow(o, r)
    <2>1. plan.toFolder \ left = plan.toFolder
      BY <1>1
    <2>q. QED BY <1>1, <1>2, <2>1 DEF CalmInv, CheckoutNow, FolderNow
  <1>7. p \in Path /\ p \notin Planned(o, r).conflicts
    BY <1>1, <1>2
  <1>8. /\ FolderNow(o, r)[p] = AsTree(ArchiveNow(o, r))[p]
        /\ CheckoutNow(o, r)[p] = AsTree(ArchiveNow(o, r))[p]
    BY <1>2, <1>3, <1>7, WholeMeansAgreed
  <1>q. QED BY <1>1, <1>5, <1>6, <1>8 DEF Side

LEMMA CalmStep ==
    ASSUME SafeInv, FitInv, CalmInv, [Next]_vars
    PROVE  CalmInv'
PROOF
  <1> USE DEF FitInv
  <1>a. /\ look \in [Taker -> Look] /\ "pass" \in Taker /\ disk \in [Side -> Copy]
    BY DEF TypeInv, TypeOK, Taker
  <1>b. ~TurnEnds /\ ~TurnTaken /\ ~Publish("turn")
    BY StaysAlone
  <1>1. CASE ~calm'
    BY <1>1 DEF CalmInv, CalmMeansAgreed
  <1>2. ASSUME NEW r, Begin(r), calm'
        PROVE  CalmInv'
    <2>1. look'["pass"].tree = TreeNow /\ pc' = "looking" /\ disk' = disk
      BY <1>2, <1>a DEF Begin, Looked, sideVars
    <2>2. TreeNow.files = disk[Checkout]
      BY AllVisible, Types DEF TreeNow
    <2>q. QED BY <2>1, <2>2 DEF CalmInv, CalmMeansAgreed
  <1>3. CASE Publish("pass") /\ calm'
    <2>1. /\ look["pass"].at = "looked" /\ look'["pass"].tree = look["pass"].tree
          /\ UNCHANGED <<pc, disk, calm>>
      BY <1>3, <1>a DEF Publish, sideVars, Look
    <2>2. pc = "looking"
      BY <2>1 DEF SafeInv, LookedFaithfully
    <2>q. QED BY <1>3, <2>1, <2>2 DEF CalmInv, CalmMeansAgreed
  <1>4. CASE Fetch /\ calm'
    <2>1. /\ snapshot' = snapRef /\ look'["pass"].at = "idle" /\ pc' = "fetched"
          /\ look["pass"].at = "done" /\ UNCHANGED <<disk, calm>>
      BY <1>4, <1>a DEF Fetch, FetchNow, NoLook, sideVars
    <2>2. snapRef.tree.files = disk[Checkout]
      BY <1>4, <2>1 DEF CalmInv, SafeInv, PassAlone
    <2>q. QED BY <2>1, <2>2 DEF CalmInv, CalmMeansAgreed
  <1>5. CASE ReadFolder /\ calm'
    <2>1. /\ pc = "fetched" /\ pc' = "read" /\ seen' = disk[Folder]
          /\ UNCHANGED <<disk, calm, snapshot, look>>
      BY <1>5, AllVisible, Types DEF ReadFolder, sideVars
    <2>q. QED BY <1>5, <2>1 DEF CalmInv, CalmMeansAgreed
  <1>6. CASE Decide /\ calm'
    <2> DEFINE o == Observation
    <2>1. /\ pc = "read" /\ pc' = "sending" /\ observed' = o
          /\ plan' = Planned(o, answer) /\ left' = plan'.toCheckout
          /\ UNCHANGED <<disk, calm, landed, look>>
      BY <1>6 DEF Decide
    <2>2. landed = {}
      BY <2>1 DEF Planning
    <2>3. seen = disk[Folder] /\ snapshot.tree.files = disk[Checkout]
      BY <1>6, <2>1 DEF CalmInv
    <2>4. o.unseen = {}
      BY <2>3 DEF Observation, Unseen, Present
    <2>5. o.folder = disk[Folder] /\ o.checkout = disk[Checkout]
      BY <2>3 DEF Observation
    <2>6. plan'.toCheckout \ left' = {}
      BY <2>1
    <2>7. Applied(o.checkout, {}) = disk[Checkout] /\ Applied(o.folder, {}) = disk[Folder]
      BY <1>a, <2>5, NothingApplied, Types
    <2>8. look["pass"].at = "idle"
      BY <2>1 DEF SafeInv, LookedFaithfully
    <2> HIDE DEF o
    <2>q. QED BY <2>1, <2>2, <2>4, <2>6, <2>7, <2>8 DEF CalmInv, CalmMeansAgreed
  <1>7. CASE Send /\ calm'
    <2>1. PICK w \in FirstOf(left) : Carry(Checkout, w)
      BY <1>7 DEF Send
    <2>2. /\ pc = "sending" /\ calm /\ look["pass"].at = "idle"
          /\ UNCHANGED <<pc, observed, plan, look>> /\ left' = left \ {w}
      BY <1>7, <2>1, <1>a DEF Send, Carry, SafeInv, LookedFaithfully, TypeInv, TypeOK
    <2>3. Lands(Checkout, w)
      BY <2>2, CalmCarries
    <2>4. Written(Checkout, w) /\ landed' = landed \cup {w}
      BY <1>7, <2>1, <2>3 DEF Carry
    <2>5. /\ disk'[Checkout] = Applied(observed.checkout, plan.toCheckout \ left')
          /\ disk'[Folder] = disk[Folder]
      BY <2>2, <2>4, CalmCarries
    <2>6. w \in plan.toCheckout /\ w \in left
      BY <2>2 DEF Decided, FirstOf
    <2>7. landed' = plan.toCheckout \ left'
      BY <2>2, <2>4, <2>6 DEF CalmInv
    <2>q. QED BY <2>2, <2>5, <2>7 DEF CalmInv, CalmMeansAgreed
  <1>8. CASE Sent /\ calm'
    <2>1. /\ pc = "sending" /\ calm /\ left = {} /\ pc' = "receiving"
          /\ left' = plan.toFolder
          /\ UNCHANGED <<observed, plan, look, landed, disk>>
      BY <1>8 DEF Sent, sideVars
    <2>2. look["pass"].at = "idle"
      BY <2>1 DEF SafeInv, LookedFaithfully
    <2>3. plan.toCheckout \ left = plan.toCheckout /\ plan.toFolder \ left' = {}
      BY <2>1
    <2>q. QED BY <2>1, <2>2, <2>3 DEF CalmInv, CalmMeansAgreed
  <1>9. CASE Receive /\ calm'
    <2>1. PICK w \in FirstOf(left) : Carry(Folder, w)
      BY <1>9 DEF Receive
    <2>2. /\ pc = "receiving" /\ calm /\ look["pass"].at = "idle"
          /\ UNCHANGED <<pc, observed, plan, look>> /\ left' = left \ {w}
      BY <1>9, <2>1, <1>a DEF Receive, Carry, SafeInv, LookedFaithfully, TypeInv, TypeOK
    <2>3. Lands(Folder, w)
      BY <2>2, CalmCarries
    <2>4. Written(Folder, w) /\ landed' = landed \cup {w}
      BY <1>9, <2>1, <2>3 DEF Carry
    <2>5. /\ disk'[Folder] = Applied(observed.folder, plan.toFolder \ left')
          /\ disk'[Checkout] = disk[Checkout]
      BY <2>2, <2>4, CalmCarries
    <2>6. w \in plan.toFolder /\ w \in left
      BY <2>2 DEF Decided, FirstOf
    <2>7. landed' = plan.toCheckout \cup (plan.toFolder \ left')
      BY <2>2, <2>4, <2>6 DEF CalmInv
    <2>q. QED BY <2>2, <2>5, <2>7 DEF CalmInv, CalmMeansAgreed
  <1>10. CASE Record
    <2>1. CalmMeansAgreed' /\ pc' = "idle" /\ look'["pass"].at = "idle"
      BY <1>10, <1>a, CalmRecords DEF Record, Recorded, Forgotten, NoLook
    <2>q. QED BY <2>1 DEF CalmInv
  <1>11. CASE UNCHANGED <<look, disk, pc, snapshot, seen, observed, plan, left, landed,
                          archive, asked, calm>>
    BY <1>11 DEF CalmInv, CalmMeansAgreed
  <1>q. QED
    BY <1>b, <1>1, <1>2, <1>3, <1>4, <1>5, <1>6, <1>7, <1>8, <1>9, <1>10, <1>11
    DEF Next, Actors, Pass, vars, Edit, ChangeRules, BeginUnasked, BeginAnswered, Resolving,
        FetchStale, Pause, Stop, OrphanWrites, passVars, recordVars, sideVars

\* P3, P4, P12, for any paths and entries: a pass nobody disturbed lands
\* every write it planned, in the order it takes them, and leaves the two
\* sides and the archive agreed at every path but those it asks about.
THEOREM CalmAgrees ==
    ASSUME Budget["rule"] = 0, Budget["turn"] = 0
    PROVE  Spec => []CalmMeansAgreed
PROOF
  <1>1. Spec => []SafeInv
    BY SafeHolds
  <1>2. Spec => []FitInv
    BY FitHolds
  <1>3. Init => CalmInv
    BY CalmInit
  <1>4. SafeInv /\ FitInv /\ CalmInv /\ [Next]_vars => CalmInv'
    BY CalmStep
  <1>5. CalmInv => CalmMeansAgreed
    BY DEF CalmInv
  <1>q. QED BY <1>1, <1>2, <1>3, <1>4, <1>5, PTL DEF Spec

-----------------------------------------------------------------------------
(* Its own writes are nobody's change: P5, P6.  The invariant follows what *)
(* a side holds that no actor made there: it is what the pass saw there,   *)
(* or what the pass wrote there.                                           *)

Unstopped == budget["stop"] = Budget["stop"]

To(s) == IF s = Folder THEN plan.toFolder ELSE plan.toCheckout
SeenOn(s) == IF s = Folder THEN observed.folder ELSE observed.checkout

\* A write of the pass put at p what side s holds there.
Brought(s, p) == \E w \in landed \cap To(s) : w.path = p /\ w.entry = disk[s][p]

\* Beneath p an actor, or an answer, has replaced something.
MovedBeneath(p) == \E q \in Path, e \in Entry : <<p, q>> \in Above /\ <<q, e>> \in replaced

\* Where no actor has been at p since, the pass has seen what is there.
SeesOwn ==
    /\ \A p \in Path : ~byActor[Checkout][p] =>
          /\ look["pass"].at # "idle" => disk[Checkout][p] = look["pass"].tree.files[p]
          /\ pc \in {"fetched", "read"} => disk[Checkout][p] = snapshot.tree.files[p]
    /\ pc = "read" => \A p \in Path : ~byActor[Folder][p] => disk[Folder][p] = seen[p]

\* And decided from it; what it wrote stands as written.
WritesOwn ==
    pc \in {"sending", "receiving"} =>
        /\ \A p \in observed.unseen : byActor[Folder][p]
        /\ \A q \in Path : observed.checkout[q] = archive[q] \/ Expendable(q, archive[q])
        /\ \A s \in Side, p \in Path : ~byActor[s][p] =>
              \/ Brought(s, p)
              \/ disk[s][p] = SeenOn(s)[p] /\ p \notin Paths(landed \cap To(s))

\* A file that landed met none above or beneath it, there and then.
LandsApart ==
    \A w \in Puts(landed), q \in Path : Crossing(w.path, q) =>
        /\ Expendable(q, archive[q])
        /\ \A s \in Side : w \in To(s) => disk[s][q] = None \/ byActor[s][q]

HoldsOwn ==
    \A s \in Side, p \in Path : ~byActor[s][p] =>
        \/ disk[s][p] = archive[p]
        \/ archive[p] = None /\ MovedBeneath(p)
        \/ Brought(s, p)

EchoInv ==
    /\ budget["unsaid"] = 0
    /\ budget["stop"] <= Budget["stop"]
    /\ Unstopped => orphan = {} /\ SeesOwn /\ WritesOwn /\ LandsApart /\ HoldsOwn

LEMMA EchoInit ==
    ASSUME Budget["rule"] = 0, Budget["unsaid"] = 0, Init
    PROVE  EchoInv
PROOF
  <1>1. budget = Budget /\ Budget["stop"] \in Nat
    BY MirrorAssumption DEF Init, Kind
  <1>2. look["pass"].at = "idle"
    BY DEF Init, NoLook, Taker
  <1>3. SeesOwn /\ WritesOwn /\ LandsApart
    BY <1>2 DEF Init, SeesOwn, WritesOwn, LandsApart, Puts
  <1>4. \A s \in Side : disk[s] = archive
    BY DEF Init
  <1>5. HoldsOwn
    BY <1>4 DEF HoldsOwn
  <1>q. QED BY <1>1, <1>3, <1>5 DEF EchoInv, Init

\* A pass that nothing has stopped yet was not stopped before, and no script
\* has been left to itself.
LEMMA StaysUnstopped ==
    ASSUME TypeInv, EchoInv, [Next]_vars
    PROVE  /\ budget'["unsaid"] = 0 /\ budget'["stop"] <= Budget["stop"]
           /\ Unstopped' => /\ Unstopped /\ ~Stop /\ ~Pause /\ ~OrphanWrites
                            /\ orphan = {} /\ orphan' = {}
PROOF
  <1>a. /\ budget \in [Kind -> Nat] /\ "stop" \in Kind /\ "unsaid" \in Kind
        /\ budget["stop"] \in Nat /\ Budget["stop"] \in Nat
        /\ budget["unsaid"] = 0 /\ budget["stop"] <= Budget["stop"]
    BY MirrorAssumption DEF TypeInv, TypeOK, Kind, EchoInv
  <1>1. ASSUME NEW kind \in Kind, Spend(kind)
        PROVE  /\ kind # "unsaid" /\ budget'["unsaid"] = 0
               /\ kind # "stop" => budget'["stop"] = budget["stop"]
               /\ kind = "stop" => budget'["stop"] = budget["stop"] - 1
    BY <1>a, <1>1 DEF Spend
  <1>2. Spend("stop") => /\ budget'["unsaid"] = 0 /\ budget'["stop"] <= Budget["stop"]
                         /\ budget'["stop"] # Budget["stop"]
    BY <1>a, <1>1
  <1>3. Stop \/ Pause => /\ budget'["unsaid"] = 0 /\ budget'["stop"] <= Budget["stop"]
                         /\ ~Unstopped'
    BY <1>a, <1>2 DEF Stop, Pause, Unstopped
  <1>4. \/ Stop \/ Pause
        \/ /\ budget'["unsaid"] = 0 /\ budget'["stop"] = budget["stop"]
           /\ OrphanWrites \/ orphan' = orphan
    BY <1>a, <1>1
    DEF Kind, Next, Actors, Pass, vars, Edit, ChangeRules, BeginUnasked, BeginAnswered, Begin,
        Resolving, Publish, Fetch, FetchNow, FetchStale, ReadFolder, Decide, Send, Sent,
        Receive, Carry, Record, Recorded, OrphanWrites, TurnEnds, TurnTaken
  <1>5. CASE Unstopped'
    <2>1. ~Stop /\ ~Pause /\ Unstopped
      BY <1>3, <1>4, <1>5 DEF Unstopped
    <2>2. orphan = {}
      BY <2>1 DEF EchoInv
    <2>3. ~OrphanWrites
      BY <2>2 DEF OrphanWrites, FirstOf
    <2>q. QED BY <1>4, <1>a, <2>1, <2>2, <2>3
  <1>6. CASE ~Unstopped'
    BY <1>3, <1>4, <1>a, <1>6
  <1>q. QED BY <1>5, <1>6

\* What nobody but the sync made there either stands as it did, or is the
\* write of the pass just carried.
LEMMA OwnStep ==
    ASSUME TypeInv, [Next]_vars, ~OrphanWrites, budget["unsaid"] = 0,
           NEW s \in Side, NEW p \in Path, ~byActor'[s][p]
    PROVE  \/ ~byActor[s][p] /\ disk'[s][p] = disk[s][p]
           \/ /\ (pc = "sending" /\ s = Checkout) \/ (pc = "receiving" /\ s = Folder)
              /\ \E w \in left : /\ Carry(s, w) /\ Lands(s, w) /\ landed' = landed \cup {w}
                                 /\ w.path = p /\ w.entry = disk'[s][p]
PROOF
  <1> USE DEF TypeInv, TypeOK
  <1>1. ASSUME NEW side \in Side, NEW q \in Path, NEW e \in Held, Edit(side, q, e)
        PROVE  ~byActor[s][p] /\ disk'[s][p] = disk[s][p]
    <2>1. ~(side = s /\ q = p)
      BY <1>1 DEF Edit
    <2>q. QED BY <1>1, <2>1 DEF Edit, Copy
  <1>2. ASSUME NEW side \in Side, NEW w \in left, Carry(side, w)
        PROVE  \/ ~byActor[s][p] /\ disk'[s][p] = disk[s][p]
               \/ /\ side = s /\ Lands(s, w) /\ landed' = landed \cup {w}
                  /\ w.path = p /\ w.entry = disk'[s][p]
    <2>1. ~Spend("unsaid")
      BY DEF Spend
    <2>2. CASE Lands(side, w) /\ Written(side, w) /\ landed' = landed \cup {w}
      <3>1. w \in Write /\ w.path \in Path
        BY DEF Write
      <3>2. CASE side = s /\ w.path = p
        BY <2>2, <3>1, <3>2 DEF Written, Copy
      <3>3. CASE ~(side = s /\ w.path = p)
        BY <2>2, <3>1, <3>3 DEF Written, Copy
      <3>q. QED BY <3>2, <3>3
    <2>3. CASE UNCHANGED <<disk, byActor>>
      BY <2>3
    <2>q. QED BY <1>2, <2>1, <2>2, <2>3 DEF Carry
  <1>3. CASE Send
    BY <1>2, <1>3, Types DEF Send, FirstOf
  <1>4. CASE Receive
    BY <1>2, <1>4, Types DEF Receive, FirstOf
  <1>5. CASE UNCHANGED <<disk, byActor>>
    BY <1>5
  <1>q. QED
    BY <1>1, <1>3, <1>4, <1>5
    DEF Next, Actors, Pass, vars, ChangeRules, BeginUnasked, BeginAnswered, Begin, Resolving,
        Publish, Fetch, FetchNow, FetchStale, ReadFolder, Decide, Pause, Sent, Record,
        Recorded, Stop, TurnEnds, TurnTaken, sideVars

\* How a step moves the pass on: it decides, carries a write of its leg,
\* records, or leaves what it decided and what has landed alone.
LEMMA PassSteps ==
    ASSUME TypeInv, Planning, [Next]_vars, ~Stop
    PROVE  \/ Decide
           \/ Record
           \/ \E s \in Side, w \in left :
                /\ (pc = "sending" /\ s = Checkout) \/ (pc = "receiving" /\ s = Folder)
                /\ pc' = pc /\ Carry(s, w)
                /\ landed' = landed \/ (landed' = landed \cup {w} /\ Lands(s, w) /\ Written(s, w))
                /\ UNCHANGED <<observed, plan, archive>>
           \/ /\ pc \in {"sending", "receiving"} /\ pc' \in {"sending", "receiving"}
              /\ UNCHANGED <<observed, plan, archive, landed>>
           \/ /\ pc \notin {"sending", "receiving"} /\ pc' \notin {"sending", "receiving"}
              /\ landed = {} /\ landed' = {} /\ UNCHANGED archive
PROOF
  <1>a. pc \notin {"sending", "receiving"} => landed = {}
    BY DEF Planning
  <1>1. ASSUME NEW s \in Side, NEW w \in left, Carry(s, w)
        PROVE  /\ pc' = pc
               /\ landed' = landed \/ (landed' = landed \cup {w} /\ Lands(s, w) /\ Written(s, w))
               /\ UNCHANGED <<observed, plan, archive>>
    BY <1>1 DEF Carry, recordVars
  <1>2. CASE Send
    BY <1>1, <1>2, Types DEF Send, FirstOf
  <1>3. CASE Receive
    BY <1>1, <1>3, Types DEF Receive, FirstOf
  <1>4. CASE Sent
    BY <1>4 DEF Sent, recordVars
  <1>5. CASE UNCHANGED <<pc, observed, plan, archive, landed>>
    BY <1>a, <1>5
  <1>6. CASE /\ pc \notin {"sending", "receiving"} /\ pc' \notin {"sending", "receiving"}
             /\ UNCHANGED archive /\ landed' \in {landed, {}}
    BY <1>a, <1>6
  <1>q. QED
    BY <1>2, <1>3, <1>4, <1>5, <1>6
    DEF Next, Actors, Pass, vars, Edit, ChangeRules, BeginUnasked, BeginAnswered, Begin,
        Resolving, Publish, Fetch, FetchNow, FetchStale, Forgotten, ReadFolder, Pause,
        OrphanWrites, TurnEnds, TurnTaken, passVars, recordVars

LEMMA StaysSeen ==
    ASSUME SafeInv, FitInv, EchoInv, [Next]_vars, Unstopped'
    PROVE  SeesOwn'
PROOF
  <1> USE DEF FitInv
  <1>a. /\ look \in [Taker -> Look] /\ "pass" \in Taker
        /\ SeesOwn /\ ~Stop /\ ~Pause /\ ~OrphanWrites /\ budget["unsaid"] = 0
    BY StaysUnstopped DEF TypeInv, TypeOK, Taker, EchoInv
  <1>b. ~TurnEnds /\ ~TurnTaken /\ ~Publish("turn") /\ look'["turn"] = look["turn"]
    BY StaysAlone
  <1>c. look["pass"].at # "idle" => pc = "looking"
    BY DEF SafeInv, LookedFaithfully
  <1>d. \A s \in Side : Visible(s) = disk[s]
    BY AllVisible
  <1>1. ASSUME NEW r, Begin(r)
        PROVE  SeesOwn'
    <2>1. look'["pass"].tree = TreeNow /\ pc' = "looking" /\ disk' = disk
      BY <1>1, <1>a DEF Begin, Looked, sideVars
    <2>2. TreeNow.files = disk[Checkout]
      BY <1>d, Types DEF TreeNow
    <2>q. QED BY <2>1, <2>2 DEF SeesOwn
  <1>2. CASE Publish("pass")
    <2>1. /\ look["pass"].at = "looked" /\ look'["pass"].tree = look["pass"].tree
          /\ UNCHANGED <<pc, disk, byActor>>
      BY <1>2, <1>a DEF Publish, sideVars, Look
    <2>q. QED BY <1>a, <1>c, <2>1 DEF SeesOwn
  <1>3. CASE Fetch
    <2>1. /\ snapshot' = snapRef /\ look'["pass"].at = "idle" /\ pc' = "fetched"
          /\ look["pass"].at = "done" /\ UNCHANGED <<disk, byActor>>
      BY <1>3, <1>a DEF Fetch, FetchNow, NoLook, sideVars
    <2>2. snapRef.tree = look["pass"].tree
      BY <2>1 DEF SafeInv, PassAlone
    <2>q. QED BY <1>a, <2>1, <2>2 DEF SeesOwn
  <1>4. CASE ReadFolder
    <2>1. /\ pc = "fetched" /\ pc' = "read" /\ seen' = disk[Folder]
          /\ UNCHANGED <<disk, byActor, snapshot, look>>
      BY <1>4, <1>d, Types DEF ReadFolder, sideVars
    <2>q. QED BY <1>a, <1>c, <2>1 DEF SeesOwn
  <1>5. CASE /\ pc' \notin {"fetched", "read"}
             /\ look'["pass"].at = "idle"
    BY <1>5 DEF SeesOwn
  <1>6. CASE UNCHANGED <<pc, look, snapshot, seen>>
    <2>1. CASE pc \in {"sending", "receiving"}
      BY <1>5, <1>6, <1>c, <2>1
    <2>2. CASE pc \notin {"sending", "receiving"}
      <3>1. \A s \in Side, p \in Path :
                ~byActor'[s][p] => ~byActor[s][p] /\ disk'[s][p] = disk[s][p]
        BY <1>a, <2>2, OwnStep
      <3>q. QED BY <1>a, <1>6, <3>1, Types DEF SeesOwn
    <2>q. QED BY <2>1, <2>2
  <1>7. CASE pc' \in {"sending", "receiving"} /\ UNCHANGED look /\ pc # "looking"
    BY <1>5, <1>7, <1>c
  <1>8. Forgotten => pc' = "idle" /\ look'["pass"].at = "idle"
    BY <1>a DEF Forgotten, NoLook
  <1>q. QED
    BY <1>a, <1>b, <1>1, <1>2, <1>3, <1>4, <1>5, <1>6, <1>7, <1>8
    DEF Next, Actors, Pass, vars, Edit, ChangeRules, BeginUnasked, BeginAnswered, Resolving,
        FetchStale, Decide, Send, Sent, Receive, Carry, Record, Recorded, passVars, recordVars

\* The two lists of a plan, as the pass holds it.
LEMMA ListsApart ==
    ASSUME FitInv, pc \in {"sending", "receiving"}
    PROVE  /\ To(Folder) \subseteq FolderWrites(observed, answer)
           /\ To(Checkout) \subseteq CheckoutWrites(observed, answer)
           /\ \A s \in Side : To(s) \subseteq Write /\ Distinct(To(s))
           /\ \A s \in Side : \A u \in To(s), w \in To(Other(s)) : u.path # w.path
           /\ \A s \in Side : \A u \in Puts(To(s)), q \in After(Present(SeenOn(s)), To(s)) :
                  ~Crossing(u.path, q)
           /\ plan.toCheckout = To(Checkout) /\ plan.toFolder = To(Folder)
           /\ left \subseteq IF pc = "sending" THEN To(Checkout) ELSE To(Folder)
           /\ landed \subseteq To(Folder) \cup To(Checkout)
PROOF
  <1> DEFINE o == observed
             r == answer
  <1> USE DEF FitInv
  <1>1. o \in Observed /\ plan = Planned(o, r)
    BY DEF TypeInv, TypeOK, Planning
  <1>2. /\ plan.toCheckout = To(Checkout) /\ plan.toFolder = To(Folder)
        /\ SeenOn(Checkout) = o.checkout /\ SeenOn(Folder) = o.folder
        /\ Other(Checkout) = Folder /\ Other(Folder) = Checkout
    BY Types DEF To, SeenOn, Other
  <1>3. /\ To(Folder) \subseteq FolderWrites(o, r) /\ To(Checkout) \subseteq CheckoutWrites(o, r)
        /\ Distinct(To(Folder)) /\ Distinct(To(Checkout))
        /\ \A u \in To(Folder), w \in To(Checkout) : u.path # w.path
    BY <1>1, <1>2, PlannedLists
  <1>4. To(Folder) \subseteq Write /\ To(Checkout) \subseteq Write
    BY <1>1, <1>2, PlannedType DEF PlanType
  <1>5. /\ \A u \in Puts(To(Checkout)), q \in After(Present(o.checkout), To(Checkout)) :
              ~Crossing(u.path, q)
        /\ \A u \in Puts(To(Folder)), q \in After(Present(o.folder) \cup o.unseen, To(Folder)) :
              ~Crossing(u.path, q)
    BY <1>1, <1>2, PlannedType, OneRound
  <1>6. After(Present(o.folder), To(Folder)) \subseteq
            After(Present(o.folder) \cup o.unseen, To(Folder))
    BY AfterGrows
  <1>7. /\ left \subseteq IF pc = "sending" THEN To(Checkout) ELSE To(Folder)
        /\ landed \subseteq To(Folder) \cup To(Checkout)
    BY <1>2 DEF Decided, Planning
  <1>8. ASSUME NEW s \in Side
        PROVE  /\ To(s) \subseteq Write /\ Distinct(To(s))
               /\ \A u \in To(s), w \in To(Other(s)) : u.path # w.path
               /\ \A u \in Puts(To(s)), q \in After(Present(SeenOn(s)), To(s)) :
                      ~Crossing(u.path, q)
    <2>1. CASE s = Folder
      BY <1>2, <1>3, <1>4, <1>5, <1>6, <2>1
    <2>2. CASE s = Checkout
      BY <1>2, <1>3, <1>4, <1>5, <2>2
    <2>q. QED BY <2>1, <2>2 DEF Side
  <1>q. QED BY <1>2, <1>3, <1>7, <1>8

\* A write of a leg that lands is one of its side's list and of no other.
LEMMA CarriedAlone ==
    ASSUME FitInv, NEW s \in Side, NEW w \in left,
           (pc = "sending" /\ s = Checkout) \/ (pc = "receiving" /\ s = Folder)
    PROVE  /\ w \in To(s) /\ w \in Write /\ w.path \in Path
           /\ \A t \in Side : w \in To(t) => t = s
PROOF
  <1>1. pc \in {"sending", "receiving"} /\ w \in To(s)
    BY ListsApart, Types
  <1>2. w \in Write /\ w.path \in Path
    BY <1>1, ListsApart DEF Write
  <1>3. \A t \in Side : t = s \/ t = Other(s)
    BY Types DEF Other, Side
  <1>q. QED BY <1>1, <1>2, <1>3, ListsApart

LEMMA StaysWritten ==
    ASSUME SafeInv, FitInv, EchoInv, [Next]_vars, Unstopped'
    PROVE  WritesOwn'
PROOF
  <1> SUFFICES ASSUME pc' \in {"sending", "receiving"}
               PROVE  WritesOwn'
    BY DEF WritesOwn
  <1> USE DEF FitInv
  <1>a. /\ SeesOwn /\ WritesOwn /\ ~Stop /\ ~OrphanWrites /\ budget["unsaid"] = 0
        /\ replaced \subseteq replaced'
    BY StaysUnstopped, StaysReplaced DEF EchoInv
  <1>1. CASE Decide
    <2> DEFINE o == Observation
    <2>1. /\ pc = "read" /\ observed' = o
          /\ UNCHANGED <<disk, byActor, archive, landed>> /\ landed = {}
      BY <1>1 DEF Decide, recordVars, Planning
    <2>2. /\ o.folder = seen /\ o.checkout = snapshot.tree.files /\ o.unseen = Unseen
          /\ Unseen \subseteq Path
      BY DEF Observation, Unseen, Present
    <2>3. \A p \in o.unseen : byActor[Folder][p]
      BY <1>a, <2>1, <2>2 DEF Unseen, Present, SeesOwn
    <2>4. Witnessed(snapshot.tree) /\ snapshot.tree.ignored = {}
      BY <2>1 DEF SafeInv, LookedFaithfully, CopiesFit, Plain
    <2>5. \A q \in Path : o.checkout[q] = archive[q] \/ Expendable(q, archive[q])
      BY <2>2, <2>4 DEF Witnessed
    <2>6. \A s \in Side, p \in Path : ~byActor[s][p] =>
              disk[s][p] = IF s = Folder THEN o.folder[p] ELSE o.checkout[p]
      BY <1>a, <2>1, <2>2 DEF SeesOwn, Side
    <2> HIDE DEF o
    <2>7. \A p \in observed'.unseen : byActor'[Folder][p]
      BY <2>1, <2>3
    <2>8. \A q \in Path : observed'.checkout[q] = archive'[q]
                          \/ archive'[q] = None \/ <<q, archive'[q]>> \in replaced'
      BY <1>a, <2>1, <2>5 DEF Expendable
    <2>9. \A s \in Side, p \in Path : ~byActor'[s][p] =>
              disk'[s][p] = SeenOn(s)'[p] /\ p \notin Paths(landed \cap To(s))'
      BY <2>1, <2>6 DEF SeenOn, Paths
    <2>q. QED BY <2>7, <2>8, <2>9 DEF WritesOwn, Expendable
  <1>2. ASSUME pc \in {"sending", "receiving"}, UNCHANGED <<observed, plan, archive>>,
               landed \subseteq landed',
               \A s \in Side, p \in Path :
                   p \in Paths(landed' \cap To(s)) =>
                       \/ p \in Paths(landed \cap To(s))
                       \/ \E w \in landed' \cap To(s) : w.path = p /\ w.entry = disk'[s][p]
        PROVE  WritesOwn'
    <2>1. \A s \in Side : To(s)' = To(s) /\ SeenOn(s)' = SeenOn(s)
      BY <1>2 DEF To, SeenOn
    <2>2. ASSUME NEW s \in Side, NEW p \in Path, ~byActor'[s][p]
          PROVE  \/ ~byActor[s][p] /\ disk'[s][p] = disk[s][p]
                 \/ \E w \in landed' \cap To(s) : /\ w.path = p /\ w.entry = disk'[s][p]
      <3>1. \/ ~byActor[s][p] /\ disk'[s][p] = disk[s][p]
            \/ /\ (pc = "sending" /\ s = Checkout) \/ (pc = "receiving" /\ s = Folder)
               /\ \E w \in left : /\ Carry(s, w) /\ Lands(s, w) /\ landed' = landed \cup {w}
                                  /\ w.path = p /\ w.entry = disk'[s][p]
        BY <1>a, <2>2, OwnStep
      <3>q. QED BY <3>1, CarriedAlone
    <2>3. ASSUME NEW p \in observed.unseen, ~byActor'[Folder][p]
          PROVE  FALSE
      <3>1. p \in Path /\ byActor[Folder][p]
        BY <1>2, <1>a, <2>3 DEF WritesOwn, TypeInv, TypeOK, Observed
      <3>2. PICK w \in To(Folder) : w.path = p
        BY <2>2, <2>3, <3>1, Types
      <3>3. w \in FolderWrites(observed, answer)
        BY <1>2, <3>2, ListsApart
      <3>4. p \notin observed.unseen
        BY <3>2, <3>3 DEF FolderWrites, SendsToFolder, Answered
      <3>q. QED BY <2>3, <3>4
    <2>4. \A q \in Path : observed'.checkout[q] = archive'[q]
                          \/ archive'[q] = None \/ <<q, archive'[q]>> \in replaced'
      BY <1>2, <1>a DEF WritesOwn, Expendable
    <2>5. ASSUME NEW s \in Side, NEW p \in Path, ~byActor'[s][p]
          PROVE  \/ \E w \in landed' \cap To(s) : w.path = p /\ w.entry = disk'[s][p]
                 \/ disk'[s][p] = SeenOn(s)[p] /\ p \notin Paths(landed' \cap To(s))
      <3>1. CASE ~byActor[s][p] /\ disk'[s][p] = disk[s][p]
        <4>1. \/ Brought(s, p)
              \/ disk[s][p] = SeenOn(s)[p] /\ p \notin Paths(landed \cap To(s))
          BY <1>2, <1>a, <3>1 DEF WritesOwn
        <4>2. Brought(s, p) => \E w \in landed' \cap To(s) : w.path = p /\ w.entry = disk'[s][p]
          BY <1>2, <3>1 DEF Brought
        <4>q. QED BY <1>2, <3>1, <4>1, <4>2
      <3>q. QED BY <2>2, <2>5, <3>1
    <2>6. \A s \in Side, p \in Path : ~byActor'[s][p] =>
              \/ Brought(s, p)'
              \/ disk'[s][p] = SeenOn(s)'[p] /\ p \notin Paths(landed' \cap To(s)')
      BY <2>1, <2>5 DEF Brought
    <2>7. \A p \in observed'.unseen : byActor'[Folder][p]
      BY <1>2, <2>3
    <2>q. QED BY <2>4, <2>6, <2>7 DEF WritesOwn, Expendable
  <1>3. ASSUME NEW s \in Side, NEW w \in left,
               (pc = "sending" /\ s = Checkout) \/ (pc = "receiving" /\ s = Folder),
               landed' = landed \/ (landed' = landed \cup {w} /\ Lands(s, w) /\ Written(s, w)),
               UNCHANGED <<observed, plan, archive>>
        PROVE  WritesOwn'
    <2>1. /\ w \in To(s) /\ w \in Write /\ w.path \in Path /\ \A t \in Side : w \in To(t) => t = s
      BY <1>3, CarriedAlone
    <2>2. Written(s, w) => disk'[s][w.path] = w.entry
      BY <2>1 DEF Written, TypeInv, TypeOK, Copy
    <2>3. \A t \in Side, p \in Path :
              p \in Paths(landed' \cap To(t)) =>
                  \/ p \in Paths(landed \cap To(t))
                  \/ \E v \in landed' \cap To(t) : v.path = p /\ v.entry = disk'[t][p]
      BY <1>3, <2>1, <2>2 DEF Paths
    <2>q. QED BY <1>2, <1>3, <2>3
  <1>4. CASE pc \in {"sending", "receiving"} /\ UNCHANGED <<observed, plan, archive, landed>>
    BY <1>2, <1>4
  <1>5. Record => pc' = "idle"
    BY DEF Record, Recorded, Forgotten
  <1>q. QED BY <1>a, <1>1, <1>3, <1>4, <1>5, PassSteps

LEMMA StaysApart ==
    ASSUME SafeInv, FitInv, EchoInv, [Next]_vars, Unstopped'
    PROVE  LandsApart'
PROOF
  <1> USE DEF FitInv
  <1>a. /\ LandsApart /\ ~Stop /\ ~OrphanWrites /\ budget["unsaid"] = 0
        /\ replaced \subseteq replaced'
    BY StaysUnstopped, StaysReplaced DEF EchoInv
  <1>1. CASE landed' = {}
    BY <1>1 DEF LandsApart, Puts
  <1>2. ASSUME pc \in {"sending", "receiving"}, UNCHANGED <<observed, plan, archive>>,
               \A v \in Puts(landed'), q \in Path : Crossing(v.path, q) =>
                   /\ Expendable(q, archive[q])
                   /\ \A s \in Side : v \in To(s) => disk[s][q] = None \/ byActor[s][q]
        PROVE  LandsApart'
    <2>1. \A s \in Side : To(s)' = To(s)
      BY <1>2 DEF To
    <2>2. ASSUME NEW v \in Puts(landed'), NEW q \in Path, Crossing(v.path, q),
                 NEW s \in Side, v \in To(s), ~byActor'[s][q]
          PROVE  disk'[s][q] = None
      <3>1. CASE ~byActor[s][q] /\ disk'[s][q] = disk[s][q]
        BY <1>2, <2>2, <3>1
      <3>2. CASE /\ (pc = "sending" /\ s = Checkout) \/ (pc = "receiving" /\ s = Folder)
                 /\ \E w \in left : w.path = q /\ w.entry = disk'[s][q]
        <4>1. PICK w \in left : w.path = q /\ w.entry = disk'[s][q]
          BY <3>2
        <4>2. w \in To(s) /\ v \in Puts(To(s))
          BY <2>2, <3>2, CarriedAlone DEF Puts
        <4>3. ASSUME w.entry # None PROVE FALSE
          <5>1. q \in After(Present(SeenOn(s)), To(s))
            BY <4>1, <4>2, <4>3 DEF After, Paths, Puts
          <5>q. QED BY <1>2, <2>2, <4>2, <5>1, ListsApart
        <4>q. QED BY <4>1, <4>3
      <3>q. QED BY <1>a, <2>2, <3>1, <3>2, OwnStep
    <2>3. ASSUME NEW v \in Puts(landed'), NEW q \in Path, Crossing(v.path, q)
          PROVE  archive'[q] = None \/ <<q, archive'[q]>> \in replaced'
      BY <1>2, <1>a, <2>3 DEF Expendable
    <2>4. \A v \in Puts(landed'), q \in Path : Crossing(v.path, q) =>
              /\ archive'[q] = None \/ <<q, archive'[q]>> \in replaced'
              /\ \A s \in Side : v \in To(s)' => disk'[s][q] = None \/ byActor'[s][q]
      BY <2>1, <2>2, <2>3
    <2>q. QED BY <2>4 DEF LandsApart, Expendable, Puts
  <1>3. ASSUME NEW s \in Side, NEW w \in left,
               (pc = "sending" /\ s = Checkout) \/ (pc = "receiving" /\ s = Folder),
               landed' = landed \/ (landed' = landed \cup {w} /\ Lands(s, w)),
               UNCHANGED <<observed, plan, archive>>
        PROVE  LandsApart'
    <2>1. /\ w \in To(s) /\ w.path \in Path /\ \A t \in Side : w \in To(t) => t = s
      BY <1>3, CarriedAlone
    <2>2. ASSUME Lands(s, w), w.entry # None, NEW q \in Path, Crossing(w.path, q)
          PROVE  disk[s][q] = None /\ Expendable(q, archive[q])
      <3>1. disk[s][q] = None
        BY <2>2 DEF Lands, Fits, Present
      <3>q. QED BY <3>1 DEF SafeInv, ArchiveBacked, Expendable
    <2>3. ASSUME NEW v \in Puts(landed'), NEW q \in Path, Crossing(v.path, q)
          PROVE  /\ Expendable(q, archive[q])
                 /\ \A t \in Side : v \in To(t) => disk[t][q] = None \/ byActor[t][q]
      <3>1. CASE v \in Puts(landed)
        BY <1>a, <2>3, <3>1 DEF LandsApart
      <3>2. CASE v = w /\ Lands(s, w)
        BY <2>1, <2>2, <2>3, <3>2 DEF Puts
      <3>q. QED BY <1>3, <2>3, <3>1, <3>2 DEF Puts
    <2>q. QED BY <1>2, <1>3, <2>3
  <1>4. CASE pc \in {"sending", "receiving"} /\ UNCHANGED <<observed, plan, archive, landed>>
    BY <1>2, <1>4, <1>a DEF LandsApart
  <1>5. Record => landed' = {}
    BY DEF Record, Recorded, Forgotten
  <1>6. Decide => landed' = {}
    BY DEF Decide, Planning
  <1>q. QED BY <1>a, <1>1, <1>3, <1>4, <1>5, <1>6, PassSteps

\* What is recorded, path by path: what landed, what was agreed, or what was
\* recorded before.
LEMMA RecordedAt ==
    ASSUME FitInv, pc \in {"sending", "receiving"}, NEW p \in Path
    PROVE  LET held == Archived(observed, plan, landed) IN
           /\ \A w \in landed : w.path = p => held[p] = w.entry /\ p \notin plan.agreed
           /\ p \in plan.agreed => /\ p \notin Paths(To(Folder)) /\ p \notin Paths(To(Checkout))
                                   /\ p \notin observed.unseen
                                   /\ held[p] = observed.folder[p]
                                   /\ held[p] = observed.checkout[p]
           /\ p \notin Paths(landed) /\ p \notin plan.agreed => held[p] = archive[p]
PROOF
  <1> DEFINE o == observed
             r == answer
             all == To(Folder) \cup To(Checkout)
             held == Archived(o, plan, landed)
  <1> USE DEF FitInv
  <1>1. /\ o \in Observed /\ plan = Planned(o, r) /\ o.scope = Path /\ o.archive = archive
        /\ landed \subseteq all
    BY ListsApart DEF TypeInv, TypeOK, Planning
  <1>2. Other(Folder) = Checkout /\ Folder \in Side /\ Checkout \in Side
    BY Types DEF Other
  <1>3. \A u, w \in all : u.path = w.path => u = w
    BY <1>2, ListsApart DEF Distinct
  <1>4. plan.agreed = {q \in o.scope : Agrees(o, q)} /\ plan.forget = {}
    BY <1>1, PlannedLists DEF Present
  <1>5. /\ \A w \in To(Folder) : w.path = p => SendsToFolder(o, r, p)
        /\ \A w \in To(Checkout) : w.path = p => SendsToCheckout(o, r, p)
    BY ListsApart DEF FolderWrites, CheckoutWrites
  <1>6. ASSUME p \in plan.agreed
        PROVE  /\ p \notin Paths(all)
               /\ p \notin o.unseen
               /\ FolderEntry(o, p) = o.folder[p]
               /\ FolderEntry(o, p) = o.checkout[p]
    <2>1. FolderChanged(o, p) /\ ~Differs(o, p)
      BY <1>4, <1>6 DEF Agrees
    <2>2. CheckoutChanged(o, p) /\ p \notin o.unseen
      BY <2>1 DEF FolderChanged, CheckoutChanged, Differs, FolderEntry
    <2>3. ~SendsToFolder(o, r, p) /\ ~SendsToCheckout(o, r, p)
      BY <2>1, <2>2 DEF SendsToFolder, SendsToCheckout
    <2>q. QED BY <1>5, <2>1, <2>2, <2>3 DEF Paths, FolderEntry, Differs
  <1>7. /\ p \in plan.agreed => held[p] = FolderEntry(o, p)
        /\ p \notin plan.agreed => held[p] = Applied(o.archive, landed)[p]
    BY <1>4 DEF Archived
  <1>8. ASSUME NEW w \in landed, w.path = p
        PROVE  p \notin plan.agreed /\ held[p] = w.entry
    <2>1. p \notin plan.agreed
      BY <1>1, <1>6, <1>8 DEF Paths
    <2>2. Applied(o.archive, landed)[p] = w.entry
      BY <1>1, <1>3, <1>8, AppliedAt
    <2>q. QED BY <1>7, <2>1, <2>2
  <1>9. p \notin Paths(landed) /\ p \notin plan.agreed => held[p] = archive[p]
    <2>1. p \notin Paths(landed) => Applied(o.archive, landed)[p] = archive[p]
      BY <1>1 DEF Applied
    <2>q. QED BY <1>7, <2>1
  <1>10. p \in plan.agreed => p \notin Paths(To(Folder)) /\ p \notin Paths(To(Checkout))
    BY <1>6 DEF Paths
  <1>q. QED BY <1>6, <1>7, <1>8, <1>9, <1>10

\* Before a path gives way to one beneath it, the record has of each side
\* what the sync made there.
LEMMA RecordHolds ==
    ASSUME FitInv, WritesOwn, HoldsOwn, pc \in {"sending", "receiving"},
           NEW s \in Side, NEW p \in Path, ~byActor[s][p]
    PROVE  LET held == Archived(observed, plan, landed) IN
           /\ held[p] = disk[s][p] \/ (held[p] = None /\ MovedBeneath(p))
           /\ p \notin Paths(landed) => disk[s][p] = SeenOn(s)[p]
PROOF
  <1> DEFINE o == observed
             held == Archived(o, plan, landed)
  <1> USE DEF FitInv
  <1>a. \/ Brought(s, p)
        \/ disk[s][p] = SeenOn(s)[p] /\ p \notin Paths(landed \cap To(s))
    BY DEF WritesOwn
  <1>b. Brought(s, p) => p \in Paths(landed)
    BY DEF Brought, Paths
  <1>c. s = Folder => p \notin o.unseen
    BY DEF WritesOwn
  <1>1. ASSUME NEW w \in landed, w.path = p
        PROVE  held[p] = disk[s][p]
    <2>1. held[p] = w.entry
      BY <1>1, RecordedAt
    <2>2. CASE w \in To(s)
      <3>1. Brought(s, p)
        BY <1>a, <1>1, <2>2 DEF Paths
      <3>2. PICK v \in landed \cap To(s) : v.path = p /\ v.entry = disk[s][p]
        BY <3>1 DEF Brought
      <3>q. QED BY <1>1, <2>1, <3>2, RecordedAt
    <2>3. CASE w \notin To(s)
      <3>1. w \in To(Other(s)) /\ Other(Other(s)) = s /\ Other(s) \in Side
        BY <2>3, ListsApart, Types DEF Other, Side
      <3>2. \A v \in To(s) : v.path # p
        BY <1>1, <3>1, ListsApart
      <3>3. disk[s][p] = SeenOn(s)[p]
        BY <1>a, <3>2 DEF Brought
      <3>4. CASE s = Folder
        <4>1. w \in CheckoutWrites(o, answer)
          BY <3>1, <3>4, ListsApart DEF Other
        <4>q. QED BY <1>c, <1>1, <2>1, <3>3, <3>4, <4>1
                  DEF CheckoutWrites, FolderEntry, SeenOn
      <3>5. CASE s # Folder
        <4>1. w \in FolderWrites(o, answer)
          BY <3>1, <3>5, ListsApart DEF Other
        <4>q. QED BY <1>1, <2>1, <3>3, <3>5, <4>1 DEF FolderWrites, SeenOn
      <3>q. QED BY <3>4, <3>5
    <2>q. QED BY <2>2, <2>3
  <1>2. CASE p \in Paths(landed)
    <2>1. \E w \in landed : w.path = p
      BY <1>2 DEF Paths
    <2>q. QED BY <1>1, <1>2, <2>1
  <1>3. CASE p \notin Paths(landed) /\ p \in plan.agreed
    BY <1>a, <1>b, <1>3, RecordedAt DEF SeenOn
  <1>4. CASE p \notin Paths(landed) /\ p \notin plan.agreed
    <2>1. held[p] = archive[p]
      BY <1>4, RecordedAt
    <2>q. QED BY <1>a, <1>b, <1>4, <2>1 DEF HoldsOwn
  <1>q. QED BY <1>2, <1>3, <1>4

\* What landed or was agreed, and is there, stands on either side as the pass
\* would have left it.
LEMMA TouchedStands ==
    ASSUME FitInv, pc \in {"sending", "receiving"}, NEW p \in Path,
           p \in Paths(landed) \/ p \in plan.agreed,
           Archived(observed, plan, landed)[p] # None
    PROVE  /\ \A s \in Side : p \in After(Present(SeenOn(s)), To(s))
           /\ p \in plan.agreed => \A s \in Side : SeenOn(s)[p] # None
           /\ p \notin plan.agreed => \E s \in Side, w \in Puts(landed) : w \in To(s) /\ w.path = p
PROOF
  <1> DEFINE o == observed
             held == Archived(o, plan, landed)
  <1>1. CASE p \in plan.agreed
    <2>1. /\ held[p] = o.folder[p] /\ held[p] = o.checkout[p]
          /\ p \notin Paths(To(Folder)) /\ p \notin Paths(To(Checkout))
      BY <1>1, RecordedAt
    <2>2. \A s \in Side : SeenOn(s)[p] # None /\ p \notin Paths(To(s))
      BY <2>1 DEF SeenOn, Side
    <2>q. QED BY <1>1, <2>2 DEF After, Present, Paths, Removals
  <1>2. CASE p \notin plan.agreed
    <2>1. PICK w \in landed : w.path = p
      BY <1>2 DEF Paths
    <2>2. w.entry # None
      BY <2>1, RecordedAt
    <2>3. PICK t \in Side : w \in To(t)
      BY <2>1, ListsApart, Types
    <2>4. p \in After(Present(SeenOn(t)), To(t))
      BY <2>1, <2>2, <2>3 DEF After, Puts, Paths
    <2>5. /\ Other(t) \in Side /\ \A s \in Side : s = t \/ s = Other(t)
          /\ \A v \in To(Other(t)) : v.path # p
      BY <2>1, <2>3, ListsApart, Types DEF Other, Side
    <2>6. SeenOn(Other(t))[p] # None
      <3>1. CASE t = Folder
        <4>1. w \in FolderWrites(o, answer)
          BY <2>3, <3>1, ListsApart
        <4>q. QED BY <2>1, <2>2, <3>1, <4>1, Types DEF FolderWrites, SeenOn, Other
      <3>2. CASE t = Checkout
        <4>1. w \in CheckoutWrites(o, answer)
          BY <2>3, <3>2, ListsApart
        <4>2. p \notin o.unseen
          BY <2>1, <4>1 DEF CheckoutWrites, SendsToCheckout, Answered, FolderChanged, FolderEntry
        <4>q. QED BY <2>1, <2>2, <3>2, <4>1, <4>2, Types
                  DEF CheckoutWrites, FolderEntry, SeenOn, Other
      <3>q. QED BY <3>1, <3>2 DEF Side
    <2>7. p \in After(Present(SeenOn(Other(t))), To(Other(t)))
      BY <2>5, <2>6 DEF After, Present, Paths, Removals
    <2>q. QED BY <1>2, <2>1, <2>2, <2>3, <2>4, <2>5, <2>7 DEF Puts
  <1>q. QED BY <1>1, <1>2

\* Of those no two meet.
LEMMA TouchedApart ==
    ASSUME FitInv, pc \in {"sending", "receiving"}, NEW p \in Path, NEW q \in Path,
           p \in Paths(landed) \/ p \in plan.agreed,
           q \in Paths(landed) \/ q \in plan.agreed,
           Archived(observed, plan, landed)[p] # None,
           Archived(observed, plan, landed)[q] # None
    PROVE  ~Crossing(p, q)
PROOF
  <1>1. ASSUME NEW x \in Path, NEW y \in Path, NEW s \in Side, NEW w \in Puts(landed),
               w \in To(s), w.path = x, y \in After(Present(SeenOn(s)), To(s))
        PROVE  ~Crossing(x, y)
    <2>1. w \in Puts(To(s))
      BY <1>1 DEF Puts
    <2>q. QED BY <1>1, <2>1, ListsApart
  <1>2. CASE p \notin plan.agreed
    BY <1>1, <1>2, TouchedStands
  <1>3. CASE q \notin plan.agreed
    <2>1. ~Crossing(q, p)
      BY <1>1, <1>3, TouchedStands
    <2>q. QED BY <2>1 DEF Crossing
  <1>4. CASE p \in plan.agreed /\ q \in plan.agreed
    <2>1. observed.folder[p] # None /\ observed.folder[q] # None
      BY <1>4, TouchedStands, Types DEF SeenOn
    <2>2. WellFormed(observed.folder)
      BY DEF FitInv, CopiesFit
    <2>q. QED BY <2>1, <2>2 DEF WellFormed, Present
  <1>q. QED BY <1>2, <1>3, <1>4

\* And where the record makes one give way, an actor had moved what stands
\* beneath it.
LEMMA RecordsOwn ==
    ASSUME SafeInv, FitInv, WritesOwn, LandsApart, HoldsOwn, Record,
           NEW s \in Side, NEW p \in Path, ~byActor[s][p]
    PROVE  disk[s][p] = archive'[p] \/ (archive'[p] = None /\ MovedBeneath(p))
PROOF
  <1> DEFINE o == observed
             held == Archived(o, plan, landed)
  <1>1. pc = "receiving" /\ archive' = AsTree(held)
    BY DEF Record, Recorded
  <1>2. /\ held[p] = disk[s][p] \/ (held[p] = None /\ MovedBeneath(p))
        /\ p \notin Paths(landed) => disk[s][p] = SeenOn(s)[p]
    BY <1>1, RecordHolds
  <1>3. ~Crossing(p, p) /\ \A q : <<p, q>> \in Above => Crossing(p, q) /\ Crossing(q, p)
    BY PlanAssumption DEF Crossing
  <1>4. archive \in Copy
    BY DEF FitInv, TypeInv, TypeOK
  <1>5. ASSUME NEW q \in Path, held[q] # None, <<p, q>> \in Above, held[p] # None,
               disk[s][p] # None
        PROVE  MovedBeneath(p)
    <2> DEFINE touched(x) == x \in Paths(landed) \/ x \in plan.agreed
    <2>1. ASSUME Expendable(q, archive[q]), archive[q] # None
          PROVE  MovedBeneath(p)
      <3>1. archive[q] \in Entry
        BY <1>4, <2>1 DEF Copy, Held
      <3>q. QED BY <1>5, <2>1, <3>1 DEF Expendable, MovedBeneath
    <2>2. \A x \in Path : ~touched(x) => held[x] = archive[x]
      BY <1>1, RecordedAt
    <2>3. CASE ~touched(q) /\ p \in Paths(landed)
      <3>1. PICK w \in landed : w.path = p
        BY <2>3 DEF Paths
      <3>2. w \in Puts(landed)
        BY <1>1, <1>5, <3>1, RecordedAt DEF Puts
      <3>3. Expendable(q, archive[q])
        BY <1>3, <1>5, <3>1, <3>2 DEF LandsApart
      <3>q. QED BY <1>5, <2>1, <2>2, <2>3, <3>3
    <2>4. CASE ~touched(q) /\ p \in plan.agreed
      <3>1. o.checkout[p] # None
        BY <1>1, <1>5, <2>4, RecordedAt
      <3>2. o.checkout[q] = None
        BY <1>3, <1>5, <3>1 DEF FitInv, CopiesFit, WellFormed, Present
      <3>3. archive[q] # None
        BY <1>5, <2>2, <2>4
      <3>4. Expendable(q, archive[q])
        BY <1>1, <3>2, <3>3 DEF WritesOwn
      <3>q. QED BY <2>1, <3>3, <3>4
    <2>5. CASE ~touched(q) /\ ~touched(p)
      <3>1. archive[q] # None /\ archive[p] # None
        BY <1>5, <2>2, <2>5
      <3>2. FALSE
        BY <1>3, <1>5, <3>1 DEF FitInv, CopiesFit, WellFormed, Present
      <3>q. QED BY <3>2
    <2>6. CASE touched(q) /\ touched(p)
      <3>1. FALSE
        BY <1>1, <1>3, <1>5, <2>6, TouchedApart
      <3>q. QED BY <3>1
    <2>7. CASE touched(q) /\ ~touched(p)
      <3>1. SeenOn(s)[p] # None /\ Other(s) \in Side /\ Other(Other(s)) = s
        BY <1>2, <1>5, <2>7, Types DEF Other, Side
      <3>2. ASSUME SeenOn(s)[q] # None
            PROVE  FALSE
        <4>1. WellFormed(SeenOn(s))
          BY DEF SeenOn, FitInv, CopiesFit
        <4>q. QED BY <1>3, <1>5, <3>1, <3>2, <4>1 DEF WellFormed, Present
      <3>3. CASE q \in plan.agreed
        BY <1>1, <1>5, <3>2, <3>3, TouchedStands
      <3>4. CASE q \notin plan.agreed
        <4>1. PICK t \in Side, v \in Puts(landed) : v \in To(t) /\ v.path = q
          BY <1>1, <1>5, <2>7, <3>4, TouchedStands
        <4>2. CASE t = s
          BY <1>3, <1>5, <4>1, <4>2 DEF LandsApart
        <4>3. CASE t # s
          <5>1. \A x \in To(s) : x.path # q
            BY <1>1, <3>1, <4>1, <4>3, ListsApart DEF Other, Side
          <5>2. q \in After(Present(SeenOn(s)), To(s))
            BY <1>1, <1>5, <2>7, TouchedStands
          <5>3. SeenOn(s)[q] # None
            BY <5>1, <5>2 DEF After, Present, Paths, Puts
          <5>q. QED BY <3>2, <5>3
        <4>q. QED BY <4>2, <4>3
      <3>q. QED BY <3>3, <3>4
    <2>q. QED BY <2>3, <2>4, <2>5, <2>6, <2>7
  <1>6. \/ archive'[p] = held[p]
        \/ archive'[p] = None /\ \E q \in Path : held[q] # None /\ <<p, q>> \in Above
    BY <1>1 DEF AsTree, Present
  <1>q. QED BY <1>2, <1>5, <1>6

LEMMA StaysOwn ==
    ASSUME SafeInv, FitInv, EchoInv, [Next]_vars, Unstopped'
    PROVE  HoldsOwn'
PROOF
  <1> USE DEF FitInv
  <1>a. /\ WritesOwn /\ LandsApart /\ HoldsOwn /\ ~Stop /\ ~OrphanWrites /\ budget["unsaid"] = 0
        /\ replaced \subseteq replaced'
    BY StaysUnstopped, StaysReplaced DEF EchoInv
  <1>b. \A p : MovedBeneath(p) => MovedBeneath(p)'
    BY <1>a DEF MovedBeneath
  <1>1. CASE Record
    <2>1. UNCHANGED <<disk, byActor>>
      BY <1>1 DEF Record, Recorded, sideVars
    <2>q. QED BY <1>1, <1>a, <1>b, <2>1, RecordsOwn DEF HoldsOwn
  <1>2. ASSUME UNCHANGED archive, landed \subseteq landed',
               landed # {} \/ pc \in {"sending", "receiving"} => UNCHANGED plan
        PROVE  HoldsOwn'
    <2>1. ASSUME NEW s \in Side, NEW p \in Path, ~byActor'[s][p]
          PROVE  \/ disk'[s][p] = archive[p]
                 \/ archive[p] = None /\ MovedBeneath(p)'
                 \/ Brought(s, p)'
      <3>1. CASE ~byActor[s][p] /\ disk'[s][p] = disk[s][p]
        <4>1. Brought(s, p) => Brought(s, p)'
          BY <1>2, <3>1 DEF Brought, To
        <4>q. QED BY <1>a, <1>b, <3>1, <4>1 DEF HoldsOwn
      <3>2. CASE /\ (pc = "sending" /\ s = Checkout) \/ (pc = "receiving" /\ s = Folder)
                 /\ \E w \in left : /\ landed' = landed \cup {w}
                                    /\ w.path = p /\ w.entry = disk'[s][p]
        <4>1. PICK w \in left : /\ landed' = landed \cup {w}
                                /\ w.path = p /\ w.entry = disk'[s][p]
          BY <3>2
        <4>2. w \in To(s) /\ To(s)' = To(s)
          BY <1>2, <3>2, CarriedAlone DEF To
        <4>q. QED BY <4>1, <4>2 DEF Brought
      <3>q. QED BY <1>a, <2>1, <3>1, <3>2, OwnStep
    <2>q. QED BY <1>2, <2>1 DEF HoldsOwn
  <1>3. CASE Decide
    <2>1. pc = "read" /\ landed = {} /\ landed' = {} /\ UNCHANGED <<archive, disk, byActor>>
      BY <1>3 DEF Decide, Planning, recordVars
    <2>q. QED BY <1>2, <2>1
  <1>q. QED BY <1>1, <1>2, <1>3, <1>a, PassSteps

\* SYNC.md, P5 and P6, for any paths and entries, whatever the actors do and
\* whichever writes fail: between passes, and until one is cut off, a side
\* differs from the archive only where an actor made the difference, save
\* where the record gave way to a file an actor had just moved from beneath.
\* No write goes unsaid, no rule changes, no turn's snapshot runs beside.
THEOREM NothingEchoes ==
    ASSUME Budget["rule"] = 0, Budget["turn"] = 0, Budget["unsaid"] = 0
    PROVE  Spec => []NoEcho
PROOF
  <1>1. Spec => []SafeInv
    BY SafeHolds
  <1>2. Spec => []FitInv
    BY FitHolds
  <1>3. Init => EchoInv
    BY EchoInit
  <1>4. SafeInv /\ FitInv /\ EchoInv /\ [Next]_vars => EchoInv'
    <2> SUFFICES ASSUME SafeInv, FitInv, EchoInv, [Next]_vars PROVE EchoInv'
      OBVIOUS
    <2>1. /\ budget'["unsaid"] = 0 /\ budget'["stop"] <= Budget["stop"]
          /\ Unstopped' => orphan' = {}
      BY StaysUnstopped DEF SafeInv
    <2>q. QED BY <2>1, StaysSeen, StaysWritten, StaysApart, StaysOwn DEF EchoInv
  <1>5. FitInv /\ EchoInv => NoEcho
    <2> SUFFICES ASSUME FitInv, EchoInv, pc = "idle", Unstopped,
                        NEW s \in Side, NEW p \in Path, ~byActor[s][p]
                 PROVE  \/ Visible(s)[p] = archive[p]
                        \/ archive[p] = None /\ MovedBeneath(p)
      BY DEF NoEcho, Unstopped, MovedBeneath
    <2>1. Visible(s) = disk[s]
      BY AllVisible DEF FitInv
    <2>2. ~Brought(s, p)
      BY DEF Brought, FitInv, Planning
    <2>q. QED BY <2>1, <2>2 DEF EchoInv, HoldsOwn
  <1>q. QED BY <1>1, <1>2, <1>3, <1>4, <1>5, PTL DEF Spec

-----------------------------------------------------------------------------
(* Held somewhere: P1 with chat turns' snapshots beside the pass, while no *)
(* pass is stopped.  A pass that works from an old snapshot may take from  *)
(* the folder what nobody replaced - the checkout holds that yet; and it   *)
(* takes from the checkout only what somebody replaced.                    *)

TreeHeld(tree) == \A p \in Path : Backs(Checkout, p, tree.files[p])

TreesHeld ==
    /\ \A t \in Taker : look[t].at # "idle" => TreeHeld(look[t].tree)
    /\ snapRef # NoSnapshot => TreeHeld(snapRef.tree)
    /\ pc \in {"fetched", "read"} => TreeHeld(snapshot.tree)

\* The folder may have lost what the archive names only to a write that the
\* pass will record.
ArchiveHeld ==
    /\ \A p \in Path : Backs(Checkout, p, archive[p])
    /\ \A p \in Path \ Paths(landed \cap plan.toFolder) : Backs(Folder, p, archive[p])

PlanHeld ==
    pc \in {"sending", "receiving"} =>
        /\ observed.archive = archive
        /\ \A w \in plan.toCheckout :
              Expendable(w.path, w.expect) /\ Backs(Folder, w.path, w.entry)
        /\ \A w \in plan.toFolder :
              Backs(Checkout, w.path, w.expect) /\ Backs(Checkout, w.path, w.entry)
        /\ \A p \in plan.agreed, s \in Side : Backs(s, p, FolderEntry(observed, p))

\* No path is written twice.
ListsHeld ==
    /\ pc \in {"sending", "receiving"} =>
        /\ Distinct(plan.toFolder)
        /\ \A w \in plan.toFolder :
              /\ \A v \in plan.toCheckout : v.path # w.path
              /\ w.path \notin plan.agreed
        /\ landed \subseteq plan.toCheckout \cup plan.toFolder
        /\ landed \cap left = {}
        /\ pc = "sending" => landed \subseteq plan.toCheckout
    /\ pc \notin {"sending", "receiving"} => landed = {}

LandedHeld == \A w \in landed, s \in Side : Backs(s, w.path, w.entry)

HeldInv ==
    /\ TypeInv
    /\ Decided
    /\ budget["stop"] = 0 /\ orphan = {}
    /\ TreesHeld
    /\ ReadFaithfully
    /\ ArchiveHeld
    /\ PlanHeld
    /\ ListsHeld
    /\ LandedHeld

LEMMA HeldInit ==
    ASSUME Budget["stop"] = 0, Init
    PROVE  HeldInv
PROOF
  <1>1. TypeInv
    BY TypeInit
  <1>2. \A t \in Taker : look[t].at = "idle"
    BY DEF Init, NoLook
  <1>3. Decided /\ TreesHeld /\ ReadFaithfully /\ PlanHeld /\ ListsHeld
    BY <1>2 DEF Init, Decided, TreesHeld, ReadFaithfully, PlanHeld, ListsHeld
  <1>4. \A s \in Side : disk[s] = archive
    BY DEF Init
  <1>5. ArchiveHeld
    BY <1>4, Types DEF ArchiveHeld, Backs
  <1>q. QED BY <1>1, <1>3, <1>5 DEF Init, HeldInv, LandedHeld

LEMMA NoneStops ==
    ASSUME HeldInv, [Next]_vars
    PROVE  /\ budget'["stop"] = 0 /\ orphan' = {}
           /\ ~Stop /\ ~Pause /\ ~OrphanWrites
PROOF
  <1>1. ~Stop /\ ~Pause /\ ~OrphanWrites
    BY DEF HeldInv, Stop, Pause, Spend, OrphanWrites, FirstOf
  <1>2. \A kind \in Kind \ {"stop"} : Spend(kind) => budget'["stop"] = budget["stop"]
    BY DEF HeldInv, TypeInv, TypeOK, Spend
  <1>q. QED
    BY <1>1, <1>2
    DEF HeldInv, Kind, Next, Actors, Pass, vars, Edit, ChangeRules, BeginUnasked,
        BeginAnswered, Begin, Resolving, Publish, Fetch, FetchNow, FetchStale, ReadFolder,
        Decide, Send, Sent, Receive, Carry, Record, Recorded, TurnEnds, TurnTaken

\* A write of the pass to the folder is one it says has landed.
FolderWritten(p) ==
    /\ pc = "receiving" /\ pc' = "receiving"
    /\ \E w \in left : /\ w \in plan.toFolder /\ w.path = p /\ w.expect = disk[Folder][p]
                       /\ landed' = landed \cup {w}
    /\ UNCHANGED <<plan, observed, archive>>

LEMMA FolderLoses ==
    ASSUME HeldInv, [Next]_vars, NEW p \in Path, disk'[Folder][p] # disk[Folder][p]
    PROVE  \/ disk[Folder][p] = None \/ <<p, disk[Folder][p]>> \in replaced'
           \/ FolderWritten(p)
PROOF
  <1> USE DEF HeldInv
  <1>1. CASE Receive
    <2>1. PICK w \in left : Carry(Folder, w) /\ pc = "receiving"
      BY <1>1 DEF Receive, FirstOf
    <2>2. Lands(Folder, w) /\ Written(Folder, w) /\ landed' = landed \cup {w}
      BY <2>1, Types DEF Carry
    <2>3. w.path = p
      BY <2>2, Types DEF Written, TypeInv, TypeOK, Copy
    <2>4. w \in plan.toFolder /\ pc' = pc /\ UNCHANGED <<plan, observed, archive>>
      BY <2>1 DEF Carry, Decided, recordVars
    <2>q. QED BY <2>1, <2>2, <2>3, <2>4 DEF FolderWritten, Lands
  <1>2. CASE \E w \in left : Carry(Checkout, w)
    BY <1>2, Types DEF Carry, Written, TypeInv, TypeOK
  <1>3. ASSUME NEW side \in Side, NEW q \in Path, NEW e \in Held, Edit(side, q, e)
        PROVE  disk[Folder][p] = None \/ <<p, disk[Folder][p]>> \in replaced'
    <2>1. side = Folder /\ q = p
      BY <1>3, Types DEF Edit, TypeInv, TypeOK, Copy
    <2>q. QED BY <1>3, <2>1 DEF Edit
  <1>q. QED
    BY <1>1, <1>2, <1>3, NoneStops
    DEF Next, Actors, Pass, vars, ChangeRules, BeginUnasked, BeginAnswered, Begin, Resolving,
        Publish, Fetch, FetchNow, FetchStale, ReadFolder, Decide, Send, Sent, Record,
        Recorded, TurnEnds, TurnTaken, sideVars, FirstOf

\* The checkout loses nothing that was not replaced; the folder, nothing but
\* to a write of the pass.
LEMMA StillHeld ==
    ASSUME HeldInv, [Next]_vars
    PROVE  /\ \A p, e : Expendable(p, e) => e = None \/ <<p, e>> \in replaced'
           /\ \A p \in Path : \A e : Backs(Checkout, p, e) => WillBack(Checkout, p, e)
           /\ \A p \in Path : \A e : Backs(Folder, p, e) =>
                  WillBack(Folder, p, e) \/ FolderWritten(p)
PROOF
  <1>1. replaced \subseteq replaced'
    BY StaysReplaced
  <1>2. \A p, e : Expendable(p, e) => e = None \/ <<p, e>> \in replaced'
    BY <1>1 DEF Expendable
  <1>3. ASSUME NEW p \in Path, NEW e, Backs(Checkout, p, e)
        PROVE  WillBack(Checkout, p, e)
    <2>1. CASE disk'[Checkout][p] = disk[Checkout][p]
      BY <1>2, <1>3, <2>1 DEF Backs, WillBack
    <2>2. CASE disk'[Checkout][p] # disk[Checkout][p]
      <3>1. \/ disk[Checkout][p] = None \/ <<p, disk[Checkout][p]>> \in replaced'
            \/ pc = "sending" /\ \E w \in left : w.path = p /\ w.expect = disk[Checkout][p]
        BY <2>2, WhoWrites, Types DEF HeldInv
      <3>2. ASSUME pc = "sending", NEW w \in left, w.path = p, w.expect = disk[Checkout][p]
            PROVE  Expendable(p, disk[Checkout][p])
        BY <3>2 DEF HeldInv, Decided, PlanHeld
      <3>q. QED BY <1>2, <1>3, <3>1, <3>2 DEF Backs, WillBack
    <2>q. QED BY <2>1, <2>2
  <1>4. ASSUME NEW p \in Path, NEW e, Backs(Folder, p, e), ~FolderWritten(p)
        PROVE  WillBack(Folder, p, e)
    <2>1. CASE disk'[Folder][p] = disk[Folder][p]
      BY <1>2, <1>4, <2>1 DEF Backs, WillBack
    <2>2. CASE disk'[Folder][p] # disk[Folder][p]
      BY <1>2, <1>4, <2>2, FolderLoses DEF Backs, WillBack
    <2>q. QED BY <2>1, <2>2
  <1>q. QED BY <1>2, <1>3, <1>4

\* The step of HeldSomewhere.
LEMMA HeldYet ==
    ASSUME HeldInv, [Next]_vars, NEW s \in Side, NEW p \in Path,
           disk'[s][p] # disk[s][p]
    PROVE  \/ disk[s][p] = None
           \/ <<p, disk[s][p]>> \in replaced'
           \/ disk'[Other(s)][p] = disk[s][p]
PROOF
  <1>1. CASE s = Checkout
    <2>1. WillBack(Checkout, p, disk[Checkout][p])
      BY StillHeld DEF Backs
    <2>q. QED BY <1>1, <2>1 DEF WillBack
  <1>2. CASE s = Folder
    <2>1. CASE FolderWritten(p)
      <3>1. Backs(Checkout, p, disk[Folder][p])
        BY <2>1 DEF FolderWritten, HeldInv, PlanHeld
      <3>2. WillBack(Checkout, p, disk[Folder][p])
        BY <3>1, StillHeld
      <3>q. QED BY <1>2, <3>2 DEF WillBack, Other
    <2>q. QED BY <1>2, <2>1, FolderLoses
  <1>q. QED BY <1>1, <1>2 DEF Side

LEMMA TreesStayHeld ==
    ASSUME HeldInv, [Next]_vars
    PROVE  TreesHeld'
PROOF
  <1> DEFINE Keeps(tree) == \A p \in Path : WillBack(Checkout, p, tree.files[p])
  <1> USE DEF HeldInv
  <1>a. look \in [Taker -> Look] /\ "pass" \in Taker /\ "turn" \in Taker
    BY DEF TypeInv, TypeOK, Taker
  <1>b. \A tree : TreeHeld(tree) => Keeps(tree)
    BY StillHeld DEF TreeHeld
  <1>c. TreeHeld(TreeNow) /\ NoLook.at = "idle"
    BY Types DEF TreeHeld, TreeNow, Visible, Backs, Expendable, NoLook
  <1>d. /\ \A t \in Taker : look[t].at # "idle" => Keeps(look[t].tree)
        /\ snapRef # NoSnapshot => Keeps(snapRef.tree)
        /\ pc \in {"fetched", "read"} => Keeps(snapshot.tree)
    BY <1>b DEF TreesHeld
  <1>e. ASSUME /\ \A t \in Taker : look'[t].at # "idle" => Keeps(look'[t].tree)
               /\ snapRef' # NoSnapshot => Keeps(snapRef'.tree)
               /\ pc' \in {"fetched", "read"} => Keeps(snapshot'.tree)
        PROVE  TreesHeld'
    BY <1>e DEF TreesHeld, TreeHeld, Backs, Expendable, WillBack
  <1> HIDE DEF Keeps
  <1>1. ASSUME NEW t \in Taker, NEW avoid, look' = [look EXCEPT ![t] = Looked(avoid)]
        PROVE  \A u \in Taker : look'[u].at # "idle" => Keeps(look'[u].tree)
    <2>1. \A u \in Taker : look'[u] = look[u] \/ look'[u] = Looked(avoid)
      BY <1>a, <1>1
    <2>q. QED BY <1>b, <1>c, <1>d, <2>1 DEF Looked
  <1>2. ASSUME NEW t \in Taker, Publish(t)
        PROVE  TreesHeld'
    <2>1. \A u \in Taker : look'[u].tree = look[u].tree
                           /\ (look'[u].at # "idle" => look[u].at # "idle")
      BY <1>a, <1>2 DEF Publish, Look
    <2>2. snapRef' = snapRef \/ (snapRef'.tree = look[t].tree /\ look[t].at # "idle")
      BY <1>2 DEF Publish, CommitsOf
    <2>3. UNCHANGED <<pc, snapshot>>
      BY <1>2 DEF Publish, passVars
    <2>q. QED BY <1>d, <1>e, <2>1, <2>2, <2>3
  <1>3. ASSUME NEW t \in Taker, look' = [look EXCEPT ![t] = NoLook]
        PROVE  \A u \in Taker : look'[u].at # "idle" => Keeps(look'[u].tree)
    <2>1. \A u \in Taker : look'[u] = look[u] \/ look'[u] = NoLook
      BY <1>a, <1>3
    <2>q. QED BY <1>c, <1>d, <2>1
  <1>4. ASSUME NEW r, Begin(r)
        PROVE  TreesHeld'
    <2>1. /\ look' = [look EXCEPT !["pass"] = Looked(WrittenOver)]
          /\ pc' = "looking" /\ UNCHANGED snapRef
      BY <1>4 DEF Begin
    <2>q. QED BY <1>a, <1>d, <1>e, <1>1, <2>1
  <1>5. CASE TurnEnds
    <2>1. look' = [look EXCEPT !["turn"] = Looked(NoSnapshot)]
          /\ UNCHANGED <<snapRef, pc, snapshot>>
      BY <1>5 DEF TurnEnds, passVars
    <2>q. QED BY <1>a, <1>d, <1>e, <1>1, <2>1
  <1>6. CASE TurnTaken
    <2>1. look' = [look EXCEPT !["turn"] = NoLook] /\ UNCHANGED <<snapRef, pc, snapshot>>
      BY <1>6 DEF TurnTaken, passVars
    <2>q. QED BY <1>a, <1>d, <1>e, <1>3, <2>1
  <1>7. CASE Fetch
    <2>1. /\ look' = [look EXCEPT !["pass"] = NoLook] /\ look["pass"].at = "done"
          /\ snapshot' = snapRef /\ UNCHANGED snapRef
      BY <1>7 DEF Fetch, FetchNow
    <2>2. snapRef # NoSnapshot
      BY <1>a, <2>1, Types DEF TypeInv, TypeOK
    <2>q. QED BY <1>a, <1>d, <1>e, <1>3, <2>1, <2>2
  <1>8. CASE Forgotten /\ UNCHANGED snapRef
    <2>1. look' = [look EXCEPT !["pass"] = NoLook] /\ pc' = "idle"
      BY <1>8 DEF Forgotten
    <2>q. QED BY <1>a, <1>8, <1>d, <1>e, <1>3, <2>1
  <1>9. CASE /\ UNCHANGED <<look, snapRef, snapshot>>
             /\ pc' \in {"fetched", "read"} => pc \in {"fetched", "read"}
    BY <1>9, <1>d, <1>e
  <1>q. QED
    BY <1>a, <1>2, <1>4, <1>5, <1>6, <1>7, <1>8, <1>9, NoneStops
    DEF Next, Actors, Pass, vars, Edit, ChangeRules, BeginUnasked, BeginAnswered, Resolving,
        FetchStale, ReadFolder, Decide, Send, Sent, Receive, Carry, Record, Recorded, passVars

LEMMA StaysReadHeld ==
    ASSUME HeldInv, [Next]_vars
    PROVE  ReadFaithfully'
PROOF
  <1> USE DEF HeldInv
  <1>1. CASE ReadFolder
    <2>1. /\ seen' = Visible(Folder) /\ UNCHANGED <<archive, disk, replaced>> /\ landed = {}
      BY <1>1 DEF ReadFolder, recordVars, sideVars, ListsHeld
    <2>2. \A p \in Path : Backs(Folder, p, archive[p])
      BY <2>1 DEF ArchiveHeld, Paths
    <2>3. \A p \in Path :
             /\ Backs(Folder, p, seen'[p])
             /\ seen'[p] \in {None, archive[p]} \/ Expendable(p, archive[p])
      BY <2>1, <2>2, Types, NoneIsExpendable DEF Backs, Visible
    <2>q. QED BY <2>1, <2>3 DEF ReadFaithfully, Backs, Expendable
  <1>2. CASE pc' = "read" => UNCHANGED <<pc, seen, archive>>
    <2>1. pc' = "read" => \A p : ~FolderWritten(p)
      BY DEF FolderWritten
    <2>q. QED BY <1>2, <2>1, StillHeld DEF ReadFaithfully, Backs, WillBack, Expendable
  <1>q. QED
    BY <1>1, <1>2
    DEF Next, Actors, Pass, vars, Edit, ChangeRules, BeginUnasked, BeginAnswered, Begin,
        Resolving, Publish, Fetch, FetchNow, FetchStale, Forgotten, Decide, Pause, Send, Sent,
        Receive, Carry, Record, Recorded, Stop, TurnEnds, TurnTaken, OrphanWrites, passVars,
        recordVars

\* The decision, from what may be an old snapshot: it sends from the checkout
\* what the checkout may have moved on from, and never over what it has not.
LEMMA DecidesHeld ==
    ASSUME HeldInv, Decide
    PROVE  PlanHeld' /\ ListsHeld'
PROOF
  <1> DEFINE o == Observation
             r == answer
  <1> USE DEF HeldInv
  <1>1. /\ pc = "read" /\ pc' = "sending" /\ observed' = o /\ plan' = Planned(o, r)
        /\ replaced' = replaced \cup GivenUp(o, r, plan'.toCheckout \cup plan'.toFolder)
        /\ UNCHANGED <<archive, disk, landed>> /\ landed = {}
    BY DEF Decide, recordVars, ListsHeld
  <1>2. o \in Observed /\ o.archive = archive /\ o.folder = seen
        /\ o.checkout = snapshot.tree.files /\ o.unseen = Unseen /\ o.scope \subseteq Path
    BY <1>1, ObservationType DEF Observation, TypeInv
  <1>3. /\ plan'.toCheckout \subseteq CheckoutWrites(o, r)
        /\ plan'.toFolder \subseteq FolderWrites(o, r)
        /\ plan'.agreed = {p \in o.scope : Agrees(o, p)}
        /\ Distinct(plan'.toFolder)
        /\ \A w \in plan'.toFolder, v \in plan'.toCheckout : w.path # v.path
    BY <1>1, <1>2, PlannedLists
  <1>4. ASSUME NEW w \in plan'.toCheckout \cup plan'.toFolder, Answered(o, r, w.path)
        PROVE  w.expect = None \/ <<w.path, w.expect>> \in replaced'
    BY <1>1, <1>4 DEF GivenUp
  <1>5. \A p \in Path : /\ Backs(Folder, p, archive[p]) /\ Backs(Checkout, p, archive[p])
                        /\ Backs(Folder, p, FolderEntry(o, p))
                        /\ Backs(Checkout, p, o.checkout[p])
    <2>1. \A p \in Path : Backs(Folder, p, archive[p]) /\ Backs(Checkout, p, archive[p])
      BY <1>1 DEF ArchiveHeld, Paths
    <2>2. \A p \in Path : Backs(Checkout, p, o.checkout[p])
      BY <1>1, <1>2 DEF TreesHeld, TreeHeld
    <2>q. QED BY <1>1, <1>2, <2>1, <2>2 DEF ReadFaithfully, FolderEntry
  <1>6. ASSUME NEW p \in o.scope, FolderChanged(o, p)
        PROVE  Expendable(p, archive[p])
    <2>1. p \in Path /\ p \notin Unseen /\ seen[p] # archive[p]
      BY <1>2, <1>6 DEF FolderChanged, FolderEntry
    <2>2. CASE seen[p] # None
      BY <1>1, <2>1, <2>2 DEF ReadFaithfully
    <2>3. CASE seen[p] = None
      <3>1. disk[Folder][p] = None
        BY <2>1, <2>3 DEF Unseen, Present
      <3>q. QED BY <1>5, <2>1, <2>3, <3>1 DEF Backs
    <2>q. QED BY <2>2, <2>3
  <1>7. \A p, e : Expendable(p, e) => e = None \/ <<p, e>> \in replaced'
    BY <1>1 DEF Expendable
  <1>8. \A s \in Side, p \in Path : \A e : Backs(s, p, e) => WillBack(s, p, e)
    BY <1>1, <1>7 DEF Backs, WillBack
  <1>9. ASSUME NEW w \in plan'.toCheckout
        PROVE  /\ w.expect = None \/ <<w.path, w.expect>> \in replaced'
               /\ WillBack(Folder, w.path, w.entry)
    <2>1. /\ w.path \in o.scope /\ w.entry = FolderEntry(o, w.path)
          /\ w.expect = o.checkout[w.path] /\ SendsToCheckout(o, r, w.path)
      BY <1>3 DEF CheckoutWrites
    <2>2. w.path \in Path
      BY <1>2, <2>1
    <2>3. CASE ~Answered(o, r, w.path)
      <3>1. FolderChanged(o, w.path) /\ w.expect = archive[w.path]
        BY <1>2, <2>1, <2>3 DEF SendsToCheckout, CheckoutChanged
      <3>q. QED BY <1>5, <1>6, <1>7, <1>8, <2>1, <2>2, <3>1, Types
    <2>q. QED BY <1>4, <1>5, <1>8, <2>1, <2>2, <2>3, Types
  <1>10. ASSUME NEW w \in plan'.toFolder
         PROVE  WillBack(Checkout, w.path, w.expect) /\ WillBack(Checkout, w.path, w.entry)
    <2>1. /\ w.path \in o.scope /\ w.entry = o.checkout[w.path]
          /\ w.expect = FolderEntry(o, w.path) /\ SendsToFolder(o, r, w.path)
      BY <1>3 DEF FolderWrites
    <2>2. w.path \in Path
      BY <1>2, <2>1
    <2>3. WillBack(Checkout, w.path, w.entry)
      BY <1>5, <1>8, <2>1, <2>2, Types
    <2>4. CASE ~Answered(o, r, w.path)
      <3>1. w.expect = archive[w.path]
        BY <1>2, <2>1, <2>4 DEF SendsToFolder, FolderChanged
      <3>q. QED BY <1>5, <1>8, <2>2, <2>3, <3>1, Types
    <2>q. QED BY <1>4, <2>3, <2>4 DEF WillBack
  <1>11. ASSUME NEW p \in plan'.agreed
         PROVE  /\ \A s \in Side : WillBack(s, p, FolderEntry(o, p))
                /\ \A w \in plan'.toFolder : w.path # p
    <2>1. p \in Path /\ Agrees(o, p) /\ FolderEntry(o, p) = o.checkout[p]
      BY <1>2, <1>3 DEF Agrees, Differs
    <2>2. ~SendsToFolder(o, r, p)
      BY <2>1 DEF Agrees, SendsToFolder
    <2>q. QED BY <1>3, <1>5, <1>8, <2>1, <2>2 DEF Side, FolderWrites
  <1>12. PlanHeld'
    BY <1>1, <1>2, <1>9, <1>10, <1>11 DEF PlanHeld, WillBack, Backs, Expendable
  <1>13. ListsHeld'
    BY <1>1, <1>3, <1>11 DEF ListsHeld
  <1>q. QED BY <1>12, <1>13

LEMMA PlanStaysHeld ==
    ASSUME HeldInv, [Next]_vars
    PROVE  PlanHeld'
PROOF
  <1> USE DEF HeldInv
  <1>1. CASE /\ pc \in {"sending", "receiving"}
             /\ UNCHANGED <<observed, plan, archive>>
    <2>1. plan \in PlanType /\ \A w \in plan.toCheckout \cup plan.toFolder : w.path \in Path
      BY DEF TypeInv, TypeOK, PlanType, Write
    <2>2. plan.agreed \subseteq Path
      BY <2>1 DEF PlanType
    <2>3. /\ \A w \in plan.toCheckout : ~FolderWritten(w.path)
          /\ \A p \in plan.agreed : ~FolderWritten(p)
      BY <1>1 DEF ListsHeld, FolderWritten
    <2>4. \A w \in plan.toCheckout :
             /\ w.expect = None \/ <<w.path, w.expect>> \in replaced'
             /\ WillBack(Folder, w.path, w.entry)
      BY <1>1, <2>1, <2>3, StillHeld DEF PlanHeld
    <2>5. \A w \in plan.toFolder :
             WillBack(Checkout, w.path, w.expect) /\ WillBack(Checkout, w.path, w.entry)
      BY <1>1, <2>1, StillHeld DEF PlanHeld
    <2>6. \A p \in plan.agreed, s \in Side : WillBack(s, p, FolderEntry(observed, p))
      BY <1>1, <2>2, <2>3, StillHeld DEF PlanHeld, Side
    <2>7. observed.archive = archive
      BY <1>1 DEF PlanHeld
    <2>q. QED BY <1>1, <2>4, <2>5, <2>6, <2>7 DEF PlanHeld, WillBack, Backs, Expendable
  <1>2. CASE Decide
    BY <1>2, DecidesHeld
  <1>3. CASE pc' \notin {"sending", "receiving"}
    BY <1>3 DEF PlanHeld
  <1>q. QED
    BY <1>1, <1>2, <1>3
    DEF Next, Actors, Pass, vars, Edit, ChangeRules, BeginUnasked, BeginAnswered, Begin,
        Resolving, Publish, Fetch, FetchNow, FetchStale, Forgotten, ReadFolder, Pause, Send,
        Sent, Receive, Carry, Record, Recorded, Stop, TurnEnds, TurnTaken, OrphanWrites,
        passVars, recordVars

LEMMA ListsStayHeld ==
    ASSUME HeldInv, [Next]_vars
    PROVE  ListsHeld'
PROOF
  <1> USE DEF HeldInv
  <1>1. CASE Decide
    BY <1>1, DecidesHeld
  <1>2. ASSUME NEW side \in Side, NEW w \in left, Carry(side, w),
               pc \in {"sending", "receiving"}
        PROVE  ListsHeld'
    <2>1. w \in IF pc = "sending" THEN plan.toCheckout ELSE plan.toFolder
      BY <1>2 DEF Decided
    <2>2. /\ landed' \subseteq landed \cup {w} /\ left' = left \ {w}
          /\ UNCHANGED <<pc, plan>>
      BY <1>2 DEF Carry
    <2>q. QED BY <1>2, <2>1, <2>2 DEF ListsHeld
  <1>3. CASE Send
    BY <1>2, <1>3, Types DEF Send, FirstOf
  <1>4. CASE Receive
    BY <1>2, <1>4, Types DEF Receive, FirstOf
  <1>5. CASE Sent
    BY <1>5 DEF Sent, ListsHeld
  <1>6. CASE pc' \notin {"sending", "receiving"} /\ landed' = {}
    BY <1>6 DEF ListsHeld
  <1>7. CASE UNCHANGED <<pc, plan, landed, left>>
    BY <1>7 DEF ListsHeld
  <1>8. CASE /\ pc \notin {"sending", "receiving"} /\ pc' \notin {"sending", "receiving"}
             /\ UNCHANGED landed
    BY <1>8 DEF ListsHeld
  <1>q. QED
    BY <1>1, <1>3, <1>4, <1>5, <1>6, <1>7, <1>8, NoneStops
    DEF Next, Actors, Pass, vars, Edit, ChangeRules, BeginUnasked, BeginAnswered, Begin,
        Resolving, Publish, Fetch, FetchNow, FetchStale, Forgotten, ReadFolder, Record,
        Recorded, TurnEnds, TurnTaken, passVars

LEMMA LandedStaysHeld ==
    ASSUME HeldInv, [Next]_vars
    PROVE  LandedHeld'
PROOF
  <1> USE DEF HeldInv
  <1>1. \A w \in landed : w.path \in Path
    BY DEF TypeInv, TypeOK, Write
  <1>2. ASSUME NEW w \in landed
        PROVE  ~FolderWritten(w.path)
    <2> SUFFICES ASSUME pc = "receiving", NEW v \in left, v \in plan.toFolder, v.path = w.path
                 PROVE  FALSE
      BY DEF FolderWritten
    <2>q. QED BY DEF ListsHeld, Distinct
  <1>3. \A w \in landed, s \in Side : WillBack(s, w.path, w.entry)
    BY <1>1, <1>2, StillHeld DEF Side, LandedHeld
  <1>4. CASE landed' \subseteq landed
    BY <1>3, <1>4 DEF LandedHeld, WillBack, Backs, Expendable
  <1>5. ASSUME NEW side \in Side, NEW w \in left, Carry(side, w),
               WillBack(Other(side), w.path, w.entry)
        PROVE  LandedHeld'
    <2>1. CASE landed' = landed \cup {w} /\ Written(side, w)
      <3>1. disk'[side][w.path] = w.entry
        BY <2>1 DEF Written, TypeInv, TypeOK, Copy, Write
      <3>2. \A s \in Side : s = side \/ s = Other(side)
        BY DEF Side, Other
      <3>3. \A s \in Side : WillBack(s, w.path, w.entry)
        BY <1>5, <3>1, <3>2 DEF WillBack
      <3>q. QED BY <1>3, <2>1, <3>3 DEF LandedHeld, WillBack, Backs, Expendable
    <2>q. QED BY <1>4, <1>5, <2>1 DEF Carry
  <1>6. CASE Send
    <2>1. PICK w \in left : Carry(Checkout, w) /\ pc = "sending"
      BY <1>6 DEF Send, FirstOf
    <2>2. w \in plan.toCheckout /\ w.path \in Path
      BY <2>1 DEF Decided, TypeInv, TypeOK, Write
    <2>3. Backs(Folder, w.path, w.entry) /\ ~FolderWritten(w.path)
      BY <2>1, <2>2 DEF PlanHeld, FolderWritten
    <2>4. WillBack(Other(Checkout), w.path, w.entry)
      BY <2>2, <2>3, StillHeld, Types DEF Other
    <2>q. QED BY <1>5, <2>1, <2>4, Types
  <1>7. CASE Receive
    <2>1. PICK w \in left : Carry(Folder, w) /\ pc = "receiving"
      BY <1>7 DEF Receive, FirstOf
    <2>2. w \in plan.toFolder /\ w.path \in Path
      BY <2>1 DEF Decided, TypeInv, TypeOK, Write
    <2>3. Backs(Checkout, w.path, w.entry)
      BY <2>1, <2>2 DEF PlanHeld
    <2>4. WillBack(Other(Folder), w.path, w.entry)
      BY <2>2, <2>3, StillHeld, Types DEF Other
    <2>q. QED BY <1>5, <2>1, <2>4, Types
  <1>q. QED
    BY <1>4, <1>6, <1>7, NoneStops
    DEF Next, Actors, Pass, vars, Edit, ChangeRules, BeginUnasked, BeginAnswered, Begin,
        Resolving, Publish, Fetch, FetchNow, FetchStale, Forgotten, ReadFolder, Decide, Sent,
        Record, Recorded, TurnEnds, TurnTaken, passVars

LEMMA ArchiveStaysHeld ==
    ASSUME HeldInv, [Next]_vars
    PROVE  ArchiveHeld'
PROOF
  <1> USE DEF HeldInv
  <1>1. CASE Record
    <2> DEFINE held == Archived(observed, plan, landed)
    <2>1. /\ archive' = AsTree(held) /\ pc = "receiving" /\ landed' = {}
          /\ UNCHANGED <<disk, replaced>>
      BY <1>1 DEF Record, Recorded, Forgotten, sideVars
    <2>2. observed.archive = archive
      BY <2>1 DEF PlanHeld
    <2>3. ASSUME NEW s \in Side, NEW p \in Path
          PROVE  Backs(s, p, held[p])
      <3>1. CASE p \in plan.forget
        BY <3>1, NoneIsExpendable DEF Archived, Backs
      <3>2. CASE p \notin plan.forget /\ p \in plan.agreed
        BY <2>1, <3>2 DEF Archived, PlanHeld
      <3>3. CASE p \notin plan.forget /\ p \notin plan.agreed /\ p \in Paths(landed)
        <4>1. \E w \in landed : w.path = p
          BY <3>3 DEF Paths
        <4>2. PICK w \in landed : w.path = p /\ held[p] = w.entry
          BY <3>3, <4>1 DEF Archived, Applied
        <4>q. QED BY <4>2 DEF LandedHeld
      <3>4. CASE p \notin plan.forget /\ p \notin plan.agreed /\ p \notin Paths(landed)
        <4>1. held[p] = archive[p]
          BY <2>2, <3>4 DEF Archived, Applied
        <4>2. p \notin Paths(landed \cap plan.toFolder)
          BY <3>4 DEF Paths
        <4>q. QED BY <4>1, <4>2 DEF ArchiveHeld, Side
      <3>q. QED BY <3>1, <3>2, <3>3, <3>4
    <2>4. \A p \in Path : archive'[p] = held[p] \/ archive'[p] = None
      BY <2>1 DEF AsTree
    <2> HIDE DEF held
    <2>5. \A s \in Side, p \in Path : Backs(s, p, archive'[p])
      BY <2>3, <2>4, NoneIsExpendable DEF Backs
    <2>6. \A s \in Side, p \in Path : Backs(s, p, archive[p])'
      BY <2>1, <2>5 DEF Backs, Expendable
    <2>q. QED BY <2>6, Types DEF ArchiveHeld
  <1>2. CASE UNCHANGED archive /\ ~Record
    <2>1. \A p \in Path : WillBack(Checkout, p, archive[p])
      BY StillHeld DEF ArchiveHeld
    <2>2. landed = {} \/ (landed \subseteq landed' /\ UNCHANGED plan)
      <3>1. pc \notin {"sending", "receiving"} => landed = {}
        BY DEF ListsHeld
      <3>q. QED
        BY <1>2, <3>1, NoneStops
        DEF Next, Actors, Pass, vars, Edit, ChangeRules, BeginUnasked, BeginAnswered, Begin,
            Resolving, Publish, Fetch, FetchNow, FetchStale, ReadFolder, Decide, Send, Sent,
            Receive, Carry, TurnEnds, TurnTaken, passVars
    <2>3. ASSUME NEW p \in Path, p \notin Paths(landed' \cap plan'.toFolder)
          PROVE  WillBack(Folder, p, archive[p])
      <3>1. p \notin Paths(landed \cap plan.toFolder)
        BY <2>2, <2>3 DEF Paths
      <3>2. ~FolderWritten(p)
        BY <2>3 DEF FolderWritten, Paths
      <3>q. QED BY <3>1, <3>2, StillHeld DEF ArchiveHeld
    <2>q. QED BY <1>2, <2>1, <2>3 DEF ArchiveHeld, WillBack, Backs, Expendable
  <1>q. QED BY <1>1, <1>2, OnlyRecordRecords

\* SYNC.md, P1 as it is worded there: what the sync takes from one side, the
\* other still holds, or somebody had replaced - whatever the actors, the
\* rules and the chat turns' snapshots do, and whichever writes fail or go
\* unsaid, as long as no pass is stopped: MCMirrorTurn shows one stopped.
THEOREM OneSideHolds ==
    ASSUME Budget["stop"] = 0
    PROVE  Spec => HeldSomewhere
PROOF
  <1>1. Init => HeldInv
    BY HeldInit
  <1>2. HeldInv /\ [Next]_vars => HeldInv'
    <2> SUFFICES ASSUME HeldInv, [Next]_vars PROVE HeldInv'
      OBVIOUS
    <2>1. TypeInv' /\ Decided' /\ budget'["stop"] = 0 /\ orphan' = {}
      BY TypeStep, DecidedStep, NoneStops DEF HeldInv
    <2>q. QED BY <2>1, TreesStayHeld, StaysReadHeld, ArchiveStaysHeld, PlanStaysHeld,
                 ListsStayHeld, LandedStaysHeld DEF HeldInv
  <1>3. HeldInv /\ [Next]_vars =>
            [\A s \in Side, p \in Path :
               disk'[s][p] # disk[s][p] =>
                   \/ disk[s][p] = None
                   \/ <<p, disk[s][p]>> \in replaced'
                   \/ disk'[Other(s)][p] = disk[s][p]]_vars
    BY HeldYet
  <1>q. QED BY <1>1, <1>2, <1>3, PTL DEF Spec, HeldSomewhere

=============================================================================
