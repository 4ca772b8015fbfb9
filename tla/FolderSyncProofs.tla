-------------------------- MODULE FolderSyncProofs --------------------------
(***************************************************************************)
(* What holds of the passes' scheduling however many edits, commits,       *)
(* callers and answers there are: its types; that in step is said only of  *)
(* two sides that are, where every change is reported, no older snapshot   *)
(* comes between a pass's own and its fetch, and every write that may land *)
(* does; and that a publish which met no pass is fresh, where no pass      *)
(* fails or stands down.                                                   *)
(***************************************************************************)
EXTENDS FolderSync, TLAPS

\* Each hypothesis on the budget is one of the ways TLC breaks the property.
Reported == Budget["early"] = 0 /\ Budget["death"] = 0 /\ Budget["stale"] = 0
Undisturbed == Budget["op"] = 0 /\ Budget["fail"] = 0
Unfailing == Budget["op"] = 0 /\ Budget["err"] = 0 /\ Budget["death"] = 0

-----------------------------------------------------------------------------
(* Types.                                                                  *)

LEMMA SpendType ==
    ASSUME TypeOK, NEW kind \in Kind, Spend(kind)
    PROVE  budget' \in [Kind -> Nat] /\ budget' = [budget EXCEPT ![kind] = @ - 1]
PROOF BY DEF TypeOK, Spend

LEMMA SpendAllType ==
    ASSUME TypeOK, NEW kinds \in SUBSET Kind, SpendAll(kinds)
    PROVE  /\ budget' \in [Kind -> Nat]
           /\ \A kind \in Kind : budget[kind] = 0 => budget'[kind] = 0 /\ kind \notin kinds
PROOF
  <1>1. /\ \A kind \in kinds : budget[kind] > 0
        /\ budget' = [kind \in Kind |-> IF kind \in kinds THEN budget[kind] - 1 ELSE budget[kind]]
    BY DEF SpendAll
  <1>2. \A kind \in Kind : budget[kind] \in Nat
    BY DEF TypeOK
  <1>3. \A kind \in kinds : budget[kind] - 1 \in Nat
    BY <1>1, <1>2
  <1>q. QED BY <1>1, <1>2, <1>3

LEMMA LackType ==
    ASSUME TypeOK, NEW what \in Newer, Lack(what)
    PROVE  trees' \in [Tree -> SUBSET Newer]
PROOF BY DEF TypeOK, Lack

LEMMA DoneType ==
    ASSUME TypeOK, Done
    PROVE  /\ pass' = NoPass /\ settled' \in BOOLEAN
           /\ publish' \in PublishType
PROOF
  <1>1. pass' = NoPass /\ settled' \in BOOLEAN
    BY DEF TypeOK, Done, PassType
  <1>2. publish' \in PublishType
    <2>1. PICK passed \in BOOLEAN, at \in {publish.at, "fresh"} :
              publish' = [publish EXCEPT !.passed = passed, !.at = at]
      <3>1. Passed \in BOOLEAN
        BY DEF TypeOK, PublishType, Passed
      <3>q. QED BY <3>1 DEF Done, Counted
    <2>q. QED BY <2>1 DEF TypeOK, PublishType
  <1>q. QED BY <1>1, <1>2

LEMMA NoPassType ==
    NoPass \in PassType
PROOF BY DEF NoPass, PassType, Caller, Depth

LEMMA TypeInit == Init => TypeOK
PROOF
  <1> SUFFICES ASSUME Init PROVE TypeOK
    OBVIOUS
  <1> USE DEF Init
  <1>1. dirty \in [Side -> Change] /\ clash \in BOOLEAN
    BY DEF Change
  <1>2. NoPublish \in PublishType
    BY DEF NoPublish, PublishType
  <1>3. budget \in [Kind -> Nat] /\ trees \in [Tree -> SUBSET Newer]
    BY FolderSyncAssumption
  <1>q. QED BY <1>1, <1>2, <1>3, NoPassType DEF TypeOK

LEMMA StartsType ==
    ASSUME TypeOK, NEW by \in Caller, NEW keep \in SUBSET Side, Starts(by, keep)
    PROVE  /\ pass' \in PassType
           /\ told' = FALSE
PROOF BY NoPassType DEF Starts, PassType

LEMMA TypeStep == TypeOK /\ [Next]_vars => TypeOK'
PROOF
  <1> SUFFICES ASSUME TypeOK, [Next]_vars PROVE TypeOK'
    OBVIOUS
  <1> USE DEF sides, watch, snapshots
  <1>a. Folder \in Side /\ Checkout \in Side
    BY DEF Side
  <1>1. ASSUME NEW s \in Side, Edit(s) PROVE TypeOK'
    <2>1. "edit" \in Kind /\ "early" \in Kind
      BY DEF Kind
    <2>2. budget' \in [Kind -> Nat]
      BY <1>1, <2>1, SpendType DEF Edit
    <2>3. clash' \in BOOLEAN
      BY <1>1 DEF Edit, TypeOK
    <2>5. trees' \in [Tree -> SUBSET Newer]
      BY <1>1, LackType DEF Edit, Newer, TypeOK
    <2>4. dirty' \in [Side -> Change] /\ unheard' \subseteq Side
      BY <1>1 DEF Edit, TypeOK, Change
    <2>q. QED BY <1>1, <2>2, <2>3, <2>4, <2>5 DEF Edit, TypeOK
  <1>2. CASE Commit
    <2>1. budget' \in [Kind -> Nat]
      BY <1>2, SpendType DEF Commit, Kind
    <2>2. unheard' \subseteq Side /\ commits' \in Nat
      BY <1>2, <1>a DEF Commit, TypeOK
    <2>3. trees' \in [Tree -> SUBSET Newer]
      BY <1>2, LackType DEF Commit, Newer
    <2>q. QED BY <1>2, <2>1, <2>2, <2>3 DEF Commit, TypeOK
  <1>3. ASSUME NEW s \in Side, Operate(s) PROVE TypeOK'
    BY <1>3, SpendType DEF Operate, TypeOK, Kind
  <1>4. ASSUME NEW s \in Side, OperationEnds(s) PROVE TypeOK'
    BY <1>4 DEF OperationEnds, TypeOK
  <1>5. CASE KeeperDies
    BY <1>5, SpendType DEF KeeperDies, TypeOK, Kind
  <1>6. CASE SetKeeper
    BY <1>6 DEF SetKeeper, TypeOK
  <1>7. CASE Called
    BY <1>7, SpendType DEF Called, TypeOK, Kind
  <1>8. ASSUME NEW s \in Side, Report(s) PROVE TypeOK'
    BY <1>8 DEF Report, Heard, TypeOK, PassType
  <1>9. ASSUME NEW s \in Side, BurstOver(s) PROVE TypeOK'
    BY <1>9 DEF BurstOver, TypeOK
  <1>10. ASSUME NEW s \in Side, Answer(s) PROVE TypeOK'
    <2>1. "answer" \in Caller /\ {s} \in SUBSET Side /\ "answer" \in Kind
      BY DEF Caller, Kind
    <2>2. Starts("answer", {s}) /\ Spend("answer")
      BY <1>10 DEF Answer
    <2>q. QED BY <1>10, <2>1, <2>2, StartsType, SpendType DEF Answer, Starts, TypeOK
  <1>11. ASSUME NEW s \in Side, Carry(s) PROVE TypeOK'
    <2>1. Carries(s) /\ UNCHANGED <<operation, watched, pending, alive, turn, queue, settled,
                                    conflict, told, publish, commits, home>>
      BY <1>11 DEF Carry
    <2>2. /\ dirty' = dirty \/ dirty' = [dirty EXCEPT
                 ![s] = IF @ = "seen" THEN "none" ELSE @,
                 ![Other(s)] = IF @ = "seen" /\ pass.keep = {s} /\ clash THEN "none" ELSE @]
          /\ clash' = clash \/ clash' = (clash /\ \A t \in Side : dirty'[t] # "none")
          /\ unheard' = unheard \/ unheard' = unheard \cup ({Other(s)} \cap watched)
          /\ trees' = trees \/ Lack("files")
      BY <2>1 DEF Carries
    <2>3. /\ dirty' \in [Side -> Change] /\ clash' \in BOOLEAN
          /\ unheard' \subseteq Side
      BY <2>2, <1>a DEF TypeOK, Other, Change
    <2>6. trees' \in [Tree -> SUBSET Newer]
      BY <2>2, LackType DEF Newer, TypeOK
    <2>5. pass' \in PassType
      <3>1. \/ pass' = [pass EXCEPT !.takes = @ \ {s}]
            \/ pass' = [pass EXCEPT !.takes = @ \ {s}, !.missed = TRUE]
        BY <2>1 DEF Carries
      <3>q. QED BY <3>1 DEF TypeOK, PassType
    <2>4. budget' \in [Kind -> Nat]
      BY <2>1, SpendType DEF Carries, TypeOK, Kind
    <2>q. QED BY <2>1, <2>3, <2>4, <2>5, <2>6 DEF TypeOK
  <1>12. CASE TurnLooks \/ OrphanEnds
    BY <1>12 DEF TurnLooks, OrphanEnds, TypeOK, Tree
  <1>25. CASE TurnPublishes
    <2>1. ({k \in {"stale"} : Outdates} \cup {k \in {"late"} : Hides}) \in SUBSET Kind
      BY DEF Kind
    <2>2. budget' \in [Kind -> Nat]
      BY <1>25, <2>1, SpendAllType DEF TurnPublishes
    <2>3. trees' \in [Tree -> SUBSET Newer] /\ turn' \in {"none", "waiting"}
      BY <1>25 DEF TurnPublishes, TypeOK, Tree
    <2>q. QED BY <1>25, <2>2, <2>3 DEF TurnPublishes, TypeOK
  <1>13. CASE Enter \/ TurnEnters
    <2> DEFINE by == IF Enter THEN "sync" ELSE "turn"
    <2>1. by \in Caller /\ {} \in SUBSET Side
      BY DEF Caller
    <2>2. Starts(by, {})
      BY <1>13 DEF Enter, TurnEnters
    <2>3. queue' \in Nat /\ turn' \in {"none", turn}
      BY <1>13 DEF Enter, TurnEnters, TypeOK
    <2>4. pass' \in PassType /\ told' = FALSE
      BY <2>1, <2>2, StartsType
    <2>5. UNCHANGED <<publish, budget>>
      BY <1>13 DEF Enter, TurnEnters
    <2>q. QED BY <2>2, <2>3, <2>4, <2>5 DEF Starts, TypeOK
  <1>14. CASE StandDown
    BY <1>14, DoneType, NoPassType DEF StandDown, TypeOK
  <1>15. CASE LookCheckout \/ PublishSnapshot
    <2>1. pass' \in PassType
      BY <1>15 DEF LookCheckout, PublishSnapshot, TypeOK, PassType
    <2>2. trees' \in [Tree -> SUBSET Newer]
      BY <1>15 DEF LookCheckout, PublishSnapshot, TypeOK, Tree
    <2>q. QED BY <1>15, <2>1, <2>2 DEF LookCheckout, PublishSnapshot, TypeOK
  <1>26. CASE FetchCheckout
    <2> DEFINE behind == "head" \in trees["ref"]
    <2>3. pass' = [pass EXCEPT !.step = "looked", !.behind = behind]
      BY <1>26 DEF FetchCheckout
    <2>4. behind \in BOOLEAN
      OBVIOUS
    <2> HIDE DEF behind
    <2>1. pass' \in PassType
      BY <2>3, <2>4 DEF TypeOK, PassType
    <2>2. dirty' \in [Side -> Change]
      BY <1>26, <1>a DEF FetchCheckout, TypeOK, Change
    <2>q. QED BY <1>26, <2>1, <2>2 DEF FetchCheckout, TypeOK
  <1>16. CASE Pause \/ Stale
    BY <1>16, DoneType, NoPassType DEF Pause, Stale, TypeOK
  <1>17. CASE ReadFolder
    <2> DEFINE now == [dirty EXCEPT ![Folder] = IF @ = "none" THEN "none" ELSE "seen"]
               saw == {s \in Side : now[s] = "seen"}
               both == clash /\ saw = Side
    <2>1. /\ dirty' = now
          /\ pass' = [pass EXCEPT !.step = "sending",
                          !.takes = IF both THEN pass.keep ELSE saw,
                          !.asks = both /\ pass.keep = {}]
          /\ unheard' = unheard \cup {}
          /\ UNCHANGED <<clash, operation, watched, pending, alive, snapshots, queue,
                         settled, conflict, told, publish, commits, home, budget>>
      BY <1>17 DEF ReadFolder, Reads
    <2>2. now \in [Side -> Change]
      BY <1>a DEF TypeOK, Change
    <2>3. both \in BOOLEAN /\ saw \in SUBSET Side /\ (both /\ pass.keep = {}) \in BOOLEAN
      BY DEF TypeOK
    <2> HIDE DEF now, saw, both
    <2>4. (IF both THEN pass.keep ELSE saw) \in SUBSET Side
      BY <2>3 DEF TypeOK, PassType
    <2>5. pass' \in PassType
      BY <2>1, <2>3, <2>4 DEF TypeOK, PassType
    <2>q. QED BY <2>1, <2>2, <2>5 DEF TypeOK
  <1>18. CASE Finish
    <2>1. CASE pass.missed /\ pass.depth < 2
      <3>1. pass' = [pass EXCEPT !.step = "begun", !.depth = pass.depth + 1, !.keep = {},
                                 !.asks = FALSE, !.missed = FALSE]
        BY <1>18, <2>1 DEF Finish
      <3>2. pass.depth + 1 \in Depth
        BY <2>1 DEF TypeOK, PassType, Depth
      <3>3. pass' \in PassType /\ pass.asks \in BOOLEAN
        BY <3>1, <3>2 DEF TypeOK, PassType
      <3>q. QED BY <1>18, <2>1, <3>3 DEF Finish, TypeOK
    <2>2. CASE ~(pass.missed /\ pass.depth < 2)
      BY <1>18, <2>2, DoneType, NoPassType DEF Finish, TypeOK, PassType
    <2>q. QED BY <2>1, <2>2
  <1>19. CASE Fail
    <2>1. publish' \in PublishType
      BY <1>19 DEF Fail, Passed, TypeOK, PublishType
    <2>2. trees' \in [Tree -> SUBSET Newer] /\ turn' \in {turn, "orphan"}
      BY <1>19 DEF Fail, LeavesScript, TypeOK, Tree
    <2>q. QED BY <1>19, <2>1, <2>2, NoPassType DEF Fail, TypeOK
  <1>20. CASE PublishCalls
    BY <1>20, SpendType DEF PublishCalls, TypeOK, PublishType, Kind, Free
  <1>21. CASE PublishWaited \/ PublishAsks
    BY <1>21 DEF PublishWaited, PublishAsks, TypeOK, PublishType
  <1>22. CASE PublishEnters
    <2>1. "publish" \in Caller /\ {} \in SUBSET Side
      BY DEF Caller
    <2>2. Starts("publish", {})
      BY <1>22 DEF PublishEnters
    <2>q. QED BY <1>22, <2>1, <2>2, StartsType DEF PublishEnters, Starts, TypeOK, PublishType
  <1>23. CASE PublishGivesUp
    <2>1. publish' = [at |-> "stale", passed |-> FALSE, called |-> 0, alone |-> FALSE]
      BY <1>23 DEF PublishGivesUp, NoPublish
    <2>2. publish' \in PublishType
      BY <2>1 DEF PublishType
    <2>3. queue' \in Nat
      BY <1>23 DEF PublishGivesUp, TypeOK
    <2>q. QED BY <1>23, <2>2, <2>3 DEF PublishGivesUp, TypeOK
  <1>24. CASE UNCHANGED vars
    BY <1>24 DEF vars, TypeOK
  <1>q. QED
    BY <1>1, <1>2, <1>3, <1>4, <1>5, <1>6, <1>7, <1>8, <1>9, <1>10, <1>11, <1>12, <1>13,
       <1>14, <1>15, <1>16, <1>17, <1>18, <1>19, <1>20, <1>21, <1>22, <1>23, <1>24, <1>25,
       <1>26
    DEF Next, Actors, Passes, Publishes

\* The scheduling keeps its types; a pass goes again twice at most.
THEOREM TypeKept == Spec => []TypeOK
PROOF BY TypeInit, TypeStep, PTL DEF Spec

-----------------------------------------------------------------------------
(* In step is honest.                                                      *)

\* Nobody acts unreported: the watches are up before anything happens, and
\* stay up; no operation begins, no write fails and no older snapshot comes
\* before a pass's fetch.
Watched ==
    /\ \A kind \in {"early", "death", "stale", "op", "fail"} : budget[kind] = 0
    /\ watched \in {{}, Side}
    /\ Free \/ watched = Side
    /\ operation = {}

\* Every change either watch saw is counted, by settled or by the pass.
Counts(count) == count /\ unheard = {}

\* A settled workspace holds no new change; what its sides hold has been
\* asked about.
SettledSeen ==
    Counts(settled) => /\ \A s \in Side : dirty[s] # "new"
                       /\ conflict \/ \A s \in Side : dirty[s] = "none"

\* The same of a pass that has seen every change: it knows each as it looks.
PassSeen ==
    Counts(pass.seen) =>
        /\ pass.step \in {"looked", "sending"} => dirty[Checkout] # "new"
        /\ pass.step = "sending" => dirty[Folder] # "new"

\* And carries each, or asks, or has the answer in hand.
PassCarries ==
    /\ pass.step \in {"begun", "looking", "published", "looked"} => ~pass.missed
    /\ pass.step = "sending" /\ Counts(settled \/ pass.seen) =>
           /\ ~pass.missed
           /\ \A s \in Side :
                  dirty[s] = "seen" =>
                      \/ s \in pass.takes \/ pass.asks
                      \/ pass.keep # {} /\ pass.keep = pass.takes

\* It goes by a tree that lacks nothing, its own or a turn's.
PassLooks ==
    Counts(settled \/ pass.seen) =>
        /\ pass.step = "looking" => trees["pass"] = {}
        /\ pass.step = "published" => trees["ref"] = {}
        /\ pass.step = "looked" => ~pass.behind

StepInv == TypeOK /\ Watched /\ SettledSeen /\ PassSeen /\ PassCarries /\ PassLooks

LEMMA StepInit == Reported /\ Undisturbed /\ Init => StepInv
PROOF
  <1> SUFFICES ASSUME Reported, Undisturbed, Init PROVE StepInv
    OBVIOUS
  <1> USE DEF Init
  <1>1. Watched
    BY DEF Reported, Undisturbed, Watched, Free, NoPass
  <1>2. SettledSeen
    BY DEF SettledSeen, Counts
  <1>3. PassSeen /\ PassCarries /\ PassLooks
    BY DEF PassSeen, PassCarries, PassLooks, NoPass, Counts
  <1>q. QED BY <1>1, <1>2, <1>3, TypeInit DEF StepInv

\* What is not budgeted for does not happen.
LEMMA StaysWatched ==
    ASSUME StepInv, [Next]_vars
    PROVE  /\ Watched'
           /\ ~KeeperDies /\ ~StandDown /\ ~Pause
           /\ \A s \in Side : ~Operate(s) /\ ~OperationEnds(s)
           /\ \A s \in Side : Edit(s) => watched = Side
           /\ TurnPublishes => ~Outdates
PROOF
  <1> USE DEF StepInv, Watched
  <1>1. /\ ~KeeperDies /\ ~StandDown /\ ~Pause
        /\ \A s \in Side : ~Operate(s) /\ ~OperationEnds(s)
        /\ \A s \in Side : Edit(s) => watched = Side
    <2>1. ~Spend("early") /\ ~Spend("death") /\ ~Spend("op")
      BY DEF Spend
    <2>2. ASSUME NEW s \in Side, Edit(s) PROVE watched = Side
      <3>1. s \in watched
        BY <2>1, <2>2 DEF Edit
      <3>q. QED BY <3>1
    <2>q. QED BY <2>1, <2>2 DEF KeeperDies, StandDown, Pause, Operate, OperationEnds
  <1>5. ASSUME TurnPublishes
        PROVE  ~Outdates /\ \A kind \in Kind : budget[kind] = 0 => budget'[kind] = 0
    <2> DEFINE kinds == {k \in {"stale"} : Outdates} \cup {k \in {"late"} : Hides}
    <2>1. kinds \in SUBSET Kind /\ "stale" \in Kind
      BY DEF Kind
    <2>2. SpendAll(kinds) /\ (Outdates => "stale" \in kinds)
      BY <1>5 DEF TurnPublishes
    <2> HIDE DEF kinds
    <2>q. QED BY <2>1, <2>2, SpendAllType
  <1>2. \A kind \in {"early", "death", "stale", "op", "fail"} : budget'[kind] = 0
    <2> SUFFICES ASSUME NEW kind \in {"early", "death", "stale", "op", "fail"}
                 PROVE  budget'[kind] = 0
      OBVIOUS
    <2>1. kind \in Kind /\ budget[kind] = 0 /\ budget \in [Kind -> Nat]
      BY DEF Kind, TypeOK
    <2>2. \A other : Spend(other) => budget'[kind] = 0
      BY <2>1 DEF Spend
    <2>3. CASE UNCHANGED budget
      BY <2>1, <2>3
    <2>q. QED BY <1>1, <1>5, <2>1, <2>2, <2>3
          DEF Next, Actors, Passes, Publishes, vars, Edit, Commit, SetKeeper, Called, Report,
              BurstOver, Answer, Carry, Carries, TurnLooks, OrphanEnds, Enter, TurnEnters,
              LookCheckout, PublishSnapshot, FetchCheckout, Stale, ReadFolder, Reads, Finish,
              Fail, PublishCalls, PublishWaited, PublishAsks, PublishEnters, PublishGivesUp
  <1>3. operation' = {} /\ (watched' = watched \/ watched' = Side)
    BY <1>1
    DEF Next, Actors, Passes, Publishes, vars, sides, watch, Edit, Commit, SetKeeper, Called,
        Report, BurstOver, Answer, Starts, Carry, Carries, TurnLooks, TurnPublishes, OrphanEnds,
        Enter, TurnEnters, LookCheckout, PublishSnapshot, FetchCheckout, Stale, ReadFolder,
        Reads, Finish, Fail, PublishCalls, PublishWaited, PublishAsks, PublishEnters,
        PublishGivesUp
  <1>4. Free' \/ ~Free \/ watched # {}
    <2>1. ASSUME NEW s \in Side, Report(s) PROVE Free' \/ ~Free
      BY <2>1 DEF Report, Heard, Free, TypeOK, PassType
    <2>2. \A by, keep : Starts(by, keep) => watched # {}
      BY DEF Starts
    <2>3. CASE \/ LookCheckout \/ PublishSnapshot \/ FetchCheckout \/ Stale \/ ReadFolder
               \/ Finish \/ Fail \/ \E s \in Side : Carry(s)
      BY <2>3 DEF LookCheckout, PublishSnapshot, FetchCheckout, Stale, ReadFolder, Reads,
                  Finish, Fail, Carry, Free
    <2>4. CASE UNCHANGED pass
      BY <2>4 DEF Free
    <2>q. QED BY <1>1, <2>1, <2>2, <2>3, <2>4
          DEF Next, Actors, Passes, Publishes, vars, sides, Edit, Commit, SetKeeper, Called,
              BurstOver, Answer, TurnLooks, TurnPublishes, OrphanEnds, Enter, TurnEnters,
              PublishCalls, PublishWaited, PublishAsks, PublishEnters, PublishGivesUp
  <1>q. QED BY <1>1, <1>2, <1>3, <1>4, <1>5 DEF Free

\* A change that was not there before is reported, and once reported counted.
LEMMA StepStep == StepInv /\ [Next]_vars => StepInv'
PROOF
  <1> SUFFICES ASSUME StepInv, [Next]_vars PROVE StepInv'
    OBVIOUS
  <1>a. TypeOK' /\ Watched'
    BY TypeStep, StaysWatched DEF StepInv
  <1> DEFINE Rest == SettledSeen /\ PassSeen /\ PassCarries /\ PassLooks
  <1> SUFFICES Rest'
    BY <1>a DEF StepInv
  <1> USE DEF Counts
  <1>b. Folder \in Side /\ Checkout \in Side /\ Folder # Checkout
    BY DEF Side, Folder, Checkout
  <1>1. ASSUME NEW s \in Side, Edit(s) PROVE Rest'
    <2>1. unheard' # {}
      BY <1>1, StaysWatched DEF Edit
    <2>2. pass' = pass
      BY <1>1 DEF Edit
    <2>q. QED BY <2>1, <2>2 DEF StepInv, SettledSeen, PassSeen, PassCarries, PassLooks
  <1>2. ASSUME UNCHANGED <<dirty, settled, conflict, pass>>, unheard \subseteq unheard',
               \/ trees'["ref"] = trees["ref"] /\ trees'["pass"] = trees["pass"]
               \/ unheard' # {}
               \/ Free
               \/ TurnPublishes
        PROVE  Rest'
    <2>1. CASE TurnPublishes
      <3>1. trees'["pass"] = trees["pass"] /\ trees'["ref"] = trees["turn"] /\ ~Outdates
        BY <2>1, StaysWatched DEF TurnPublishes, StepInv, TypeOK, Tree
      <3>2. pass.step = "published" /\ trees["ref"] = {} => trees'["ref"] = {}
        BY <3>1 DEF Outdates
      <3>q. QED BY <1>2, <3>1, <3>2 DEF StepInv, SettledSeen, PassSeen, PassCarries, PassLooks
    <2>2. CASE Free
      BY <1>2, <2>2 DEF Free, StepInv, SettledSeen, PassSeen, PassCarries, PassLooks
    <2>3. CASE unheard' # {}
      BY <1>2, <2>3 DEF StepInv, SettledSeen, PassSeen, PassCarries, PassLooks
    <2>q. QED BY <1>2, <2>1, <2>2, <2>3 DEF StepInv, SettledSeen, PassSeen, PassCarries, PassLooks
  <1>3. ASSUME NEW s \in Side, Report(s) PROVE Rest'
    <2>1. settled' = FALSE /\ pass'.seen = FALSE
      BY <1>3 DEF Report, Heard, StepInv, TypeOK, PassType
    <2>2. pass'.step = pass.step /\ pass'.missed = pass.missed
      BY <1>3 DEF Report, Heard, StepInv, TypeOK, PassType
    <2>q. QED BY <2>1, <2>2 DEF StepInv, SettledSeen, PassSeen, PassCarries, PassLooks
  <1>4. ASSUME NEW by, NEW keep, Starts(by, keep) PROVE Rest'
    <2>1. pass'.step = "begun" /\ ~pass'.missed
      BY <1>4 DEF Starts, NoPass
    <2>2. UNCHANGED <<dirty, unheard, settled, conflict>>
      BY <1>4 DEF Starts, sides, watch
    <2>q. QED BY <2>1, <2>2 DEF StepInv, SettledSeen, PassSeen, PassCarries, PassLooks
  <1>10. CASE LookCheckout \/ PublishSnapshot
    <2>1. /\ pass'.missed = pass.missed /\ pass'.seen = pass.seen
          /\ pass.step \in {"begun", "looking"}
          /\ UNCHANGED <<dirty, unheard, settled, conflict>>
      BY <1>10 DEF LookCheckout, PublishSnapshot, sides, watch, StepInv, TypeOK, PassType
    <2>2. \/ pass'.step = "looking" /\ trees'["pass"] = {}
          \/ pass'.step = "published" /\ trees'["ref"] = {}
          \/ /\ pass'.step = "published" /\ pass.step = "looking"
             /\ trees'["ref"] = trees["pass"]
      BY <1>10 DEF LookCheckout, PublishSnapshot, StepInv, TypeOK, PassType, Tree
    <2>q. QED BY <2>1, <2>2 DEF StepInv, SettledSeen, PassSeen, PassCarries, PassLooks
  <1>5. CASE FetchCheckout
    <2>1. /\ pass'.step = "looked" /\ pass'.missed = pass.missed /\ pass'.seen = pass.seen
          /\ pass.step = "published" /\ pass'.behind = ("head" \in trees["ref"])
          /\ UNCHANGED <<unheard, settled, conflict>>
      BY <1>5 DEF FetchCheckout, watch, StepInv, TypeOK, PassType
    <2>2. /\ trees["ref"] = {} => dirty'[Checkout] # "new" /\ dirty'[Folder] = dirty[Folder]
          /\ \A s \in Side : dirty[s] = "none" => dirty'[s] = "none"
          /\ trees["ref"] = {} =>
                \A s \in Side : dirty'[s] = "new" => dirty[s] = "new"
      BY <1>5, <1>b DEF FetchCheckout, StepInv, TypeOK
    <2>q. QED BY <2>1, <2>2 DEF StepInv, SettledSeen, PassSeen, PassCarries, PassLooks
  <1>6. CASE ReadFolder
    <2> DEFINE now == [dirty EXCEPT ![Folder] = IF @ = "none" THEN "none" ELSE "seen"]
               saw == {s \in Side : now[s] = "seen"}
               both == clash /\ saw = Side
    <2>1. /\ dirty' = now /\ pass.step = "looked"
          /\ pass' = [pass EXCEPT !.step = "sending",
                          !.takes = IF both THEN pass.keep ELSE saw,
                          !.asks = both /\ pass.keep = {}]
          /\ unheard' = unheard
          /\ UNCHANGED <<settled, conflict>>
      BY <1>6 DEF ReadFolder, Reads
    <2>2. /\ dirty'[Folder] # "new"
          /\ \A s \in Side : (dirty'[s] = "new" => dirty[s] = "new")
                            /\ (dirty[s] = "none" => dirty'[s] = "none")
      BY <2>1, <1>b DEF StepInv, TypeOK
    <2>3. /\ pass'.seen = pass.seen /\ pass'.missed = pass.missed /\ pass'.step = "sending"
          /\ pass'.keep = pass.keep
          /\ pass'.takes = (IF both THEN pass.keep ELSE saw)
          /\ pass'.asks = (both /\ pass.keep = {})
      BY <2>1 DEF StepInv, TypeOK, PassType
    <2>4. \A s \in Side : dirty'[s] = "seen" =>
              \/ s \in pass'.takes \/ pass'.asks
              \/ pass'.keep # {} /\ pass'.keep = pass'.takes
      <3>1. CASE both
        <4>1. pass'.takes = pass.keep /\ pass'.asks = (pass.keep = {})
          BY <2>3, <3>1
        <4>q. QED BY <2>3, <4>1
      <3>2. CASE ~both
        <4>1. pass'.takes = saw
          BY <2>3, <3>2
        <4>q. QED BY <2>1, <4>1
      <3>q. QED BY <3>1, <3>2
    <2>q. QED BY <2>1, <2>2, <2>3, <2>4, <1>b
          DEF StepInv, SettledSeen, PassSeen, PassCarries, PassLooks
  <1>7. ASSUME NEW s \in Side, Carry(s) PROVE Rest'
    <2>1. /\ Carries(s) /\ pass.step = "sending" /\ UNCHANGED <<settled, conflict>>
          /\ Other(s) \in Side
      BY <1>7, <1>b DEF Carry, Other
    <2>2. pass'.seen = pass.seen /\ pass'.step = pass.step
      BY <2>1 DEF Carries, StepInv, TypeOK, PassType
    <2>3. CASE unheard' = unheard \cup ({Other(s)} \cap watched)
      <3>1. watched = Side
        BY <2>1 DEF StepInv, Watched, Free
      <3>q. QED BY <2>1, <2>2, <2>3, <3>1
            DEF StepInv, SettledSeen, PassSeen, PassCarries, PassLooks
    <2>4. CASE dirty[Other(s)] = "new" /\ UNCHANGED <<dirty, unheard>>
      <3>1. ~Counts(settled \/ pass.seen)
        BY <2>1, <2>4, <1>b DEF StepInv, SettledSeen, PassSeen, Side
      <3>q. QED BY <2>1, <2>2, <2>4, <3>1
            DEF StepInv, SettledSeen, PassSeen, PassCarries, PassLooks
    <2>5. ~Spend("fail")
      BY DEF StepInv, Watched, Spend
    <2>q. QED BY <2>1, <2>3, <2>4, <2>5 DEF Carries
  <1>8. CASE Finish
    <2>1. /\ pass.step = "sending" /\ pass.takes = {} /\ conflict' = pass.asks
          /\ UNCHANGED <<dirty, unheard>>
      BY <1>8 DEF Finish, sides, watch
    <2>2. Counts(settled \/ pass.seen) =>
              /\ ~pass.missed
              /\ \A s \in Side : dirty[s] # "new" /\ (dirty[s] = "seen" => pass.asks)
      BY <2>1, <1>b DEF StepInv, SettledSeen, PassSeen, PassCarries, PassLooks, Side
    <2>3. \A s \in Side : dirty[s] \in {"none", "seen", "new"}
      BY DEF StepInv, TypeOK, Change
    <2>4. CASE pass.missed /\ pass.depth < 2
      <3>1. pass'.step = "begun" /\ ~pass'.missed /\ settled' = settled
        BY <1>8, <2>4 DEF Finish, StepInv, TypeOK, PassType
      <3>q. QED BY <2>1, <2>2, <2>4, <3>1 DEF SettledSeen, PassSeen, PassCarries, PassLooks
    <2>5. CASE ~(pass.missed /\ pass.depth < 2)
      <3>1. pass' = NoPass /\ settled' = IF pass.by = "answer" THEN settled ELSE pass.seen
        BY <1>8, <2>5 DEF Finish, Done
      <3>2. pass'.step = "none" /\ (settled' => settled \/ pass.seen)
        BY <3>1 DEF NoPass
      <3>3. SettledSeen'
        BY <2>1, <2>2, <2>3, <3>2 DEF SettledSeen
      <3>q. QED BY <3>2, <3>3 DEF PassSeen, PassCarries, PassLooks
    <2>q. QED BY <2>4, <2>5
  <1>11. CASE Stale
    <2>1. /\ ~Counts(settled \/ pass.seen)
      BY <1>11 DEF Stale, StepInv, PassLooks
    <2>2. /\ pass' = NoPass /\ UNCHANGED <<dirty, unheard>>
          /\ settled' = IF pass.by = "answer" THEN settled ELSE pass.seen
      BY <1>11 DEF Stale, Done, sides, watch
    <2>3. pass'.step = "none" /\ ~Counts(settled)'
      BY <2>1, <2>2 DEF NoPass
    <2>q. QED BY <2>3 DEF SettledSeen, PassSeen, PassCarries, PassLooks
  <1>9. CASE Fail
    <2>1. pass'.step = "none" /\ UNCHANGED <<dirty, unheard, settled, conflict>>
      BY <1>9 DEF Fail, NoPass, sides, watch
    <2>q. QED BY <2>1 DEF StepInv, SettledSeen, PassSeen, PassCarries, PassLooks
  <1>12. CASE Commit
    <2>1. Free \/ watched = Side
      BY DEF StepInv, Watched
    <2>q. QED BY <1>2, <1>12, <2>1, <1>b DEF Commit, sides
  <1>13. CASE TurnLooks \/ OrphanEnds
    BY <1>2, <1>13 DEF TurnLooks, OrphanEnds, sides, watch, StepInv, TypeOK, Tree
  <1>14. CASE TurnPublishes
    BY <1>2, <1>14 DEF TurnPublishes, sides, watch
  <1>15. CASE \/ SetKeeper \/ Called \/ PublishCalls \/ PublishWaited \/ PublishAsks
              \/ PublishGivesUp \/ UNCHANGED vars \/ \E s \in Side : BurstOver(s)
    BY <1>2, <1>15
    DEF SetKeeper, Called, PublishCalls, PublishWaited, PublishAsks, PublishGivesUp, BurstOver,
        vars, sides, watch, snapshots
  <1>16. CASE Enter \/ TurnEnters \/ PublishEnters \/ \E s \in Side : Answer(s)
    BY <1>4, <1>16 DEF Enter, TurnEnters, PublishEnters, Answer
  <1>q. QED
    BY <1>1, <1>3, <1>5, <1>6, <1>7, <1>8, <1>9, <1>10, <1>11, <1>12, <1>13, <1>14, <1>15,
       <1>16, StaysWatched
    DEF Next, Actors, Passes, Publishes

\* folder_in_step tells the truth, however many edits, commits, answers,
\* turns' snapshots and failing passes there are, while each change is made
\* under a watch, no older tree is made the ref's between a pass's snapshot
\* and its fetch, no pass stands down and no write fails that could land.
THEOREM InStepIsHonest ==
    ASSUME Reported, Undisturbed
    PROVE  Spec => []InStepHonest
PROOF
  <1>1. Init => StepInv
    BY StepInit
  <1>2. StepInv => InStepHonest
    BY DEF StepInv, SettledSeen, Counts, InStepHonest, InStep
  <1>q. QED BY <1>1, <1>2, StepStep, PTL DEF Spec

-----------------------------------------------------------------------------
(* A publish that met no pass.                                             *)

\* No pass fails or stands down.
Unfailed ==
    /\ \A kind \in {"op", "err", "death"} : budget[kind] = 0
    /\ operation = {} /\ alive

\* The pass under way began after the publish called, so what it brings home
\* once it has looked is what the publish wants; and passed says such a pass
\* got that far.
Brought ==
    publish.alone /\ (pass.step \in {"looked", "sending"} \/ publish.passed
                          \/ publish.at = "fresh")
        => home >= publish.called

AloneInv ==
    /\ TypeOK /\ Unfailed /\ Brought
    /\ home <= commits /\ publish.called <= commits

LEMMA AloneInit == Unfailing /\ Init => AloneInv
PROOF BY TypeInit DEF Unfailing, Init, AloneInv, Unfailed, Brought, NoPublish, NoPass

LEMMA StaysUnfailed ==
    ASSUME AloneInv, [Next]_vars
    PROVE  /\ Unfailed'
           /\ ~StandDown /\ ~Pause /\ ~Fail
PROOF
  <1> USE DEF AloneInv, Unfailed
  <1>1. ~Spend("death") /\ ~Spend("op") /\ ~(budget["err"] > 0)
    BY DEF Spend
  <1>2. /\ ~KeeperDies /\ ~StandDown /\ ~Pause /\ ~Fail
        /\ \A s \in Side : ~Operate(s) /\ ~OperationEnds(s)
    BY <1>1 DEF KeeperDies, StandDown, Pause, Fail, Operate, OperationEnds
  <1>3. \A kind \in {"op", "err", "death"} : budget'[kind] = 0
    <2> SUFFICES ASSUME NEW kind \in {"op", "err", "death"} PROVE budget'[kind] = 0
      OBVIOUS
    <2>1. kind \in Kind /\ budget[kind] = 0 /\ budget \in [Kind -> Nat]
      BY DEF Kind, TypeOK
    <2>2. \A other : Spend(other) => budget'[kind] = 0
      BY <2>1 DEF Spend
    <2>3. CASE UNCHANGED budget
      BY <2>1, <2>3
    <2>4. TurnPublishes => budget'[kind] = 0
      <3> DEFINE kinds == {k \in {"stale"} : Outdates} \cup {k \in {"late"} : Hides}
      <3>1. kinds \in SUBSET Kind
        BY DEF Kind
      <3>2. TurnPublishes => SpendAll(kinds)
        BY DEF TurnPublishes
      <3> HIDE DEF kinds
      <3>q. QED BY <2>1, <3>1, <3>2, SpendAllType
    <2>q. QED BY <1>2, <2>2, <2>3, <2>4
          DEF Next, Actors, Passes, Publishes, vars, Edit, Commit, SetKeeper, Called, Report,
              BurstOver, Answer, Carry, Carries, TurnLooks, OrphanEnds, Enter, TurnEnters,
              LookCheckout, PublishSnapshot, FetchCheckout, Stale, ReadFolder, Reads, Finish,
              PublishCalls, PublishWaited, PublishAsks, PublishEnters, PublishGivesUp
  <1>4. operation' = {} /\ alive'
    BY <1>2
    DEF Next, Actors, Passes, Publishes, vars, sides, watch, Edit, Commit, SetKeeper, Called,
        Report, BurstOver, Answer, Starts, Carry, Carries, TurnLooks, TurnPublishes, OrphanEnds,
        Enter, TurnEnters, LookCheckout, PublishSnapshot, FetchCheckout, Stale, ReadFolder,
        Reads, Finish, PublishCalls, PublishWaited, PublishAsks, PublishEnters, PublishGivesUp
  <1>q. QED BY <1>2, <1>3, <1>4

LEMMA AloneStep == AloneInv /\ [Next]_vars => AloneInv'
PROOF
  <1> SUFFICES ASSUME AloneInv, [Next]_vars PROVE AloneInv'
    OBVIOUS
  <1> DEFINE Rest == Brought /\ home <= commits /\ publish.called <= commits
  <1>a. TypeOK' /\ Unfailed' /\ ~StandDown /\ ~Pause /\ ~Fail
    BY TypeStep, StaysUnfailed DEF AloneInv
  <1>b. home \in Nat /\ commits \in Nat /\ publish.called \in Nat /\ Rest
    BY DEF AloneInv, TypeOK, PublishType
  <1> SUFFICES Rest'
    BY <1>a DEF AloneInv
  <1>1. CASE UNCHANGED <<pass, publish, home, commits>>
    BY <1>1, <1>b DEF Brought
  <1>2. CASE Commit
    BY <1>2, <1>b DEF Commit, Brought
  <1>3. ASSUME NEW s \in Side, Report(s) PROVE Rest'
    <2>1. pass'.step = pass.step /\ UNCHANGED <<publish, home, commits>>
      BY <1>3 DEF Report, Heard, AloneInv, TypeOK, PassType
    <2>q. QED BY <2>1, <1>b DEF Brought
  <1>4. ASSUME NEW by, NEW keep, Starts(by, keep), UNCHANGED publish PROVE Rest'
    <2>1. pass'.step = "begun" /\ UNCHANGED <<publish, home, commits>>
      BY <1>4 DEF Starts, NoPass
    <2>q. QED BY <2>1, <1>b DEF Brought
  <1>5. CASE FetchCheckout
    <2>1. home' = commits /\ UNCHANGED <<publish, commits>>
      BY <1>5 DEF FetchCheckout
    <2>q. QED BY <2>1, <1>b DEF Brought
  <1>15. CASE LookCheckout \/ PublishSnapshot
    <2>1. pass'.step \in {"looking", "published"} /\ UNCHANGED <<publish, home, commits>>
      BY <1>15 DEF LookCheckout, PublishSnapshot, AloneInv, TypeOK, PassType
    <2>q. QED BY <2>1, <1>b DEF Brought
  <1>6. CASE ReadFolder
    <2>1. pass.step = "looked" /\ UNCHANGED <<publish, home, commits>>
      BY <1>6 DEF ReadFolder, Reads
    <2>q. QED BY <2>1, <1>b DEF Brought
  <1>7. ASSUME NEW s \in Side, Carry(s) PROVE Rest'
    <2>1. pass.step = "sending" /\ UNCHANGED <<publish, home, commits>>
      BY <1>7 DEF Carry
    <2>q. QED BY <2>1, <1>b DEF Brought
  <1>8. CASE Finish \/ Stale
    <2>1. /\ pass.step \in {"looked", "sending"} /\ UNCHANGED <<home, commits>>
          /\ UNCHANGED publish \/ Counted
      BY <1>8 DEF Finish, Stale, Done
    <2>2. publish'.called = publish.called /\ publish'.alone = publish.alone
      BY <2>1 DEF Counted, AloneInv, TypeOK, PublishType
    <2>q. QED BY <2>1, <2>2, <1>b DEF Brought
  <1>9. CASE PublishCalls
    <2>1. /\ publish' = [at |-> "trying", passed |-> FALSE, called |-> commits, alone |-> Free]
          /\ UNCHANGED <<pass, home, commits>>
      BY <1>9 DEF PublishCalls
    <2>2. /\ publish'.called = commits /\ publish'.at = "trying" /\ ~publish'.passed
          /\ publish'.alone => pass.step = "none"
      BY <2>1 DEF Free
    <2>q. QED BY <2>1, <2>2, <1>b DEF Brought
  <1>10. CASE PublishWaited
    <2>1. /\ publish.passed /\ publish' = [publish EXCEPT !.at = "fresh"]
          /\ UNCHANGED <<pass, home, commits>>
      BY <1>10 DEF PublishWaited
    <2>2. publish'.called = publish.called /\ publish'.alone = publish.alone
      BY <2>1 DEF AloneInv, TypeOK, PublishType
    <2>q. QED BY <2>1, <2>2, <1>b DEF Brought
  <1>11. ASSUME NEW at, at # "fresh", publish' = [publish EXCEPT !.at = at],
                UNCHANGED <<home, commits>>,
                pass' = pass \/ Starts("publish", {})
         PROVE  Rest'
    <2>1. /\ publish'.at # "fresh" /\ publish'.called = publish.called
          /\ publish'.alone = publish.alone /\ publish'.passed = publish.passed
      BY <1>11 DEF AloneInv, TypeOK, PublishType
    <2>2. pass'.step = pass.step \/ pass'.step = "begun"
      BY <1>11 DEF Starts, NoPass
    <2>q. QED BY <1>11, <2>1, <2>2, <1>b DEF Brought
  <1>12. CASE PublishAsks \/ PublishEnters
    <2>1. /\ \E at \in {"asking", "passing"} : publish' = [publish EXCEPT !.at = at]
          /\ UNCHANGED <<home, commits>>
          /\ pass' = pass \/ Starts("publish", {})
      BY <1>12 DEF PublishAsks, PublishEnters, Starts
    <2>q. QED BY <1>11, <2>1
  <1>16. CASE PublishGivesUp
    <2>1. publish'.alone = FALSE /\ publish'.called = 0 /\ UNCHANGED <<home, commits>>
      BY <1>16 DEF PublishGivesUp, NoPublish
    <2>q. QED BY <2>1, <1>b DEF Brought
  <1>13. CASE \/ \E s \in Side : Edit(s) \/ Operate(s) \/ OperationEnds(s) \/ BurstOver(s)
              \/ KeeperDies \/ SetKeeper \/ Called \/ TurnLooks \/ TurnPublishes
              \/ OrphanEnds \/ UNCHANGED vars
    BY <1>1, <1>13
    DEF Edit, Operate, OperationEnds, BurstOver, KeeperDies, SetKeeper, Called, TurnLooks,
        TurnPublishes, OrphanEnds, vars
  <1>14. CASE Enter \/ TurnEnters \/ \E s \in Side : Answer(s)
    BY <1>4, <1>14 DEF Enter, TurnEnters, Answer
  <1>q. QED
    BY <1>a, <1>2, <1>3, <1>5, <1>6, <1>7, <1>8, <1>9, <1>10, <1>12, <1>13, <1>14,
       <1>15, <1>16
    DEF Next, Actors, Passes, Publishes

\* A publish that met no pass, and was told its branches are home, finds them
\* as they were when it called or newer, however many passes, commits, edits
\* and answers run beside it, while no pass fails or stands down.
THEOREM PublishAloneIsFresh ==
    ASSUME Unfailing
    PROVE  Spec => []PublishAlone
PROOF
  <1>1. Init => AloneInv
    BY AloneInit
  <1>2. AloneInv => PublishAlone
    BY DEF AloneInv, Brought, PublishAlone
  <1>q. QED BY <1>1, <1>2, AloneStep, PTL DEF Spec
=============================================================================
