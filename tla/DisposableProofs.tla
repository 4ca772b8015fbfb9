-------------------------- MODULE DisposableProofs --------------------------
(* That a VM is removed, and Personal given the folder, over nothing this   *)
(* machine lacks, for any work and any number of windows and faults, while  *)
(* no marker is left without the re-check it was to have                    *)
(* (Budget["slip"] = 0).                                                    *)
EXTENDS Disposable, TLAPS

\* Where a marker cannot be: between its withdrawal and the next close's mark.
InUse == {"withdrawn", "cancelled", "up", "open", "closing", "synced", "looked", "keeping"}

Quiet == disk \subseteq here /\ ~containers

\* What the windows, the sleeper, its re-check and the clearer each go by.
MarkInv ==
    /\ marked /\ recheck = None /\ ~Between => Quiet
    /\ recheck # None => recheck \subseteq here /\ window \in {"closed", "opening", "noted"}
    /\ window \in InUse => ~marked
    /\ window = "marking" => seen \subseteq here
    /\ containers => Up
    /\ vm = "gone" => disk = {}

SleeperInv ==
    /\ sleeper = "checking" =>
           /\ check # "none"
           /\ window \in {"closed", "opening", "noted", "withdrawing", "withdrawn"}
    /\ window \in {"cancelled", "up", "open"} => sleeper = "none"

\* A re-check whose sleeper still waits for it.
CheckInv ==
    /\ check # "none" => expects # None /\ expects \subseteq here
    /\ sleeper = "checking" /\ check \in {"stopped", "looked", "judged"} => ~containers
    /\ sleeper = "checking" /\ check \in {"looked", "judged"} /\ agrees => Quiet
    /\ sleeper = "checking" /\ check = "judged" /\ marked => agrees

ReturnInv == clean /\ "return" \notin unsure => Quiet

ClearerInv == clearer = "judged" /\ "clear" \notin unsure => Quiet /\ window = "closed"

NoSlip == budget["slip"] = 0

IInv ==
    /\ TypeOK /\ MarkInv /\ SleeperInv /\ CheckInv /\ ReturnInv /\ ClearerInv
    /\ NoSlip /\ NothingLost

\* What says where the sleeper is under a window, of itself.
WindowInv == TypeOK /\ (window \in {"cancelled", "up", "open"} => sleeper = "none")

\* The first state: nothing written, nothing marked.
LEMMA InitIInv == Budget["slip"] = 0 /\ Init => IInv
  BY DisposableAssumption
  DEF Init, IInv, TypeOK, MarkInv, SleeperInv, CheckInv, ReturnInv, ClearerInv, NoSlip,
      NothingLost, Quiet, Up, InUse, Between, Opening, Closing, Kind

LEMMA InitWindowInv == Init => WindowInv
  BY DisposableAssumption DEF Init, WindowInv, TypeOK, Opening, Closing

\* Spending from a budget leaves a budget.
LEMMA SpendKept ==
  ASSUME NEW kinds, budget \in [Kind -> Nat], Spend(kinds)
  PROVE  budget' \in [Kind -> Nat]
  BY DEF Spend

\* Every step keeps the types.
LEMMA TypeStep == TypeOK /\ [Next]_vars => TypeOK'
  <1>. SUFFICES ASSUME TypeOK, [Next]_vars PROVE TypeOK'
    OBVIOUS
  <1>. USE DisposableAssumption, SpendKept
       DEF TypeOK, Opening, Closing, vmVars, markVars, windowVars, checkVars, sleeperVars, ghosts,
           WindowTo, SleeperTo, ClearerTo, CheckTo, RemovesRecheck, RemovesMarker, CheckEnds
  <1>1. CASE \E w \in Work : Writes(w) BY <1>1 DEF Writes
  <1>2. CASE GoesOff BY <1>2 DEF GoesOff
  <1>3. CASE HostRestarts BY <1>3 DEF HostRestarts
  <1>4. CASE Opens BY <1>4 DEF Opens
  <1>5. CASE MakesVm BY <1>5 DEF MakesVm
  <1>6. CASE NotesReturn BY <1>6 DEF NotesReturn
  <1>7. CASE WithdrawsRecheck BY <1>7 DEF WithdrawsRecheck
  <1>8. CASE WithdrawsMarker BY <1>8 DEF WithdrawsMarker
  <1>9. CASE CancelsShutdown BY <1>9 DEF CancelsShutdown
  <1>10. CASE BringsUp BY <1>10 DEF BringsUp
  <1>11. CASE BringsUpAgain BY <1>11 DEF BringsUpAgain
  <1>12. CASE Places BY <1>12 DEF Places
  <1>13. CASE Syncs BY <1>13 DEF Syncs
  <1>14. CASE CloseBegins BY <1>14 DEF CloseBegins
  <1>15. CASE LastSync BY <1>15 DEF LastSync
  <1>16. CASE Looks BY <1>16 DEF Looks
  <1>17. CASE Marks BY <1>17 DEF Marks
  <1>18. CASE LeavesRecheck BY <1>18 DEF LeavesRecheck
  <1>19. CASE Keeps BY <1>19 DEF Keeps
  <1>20. CASE KeepsUnmarked BY <1>20 DEF KeepsUnmarked
  <1>21. CASE ClosesNow BY <1>21 DEF ClosesNow
  <1>22. CASE Dies BY <1>22 DEF Dies
  <1>23. CASE Wakes BY <1>23 DEF Wakes
  <1>24. CASE ShutsDown BY <1>24 DEF ShutsDown
  <1>25. CASE StopsContainers BY <1>25 DEF StopsContainers
  <1>26. CASE Rechecks BY <1>26 DEF Rechecks
  <1>27. CASE Unmarks BY <1>27 DEF Unmarks
  <1>28. CASE RecheckRemoves BY <1>28 DEF RecheckRemoves
  <1>29. CASE RecheckTimesOut BY <1>29 DEF RecheckTimesOut
  <1>30. CASE Lists BY <1>30 DEF Lists
  <1>31. CASE Judges BY <1>31 DEF Judges
  <1>32. CASE Destroys BY <1>32 DEF Destroys
  <1>33. CASE UNCHANGED vars BY <1>33 DEF vars
  <1>. QED
    BY <1>1, <1>2, <1>3, <1>4, <1>5, <1>6, <1>7, <1>8, <1>9, <1>10, <1>11, <1>12, <1>13,
       <1>14, <1>15, <1>16, <1>17, <1>18, <1>19, <1>20, <1>21, <1>22, <1>23, <1>24,
       <1>25, <1>26, <1>27, <1>28, <1>29, <1>30, <1>31, <1>32, <1>33 DEF Next

\* What slips is not spent where nothing may.
LEMMA NoSlipKept ==
  ASSUME NEW kinds, NoSlip, TypeOK, Spend(kinds)
  PROVE  NoSlip' /\ "slip" \notin kinds
  <1>1. "slip" \in Kind
    BY DEF Kind
  <1>2. "slip" \notin kinds
    BY DEF Spend, NoSlip
  <1>. QED
    BY <1>1, <1>2 DEF Spend, NoSlip, TypeOK

\* While nothing slips: a withdrawn marker is gone, a mark has its re-check,
\* nothing ends between the two, and no other's re-check is removed.
LEMMA SlipStep ==
  ASSUME NoSlip, TypeOK, [Next]_vars
  PROVE  /\ NoSlip'
         /\ WithdrawsMarker \/ KeepsUnmarked => ~marked'
         /\ LeavesRecheck => recheck' = seen
         /\ HostRestarts \/ Dies \/ ClosesNow => ~(Between /\ marked)
         /\ RecheckRemoves => sleeper = "checking" \/ recheck = None
  <1>1. WithdrawsMarker \/ KeepsUnmarked => ~marked' /\ UNCHANGED budget
    BY NoSlipKept DEF WithdrawsMarker, KeepsUnmarked, RemovesMarker
  <1>2. LeavesRecheck => recheck' = seen /\ UNCHANGED budget
    BY NoSlipKept DEF LeavesRecheck
  <1>3. ASSUME NEW how \in BOOLEAN, NEW kinds, Spend(kinds \cup Slips(how)) PROVE ~how /\ NoSlip'
    BY <1>3, NoSlipKept DEF Slips
  <1>4. ASSUME NEW how \in BOOLEAN, Spend(Slips(how)) PROVE ~how /\ NoSlip'
    BY <1>4, NoSlipKept DEF Slips
  <1>5. (Between /\ marked) \in BOOLEAN /\ (sleeper # "checking" /\ recheck # None) \in BOOLEAN
    BY DEF TypeOK, Between
  <1>6. HostRestarts \/ Dies => ~(Between /\ marked) /\ NoSlip'
    BY <1>3, <1>5 DEF HostRestarts, Dies
  <1>7. ClosesNow => ~(Between /\ marked) /\ NoSlip'
    BY <1>4, <1>5 DEF ClosesNow
  <1>8. RecheckRemoves => (sleeper = "checking" \/ recheck = None) /\ NoSlip'
    BY <1>4, <1>5 DEF RecheckRemoves
  <1>9. Opens \/ CloseBegins \/ RecheckTimesOut \/ Lists => NoSlip'
    BY NoSlipKept DEF Opens, CloseBegins, RecheckTimesOut, Lists, NoSlip
  <1>10. UNCHANGED budget \/ NoSlip'
    BY <1>1, <1>2, <1>6, <1>7, <1>8, <1>9
    DEF Next, vars, Writes, GoesOff, MakesVm, NotesReturn, WithdrawsRecheck, RemovesRecheck,
        CancelsShutdown, BringsUp, BringsUpAgain, Places, Syncs, LastSync, Looks, Marks, Keeps,
        Wakes, ShutsDown, StopsContainers, Rechecks, Unmarks, Judges, Destroys
  <1>. QED
    BY <1>1, <1>2, <1>6, <1>7, <1>8, <1>10 DEF NoSlip

\* Every step keeps the rest: markers true once confirmed, whoever goes by one
\* sure of it, and a re-check of its own sleeper true to what it has seen.
LEMMA InvStep ==
  ASSUME IInv, [Next]_vars, TypeOK'
  PROVE  /\ MarkInv' /\ SleeperInv' /\ CheckInv' /\ ReturnInv' /\ ClearerInv'
         /\ NoSlip' /\ NothingLost'
  <1>. SUFFICES MarkInv' /\ SleeperInv' /\ CheckInv' /\ ReturnInv' /\ ClearerInv' /\ NothingLost'
    BY SlipStep DEF IInv
  <1>. USE DisposableAssumption
       DEF IInv, TypeOK, MarkInv, SleeperInv, CheckInv, ReturnInv, ClearerInv, NothingLost,
           Quiet, Up, InUse, Between, Closing, vmVars, markVars, windowVars, checkVars,
           sleeperVars, ghosts, WindowTo, SleeperTo, ClearerTo, CheckTo, RemovesRecheck,
           RemovesMarker, CheckEnds
  <1>1. CASE \E w \in Work : Writes(w) BY <1>1 DEF Writes
  <1>2. CASE GoesOff BY <1>2 DEF GoesOff
  <1>3. CASE HostRestarts BY <1>3, SlipStep DEF HostRestarts
  <1>4. CASE Opens BY <1>4 DEF Opens
  <1>5. CASE MakesVm BY <1>5 DEF MakesVm
  <1>6. CASE NotesReturn BY <1>6 DEF NotesReturn, Unconfirmed
  <1>7. CASE WithdrawsRecheck BY <1>7 DEF WithdrawsRecheck
  <1>8. CASE WithdrawsMarker BY <1>8, SlipStep DEF WithdrawsMarker
  <1>9. CASE CancelsShutdown BY <1>9 DEF CancelsShutdown
  <1>10. CASE BringsUp BY <1>10 DEF BringsUp
  <1>11. CASE BringsUpAgain BY <1>11 DEF BringsUpAgain
  <1>12. CASE Places BY <1>12 DEF Places
  <1>13. CASE Syncs BY <1>13 DEF Syncs
  <1>14. CASE CloseBegins BY <1>14 DEF CloseBegins
  <1>15. CASE LastSync BY <1>15 DEF LastSync
  <1>16. CASE Looks BY <1>16 DEF Looks
  <1>17. CASE Marks BY <1>17 DEF Marks
  <1>18. CASE LeavesRecheck BY <1>18, SlipStep DEF LeavesRecheck
  <1>19. CASE Keeps BY <1>19 DEF Keeps
  <1>20. CASE KeepsUnmarked BY <1>20, SlipStep DEF KeepsUnmarked
  <1>21. CASE ClosesNow BY <1>21, SlipStep DEF ClosesNow
  <1>22. CASE Dies BY <1>22, SlipStep DEF Dies
  <1>23. CASE Wakes BY <1>23 DEF Wakes
  <1>24. CASE ShutsDown BY <1>24 DEF ShutsDown
  <1>25. CASE StopsContainers BY <1>25 DEF StopsContainers
  <1>26. CASE Rechecks BY <1>26 DEF Rechecks
  <1>27. CASE Unmarks BY <1>27 DEF Unmarks
  <1>28. CASE RecheckRemoves BY <1>28, SlipStep DEF RecheckRemoves
  <1>29. CASE RecheckTimesOut BY <1>29 DEF RecheckTimesOut
  <1>30. CASE Lists BY <1>30 DEF Lists
  <1>31. CASE Judges BY <1>31 DEF Judges, MayClear, Unconfirmed
  <1>32. CASE Destroys BY <1>32 DEF Destroys
  <1>33. CASE UNCHANGED vars BY <1>33 DEF vars
  <1>. QED
    BY <1>1, <1>2, <1>3, <1>4, <1>5, <1>6, <1>7, <1>8, <1>9, <1>10, <1>11, <1>12, <1>13,
       <1>14, <1>15, <1>16, <1>17, <1>18, <1>19, <1>20, <1>21, <1>22, <1>23, <1>24,
       <1>25, <1>26, <1>27, <1>28, <1>29, <1>30, <1>31, <1>32, <1>33 DEF Next

\* Every step leaves the sleeper where a window has put it.
LEMMA WindowStep == WindowInv /\ [Next]_vars => WindowInv'
  <1>. SUFFICES ASSUME WindowInv, [Next]_vars, TypeOK' PROVE WindowInv'
    BY TypeStep DEF WindowInv
  <1>. USE DEF WindowInv, windowVars, sleeperVars, WindowTo, SleeperTo, CheckEnds, Closing
  <1>1. CASE \E w \in Work : Writes(w) BY <1>1 DEF Writes
  <1>2. CASE GoesOff BY <1>2 DEF GoesOff
  <1>3. CASE HostRestarts BY <1>3 DEF HostRestarts
  <1>4. CASE Opens BY <1>4 DEF Opens
  <1>5. CASE MakesVm BY <1>5 DEF MakesVm
  <1>6. CASE NotesReturn BY <1>6 DEF NotesReturn
  <1>7. CASE WithdrawsRecheck BY <1>7 DEF WithdrawsRecheck
  <1>8. CASE WithdrawsMarker BY <1>8 DEF WithdrawsMarker
  <1>9. CASE CancelsShutdown BY <1>9 DEF CancelsShutdown
  <1>10. CASE BringsUp BY <1>10 DEF BringsUp
  <1>11. CASE BringsUpAgain BY <1>11 DEF BringsUpAgain
  <1>12. CASE Places BY <1>12 DEF Places
  <1>13. CASE Syncs BY <1>13 DEF Syncs
  <1>14. CASE CloseBegins BY <1>14 DEF CloseBegins
  <1>15. CASE LastSync BY <1>15 DEF LastSync
  <1>16. CASE Looks BY <1>16 DEF Looks
  <1>17. CASE Marks BY <1>17 DEF Marks
  <1>18. CASE LeavesRecheck BY <1>18 DEF LeavesRecheck
  <1>19. CASE Keeps BY <1>19 DEF Keeps
  <1>20. CASE KeepsUnmarked BY <1>20 DEF KeepsUnmarked
  <1>21. CASE ClosesNow BY <1>21 DEF ClosesNow
  <1>22. CASE Dies BY <1>22 DEF Dies
  <1>23. CASE Wakes BY <1>23 DEF Wakes
  <1>24. CASE ShutsDown BY <1>24 DEF ShutsDown
  <1>25. CASE StopsContainers BY <1>25 DEF StopsContainers
  <1>26. CASE Rechecks BY <1>26 DEF Rechecks
  <1>27. CASE Unmarks BY <1>27 DEF Unmarks
  <1>28. CASE RecheckRemoves BY <1>28 DEF RecheckRemoves
  <1>29. CASE RecheckTimesOut BY <1>29 DEF RecheckTimesOut
  <1>30. CASE Lists BY <1>30 DEF Lists
  <1>31. CASE Judges BY <1>31 DEF Judges
  <1>32. CASE Destroys BY <1>32 DEF Destroys
  <1>33. CASE UNCHANGED vars BY <1>33 DEF vars
  <1>. QED
    BY <1>1, <1>2, <1>3, <1>4, <1>5, <1>6, <1>7, <1>8, <1>9, <1>10, <1>11, <1>12, <1>13,
       <1>14, <1>15, <1>16, <1>17, <1>18, <1>19, <1>20, <1>21, <1>22, <1>23, <1>24,
       <1>25, <1>26, <1>27, <1>28, <1>29, <1>30, <1>31, <1>32, <1>33 DEF Next

-----------------------------------------------------------------------------
\* The inductive invariant holds throughout.
THEOREM Invariance == ASSUME Budget["slip"] = 0 PROVE Spec => []IInv
  <1>1. Init => IInv
    BY InitIInv
  <1>2. IInv /\ [Next]_vars => IInv'
    <2>. SUFFICES ASSUME IInv, [Next]_vars PROVE IInv'
      OBVIOUS
    <2>1. TypeOK'
      BY TypeStep DEF IInv
    <2>. QED
      BY <2>1, InvStep DEF IInv
  <1>. QED
    BY <1>1, <1>2, PTL DEF Spec

\* The types.
THEOREM TypeCorrect == Spec => []TypeOK
  <1>1. Init => TypeOK
    BY InitWindowInv DEF WindowInv
  <1>. QED
    BY <1>1, TypeStep, PTL DEF Spec

\* Nothing is removed, or replaced by the folder, that this machine lacks,
\* but by a marker still to be confirmed or one withdrawn meanwhile
\* (disposable.rs: may_clear, look_and_mark, take_clean_return), while no
\* marker loses its re-check on the way.
THEOREM NothingIsLost == ASSUME Budget["slip"] = 0 PROVE Spec => []NothingLost
  <1>1. IInv => NothingLost
    BY DEF IInv
  <1>. QED
    BY Invariance, <1>1, PTL

\* A marker whose re-check has been is true (disposable.rs: recheck_text),
\* while no marker loses its re-check on the way.
THEOREM ConfirmedMarkersAreTrue == ASSUME Budget["slip"] = 0 PROVE Spec => []ConfirmedIsTrue
  <1>1. IInv => ConfirmedIsTrue
    BY DEF IInv, MarkInv, ConfirmedIsTrue, Quiet
  <1>. QED
    BY Invariance, <1>1, PTL

\* A deferred shutdown never stops the VM under a window that cancelled it
\* (provision.rs: cancel_deferred_shutdown).
THEOREM NeverUnderAWindow == Spec => NotUnderAWindow
  <1>1. WindowInv /\ [Next]_vars => [ShutsDown => window \notin {"cancelled", "up", "open"}]_vars
    BY DEF WindowInv, ShutsDown, SleeperTo
  <1>. QED
    BY InitWindowInv, WindowStep, <1>1, PTL DEF Spec, NotUnderAWindow
=============================================================================
