---------------------------- MODULE FTimerProofs ----------------------------
(***************************************************************************)
(* Proofs about FTimer, for every width of the tick counter, every backlog *)
(* of expirations and with or without FTIMER_COMPENSATE_MISSES: the type   *)
(* invariant, that a pause quiesces the timer, that no wakeup is lost, and *)
(* what the client's destroy finds.                                        *)
(***************************************************************************)
EXTENDS FTimer, TLAPS

(* Who holds control_mutex; a worker that has returned still does.         *)
LockHeld ==
  cpc # "none" => (control_locked <=> wpc \in {"gate", "park", "exit", "returned"})

(* paused tells exactly whether the worker is in its paused block.         *)
PausedIsParked == paused <=> Parked

(* From the moment a client asks for a pause to its next unpause, pausing  *)
(* stays set, and once it has seen paused, so does paused.                 *)
PauseHolds ==
  /\ cpc \in {"paused_test", "paused_sleep", "quiet"} => pausing
  /\ cpc = "quiet" => paused

(* Without a timer there is no worker; in a turn there is a callback due.  *)
NoTimer == cpc = "none" => wpc = "returned"
InTurn  == wpc \in {"cb", "count"} => exp > 0

(* The inductive invariant.                                                *)
IInv == /\ TypeOK /\ LockHeld /\ PausedIsParked /\ PauseHolds /\ NoLostWakeup
        /\ NoTimer /\ InTurn

LEMMA IncrementType ==
  ASSUME NEW n \in -IntMax - 1 .. IntMax
  PROVE  Increment(n) \in -IntMax - 1 .. IntMax
<1>1. IntMax \in Nat /\ -IntMax - 1 \in Int /\ -IntMax - 1 <= IntMax
  BY TimerAssumption
<1>2. CASE n = IntMax
  BY <1>1, <1>2 DEF Increment
<1>3. CASE n # IntMax
  BY <1>1, <1>3 DEF Increment
<1>4. QED
  BY <1>2, <1>3

LEMMA ZeroTypes == 0 \in -IntMax - 1 .. IntMax /\ 0 \in 0 .. MaxExp
  BY TimerAssumption

LEMMA InitIInv == Init => IInv
<1> SUFFICES ASSUME Init PROVE IInv
  OBVIOUS
<1>1. TypeOK
  BY ZeroTypes DEF Init, TypeOK, WorkerPC, ClientPC
<1>2. LockHeld /\ PausedIsParked /\ PauseHolds /\ NoLostWakeup /\ NoTimer /\ InTurn
  BY DEF Init, LockHeld, PausedIsParked, PauseHolds, NoLostWakeup, NoTimer, InTurn, Parked
<1>3. QED
  BY <1>1, <1>2 DEF IInv

(* The steps of the worker thread.                                         *)
LEMMA WorkerStepIInv == IInv /\ (Worker \/ WorkerSpuriousWakeup) => IInv'
<1> SUFFICES ASSUME IInv, Worker \/ WorkerSpuriousWakeup
             PROVE  IInv'
  OBVIOUS
<1> USE TimerAssumption DEF IInv, TypeOK, LockHeld, PausedIsParked, PauseHolds,
        NoLostWakeup, NoTimer, InTurn, Parked, WorkerPC, ClientPC
<1>1. CASE Lock BY <1>1 DEF Lock
<1>2. CASE Gate BY <1>2 DEF Gate
<1>3. CASE Park BY <1>3 DEF Park
<1>4. CASE Relock BY <1>4 DEF Relock
<1>5. CASE Unpark BY <1>5 DEF Unpark
<1>6. CASE Return BY <1>6 DEF Return
<1>7. CASE Proceed BY <1>7 DEF Proceed
<1>8. CASE Read BY <1>8 DEF Read
<1>9. CASE Callback BY <1>9 DEF Callback
<1>10. CASE Count
  <2>1. outstanding_ticks' \in -IntMax - 1 .. IntMax
    BY <1>10, IncrementType DEF Count
  <2>2. exp' \in 0 .. MaxExp
    BY <1>10 DEF Count, Again
  <2>3. InTurn'
    BY <1>10 DEF Count, Again
  <2>4. QED
    BY <1>10, <2>1, <2>2, <2>3 DEF Count
<1>11. CASE WorkerSpuriousWakeup BY <1>11 DEF WorkerSpuriousWakeup
<1>12. QED
  BY <1>1, <1>2, <1>3, <1>4, <1>5, <1>6, <1>7, <1>8, <1>9, <1>10, <1>11 DEF Worker, Loop

(* The steps of the kernel and of the client thread.                       *)
LEMMA StepIInv == IInv /\ [Next]_vars => IInv'
<1> SUFFICES ASSUME IInv, [Next]_vars
             PROVE  IInv'
  OBVIOUS
<1> USE TimerAssumption DEF IInv, TypeOK, LockHeld, PausedIsParked, PauseHolds,
        NoLostWakeup, NoTimer, InTurn, Parked, WorkerPC, ClientPC
<1>1. CASE Worker \/ WorkerSpuriousWakeup BY <1>1, WorkerStepIInv
<1>2. CASE Tick BY <1>2 DEF Tick
<1>3. ASSUME NEW p \in BOOLEAN, Create(p) PROVE IInv'
  <2>1. TypeOK'
    BY <1>3, ZeroTypes DEF Create
  <2>2. LockHeld' /\ PausedIsParked' /\ PauseHolds'
    BY <1>3 DEF Create
  <2>3. NoLostWakeup' /\ NoTimer' /\ InTurn'
    BY <1>3 DEF Create
  <2>4. QED
    BY <2>1, <2>2, <2>3
<1>4. ASSUME NEW w \in BOOLEAN, Pause(w) PROVE IInv' BY <1>4 DEF Pause
<1>5. CASE AwaitPaused BY <1>5 DEF AwaitPaused
<1>6. CASE Unpause BY <1>6 DEF Unpause, ClearPausing
<1>7. CASE Wait BY <1>7 DEF Wait
<1>8. CASE TakeTick BY <1>8 DEF TakeTick
<1>9. CASE ClientSpuriousWakeup BY <1>9 DEF ClientSpuriousWakeup
<1>10. CASE Destroy BY <1>10 DEF Destroy, ClearPausing
<1>11. CASE Exit BY <1>11 DEF Exit, SetExiting
<1>12. CASE Join BY <1>12 DEF Join
<1>13. CASE UNCHANGED vars BY <1>13 DEF vars
<1>14. QED
  BY <1>1, <1>2, <1>3, <1>4, <1>5, <1>6, <1>7, <1>8, <1>9, <1>10, <1>11, <1>12, <1>13
     DEF Next

(* IInv is an invariant: the strengthening every theorem below rests on.   *)
LEMMA Invariance == Spec => []IInv
  BY InitIInv, StepIInv, PTL DEF Spec

(* Every variable keeps its type, the tick counter the width of an int.    *)
THEOREM TypeCorrect == Spec => []TypeOK
<1>1. IInv => TypeOK
  BY DEF IInv
<1>2. QED
  BY <1>1, Invariance, PTL

(* After ftimer_pause(timer, true) no callback runs until the unpause.     *)
THEOREM PausesQuiesce == Spec => []PauseQuiesces
<1>1. IInv => PauseQuiesces
  BY DEF IInv, PauseHolds, PausedIsParked, PauseQuiesces
<1>2. QED
  BY <1>1, Invariance, PTL

(* None of the three condition variables loses a wakeup.                   *)
THEOREM NoWakeupIsLost == Spec => []NoLostWakeup
<1>1. IInv => NoLostWakeup
  BY DEF IInv
<1>2. QED
  BY <1>1, Invariance, PTL

(* The worker's steps under the refinement mapping: the locks' are         *)
(* stutters, the tests of pausing and the callback's return are not.       *)
LEMMA WorkerRefines ==
  ASSUME IInv, Worker \/ WorkerSpuriousWakeup
  PROVE  [Pausable!Next]_(Pausable!vars)
<1> USE TimerAssumption
    DEF IInv, TypeOK, InTurn, Parked, WorkerIs, CallbacksLeft, Again, Pausable!vars, Pausable!Next
<1>1. CASE Lock BY <1>1 DEF Lock
<1>2. CASE Gate BY <1>2 DEF Gate, Pausable!Park, Pausable!Go
<1>3. CASE Park BY <1>3 DEF Park
<1>4. CASE Relock BY <1>4 DEF Relock
<1>5. CASE Unpark BY <1>5 DEF Unpark, Pausable!Go
<1>6. CASE Return BY <1>6 DEF Return
<1>7. CASE Proceed BY <1>7 DEF Proceed
<1>8. CASE Read BY <1>8 DEF Read, Pausable!Read
<1>9. CASE Callback BY <1>9 DEF Callback, Pausable!Return
<1>10. CASE Count BY <1>10 DEF Count
<1>11. CASE WorkerSpuriousWakeup BY <1>11 DEF WorkerSpuriousWakeup
<1>12. QED
  BY <1>1, <1>2, <1>3, <1>4, <1>5, <1>6, <1>7, <1>8, <1>9, <1>10, <1>11 DEF Worker, Loop

LEMMA StepRefines ==
  ASSUME IInv, [Next]_vars
  PROVE  [Pausable!Next]_(Pausable!vars)
<1> USE TimerAssumption
    DEF IInv, TypeOK, LockHeld, NoTimer, Parked, WorkerIs, CallbacksLeft, Again,
        Pausable!vars, Pausable!Next
<1>1. CASE Worker \/ WorkerSpuriousWakeup BY <1>1, WorkerRefines
<1>2. CASE Tick BY <1>2 DEF Tick, Pausable!Tick
<1>3. ASSUME NEW p \in BOOLEAN, Create(p) PROVE [Pausable!Next]_(Pausable!vars)
  BY <1>3 DEF Create, Pausable!Create
<1>4. ASSUME NEW w \in BOOLEAN, Pause(w) PROVE [Pausable!Next]_(Pausable!vars)
  BY <1>4 DEF Pause, Pausable!SetPausing
<1>5. CASE Unpause BY <1>5 DEF Unpause, ClearPausing, Pausable!SetPausing
<1>6. CASE Destroy BY <1>6 DEF Destroy, ClearPausing, Pausable!SetPausing
<1>7. CASE Exit BY <1>7 DEF Exit, SetExiting, Pausable!SetExiting
<1>8. CASE AwaitPaused \/ Wait \/ TakeTick \/ ClientSpuriousWakeup \/ Join
  <2>1. UNCHANGED <<pausing, exiting, expirations, exp, wpc>>
    BY <1>8 DEF AwaitPaused, Wait, TakeTick, ClientSpuriousWakeup, Join
  <2>2. QED
    BY <2>1
<1>9. CASE UNCHANGED vars BY <1>9 DEF vars
<1>10. QED
  BY <1>1, <1>2, <1>3, <1>4, <1>5, <1>6, <1>7, <1>8, <1>9 DEF Next

(* The timer is a pausable timer, the safety part of PausableSpec.         *)
THEOREM ImplementsPausable == Spec => Pausable!Spec
<1>1. Init => Pausable!Init
  BY DEF Init, WorkerIs, CallbacksLeft, Parked, Pausable!Init
<1>2. QED
  BY <1>1, StepRefines, Invariance, PTL DEF Spec, Pausable!Spec
=============================================================================
