-------------------------- MODULE CpuSpinnerProofs --------------------------
(***************************************************************************)
(* Proofs about CpuSpinner, for every number of cores and every width of   *)
(* the mask, failing thread creation included: the type invariant, and     *)
(* that no worker sleeps through a request.                                *)
(***************************************************************************)
EXTENDS CpuSpinner, TLAPS

(* Between the lock and the unlock of worker().                            *)
InSection(i) == wpc[i] \in {"test", "wait", "leave"}

MutexHeld ==
  /\ \A i \in Core : InSection(i) => locked
  /\ \A i, j \in Core : InSection(i) /\ InSection(j) => i = j

(* How far cpu_spinner_init has come, and that it is over.                 *)
CreateOrder ==
  /\ cpc = "create" => \A i \in Core : (wpc[i] # "none" <=> i < core)
  /\ cpc = "run" => Created = Core

(* How far the caller's loop over shutdown_worker has come.                *)
ShutdownOrder ==
  /\ cpc \in {"kill", "wake", "join"} =>
       IF Created = Core THEN \A i \in Core : i < core => shutdown_req[i]
                         ELSE \A i \in Created : i > core => shutdown_req[i]
  /\ cpc \in {"wake", "join"} => shutdown_req[core]
  /\ cpc \in {"create", "run"} => \A i \in Core : ~shutdown_req[i]

(* The inductive invariant.                                                *)
IInv == TypeOK /\ MutexHeld /\ NoLostWakeup /\ CreateOrder /\ ShutdownOrder

LEMMA InitIInv == Init => IInv
<1> SUFFICES ASSUME Init PROVE IInv
  OBVIOUS
<1>1. 0 \in Core
  BY CoresAssumption DEF Core
<1>2. TypeOK
  BY <1>1 DEF Init, TypeOK, Mask, WorkerPC, CallerPC
<1>3. MutexHeld /\ NoLostWakeup /\ CreateOrder /\ ShutdownOrder
  BY DEF Init, MutexHeld, InSection, NoLostWakeup, CreateOrder, ShutdownOrder, Core
<1>4. QED
  BY <1>2, <1>3 DEF IInv

(* A step of worker k leaves the other workers and the caller alone.       *)
LEMMA WorkerStepIInv ==
  ASSUME IInv, NEW k \in Core, Worker(k) \/ SpuriousWakeup(k)
  PROVE  IInv'
<1> USE DEF IInv, TypeOK, WorkerPC
<1>1. /\ wpc' \in [Core -> WorkerPC]
      /\ wpc[k] # "none" /\ wpc'[k] # "none"
      /\ \A i \in Core : i # k => wpc'[i] = wpc[i]
      /\ UNCHANGED <<active_cores, shutdown_req, cpc, core>>
  BY DEF Worker, Enter, Test, Sleep, Leave, StopSpinning, SpuriousWakeup, Go
<1>2. TypeOK'
  BY <1>1 DEF Worker, Enter, Test, Sleep, Leave, StopSpinning, SpuriousWakeup
<1>3. MutexHeld'
  BY <1>1 DEF MutexHeld, InSection, Worker, Enter, Test, Sleep, Leave, StopSpinning,
              SpuriousWakeup, Go
<1>4. NoLostWakeup'
  <2>1. wpc'[k] \in {"wait", "asleep"} =>
          ~Active(k) /\ (shutdown_req[k] => cpc = "wake" /\ core = k)
    BY <1>1 DEF NoLostWakeup, Worker, Enter, Test, Sleep, Leave, StopSpinning,
                SpuriousWakeup, Go
  <2>2. QED
    BY <1>1, <2>1 DEF NoLostWakeup, Active
<1>5. Created' = Created
  BY <1>1 DEF Created
<1>6. CreateOrder' /\ ShutdownOrder'
  BY <1>1, <1>5 DEF CreateOrder, ShutdownOrder
<1>7. QED
  BY <1>2, <1>3, <1>4, <1>6

LEMMA CallerStepIInv ==
  ASSUME IInv, CallerStep
  PROVE  IInv'
<1> USE DEF IInv, TypeOK, WorkerPC, CallerPC
<1> USE CoresAssumption
<1>1. CASE Create
  <2>1. /\ wpc' = [wpc EXCEPT ![core] = "enter"]
        /\ core \in Core /\ cpc = "create"
        /\ UNCHANGED <<active_cores, shutdown_req, locked>>
    BY <1>1 DEF Create
  <2>2. core + 1 # NumCores => core' = core + 1 /\ cpc' = "create" /\ core + 1 \in Core
    BY <1>1 DEF Create, Core
  <2>3. core + 1 = NumCores => core' = 0 /\ cpc' = "run" /\ 0 \in Core
    BY <1>1 DEF Create, Core
  <2>4. TypeOK'
    BY <2>1, <2>2, <2>3
  <2>5. MutexHeld' /\ NoLostWakeup'
    BY <2>1 DEF MutexHeld, InSection, NoLostWakeup, Active, ShutdownOrder
  <2>6. \A i \in Core : i < core => i < core + 1
    BY DEF Core
  <2>7. CreateOrder'
    <3>1. CASE core + 1 = NumCores
      <4> SUFFICES ASSUME NEW i \in Core PROVE wpc'[i] # "none"
        BY <2>3, <3>1 DEF CreateOrder, Created
      <4>1. QED
        BY <2>1, <3>1 DEF CreateOrder, Core
    <3>2. CASE core + 1 # NumCores
      BY <2>1, <2>2, <2>6, <3>2 DEF CreateOrder, Core
    <3>3. QED BY <3>1, <3>2
  <2>8. ShutdownOrder'
    BY <2>1, <2>2, <2>3 DEF ShutdownOrder
  <2>9. QED
    BY <2>4, <2>5, <2>7, <2>8
<1>2. CASE CreateFails
  BY <1>2 DEF CreateFails, MutexHeld, InSection, NoLostWakeup, Active, CreateOrder,
              ShutdownOrder, Created, Core
<1>3. CASE Destroy
  BY <1>3 DEF Destroy, MutexHeld, InSection, NoLostWakeup, Active, CreateOrder,
              ShutdownOrder, Created, Core
<1>4. CASE Kill
  BY <1>4 DEF Kill, MutexHeld, InSection, NoLostWakeup, Active, CreateOrder,
              ShutdownOrder, Created
<1>5. CASE Wake
  BY <1>5 DEF Wake, WakeAll, MutexHeld, InSection, NoLostWakeup, Active, CreateOrder,
              ShutdownOrder, Created
<1>6. CASE Join
  <2>1. core \in Created /\ shutdown_req[core]
    BY <1>6 DEF Join, Created, ShutdownOrder
  <2>2. CASE Left = {}
    BY <1>6, <2>2 DEF Join, MutexHeld, InSection, NoLostWakeup, Active, CreateOrder,
                      ShutdownOrder
  <2>3. CASE Left # {}
    <3>1. PICK j \in Created : ~shutdown_req[j]
      BY <2>3 DEF Left
    <3>2. Created = Core => core' = core + 1 /\ core < j
      BY <1>6, <2>1, <2>3, <3>1 DEF Join, ShutdownOrder, Core
    <3>3. Created # Core => core' = core - 1 /\ j < core
      BY <1>6, <2>1, <2>3, <3>1 DEF Join, ShutdownOrder, Core, Created
    <3>4. core' \in Core
      BY <3>1, <3>2, <3>3 DEF Core, Created
    <3>5. Created' = Created
      BY <1>6 DEF Join, Created
    <3>6. ShutdownOrder'
      BY <1>6, <2>1, <2>3, <3>2, <3>3, <3>5 DEF Join, ShutdownOrder, Core, Created
    <3>7. QED
      BY <1>6, <2>3, <3>4, <3>6 DEF Join, MutexHeld, InSection, NoLostWakeup, Active,
                                    CreateOrder
  <2>4. QED BY <2>2, <2>3
<1>7. ASSUME NEW m \in Requests, SpinFalling(m) PROVE IInv'
  BY <1>7 DEF SpinFalling, Falling, Rising, Requests, NCoresActive, AllCoresActive, Mask,
              MutexHeld, InSection, NoLostWakeup, Active, CreateOrder, ShutdownOrder, Created
<1>8. ASSUME NEW m \in Requests, SpinRising(m) PROVE IInv'
  BY <1>8 DEF SpinRising, WakeAll, Requests, NCoresActive, AllCoresActive, Mask,
              MutexHeld, InSection, NoLostWakeup, Active, CreateOrder, ShutdownOrder, Created
<1>9. QED
  BY <1>1, <1>2, <1>3, <1>4, <1>5, <1>6, <1>7, <1>8 DEF CallerStep

LEMMA StepIInv == IInv /\ [Next]_vars => IInv'
<1>1. IInv /\ UNCHANGED vars => IInv'
  BY DEF vars, IInv, TypeOK, MutexHeld, InSection, NoLostWakeup, Active, CreateOrder,
         ShutdownOrder, Created
<1>2. QED
  BY <1>1, WorkerStepIInv, CallerStepIInv DEF Next

(* IInv is an invariant: the strengthening every theorem below rests on.   *)
LEMMA Invariance == Spec => []IInv
  BY InitIInv, StepIInv, PTL DEF Spec

(* Every variable keeps its type; the caller's loops stay within the       *)
(* cores, also when pthread_create fails half way.                         *)
THEOREM TypeCorrect == Spec => []TypeOK
<1>1. IInv => TypeOK
  BY DEF IInv
<1>2. QED
  BY <1>1, Invariance, PTL

(* No worker sleeps although its core is switched on, or although it was   *)
(* told to shut down and the broadcast has gone out.                       *)
THEOREM NoWakeupIsLost == Spec => []NoLostWakeup
<1>1. IInv => NoLostWakeup
  BY DEF IInv
<1>2. QED
  BY <1>1, Invariance, PTL
=============================================================================
