----------------------------- MODULE CpuSpinner -----------------------------
(***************************************************************************)
(* cpu_spinner.c: one worker thread per core, which spins while its bit of *)
(* active_cores is set and sleeps on a condition variable otherwise.  One  *)
(* thread at a time calls cpu_spinner_spin (a timer's callback, or the     *)
(* main thread when no callback can run); the main thread creates and      *)
(* destroys the workers.  Both are the "caller" here.                      *)
(*                                                                         *)
(* The workers' mutex does not guard everything they wait for: a falling   *)
(* edge of active_cores and shutdown_req are stored without it.  So a      *)
(* worker's test, its sleep and its unlock are steps of their own; a       *)
(* critical section of the caller is one step.                             *)
(***************************************************************************)
EXTENDS Naturals

CONSTANTS
  NumCores,    \* num_cores
  MaskWidth    \* bits in active_cores: 64

ASSUME CoresAssumption == NumCores \in Nat \ {0} /\ MaskWidth \in Nat \ {0}

Core == 0 .. NumCores - 1
Mask == SUBSET (0 .. MaskWidth - 1)

VARIABLES
  active_cores,   \* the bits set
  shutdown_req,   \* worker_args[i].shutdown_req
  locked,         \* a worker holds the mutex
  wpc,            \* where worker i is, see WorkerPC
  cpc,            \* where the caller is, see CallerPC
  core            \* the core the caller's loop is at

vars == <<active_cores, shutdown_req, locked, wpc, cpc, core>>

(***************************************************************************)
(* "none"   not created            "enter"  about to lock the mutex         *)
(* "test"   tests the loop's condition      "wait"  decided to sleep        *)
(* "asleep" in pthread_cond_wait   "leave"  decided to go on, to unlock     *)
(* "spin"   in the kernel loop     "done"   the thread ended                *)
(***************************************************************************)
WorkerPC == {"none", "enter", "test", "wait", "asleep", "leave", "spin", "done"}

(***************************************************************************)
(* "create"  in cpu_spinner_init    "run"   between calls                   *)
(* "kill"    shutdown_worker starts  "wake"  to broadcast   "join"          *)
(* "end"     destroyed, or cpu_spinner_init has failed                      *)
(***************************************************************************)
CallerPC == {"create", "run", "kill", "wake", "join", "end"}

(* CPU_SPINNER_CORE_MASK and CPU_SPINNER_N_CORES_ACTIVE, shifts as x86     *)
(* does them: modulo the width of the operand.                             *)
Bit(i) == i % MaskWidth

NCoresActive(n) == {b \in 0 .. MaskWidth - 1 : b < n % MaskWidth}

AllCoresActive == 0 .. MaskWidth - 1

Init == /\ active_cores = {}
        /\ shutdown_req = [i \in Core |-> FALSE]
        /\ locked = FALSE
        /\ wpc = [i \in Core |-> "none"]
        /\ cpc = "create" /\ core = 0
-----------------------------------------------------------------------------
(* worker(): *args->sig & CPU_SPINNER_CORE_MASK(core_id), and not shutdown *)
Active(i) == Bit(i) \in active_cores

Go(i, from, to) == wpc[i] = from /\ wpc' = [wpc EXCEPT ![i] = to]

Enter(i) ==
  /\ Go(i, "enter", "test")
  /\ ~locked /\ locked' = TRUE
  /\ UNCHANGED <<active_cores, shutdown_req, cpc, core>>

Test(i) ==
  /\ Go(i, "test", IF ~Active(i) /\ ~shutdown_req[i] THEN "wait" ELSE "leave")
  /\ UNCHANGED <<active_cores, shutdown_req, locked, cpc, core>>

(* pthread_cond_wait: releases the mutex and sleeps, in one step.          *)
Sleep(i) ==
  /\ Go(i, "wait", "asleep")
  /\ locked' = FALSE
  /\ UNCHANGED <<active_cores, shutdown_req, cpc, core>>

(* A worker that was woken takes the mutex and tests again.                *)
SpuriousWakeup(i) ==
  /\ Go(i, "asleep", "enter")
  /\ UNCHANGED <<active_cores, shutdown_req, locked, cpc, core>>

Leave(i) ==
  /\ Go(i, "leave", "spin")
  /\ locked' = FALSE
  /\ UNCHANGED <<active_cores, shutdown_req, cpc, core>>

(* Fault variant of StopSpinning: the kernel loop tests only shutdown_req. *)
StopOnShutdownOnly(i) ==
  /\ shutdown_req[i] /\ Go(i, "spin", "done")
  /\ UNCHANGED <<active_cores, shutdown_req, locked, cpc, core>>

(* The kernel loop and what follows it, when its condition is found false. *)
StopSpinning(i) ==
  /\ \/ shutdown_req[i] /\ Go(i, "spin", "done")
     \/ ~shutdown_req[i] /\ ~Active(i) /\ Go(i, "spin", "enter")
  /\ UNCHANGED <<active_cores, shutdown_req, locked, cpc, core>>

Worker(i) == Enter(i) \/ Test(i) \/ Sleep(i) \/ Leave(i) \/ StopSpinning(i)
-----------------------------------------------------------------------------
(* pthread_create, for one core after the other *)
Create ==
  /\ cpc = "create"
  /\ wpc' = [wpc EXCEPT ![core] = "enter"]
  /\ IF core + 1 = NumCores THEN cpc' = "run" /\ core' = 0
                            ELSE cpc' = "create" /\ core' = core + 1
  /\ UNCHANGED <<active_cores, shutdown_req, locked>>

(* It fails: the workers created before are shut down, the last one first. *)
CreateFails ==
  /\ cpc = "create"
  /\ IF core = 0 THEN cpc' = "end" /\ UNCHANGED core
                 ELSE cpc' = "kill" /\ core' = core - 1
  /\ UNCHANGED <<active_cores, shutdown_req, locked, wpc>>

Rising(m)  == \E i \in Core : ~Active(i) /\ Bit(i) \in m
Falling(m) == \E i \in Core : Active(i) /\ Bit(i) \notin m

(* cpu_spinner_spin without a rising edge: a bare store, if there is any   *)
(* edge at all.                                                            *)
SpinFalling(m) ==
  /\ cpc = "run" /\ ~Rising(m)
  /\ active_cores' = IF Falling(m) THEN m ELSE active_cores
  /\ UNCHANGED <<shutdown_req, locked, wpc, cpc, core>>

WakeAll == wpc' = [i \in Core |-> IF wpc[i] = "asleep" THEN "enter" ELSE wpc[i]]

(* Fault variants of SpinRising: the mask is stored and broadcast without  *)
(* the mutex, and nobody is woken.                                         *)
SpinRisingUnlocked(m) ==
  /\ cpc = "run" /\ Rising(m)
  /\ active_cores' = m
  /\ WakeAll
  /\ UNCHANGED <<shutdown_req, locked, cpc, core>>

SpinRisingSilently(m) ==
  /\ cpc = "run" /\ Rising(m)
  /\ ~locked
  /\ active_cores' = m
  /\ UNCHANGED <<shutdown_req, locked, wpc, cpc, core>>

(* cpu_spinner_spin with a rising edge: the store and the broadcast under  *)
(* the mutex, which it then releases.                                      *)
SpinRising(m) ==
  /\ cpc = "run" /\ Rising(m)
  /\ ~locked
  /\ active_cores' = m
  /\ WakeAll
  /\ UNCHANGED <<shutdown_req, locked, cpc, core>>

(* cpu_spinner_destroy starts: shutdown_worker for core 0.                 *)
Destroy ==
  /\ cpc = "run"
  /\ cpc' = "kill" /\ core' = 0
  /\ UNCHANGED <<active_cores, shutdown_req, locked, wpc>>

(* shutdown_worker: the flag is stored without the mutex ...               *)
Kill ==
  /\ cpc = "kill"
  /\ shutdown_req' = [shutdown_req EXCEPT ![core] = TRUE]
  /\ cpc' = "wake"
  /\ UNCHANGED <<active_cores, locked, wpc, core>>

(* Fault variant of Wake: the broadcast does not take the mutex.           *)
WakeUnlocked ==
  /\ cpc = "wake"
  /\ WakeAll
  /\ cpc' = "join"
  /\ UNCHANGED <<active_cores, shutdown_req, locked, core>>

(* ... then a broadcast under the mutex, in one step ...                   *)
Wake ==
  /\ cpc = "wake" /\ ~locked
  /\ WakeAll
  /\ cpc' = "join"
  /\ UNCHANGED <<active_cores, shutdown_req, locked, core>>

(* The cores still to be shut down after core i: upwards in                *)
(* cpu_spinner_destroy, downwards after a failed pthread_create.           *)
Created == {i \in Core : wpc[i] # "none"}
Left    == {i \in Created : ~shutdown_req[i]}

Join ==
  /\ cpc = "join" /\ wpc[core] = "done"
  /\ IF Left = {} THEN cpc' = "end" /\ UNCHANGED core
     ELSE /\ cpc' = "kill"
          /\ core' = IF Created = Core THEN core + 1 ELSE core - 1
  /\ UNCHANGED <<active_cores, shutdown_req, locked, wpc>>

(* What the callers ask for: a number of cores, all cores, or none.        *)
Requests == {NCoresActive(n) : n \in 0 .. NumCores} \cup {AllCoresActive, {}}

CallerStep ==
  \/ Create \/ Kill \/ Wake \/ Join
  \/ CreateFails \/ Destroy
  \/ \E m \in Requests : SpinFalling(m) \/ SpinRising(m)

Next == CallerStep \/ \E i \in Core : Worker(i) \/ SpuriousWakeup(i)

Spec == Init /\ [][Next]_vars

(***************************************************************************)
(* Every worker has a core of its own and runs; taking the mutex needs     *)
(* strong fairness, as other workers may take it in between.  The caller   *)
(* finishes the calls it has begun.                                        *)
(***************************************************************************)
FairSpec ==
  /\ Spec
  /\ \A i \in Core : WF_vars(Worker(i)) /\ SF_vars(Enter(i))
  /\ WF_vars(Kill \/ Join) /\ SF_vars(Wake)
-----------------------------------------------------------------------------
TypeOK ==
  /\ active_cores \in Mask
  /\ shutdown_req \in [Core -> BOOLEAN]
  /\ locked \in BOOLEAN
  /\ wpc \in [Core -> WorkerPC]
  /\ cpc \in CallerPC
  /\ core \in Core

(* A worker that sleeps, or has decided to, has nothing to do: its bit is  *)
(* not set, and if it was told to shut down the broadcast is still to      *)
(* come.  This rests on rising edges, but not falling ones, taking the     *)
(* mutex, and on shutdown_worker storing the flag before it does.          *)
NoLostWakeup ==
  \A i \in Core :
    wpc[i] \in {"wait", "asleep"} =>
      /\ ~Active(i)
      /\ shutdown_req[i] => cpc = "wake" /\ core = i

(* A core that is switched on spins, unless it is switched off again or    *)
(* shut down first.                                                        *)
SwitchedOnSpins ==
  \A i \in Core :
    (Active(i) /\ wpc[i] # "none") ~> (wpc[i] = "spin" \/ ~Active(i) \/ shutdown_req[i])

(* A core that is switched off stops spinning, although nobody wakes it.   *)
SwitchedOffSleeps ==
  \A i \in Core :
    (~Active(i) /\ wpc[i] = "spin") ~> (wpc[i] = "asleep" \/ Active(i) \/ shutdown_req[i])

(* cpu_spinner_destroy returns, and so does the clean-up after a failed    *)
(* pthread_create, whatever the workers are doing and whichever cores are  *)
(* on.                                                                     *)
DestroyReturns == (cpc = "kill") ~> (cpc = "end")
=============================================================================
