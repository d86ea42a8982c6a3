--------------------------- MODULE ToneGenProofs ---------------------------
(***************************************************************************)
(* Proofs about ToneGen, for every number of tones, every backlog of       *)
(* expirations and both modulators.                                        *)
(***************************************************************************)
EXTENDS ToneGen, TLAPS

Destroying == cpc \in {"unpause", "exit", "join"}

(* A timer that runs no callback and cannot begin one: it is gone, or      *)
(* pausing is set and its worker is not past the test.                     *)
Quiet(i) == ~Running(i) /\ (worker[i] # "ended" => pausing[i])

(* Who may not run.                                                        *)
OthersQuiet == \A i \in Tone : i # Current => Quiet(i)
AllQuiet    == cpc \in {"switch", "silence", "unpause"} => \A i \in Tone : Quiet(i)

(* No tone is on outside the calls between start and stop; in ftimer_pause *)
(* the tone's timer has been asked to pause.                               *)
NoToneOn  == cpc \in {"none", "create", "silence"} \/ Destroying => freq_idx = NoTone
Requested == cpc = "pausing" => freq_idx # NoTone /\ pausing[freq_idx]

(* The timers that are not there: never created, not yet, or no more.      *)
Gone(i) == \/ i >= NFreqs \/ cpc = "none"
           \/ cpc = "create" /\ i >= k
           \/ Destroying /\ i < k

GoneEnded == \A i \in Tone : Gone(i) => worker[i] = "ended"

(* The loop index, a turn under way and the holder of status_mutex.        *)
LoopIndex  == k < NFreqs
InTurn     == \A i \in Tone : worker[i] = "calling" => left[i] > 0
OwnerCalls == status_owner # Nobody => worker[status_owner] = "calling"

(* The inductive invariant.                                                *)
IInv == /\ TypeOK /\ OthersQuiet /\ AllQuiet /\ NoToneOn /\ Requested /\ GoneEnded
        /\ LoopIndex /\ InTurn /\ OwnerCalls /\ SilentBeforeDestroy

LEMMA ConstantFacts ==
  /\ 0 \in Tone /\ Nobody \notin Tone /\ NoTone \notin Tone
  /\ 0 \in 0 .. MaxExp
  /\ modulator \in {"FSK", "DBPSK"} => NFreqs \in 1 .. NTones
  BY TonesAssumption DEF Tone, Nobody, NoTone, NFreqs

LEMMA InitIInv == Init => IInv
<1> SUFFICES ASSUME Init PROVE IInv
  OBVIOUS
<1> USE ConstantFacts, TonesAssumption DEF Init
<1>1. TypeOK
  BY DEF TypeOK, TimerPC, ClientPC
<1>2. OthersQuiet /\ AllQuiet /\ GoneEnded
  BY DEF OthersQuiet, AllQuiet, GoneEnded, Quiet, Running
<1>3. NoToneOn /\ Requested /\ LoopIndex /\ InTurn /\ OwnerCalls /\ SilentBeforeDestroy
  BY DEF NoToneOn, Requested, LoopIndex, InTurn, OwnerCalls, SilentBeforeDestroy
<1>4. QED
  BY <1>1, <1>2, <1>3 DEF IInv

(* A timer that is not quiet is the current one, or its worker is on its   *)
(* way to park; either way only its own entries change.                    *)
LEMMA TimerStepIInv ==
  ASSUME IInv, NEW i \in Tone, Tick(i) \/ TimerStep(i)
  PROVE  IInv'
<1> USE ConstantFacts, TonesAssumption DEF IInv, TimerOnly, output, client
<1>1. UNCHANGED <<modulator, client, pausing>>
  BY DEF TimerStep, Tick, Park, Go, Read, Toggle, Drive, timers
<1>2. TypeOK'
  <2> USE DEF TypeOK, TimerPC, timers
  <2>1. pending' \in [Tone -> 0 .. MaxExp] /\ left' \in [Tone -> 0 .. MaxExp]
    BY DEF TimerStep, Tick, Park, Go, Read, Toggle, Drive, InTurn
  <2>2. exiting' \in [Tone -> BOOLEAN] /\ worker' \in [Tone -> TimerPC]
    BY DEF TimerStep, Tick, Park, Go, Read, Toggle, Drive
  <2>3. /\ status' \in {0, 1} /\ spinning' \in {0, 1}
        /\ status_owner' \in Tone \cup {Nobody}
    BY DEF TimerStep, Tick, Park, Go, Read, Toggle, Drive
  <2>4. QED
    BY <1>1, <2>1, <2>2, <2>3
<1>3. Quiet(i) => Quiet(i)'
  BY DEF TypeOK, TimerStep, Tick, Park, Go, Read, Toggle, Drive, timers, Quiet, Running
<1>4. \A j \in Tone \ {i} : worker'[j] = worker[j]
  BY DEF TypeOK, TimerStep, Tick, Park, Go, Read, Toggle, Drive, timers
<1>5. \A j \in Tone : Quiet(j) => Quiet(j)'
  BY <1>1, <1>3, <1>4 DEF Quiet, Running
<1>6. OthersQuiet' /\ AllQuiet' /\ NoToneOn' /\ Requested' /\ LoopIndex'
  BY <1>1, <1>5 DEF OthersQuiet, AllQuiet, NoToneOn, Requested, LoopIndex, Current, Destroying, NFreqs
<1>7. worker[i] = "ended" => worker'[i] = "ended"
  BY DEF TypeOK, TimerStep, Tick, Park, Go, Read, Toggle, Drive, timers
<1>8. GoneEnded'
  BY <1>1, <1>4, <1>7 DEF GoneEnded, Gone, Destroying, NFreqs
<1>9. InTurn'
  BY DEF TypeOK, TimerStep, Tick, Park, Go, Read, Toggle, Drive, timers, InTurn
<1>10. OwnerCalls'
  BY DEF TypeOK, TimerStep, Tick, Park, Go, Read, Toggle, Drive, timers, OwnerCalls
<1>11. SilentBeforeDestroy'
  BY <1>1 DEF TypeOK, TimerStep, Tick, Park, Go, Read, Toggle, Drive, timers,
              SilentBeforeDestroy, AllQuiet, Quiet, Running
<1>12. QED
  BY <1>2, <1>6, <1>8, <1>9, <1>10, <1>11

LEMMA ClientStepIInv == IInv /\ (Continue \/ Choose) => IInv'
<1> SUFFICES ASSUME IInv, Continue \/ Choose
             PROVE  IInv'
  OBVIOUS
<1> USE ConstantFacts, TonesAssumption
    DEF IInv, TypeOK, OthersQuiet, AllQuiet, NoToneOn, Requested, GoneEnded, Gone, LoopIndex,
        InTurn, OwnerCalls, SilentBeforeDestroy, Quiet, Running, Current, Destroying, NFreqs,
        ClientPC, TimerPC, timers, output, client
<1>1. CASE Start BY <1>1 DEF Start
<1>2. CASE CreateTimer
  <2>1. TypeOK' /\ LoopIndex'
    BY <1>2 DEF CreateTimer, Tone
  <2>2. OthersQuiet' /\ AllQuiet' /\ NoToneOn' /\ Requested'
    BY <1>2 DEF CreateTimer
  <2>3. GoneEnded'
    BY <1>2 DEF CreateTimer, Tone
  <2>4. InTurn' /\ OwnerCalls' /\ SilentBeforeDestroy'
    BY <1>2 DEF CreateTimer
  <2>5. QED
    BY <2>1, <2>2, <2>3, <2>4
<1>3. ASSUME NEW f \in Tone \cup {NoTone}, SwitchFrequency(f) PROVE IInv' BY <1>3 DEF SwitchFrequency
<1>4. CASE AwaitPaused BY <1>4 DEF AwaitPaused
<1>5. CASE SetFrequency BY <1>5 DEF SetFrequency
<1>6. CASE Silence BY <1>6 DEF Silence, Tone
<1>7. CASE SwitchPhase BY <1>7 DEF SwitchPhase
<1>8. CASE Unpause BY <1>8 DEF Unpause
<1>9. CASE Exit BY <1>9 DEF Exit
<1>10. CASE Join
  <2>1. TypeOK' /\ LoopIndex'
    BY <1>10 DEF Join, Tone
  <2>2. OthersQuiet' /\ AllQuiet' /\ NoToneOn' /\ Requested'
    BY <1>10 DEF Join
  <2>3. GoneEnded'
    BY <1>10 DEF Join, Tone
  <2>4. InTurn' /\ OwnerCalls' /\ SilentBeforeDestroy'
    BY <1>10 DEF Join, Tone
  <2>5. QED
    BY <2>1, <2>2, <2>3, <2>4
<1>11. CASE SendTone
  <2>1. 0 .. NFreqs - 1 \subseteq Tone
    BY DEF Tone
  <2>2. QED
    BY <1>11, <1>3, <2>1 DEF SendTone
<1>12. CASE Stop BY <1>12, <1>3 DEF Stop
<1>13. QED
  BY <1>1, <1>2, <1>4, <1>5, <1>6, <1>7, <1>8, <1>9, <1>10, <1>11, <1>12 DEF Continue, Choose

LEMMA Invariance == Spec => []IInv
<1>1. IInv /\ UNCHANGED vars => IInv'
  BY DEF IInv, TypeOK, OthersQuiet, AllQuiet, NoToneOn, Requested, GoneEnded, Gone, LoopIndex,
         InTurn, OwnerCalls, SilentBeforeDestroy, Quiet, Running, Current, Destroying, NFreqs,
         vars, timers, output, client
<1>2. IInv /\ [Next]_vars => IInv'
  BY <1>1, TimerStepIInv, ClientStepIInv DEF Next
<1>3. QED
  BY InitIInv, <1>2, PTL DEF Spec

(* Every variable keeps its type, the loops over the timers their bounds.  *)
THEOREM TypeCorrect == Spec => []TypeOK
<1>1. IInv => TypeOK
  BY DEF IInv
<1>2. QED
  BY <1>1, Invariance, PTL

(* A timer other than the current tone's runs no callback.                 *)
THEOREM TonesExclude == Spec => []OneToneAtATime
<1>1. IInv => OneToneAtATime
  BY DEF IInv, OthersQuiet, Quiet, OneToneAtATime
<1>2. QED
  BY <1>1, Invariance, PTL

(* cb(0) never meets a callback.                                           *)
THEOREM SpinnerCallersExclude == Spec => []OneSpinnerCaller
<1>1. IInv => OneSpinnerCaller
  BY DEF IInv, AllQuiet, Quiet, OneSpinnerCaller
<1>2. QED
  BY <1>1, Invariance, PTL

(* The spinner is off when the timers begin to be destroyed.               *)
THEOREM SilentAtDestroy == Spec => []SilentBeforeDestroy
<1>1. IInv => SilentBeforeDestroy
  BY DEF IInv
<1>2. QED
  BY <1>1, Invariance, PTL

(* While a callback holds status_mutex only its own worker changes status  *)
(* or lets go of the mutex: a phase switch waits for it, and a generator   *)
(* is started only when no worker is left to hold it.                      *)
LEMMA StatusIsHeld ==
  ASSUME IInv, [Next]_vars, status_owner # Nobody, status_owner' = status_owner
  PROVE  status' = status
<1> USE DEF IInv, TypeOK, timers, output, client
<1>1. ASSUME NEW i \in Tone, Tick(i) \/ TimerStep(i) PROVE status' = status
  BY <1>1 DEF TimerStep, Tick, Park, Go, Read, Toggle, Drive, TimerOnly
<1>2. CASE Start
  <2>1. \A i \in Tone : worker[i] = "ended"
    BY <1>2 DEF Start, GoneEnded, Gone
  <2>2. QED
    BY <2>1 DEF OwnerCalls
<1>3. CASE Continue
  BY <1>3 DEF Continue, CreateTimer, AwaitPaused, SetFrequency, Silence, Unpause, Exit, Join
<1>4. CASE SendTone \/ SwitchPhase \/ Stop
  BY <1>4 DEF SendTone, SwitchPhase, Stop, SwitchFrequency
<1>5. CASE UNCHANGED vars
  BY <1>5 DEF vars
<1>6. QED
  BY <1>1, <1>2, <1>3, <1>4, <1>5 DEF Next, Choose

(* No phase switch falls between a toggle's new level and its hand-over.   *)
THEOREM TogglesAreAtomic == Spec => ToggleIsAtomic
<1>1. IInv /\ [Next]_vars =>
        [status_owner # Nobody /\ status_owner' = status_owner => status' = status]_vars
  BY StatusIsHeld
<1>2. QED
  BY <1>1, Invariance, PTL DEF Spec, ToggleIsAtomic

LEMMA InitialTimers == Init => \A i \in Tone : Timer(i)!Init
  BY DEF Init, Timer!Init

(* The modulator's thread creates only timers that are gone, and otherwise *)
(* only asks.                                                              *)
LEMMA TimerSteps ==
  ASSUME IInv, [Next]_vars, NEW i \in Tone
  PROVE  [Timer(i)!Next]_(Timer(i)!vars)
<1> USE DEF IInv, TypeOK, Timer!Next, Timer!vars, timers
<1>1. ASSUME NEW j \in Tone, Tick(j) \/ TimerStep(j)
      PROVE  [Timer(i)!Next]_(Timer(i)!vars)
  BY <1>1 DEF TimerStep, Tick, Park, Go, Read, Toggle, Drive, Timer!Tick, Timer!Park,
              Timer!Go, Timer!Read, Timer!Return
<1>2. CASE CreateTimer
  <2>1. worker[k] = "ended"
    <3>1. k \in Tone /\ k >= k
      BY DEF Tone
    <3>2. QED
      BY <1>2, <3>1 DEF CreateTimer, GoneEnded, Gone
  <2>2. CASE i = k
    BY <1>2, <2>1, <2>2 DEF CreateTimer, Timer!Create
  <2>3. CASE i # k
    BY <1>2, <2>3 DEF CreateTimer
  <2>4. QED
    BY <2>2, <2>3
<1>3. ASSUME NEW f \in Tone \cup {NoTone}, SwitchFrequency(f)
      PROVE  [Timer(i)!Next]_(Timer(i)!vars)
  BY <1>3 DEF SwitchFrequency, Timer!SetPausing
<1>4. CASE SetFrequency \/ Unpause
  BY <1>4 DEF SetFrequency, Unpause, Timer!SetPausing
<1>5. CASE Exit
  BY <1>5 DEF Exit, Timer!SetExiting
<1>6. CASE Start \/ AwaitPaused \/ Silence \/ SwitchPhase \/ Join \/ UNCHANGED vars
  BY <1>6 DEF Start, AwaitPaused, Silence, SwitchPhase, Join, vars
<1>7. 0 .. NFreqs - 1 \subseteq Tone
  BY ConstantFacts, TonesAssumption DEF Tone
<1>8. CASE SendTone \/ Stop
  BY <1>3, <1>7, <1>8 DEF SendTone, Stop
<1>9. QED
  BY <1>1, <1>2, <1>4, <1>5, <1>6, <1>8 DEF Next, Continue, Choose

(* Each timer does only what PausableTimer, hence ftimer.c, may do.        *)
THEOREM TimersArePausable == Spec => TimersSpec
<1>1. IInv /\ [Next]_vars => [\A i \in Tone : [Timer(i)!Next]_(Timer(i)!vars)]_timers
  BY TimerSteps
<1>2. QED
  BY <1>1, InitialTimers, Invariance, PTL DEF Spec, TimersSpec
=============================================================================
