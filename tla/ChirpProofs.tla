----------------------------- MODULE ChirpProofs -----------------------------
(***************************************************************************)
(* Proofs about the time arithmetic of utils.h and the chirp that rests on *)
(* it, for every length of a second in nanoseconds, every step duration    *)
(* and every number of tones.                                              *)
(***************************************************************************)
EXTENDS Chirp, TLAPS

LEMMA Division ==
  ASSUME NEW n \in Nat
  PROVE  /\ n \div GIGA \in Nat /\ n % GIGA \in 0 .. GIGA - 1
         /\ n = (n \div GIGA) * GIGA + (n % GIGA)
  BY GigaAssumption

LEMMA SmallQuotient ==
  ASSUME NEW n \in Nat, n < 2 * GIGA
  PROVE  \/ n < GIGA /\ n \div GIGA = 0 /\ n % GIGA = n
         \/ n >= GIGA /\ n \div GIGA = 1 /\ n % GIGA = n - GIGA
  BY GigaAssumption

LEMMA ValueType == ASSUME NEW t, Valid(t) PROVE Value(t) \in Nat
  BY GigaAssumption DEF Valid, Value

(* A number of nanoseconds, as hz_to_period_timespec makes it of a         *)
(* frequency, becomes a valid time of just that many.                      *)
THEOREM NanosecondsConvert ==
  ASSUME NEW n \in Nat
  PROVE  Valid(ns_to_timespec(n)) /\ Value(ns_to_timespec(n)) = n
  BY Division DEF ns_to_timespec, Timespec, Valid, Value

(* timespec_step adds, and leaves a valid time.                            *)
THEOREM StepAdds ==
  ASSUME NEW a, NEW b, Valid(a), Valid(b)
  PROVE  Valid(timespec_step(a, b)) /\ Value(timespec_step(a, b)) = Value(a) + Value(b)
<1> DEFINE n == a.tv_nsec + b.tv_nsec
           s == a.tv_sec + b.tv_sec
<1>1. n \in Nat /\ n < 2 * GIGA /\ s \in Nat /\ GIGA \in Nat
  BY GigaAssumption DEF Valid
<1>2. /\ n \div GIGA \in Nat /\ n % GIGA \in 0 .. GIGA - 1
      /\ n = (n \div GIGA) * GIGA + (n % GIGA)
  BY <1>1, Division
<1>3. Value(a) + Value(b) = s * GIGA + n
  BY GigaAssumption DEF Valid, Value
<1>4. /\ timespec_step(a, b).tv_sec = s + n \div GIGA
      /\ timespec_step(a, b).tv_nsec = n % GIGA
  BY DEF timespec_step, Timespec
<1> HIDE DEF n, s
<1>5. (s + n \div GIGA) * GIGA + (n % GIGA) = s * GIGA + n
  BY <1>1, <1>2
<1>6. QED
  BY <1>1, <1>2, <1>3, <1>4, <1>5 DEF Valid, Value

(* timespec_diff subtracts, down to nothing, and leaves a valid time: it   *)
(* never hands nanosleep a negative one, which would end a tone at once.   *)
THEOREM DiffSaturates ==
  ASSUME NEW a, NEW b, Valid(a), Valid(b)
  PROVE  /\ Valid(timespec_diff(a, b))
         /\ Value(timespec_diff(a, b)) =
              IF Value(b) > Value(a) THEN Value(b) - Value(a) ELSE 0
<1> DEFINE s == b.tv_sec - a.tv_sec
           n == b.tv_nsec - a.tv_nsec
           d == timespec_diff(a, b)
<1>1. /\ s \in Int /\ n \in Int /\ n < GIGA /\ -n < GIGA /\ GIGA \in Nat \ {0}
      /\ Value(a) \in Nat /\ Value(b) \in Nat
  BY GigaAssumption, ValueType DEF Valid
<1>2. Value(b) - Value(a) = s * GIGA + n
  BY GigaAssumption DEF Valid, Value
<1>3. CASE s < 0 \/ (s = 0 /\ n < 0)
  <2>1. d = Timespec(0, 0)
    BY <1>3 DEF timespec_diff
  <2>2. Valid(d) /\ Value(d) = 0
    BY <1>1, <2>1 DEF Timespec, Valid, Value
  <2> HIDE DEF s, n, d
  <2>3. s * GIGA + n <= 0
    <3>1. CASE s < 0
      <4>1. s * GIGA <= (-1) * GIGA
        BY <1>1, <3>1
      <4>2. QED
        BY <1>1, <4>1
    <3>2. QED
      BY <1>1, <1>3, <3>1
  <2>4. QED
    BY <1>1, <1>2, <2>2, <2>3 DEF d
<1>4. CASE ~(s < 0 \/ (s = 0 /\ n < 0)) /\ n < 0
  <2>1. d = Timespec(s - 1, n + GIGA)
    BY <1>4 DEF timespec_diff
  <2>2. Valid(d) /\ Value(d) = (s - 1) * GIGA + (n + GIGA)
    BY <1>1, <1>4, <2>1 DEF Timespec, Valid, Value
  <2> HIDE DEF s, n, d
  <2>3. (s - 1) * GIGA + (n + GIGA) = s * GIGA + n
    BY <1>1
  <2>4. Value(d) \in Nat
    BY <2>2, ValueType
  <2>5. QED
    BY <1>1, <1>2, <2>2, <2>3, <2>4 DEF d
<1>5. CASE ~(s < 0 \/ (s = 0 /\ n < 0)) /\ ~(n < 0)
  <2>1. d = Timespec(s, n)
    BY <1>5 DEF timespec_diff
  <2>2. Valid(d) /\ Value(d) = s * GIGA + n
    BY <1>1, <1>5, <2>1 DEF Timespec, Valid, Value
  <2> HIDE DEF s, n, d
  <2>3. Value(d) \in Nat
    BY <2>2, ValueType
  <2>4. QED
    BY <1>1, <1>2, <2>2, <2>3 DEF d
<1>6. QED
  BY <1>3, <1>4, <1>5
-----------------------------------------------------------------------------
(* What a tone still owes, at each place of the main thread: a tone begins *)
(* when the deadline before it has come, and sleeps long enough.           *)
OnTime ==
  /\ pc # "idle" => Value(last_step_time) = Deadline
  /\ pc = "step" => i < Steps /\ Value(now) >= Deadline
  /\ pc \in {"create", "nanosleep"} => Valid(slack) /\ Value(now) + Value(slack) >= Deadline
  /\ pc = "sleep" => Value(now) + remaining >= Deadline
  /\ pc = "join" => Value(now) >= Deadline

(* In the middle of a turn there are callbacks left.                       *)
InTurn == worker = "calling" => left > 0

(* The inductive invariant.                                                *)
IInv == TypeOK /\ OnTime /\ InTurn /\ OneTimer

LEMMA Constants ==
  /\ Steps \in Nat \ {0} /\ MaxExp \in Nat \ {0} /\ MaxNow \in Nat
  /\ \A d \in Durations : Valid(d)
  BY ChirpAssumption

LEMMA ZeroTime == Valid(Timespec(0, 0)) /\ Value(Timespec(0, 0)) = 0
  BY GigaAssumption DEF Timespec, Valid, Value

LEMMA InitIInv == Init => IInv
<1> SUFFICES ASSUME Init PROVE IInv
  OBVIOUS
<1>1. Valid(now)
  <2>1. PICK n \in 0 .. GIGA - 1 : now = ns_to_timespec(n)
    BY DEF Init
  <2>2. n \in Nat
    BY GigaAssumption
  <2>3. QED
    BY <2>1, <2>2, NanosecondsConvert
<1>2. TypeOK
  <2>1. Valid(last_step_time) /\ Valid(step_duration)
    BY ZeroTime, Zenon DEF Init
  <2>2. pausing = FALSE /\ exiting \in BOOLEAN
    BY Zenon DEF Init
  <2>3. /\ pending \in 0 .. MaxExp /\ left \in 0 .. MaxExp
        /\ remaining \in Nat /\ i \in 0 .. Steps /\ begun \in Nat
    BY Constants DEF Init
  <2>4. QED
    BY <1>1, <2>1, <2>2, <2>3 DEF Init, TypeOK
<1>3. QED
  BY <1>2 DEF Init, IInv, OnTime, InTurn, OneTimer

(* Deadlines are numbers of nanoseconds, a step duration apart.            *)
LEMMA Deadlines ==
  ASSUME TypeOK
  PROVE  /\ Value(step_duration) \in Nat /\ Deadline \in Nat
         /\ Value(now) \in Nat /\ Value(last_step_time) \in Nat
         /\ begun + (i + 1) * Value(step_duration) = Deadline + Value(step_duration)
<1>1. /\ Value(step_duration) \in Nat /\ i \in Nat /\ begun \in Nat
      /\ Value(now) \in Nat /\ Value(last_step_time) \in Nat
  BY ValueType, Constants DEF TypeOK
<1> DEFINE D == Value(step_duration)
<1> HIDE DEF D
<1>2. D \in Nat /\ (i + 1) * D = i * D + D /\ i * D \in Nat
  BY <1>1 DEF D
<1>3. QED
  BY <1>1, <1>2 DEF D, Deadline

LEMMA ClockStep == IInv /\ Clock => IInv'
<1> SUFFICES ASSUME IInv, Clock PROVE IInv'
  OBVIOUS
<1>1. Value(now) \in Nat /\ remaining \in Nat
  BY Deadlines DEF IInv, TypeOK
<1>2. Valid(now') /\ Value(now') = Value(now) + 1
  BY <1>1, NanosecondsConvert DEF Clock
<1>3. Value(now)' = Value(now) + 1 /\ Valid(now)'
  BY <1>2 DEF Value, Valid
<1>4. remaining' \in Nat /\ remaining' + 1 >= remaining
  BY <1>1 DEF Clock
<1>5. /\ UNCHANGED <<timer, output, last_step_time, step_duration, slack, i, pc, begun>>
  BY DEF Clock
<1>6. TypeOK'
  BY <1>3, <1>4, <1>5 DEF IInv, TypeOK, timer, output, Valid
<1>7. /\ Deadline' = Deadline /\ Value(last_step_time)' = Value(last_step_time)
      /\ Value(slack)' = Value(slack) /\ Valid(slack)' = Valid(slack)
  BY <1>5 DEF Deadline, Value, Valid
<1>8. Deadline \in Nat /\ (Valid(slack) => Value(slack) \in Nat)
  BY Deadlines, ValueType DEF IInv
<1>9. OnTime'
  <2>1. pc' # "idle" => Value(last_step_time)' = Deadline'
    BY <1>5, <1>7 DEF IInv, OnTime
  <2>2. pc' \in {"step", "join"} => Value(now)' >= Deadline'
    BY <1>1, <1>3, <1>5, <1>7, <1>8 DEF IInv, OnTime
  <2>3. pc' \in {"create", "nanosleep"} =>
          Valid(slack)' /\ Value(now)' + Value(slack)' >= Deadline'
    BY <1>1, <1>3, <1>5, <1>7, <1>8 DEF IInv, OnTime
  <2>4. pc' = "sleep" => Value(now)' + remaining' >= Deadline'
    <3>1. pc' = "sleep" => Value(now) + remaining >= Deadline
      BY <1>5 DEF IInv, OnTime
    <3>2. \A v, r, w, d \in Nat : v + r >= d /\ w + 1 >= r => (v + 1) + w >= d
      OBVIOUS
    <3>3. QED
      BY <1>1, <1>3, <1>4, <1>7, <1>8, <3>1, <3>2
  <2>5. pc' = "step" => i' < Steps
    BY <1>5 DEF IInv, OnTime
  <2>6. QED
    BY <2>1, <2>2, <2>3, <2>4, <2>5 DEF OnTime
<1>10. QED
  BY <1>5, <1>6, <1>9 DEF IInv, InTurn, OneTimer, timer

(* Steps of the timer leave the clock and the main thread alone.           *)
LEMMA TimerStep ==
  ASSUME IInv, UNCHANGED <<now, client>>,
         /\ pausing' = FALSE /\ exiting' \in BOOLEAN
         /\ pending' \in 0 .. MaxExp /\ left' \in 0 .. MaxExp
         /\ worker' \in {"ready", "reading", "calling", "ended"}
         /\ status' \in {0, 1} /\ spinning' \in {0, 1},
         InTurn', OneTimer'
  PROVE  IInv'
<1>1. /\ now' = now /\ last_step_time' = last_step_time /\ step_duration' = step_duration
      /\ slack' = slack /\ remaining' = remaining /\ i' = i /\ pc' = pc /\ begun' = begun
  BY DEF client
<1>2. TypeOK'
  BY <1>1 DEF IInv, TypeOK, Valid
<1>3. OnTime'
  BY <1>1 DEF IInv, OnTime, Deadline, Value, Valid
<1>4. QED
  BY <1>2, <1>3 DEF IInv

LEMMA TimerTickStep == IInv /\ TimerTick => IInv'
<1> SUFFICES ASSUME IInv, TimerTick PROVE IInv'
  OBVIOUS
<1>1. /\ UNCHANGED <<now, output, client>> /\ pending < MaxExp /\ pending' = pending + 1
      /\ UNCHANGED <<pausing, exiting, left, worker>>
  BY DEF TimerTick, Timer!Tick
<1>2. pending' \in 0 .. MaxExp
  BY <1>1, Constants DEF IInv, TypeOK
<1>3. InTurn' /\ OneTimer'
  BY <1>1 DEF IInv, InTurn, OneTimer, client
<1>4. UNCHANGED <<now, client>>
  BY <1>1
<1>5. QED
  BY <1>1, <1>2, <1>3, <1>4, TimerStep DEF IInv, TypeOK, output

LEMMA WorkerStep == IInv /\ Worker => IInv'
<1> SUFFICES ASSUME IInv, Worker PROVE IInv'
  OBVIOUS
<1>1. UNCHANGED <<now, output, client>> /\ UNCHANGED <<now, client>> /\ UNCHANGED output
  BY DEF Worker
<1>2. CASE Timer!Go
  <2>1. /\ UNCHANGED <<pausing, exiting, pending, left>> /\ worker # "ended"
        /\ worker' \in {"reading", "ended"}
    BY <1>2 DEF Timer!Go
  <2>2. pc' \notin {"idle", "step", "create"}
    BY <1>1, <2>1 DEF IInv, OneTimer, client
  <2>3. InTurn' /\ OneTimer'
    BY <2>1, <2>2 DEF InTurn, OneTimer
  <2>4. QED
    BY <1>1, <2>1, <2>3, TimerStep DEF IInv, TypeOK, output
<1>3. CASE Timer!Read /\ left' = pending
  <2>1. /\ worker = "reading" /\ worker' = "calling" /\ pending > 0 /\ pending' = 0
        /\ left' = pending /\ UNCHANGED <<pausing, exiting>>
    BY <1>3 DEF Timer!Read
  <2>2. pc' \notin {"idle", "step", "create"}
    BY <1>1, <2>1 DEF IInv, OneTimer, client
  <2>3. InTurn' /\ OneTimer'
    BY <2>1, <2>2 DEF InTurn, OneTimer
  <2>4. pending' \in 0 .. MaxExp /\ left' \in 0 .. MaxExp
    BY <2>1, Constants DEF IInv, TypeOK
  <2>5. QED
    BY <1>1, <2>1, <2>3, <2>4, TimerStep DEF IInv, TypeOK, output
<1>4. QED
  BY <1>2, <1>3 DEF Worker

LEMMA TogglerStep == IInv /\ Toggler => IInv'
<1> SUFFICES ASSUME IInv, Toggler PROVE IInv'
  OBVIOUS
<1>1. /\ UNCHANGED <<now, client>> /\ UNCHANGED <<pausing, exiting, pending>>
      /\ worker = "calling" /\ left' = left - 1
      /\ worker' = (IF left = 1 THEN "ready" ELSE "calling")
      /\ status' = 1 - status /\ spinning' = status'
  BY DEF Toggler, Timer!Return
<1>2. left \in 1 .. MaxExp
  BY <1>1, Constants DEF IInv, InTurn, TypeOK
<1>3. left' \in 0 .. MaxExp /\ InTurn'
  BY <1>1, <1>2, Constants DEF InTurn
<1>4. pc' = pc /\ pc \notin {"idle", "step", "create"}
  BY <1>1 DEF IInv, OneTimer, client
<1>5. OneTimer'
  BY <1>4 DEF OneTimer
<1>6. status' \in {0, 1} /\ spinning' \in {0, 1}
  BY <1>1 DEF IInv, TypeOK
<1>7. QED
  BY <1>1, <1>3, <1>5, <1>6, TimerStep DEF IInv, TypeOK
-----------------------------------------------------------------------------
LEMMA StartStep == IInv /\ Start => IInv'
<1> SUFFICES ASSUME IInv, Start PROVE IInv'
  OBVIOUS
<1>1. /\ UNCHANGED <<now, timer, output, slack, remaining>> /\ pc = "idle" /\ pc' = "step"
      /\ last_step_time' = now /\ step_duration' \in Durations /\ i' = 0
      /\ begun' = Value(now)
  BY DEF Start, At
<1>2. Valid(now) /\ Valid(step_duration)' /\ Value(now) \in Nat /\ Value(step_duration)' \in Nat
  BY <1>1, Constants, ValueType DEF IInv, TypeOK, Valid, Value
<1>3. TypeOK'
  BY <1>1, <1>2, Constants DEF IInv, TypeOK, timer, output, Valid
<1>4. Deadline' = Value(now)
  BY <1>1, <1>2 DEF Deadline
<1>5. Value(last_step_time)' = Value(now) /\ Value(now)' = Value(now)
  BY <1>1 DEF Value
<1>6. OnTime'
  BY <1>1, <1>2, <1>4, <1>5, Constants DEF OnTime
<1>7. QED
  BY <1>1, <1>3, <1>6 DEF IInv, InTurn, OneTimer, timer

(* What simple_tone_gen_step computes.                                     *)
LEMMA StepFacts ==
  ASSUME IInv, Step
  PROVE  /\ Valid(last_step_time') /\ Value(last_step_time') = Deadline' /\ Deadline' \in Nat
         /\ Valid(slack') /\ Value(slack') \in Nat /\ Value(now) \in Nat
         /\ Value(slack') = IF Deadline' - Value(now) > 0 THEN Deadline' - Value(now) ELSE 0
         /\ Value(slack') <= Value(step_duration)
<1>1. /\ last_step_time' = timespec_step(last_step_time, step_duration)
      /\ slack' = timespec_diff(now, last_step_time')
      /\ i' = i + 1 /\ begun' = begun /\ step_duration' = step_duration /\ pc = "step"
  BY DEF Step, At
<1>2. /\ Valid(now) /\ Valid(last_step_time) /\ Valid(step_duration) /\ TypeOK
      /\ Value(last_step_time) = Deadline /\ Value(now) >= Deadline
  BY <1>1 DEF IInv, TypeOK, OnTime
<1>3. Valid(last_step_time') /\ Value(last_step_time') = Deadline + Value(step_duration)
  BY <1>1, <1>2, StepAdds
<1>4. Deadline' = Deadline + Value(step_duration)
  <2>1. Deadline' = begun + (i + 1) * Value(step_duration)
    BY <1>1 DEF Deadline
  <2>2. QED
    BY <1>2, <2>1, Deadlines
<1>5. Valid(slack') /\ Value(slack') =
        IF Value(last_step_time') > Value(now) THEN Value(last_step_time') - Value(now) ELSE 0
  BY <1>1, <1>2, <1>3, DiffSaturates
<1>6. Deadline \in Nat /\ Value(step_duration) \in Nat /\ Value(now) \in Nat
  BY <1>2, Deadlines
<1>7. QED
  BY <1>2, <1>3, <1>4, <1>5, <1>6

LEMMA StepStep == IInv /\ Step => IInv'
<1> SUFFICES ASSUME IInv, Step PROVE IInv'
  OBVIOUS
<1>1. /\ UNCHANGED <<now, timer, output, step_duration, remaining, begun>>
      /\ pc = "step" /\ pc' = "create" /\ i' = i + 1 /\ i < Steps
  BY DEF Step, At, IInv, OnTime
<1>2. i' \in 0 .. Steps
  BY <1>1, Constants DEF IInv, TypeOK
<1>3. /\ Valid(last_step_time)' /\ Value(last_step_time)' = Deadline' /\ Deadline' \in Nat
      /\ Valid(slack)' /\ Value(now)' + Value(slack)' >= Deadline'
  <2>1. Value(now)' = Value(now)
    BY <1>1 DEF Value
  <2>2. QED
    BY <2>1, StepFacts DEF Valid, Value
<1>4. TypeOK'
  BY <1>1, <1>2, <1>3 DEF IInv, TypeOK, timer, output, Valid
<1>5. QED
  BY <1>1, <1>3, <1>4 DEF IInv, OnTime, InTurn, OneTimer, timer

(* The rest of the main thread's steps leave the clock, the schedule and   *)
(* the output alone.                                                       *)
LEMMA MainStep ==
  ASSUME IInv, UNCHANGED <<now, output, last_step_time, step_duration, slack, i, begun>>,
         pausing' = FALSE, exiting' \in BOOLEAN, pending' \in 0 .. MaxExp, left' \in 0 .. MaxExp,
         worker' \in {"ready", "reading", "calling", "ended"}, remaining' \in Nat,
         pc \in {"create", "nanosleep", "sleep", "join"},
         pc' \in {"idle", "step", "nanosleep", "sleep", "join"},
         pc' = "step" => i < Steps /\ Value(now) >= Deadline,
         pc' = "nanosleep" => Valid(slack) /\ Value(now) + Value(slack) >= Deadline,
         pc' = "sleep" => Value(now) + remaining' >= Deadline,
         pc' = "join" => Value(now) >= Deadline,
         InTurn', OneTimer'
  PROVE  IInv'
<1>1. TypeOK'
  BY DEF IInv, TypeOK, output, Valid
<1>2. /\ Deadline' = Deadline /\ Value(now)' = Value(now) /\ Value(slack)' = Value(slack)
      /\ Valid(slack)' = Valid(slack) /\ Value(last_step_time)' = Value(last_step_time)
  BY DEF Deadline, Value, Valid
<1>3. Value(last_step_time) = Deadline
  BY DEF IInv, OnTime
<1>4. OnTime'
  BY <1>2, <1>3 DEF OnTime
<1>5. QED
  BY <1>1, <1>4 DEF IInv

LEMMA CreateStep == IInv /\ Create => IInv'
<1> SUFFICES ASSUME IInv, Create PROVE IInv'
  OBVIOUS
<1>1. /\ UNCHANGED <<now, output, last_step_time, step_duration, slack, i, begun>>
      /\ pc = "create" /\ pc' = "nanosleep" /\ remaining' = remaining
      /\ pausing' = FALSE /\ exiting' = FALSE /\ pending' = 0 /\ left' = 0 /\ worker' = "ready"
  BY DEF Create, At, Timer!Create
<1>2. /\ pending' \in 0 .. MaxExp /\ left' \in 0 .. MaxExp /\ remaining' \in Nat
  BY <1>1, Constants DEF IInv, TypeOK
<1>3. InTurn' /\ OneTimer' /\ Valid(slack) /\ Value(now) + Value(slack) >= Deadline
  BY <1>1 DEF IInv, OnTime, InTurn, OneTimer
<1>4. QED
  BY <1>1, <1>2, <1>3, MainStep

LEMMA NanosleepStep == IInv /\ Nanosleep => IInv'
<1> SUFFICES ASSUME IInv, Nanosleep PROVE IInv'
  OBVIOUS
<1>1. /\ UNCHANGED <<now, output, last_step_time, step_duration, slack, i, begun>>
      /\ UNCHANGED timer /\ pc = "nanosleep" /\ pc' = "sleep"
      /\ remaining' = IF Valid(slack) THEN Value(slack) ELSE 0
  BY DEF Nanosleep, At
<1>2. Valid(slack) /\ Value(now) + Value(slack) >= Deadline
  BY <1>1 DEF IInv, OnTime
<1>3. remaining' \in Nat /\ Value(now) + remaining' >= Deadline
  BY <1>1, <1>2, ValueType
<1>4. InTurn' /\ OneTimer'
  BY <1>1 DEF IInv, InTurn, OneTimer, timer
<1>5. QED
  BY <1>1, <1>3, <1>4, MainStep DEF timer, IInv, TypeOK

LEMMA WakeStep == IInv /\ Wake => IInv'
<1> SUFFICES ASSUME IInv, Wake PROVE IInv'
  OBVIOUS
<1>1. /\ UNCHANGED <<now, output, last_step_time, step_duration, slack, i, begun>>
      /\ UNCHANGED <<pausing, pending, left, worker>> /\ exiting' = TRUE
      /\ pc = "sleep" /\ pc' = "join" /\ remaining = 0 /\ remaining' = remaining
  BY DEF Wake, At, Timer!SetExiting
<1>2. Value(now) >= Deadline
  <2>1. Value(now) + 0 >= Deadline /\ Value(now) \in Nat
    BY <1>1, Deadlines DEF IInv, OnTime
  <2>2. QED
    BY <2>1
<1>3. InTurn' /\ OneTimer'
  BY <1>1 DEF IInv, InTurn, OneTimer
<1>4. QED
  BY <1>1, <1>2, <1>3, MainStep DEF IInv, TypeOK

LEMMA JoinStep == IInv /\ Join => IInv'
<1> SUFFICES ASSUME IInv, Join PROVE IInv'
  OBVIOUS
<1>1. /\ UNCHANGED <<now, output, last_step_time, step_duration, slack, i, begun>>
      /\ UNCHANGED timer /\ pc = "join" /\ worker = "ended" /\ remaining' = remaining
      /\ pc' \in {"idle", "step"} /\ (pc' = "step" => i < Steps)
  BY DEF Join, At
<1>2. Value(now) >= Deadline
  BY <1>1 DEF IInv, OnTime
<1>3. InTurn' /\ OneTimer'
  BY <1>1 DEF IInv, InTurn, OneTimer, timer
<1>4. QED
  BY <1>1, <1>2, <1>3, MainStep DEF timer, IInv, TypeOK

LEMMA StepIInv == IInv /\ [Next]_vars => IInv'
<1>1. IInv /\ UNCHANGED vars => IInv'
  BY DEF IInv, TypeOK, OnTime, InTurn, OneTimer, Deadline, Value, Valid, vars, timer, output, client
<1>2. QED
  BY <1>1, ClockStep, TimerTickStep, WorkerStep, TogglerStep, StartStep, StepStep, CreateStep,
     NanosleepStep, WakeStep, JoinStep
  DEF Next, Main

LEMMA Invariance == Spec => []IInv
  BY InitIInv, StepIInv, PTL DEF Spec

(* No tone ends before the start of the chirp plus as many durations as    *)
(* there were tones, for any scheduling of the two threads.                *)
THEOREM TonesAreNotCutOff == Spec => []NeverEarly
<1>1. IInv => NeverEarly
  BY DEF IInv, OnTime, NeverEarly, At
<1>2. QED
  BY <1>1, Invariance, PTL

(* At most one tone's timer exists, so that the toggler is alone with      *)
(* status, and is the spinner's only caller.                               *)
THEOREM TimersExclude == Spec => []OneTimer
<1>1. IInv => OneTimer
  BY DEF IInv
<1>2. QED
  BY <1>1, Invariance, PTL

(* Each tone is told to last until its own deadline: what one loses to the *)
(* scheduler the next makes up for.                                        *)
THEOREM DelaysDoNotAddUp == Spec => SleepsTheSlack
<1>1. ASSUME IInv, [Next]_vars, At("step") /\ pc' = "create"
      PROVE  Step
  BY <1>1 DEF Next, Main, At, Clock, TimerTick, Worker, Toggler, Start, Step, Create, Nanosleep,
              Wake, Join, vars, client
<1>2. IInv /\ [Next]_vars =>
        [At("step") /\ pc' = "create" =>
           LET rest == Deadline' - Value(now)
           IN  /\ Valid(slack') /\ Value(slack') = IF rest > 0 THEN rest ELSE 0
               /\ Value(slack') <= Value(step_duration)]_vars
  BY <1>1, StepFacts
<1>3. QED
  BY <1>2, Invariance, PTL DEF Spec, SleepsTheSlack
=============================================================================
