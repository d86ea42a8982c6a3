-------------------------------- MODULE Chirp --------------------------------
(***************************************************************************)
(* simple_tone_gen.c and play_chirp of utils.h: a row of tones, each on a  *)
(* timer of its own that is created, slept through and destroyed.  The end *)
(* of a tone is not when the one before it ended plus its duration, but    *)
(* the start of the chirp plus that many durations: what a tone loses, the *)
(* next one is shorter by.                                                 *)
(*                                                                         *)
(* The timer is a PausableTimer, which FTimer implements; nothing pauses   *)
(* it.  Its ticks (the tone) and the clock (the duration) are unrelated.   *)
(***************************************************************************)
EXTENDS Timespec

CONSTANTS
  Steps,      \* tones of a chirp: (freq_end - freq_start) / freq_step + 1
  Durations,  \* what step_duration may be
  MaxNow,     \* bound: the clock goes on past it only under a nanosleep
  MaxExp      \* as in PausableTimer

ASSUME ChirpAssumption ==
  /\ {Steps, MaxExp} \subseteq Nat \ {0} /\ MaxNow \in Nat
  /\ \A d \in Durations : Valid(d)

(* Durations of two and of four nanoseconds, for TLC.                       *)
ShortTones == {ns_to_timespec(2), ns_to_timespec(4)}

VARIABLES
  now,                            \* the clock, CLOCK_MONOTONIC(_RAW)
  pausing, exiting, pending, left, worker,  \* ftimer, the tone's timer
  status,                         \* tone_gen->status
  spinning,                       \* what the spinner was asked for last
  last_step_time, step_duration,  \* fields of tone_gen
  slack,                          \* the local duration_ts, how long to sleep
  remaining,                      \* nanoseconds nanosleep still sleeps
  i,                              \* tones begun
  pc,                             \* where the main thread is
  begun                           \* the clock when the chirp began (history)

timer  == <<pausing, exiting, pending, left, worker>>
output == <<status, spinning>>
client == <<last_step_time, step_duration, slack, remaining, i, pc, begun>>

vars == <<now, timer, output, client>>

Timer == INSTANCE PausableTimer

(* Nothing initializes status: tone_gen is on main's stack.                *)
Init == /\ now \in {ns_to_timespec(ns) : ns \in 0 .. GIGA - 1}
        /\ pausing = FALSE /\ exiting = FALSE /\ pending = 0 /\ left = 0 /\ worker = "ended"
        /\ status \in {0, 1} /\ spinning = 0
        /\ last_step_time = Timespec(0, 0) /\ step_duration = Timespec(0, 0)
        /\ slack = Timespec(0, 0) /\ remaining = 0
        /\ i = 0 /\ pc = "idle" /\ begun = 0
-----------------------------------------------------------------------------
(* The clock, and nanosleep, which counts with it.                         *)
Clock ==
  /\ Value(now) < MaxNow \/ remaining > 0
  /\ now' = ns_to_timespec(Value(now) + 1)
  /\ remaining' = IF remaining > 0 THEN remaining - 1 ELSE 0
  /\ UNCHANGED <<timer, output, last_step_time, step_duration, slack, i, pc, begun>>

TimerTick == worker # "ended" /\ Timer!Tick /\ UNCHANGED <<now, output, client>>

(* The timer is created without FTIMER_COMPENSATE_MISSES: one callback for *)
(* each expiration.                                                        *)
Worker ==
  /\ Timer!Go \/ (Timer!Read /\ left' = pending)
  /\ UNCHANGED <<now, output, client>>

(* toggler_cb_func: no other thread touches status.                        *)
Toggler ==
  /\ Timer!Return
  /\ status' = 1 - status
  /\ spinning' = status'
  /\ UNCHANGED <<now, client>>
-----------------------------------------------------------------------------
(* The main thread *)
At(p) == pc = p

(* simple_tone_gen_start *)
Start ==
  /\ At("idle") /\ Value(now) < MaxNow
  /\ last_step_time' = now
  /\ step_duration' \in Durations
  /\ i' = 0 /\ pc' = "step"
  /\ begun' = Value(now)
  /\ UNCHANGED <<now, timer, output, slack, remaining>>

(* Fault variant of Step: the next tone lasts from now on.                 *)
StepFromNow ==
  /\ At("step")
  /\ last_step_time' = timespec_step(now, step_duration)
  /\ slack' = timespec_diff(now, last_step_time')
  /\ i' = i + 1 /\ pc' = "create"
  /\ UNCHANGED <<now, timer, output, step_duration, remaining, begun>>

(* simple_tone_gen_step: the deadline, and what is left until then.        *)
Step ==
  /\ At("step")
  /\ last_step_time' = timespec_step(last_step_time, step_duration)
  /\ slack' = timespec_diff(now, last_step_time')
  /\ i' = i + 1 /\ pc' = "create"
  /\ UNCHANGED <<now, timer, output, step_duration, remaining, begun>>

(* simple_tone_gen_play: ftimer_create ...                                 *)
Create ==
  /\ At("create")
  /\ Timer!Create /\ ~pausing'
  /\ pc' = "nanosleep"
  /\ UNCHANGED <<now, output, last_step_time, step_duration, slack, remaining, i, begun>>

(* ... nanosleep, which refuses what is not valid and returns at once ...  *)
Nanosleep ==
  /\ At("nanosleep")
  /\ remaining' = IF Valid(slack) THEN Value(slack) ELSE 0
  /\ pc' = "sleep"
  /\ UNCHANGED <<now, timer, output, last_step_time, step_duration, slack, i, begun>>

(* Fault variant of Wake: the worker is not told to exit.                  *)
WakeSilently ==
  /\ At("sleep") /\ remaining = 0
  /\ pc' = "join"
  /\ UNCHANGED <<now, timer, output, last_step_time, step_duration, slack, remaining, i, begun>>

(* ... ftimer_destroy: exiting is set ...                                  *)
Wake ==
  /\ At("sleep") /\ remaining = 0
  /\ Timer!SetExiting
  /\ pc' = "join"
  /\ UNCHANGED <<now, output, last_step_time, step_duration, slack, remaining, i, begun>>

(* Fault variant of Join: the thread is not waited for.                    *)
JoinNobody ==
  /\ At("join")
  /\ pc' = IF i < Steps THEN "step" ELSE "idle"
  /\ UNCHANGED <<now, timer, output, last_step_time, step_duration, slack, remaining, i, begun>>

(* ... and the worker joined.  The loop of play_chirp is for the next tone.*)
Join ==
  /\ At("join") /\ worker = "ended"
  /\ pc' = IF i < Steps THEN "step" ELSE "idle"
  /\ UNCHANGED <<now, timer, output, last_step_time, step_duration, slack, remaining, i, begun>>

Main == Step \/ Create \/ Nanosleep \/ Wake \/ Join

Next == Clock \/ TimerTick \/ Worker \/ Toggler \/ Start \/ Main

Spec == Init /\ [][Next]_vars

(* The clock goes on, the timer ticks for a worker that waits for it, and  *)
(* both threads run; whether another chirp begins is the caller's affair.  *)
FairSpec ==
  /\ Spec
  /\ WF_vars(Clock) /\ WF_vars(worker = "reading" /\ TimerTick)
  /\ WF_vars(Worker) /\ WF_vars(Toggler) /\ WF_vars(Main)
-----------------------------------------------------------------------------
TypeOK ==
  /\ Valid(now) /\ Valid(last_step_time) /\ Valid(step_duration)
  /\ pausing = FALSE /\ exiting \in BOOLEAN /\ pending \in 0 .. MaxExp /\ left \in 0 .. MaxExp
  /\ worker \in {"ready", "reading", "calling", "ended"}
  /\ status \in {0, 1} /\ spinning \in {0, 1}
  /\ remaining \in Nat /\ i \in 0 .. Steps /\ begun \in Nat
  /\ pc \in {"idle", "step", "create", "nanosleep", "sleep", "join"}

(* When the i-th tone is to end.                                           *)
Deadline == begun + i * Value(step_duration)

(* However late the tones before it were, a tone is told to last until its *)
(* own deadline, and not at all if that has passed: delays do not add up.  *)
(* nanosleep gets a valid time that is no longer than one tone.            *)
SleepsTheSlack ==
  [][At("step") /\ pc' = "create" =>
       LET rest == Deadline' - Value(now)
       IN  /\ Valid(slack') /\ Value(slack') = IF rest > 0 THEN rest ELSE 0
           /\ Value(slack') <= Value(step_duration)]_vars

(* No tone is cut off: when its timer is told to exit, its deadline has    *)
(* come, whatever was scheduled between reading the clock and sleeping.    *)
NeverEarly == At("join") => Value(now) >= Deadline

(* A tone's timer exists in simple_tone_gen_play only: two timers would    *)
(* call the spinner, and toggle status, at the same time.                  *)
OneTimer == pc \in {"idle", "step", "create"} => worker = "ended"

(* The chirp ends: so does every nanosleep, and every destroy, although    *)
(* the worker may be in read() or in the middle of a burst of toggles.     *)
ChirpReturns == At("step") ~> At("idle")
=============================================================================
