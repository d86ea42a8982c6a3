------------------------------ MODULE Timespec ------------------------------
(***************************************************************************)
(* The arithmetic of struct timespec in utils.h.  Seconds are a time_t of  *)
(* 64 bits, which neither a clock nor a sum of durations reaches.          *)
(***************************************************************************)
EXTENDS Integers

CONSTANT GIGA   \* nanoseconds in a second

ASSUME GigaAssumption == GIGA \in Nat \ {0}

Timespec(sec, nsec) == [tv_sec |-> sec, tv_nsec |-> nsec]

(* What clock_gettime returns, and nanosleep takes.                        *)
Valid(t) == t.tv_sec \in Nat /\ t.tv_nsec \in 0 .. GIGA - 1

Value(t) == t.tv_sec * GIGA + t.tv_nsec

ns_to_timespec(ns) == Timespec(ns \div GIGA, ns % GIGA)

(* Fault variant of timespec_step: no carry into the seconds.              *)
StepNoCarry(a, b) == Timespec(a.tv_sec + b.tv_sec, (a.tv_nsec + b.tv_nsec) % GIGA)

(* a + b *)
timespec_step(a, b) ==
  LET nsec == a.tv_nsec + b.tv_nsec
  IN  Timespec(a.tv_sec + b.tv_sec + nsec \div GIGA, nsec % GIGA)

(* Fault variant of timespec_diff: nanoseconds are not borrowed for.       *)
DiffNoBorrow(a, b) ==
  IF b.tv_sec < a.tv_sec THEN Timespec(0, 0)
  ELSE Timespec(b.tv_sec - a.tv_sec, b.tv_nsec - a.tv_nsec)

(* b - a, but never less than nothing.                                     *)
timespec_diff(a, b) ==
  LET sec  == b.tv_sec - a.tv_sec
      nsec == b.tv_nsec - a.tv_nsec
  IN  IF sec < 0 \/ (sec = 0 /\ nsec < 0) THEN Timespec(0, 0)
      ELSE IF nsec < 0 THEN Timespec(sec - 1, nsec + GIGA)
      ELSE Timespec(sec, nsec)
=============================================================================
