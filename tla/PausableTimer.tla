--------------------------- MODULE PausableTimer ---------------------------
(***************************************************************************)
(* What a timer of ftimer.c promises to the thread that owns it, without   *)
(* the mutexes, the condition variables and the tick counter: callbacks    *)
(* run in turns, a turn begins when the timer has expired, and a request   *)
(* to pause or to exit is looked at between two turns.                     *)
(*                                                                         *)
(* FTimer implements it; ToneGen, which owns several timers, uses it.      *)
(***************************************************************************)
EXTENDS Naturals

CONSTANT MaxExp   \* bound: expirations that pile up in the kernel

VARIABLES
  pausing, exiting,  \* what the owner asks for
  pending,           \* expirations the worker has not read yet
  left,              \* callbacks this turn still owes, the current one included
  worker             \* "ready", "parked", "reading", "calling" or "ended"

vars == <<pausing, exiting, pending, left, worker>>

Init == /\ pausing = FALSE /\ exiting = FALSE
        /\ pending = 0 /\ left = 0
        /\ worker = "ended"

(* The owner: to create, to ask for a pause or its end, to ask for the     *)
(* end.  A pause has returned when the owner has seen worker = "parked";   *)
(* a destroy, when it has seen worker = "ended".                           *)
Create == /\ worker = "ended" /\ worker' = "ready"
          /\ pausing' \in BOOLEAN /\ exiting' = FALSE
          /\ pending' = 0 /\ left' = 0

SetPausing == pausing' \in BOOLEAN /\ UNCHANGED <<exiting, pending, left, worker>>

SetExiting == exiting' = TRUE /\ UNCHANGED <<pausing, pending, left, worker>>

(* The kernel *)
Tick == /\ pending < MaxExp /\ pending' = pending + 1
        /\ UNCHANGED <<pausing, exiting, left, worker>>

(* The worker between two turns                                            *)
Park == /\ worker = "ready" /\ pausing
        /\ worker' = "parked"
        /\ UNCHANGED <<pausing, exiting, pending, left>>

Go == /\ worker \in {"ready", "parked"} /\ ~pausing
      /\ worker' = IF exiting THEN "ended" ELSE "reading"
      /\ UNCHANGED <<pausing, exiting, pending, left>>

(* A turn: one callback for each expiration, or, with                      *)
(* FTIMER_COMPENSATE_MISSES, one for all of them.                          *)
Read == /\ worker = "reading" /\ pending > 0
        /\ left' \in {1, pending} /\ pending' = 0
        /\ worker' = "calling"
        /\ UNCHANGED <<pausing, exiting>>

Return == /\ worker = "calling"
          /\ left' = left - 1
          /\ worker' = IF left = 1 THEN "ready" ELSE "calling"
          /\ UNCHANGED <<pausing, exiting, pending>>

Next == Create \/ SetPausing \/ SetExiting \/ Tick \/ Park \/ Go \/ Read \/ Return

Spec == Init /\ [][Next]_vars

(* The worker runs, callbacks return, and the clock ticks for a worker     *)
(* that waits for it.                                                      *)
FairSpec == /\ Spec
            /\ WF_vars(Park \/ Go \/ Read) /\ WF_vars(Return)
            /\ WF_vars(worker = "reading" /\ Tick)
=============================================================================
