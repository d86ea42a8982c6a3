------------------------------- MODULE FTimer -------------------------------
(***************************************************************************)
(* ftimer.c, built for Linux: a periodic timer whose worker thread reads   *)
(* expirations off a timerfd and runs a callback for them, and which one   *)
(* client thread pauses, unpauses, waits for and destroys.                 *)
(*                                                                         *)
(* control_mutex guards pausing and exiting; the worker holds it across    *)
(* several steps, so who holds it is state (control_locked).  Every        *)
(* critical section of paused_mutex and of outstanding_ticks_mutex, and    *)
(* every one of control_mutex in the client's functions, is one step.      *)
(***************************************************************************)
EXTENDS Integers

CONSTANTS
  CompensateMisses, \* is FTIMER_COMPENSATE_MISSES among the flags?
  IntMax,           \* the largest int outstanding_ticks holds
  MaxExp            \* bound: expirations that pile up in the kernel

ASSUME TimerAssumption == /\ CompensateMisses \in BOOLEAN
                          /\ IntMax \in Nat \ {0}
                          /\ MaxExp \in Nat \ {0}

VARIABLES
  pausing, paused, exiting, outstanding_ticks,  \* fields of ftimer_t
  control_locked,  \* control_mutex is held by the worker, or never released
  expirations,     \* what a read of the timerfd would return
  exp,             \* how many turns of the worker's callback loop are left
  wpc,             \* where the worker thread is, see WorkerPC
  cpc              \* where the client thread is, see ClientPC

vars == <<pausing, paused, exiting, outstanding_ticks, control_locked,
          expirations, exp, wpc, cpc>>

(***************************************************************************)
(* "lock"     about to lock control_mutex      "gate"   tests pausing       *)
(* "park"     tests pausing in the loop        "asleep" in cond_wait        *)
(* "woken"    back from cond_wait, to relock   "exit"   tests exiting       *)
(* "read"     blocked in read()                "cb"     in the callback     *)
(* "count"    the callback has returned        "returned" the thread ended  *)
(***************************************************************************)
WorkerPC == {"lock", "gate", "park", "asleep", "woken", "exit", "read", "cb",
             "count", "returned"}

(***************************************************************************)
(* "none"         no timer: not created yet, or destroyed                  *)
(* "idle"         between two calls                                        *)
(* "paused_test", "paused_sleep"   in ftimer_pause, waiting for paused     *)
(* "quiet"        ftimer_pause(.., true) has returned, no unpause since    *)
(* "tick_test", "tick_sleep"       in ftimer_wait                          *)
(* "exiting", "joining"            in ftimer_destroy                       *)
(***************************************************************************)
ClientPC == {"none", "idle", "paused_test", "paused_sleep", "quiet",
             "tick_test", "tick_sleep", "exiting", "joining"}

Init == /\ pausing = FALSE /\ paused = FALSE /\ exiting = FALSE
        /\ outstanding_ticks = 0
        /\ control_locked = FALSE
        /\ expirations = 0 /\ exp = 0
        /\ wpc = "returned" /\ cpc = "none"
-----------------------------------------------------------------------------
(* ftimer_run, the worker thread *)

Lock ==
  /\ wpc = "lock" /\ ~control_locked
  /\ control_locked' = TRUE
  /\ wpc' = "gate"
  /\ UNCHANGED <<pausing, paused, exiting, outstanding_ticks, expirations, exp, cpc>>

(* Fault variant of Gate: paused is set and nobody is told.                *)
GateUnannounced ==
  /\ wpc = "gate"
  /\ IF pausing THEN paused' = TRUE /\ wpc' = "park"
                ELSE paused' = paused /\ wpc' = "exit"
  /\ UNCHANGED <<pausing, exiting, outstanding_ticks, control_locked, expirations, exp, cpc>>

(* if (pausing): announce it to a client asleep in ftimer_pause.           *)
Gate ==
  /\ wpc = "gate"
  /\ IF pausing
     THEN /\ paused' = TRUE
          /\ cpc' = IF cpc = "paused_sleep" THEN "paused_test" ELSE cpc
          /\ wpc' = "park"
     ELSE /\ wpc' = "exit"
          /\ UNCHANGED <<paused, cpc>>
  /\ UNCHANGED <<pausing, exiting, outstanding_ticks, control_locked, expirations, exp>>

(* while (pausing) pthread_cond_wait(control_cond): releases the mutex.    *)
Park ==
  /\ wpc = "park" /\ pausing
  /\ control_locked' = FALSE
  /\ wpc' = "asleep"
  /\ UNCHANGED <<pausing, paused, exiting, outstanding_ticks, expirations, exp, cpc>>

WorkerSpuriousWakeup ==
  /\ wpc = "asleep"
  /\ wpc' = "woken"
  /\ UNCHANGED <<pausing, paused, exiting, outstanding_ticks, control_locked,
                 expirations, exp, cpc>>

(* Fault variant of Relock: "if" for "while" around the wait.              *)
RelockTestsOnce ==
  /\ wpc = "woken" /\ ~control_locked
  /\ control_locked' = TRUE
  /\ paused' = FALSE
  /\ wpc' = "exit"
  /\ UNCHANGED <<pausing, exiting, outstanding_ticks, expirations, exp, cpc>>

Relock ==
  /\ wpc = "woken" /\ ~control_locked
  /\ control_locked' = TRUE
  /\ wpc' = "park"
  /\ UNCHANGED <<pausing, paused, exiting, outstanding_ticks, expirations, exp, cpc>>

(* Fault variant of Unpark: paused stays set.                              *)
UnparkStillPaused ==
  /\ wpc = "park" /\ ~pausing
  /\ wpc' = "exit"
  /\ UNCHANGED <<pausing, paused, exiting, outstanding_ticks, control_locked,
                 expirations, exp, cpc>>

Unpark ==
  /\ wpc = "park" /\ ~pausing
  /\ paused' = FALSE
  /\ wpc' = "exit"
  /\ UNCHANGED <<pausing, exiting, outstanding_ticks, control_locked, expirations, exp, cpc>>

(* if (exiting) return: control_mutex is not unlocked on this path.        *)
Return ==
  /\ wpc = "exit" /\ exiting
  /\ wpc' = "returned"
  /\ UNCHANGED <<pausing, paused, exiting, outstanding_ticks, control_locked,
                 expirations, exp, cpc>>

Proceed ==
  /\ wpc = "exit" /\ ~exiting
  /\ control_locked' = FALSE
  /\ wpc' = "read"
  /\ UNCHANGED <<pausing, paused, exiting, outstanding_ticks, expirations, exp, cpc>>

(* read() blocks until the timer has expired, and resets the kernel's      *)
(* count of expirations.                                                   *)
Read ==
  /\ wpc = "read" /\ expirations > 0
  /\ exp' = expirations
  /\ expirations' = 0
  /\ wpc' = "cb"
  /\ UNCHANGED <<pausing, paused, exiting, outstanding_ticks, control_locked, cpc>>

(* cb(cb_args) returns.  What a callback does is its owner's business.     *)
Callback ==
  /\ wpc = "cb"
  /\ wpc' = "count"
  /\ UNCHANGED <<pausing, paused, exiting, outstanding_ticks, control_locked,
                 expirations, exp, cpc>>

(* Signed increment, as the usual builds compute it.                       *)
Increment(n) == IF n = IntMax THEN -IntMax - 1 ELSE n + 1

Again == exp > 1 /\ ~CompensateMisses

(* Fault variant of Count: no signal.                                      *)
CountSilently ==
  /\ wpc = "count"
  /\ outstanding_ticks' = Increment(outstanding_ticks)
  /\ exp' = IF Again THEN exp - 1 ELSE 0
  /\ wpc' = IF Again THEN "cb" ELSE "lock"
  /\ UNCHANGED <<pausing, paused, exiting, control_locked, expirations, cpc>>

(* outstanding_ticks++ and the signal; then the loop's next turn, or, with *)
(* FTIMER_COMPENSATE_MISSES, out of the loop after the first.              *)
Count ==
  /\ wpc = "count"
  /\ outstanding_ticks' = Increment(outstanding_ticks)
  /\ cpc' = IF cpc = "tick_sleep" THEN "tick_test" ELSE cpc
  /\ exp' = IF Again THEN exp - 1 ELSE 0
  /\ wpc' = IF Again THEN "cb" ELSE "lock"
  /\ UNCHANGED <<pausing, paused, exiting, control_locked, expirations>>

(* The kernel, from timerfd_settime to close.                              *)
Tick ==
  /\ cpc # "none" /\ expirations < MaxExp
  /\ expirations' = expirations + 1
  /\ UNCHANGED <<pausing, paused, exiting, outstanding_ticks, control_locked, exp, wpc, cpc>>
-----------------------------------------------------------------------------
(* The client's calls *)

(* ftimer_create with FTIMER_RUN_ASYNC, and FTIMER_START_PAUSED if p.      *)
Create(p) ==
  /\ cpc = "none"
  /\ pausing' = p /\ paused' = FALSE /\ exiting' = FALSE
  /\ outstanding_ticks' = 0
  /\ control_locked' = FALSE
  /\ expirations' = 0 /\ exp' = 0
  /\ wpc' = "lock" /\ cpc' = "idle"

(* ftimer_pause(ftimer, w), up to the end of its first critical section.   *)
Pause(w) ==
  /\ cpc \in {"idle", "quiet"} /\ ~control_locked
  /\ pausing' = TRUE
  /\ cpc' = IF w THEN "paused_test" ELSE cpc
  /\ UNCHANGED <<paused, exiting, outstanding_ticks, control_locked, expirations, exp, wpc>>

(* One round of the loop that waits for paused.                            *)
AwaitPaused ==
  /\ cpc = "paused_test"
  /\ cpc' = IF paused THEN "quiet" ELSE "paused_sleep"
  /\ UNCHANGED <<pausing, paused, exiting, outstanding_ticks, control_locked,
                 expirations, exp, wpc>>

(* Fault variant of ClearPausing: no broadcast.                            *)
ClearPausingUnsignalled ==
  /\ ~control_locked
  /\ pausing' = FALSE
  /\ wpc' = wpc

(* The critical section of ftimer_unpause, with its broadcast.             *)
ClearPausing ==
  /\ ~control_locked
  /\ pausing' = FALSE
  /\ wpc' = IF wpc = "asleep" THEN "woken" ELSE wpc

(* The second critical section of ftimer_exit.                             *)
SetExiting ==
  /\ ~control_locked
  /\ exiting' = TRUE

(* ftimer_unpause *)
Unpause ==
  /\ cpc \in {"idle", "quiet"}
  /\ ClearPausing
  /\ cpc' = "idle"
  /\ UNCHANGED <<paused, exiting, outstanding_ticks, control_locked, expirations, exp>>

(* ftimer_wait, which the modulators call on a timer they never pause.     *)
Wait ==
  /\ cpc = "idle" /\ ~pausing
  /\ cpc' = "tick_test"
  /\ UNCHANGED <<pausing, paused, exiting, outstanding_ticks, control_locked,
                 expirations, exp, wpc>>

(* One round of its loop.                                                  *)
TakeTick ==
  /\ cpc = "tick_test"
  /\ IF outstanding_ticks <= 0
     THEN cpc' = "tick_sleep" /\ UNCHANGED outstanding_ticks
     ELSE cpc' = "idle" /\ outstanding_ticks' = outstanding_ticks - 1
  /\ UNCHANGED <<pausing, paused, exiting, control_locked, expirations, exp, wpc>>

ClientSpuriousWakeup ==
  /\ \/ cpc = "paused_sleep" /\ cpc' = "paused_test"
     \/ cpc = "tick_sleep" /\ cpc' = "tick_test"
  /\ UNCHANGED <<pausing, paused, exiting, outstanding_ticks, control_locked,
                 expirations, exp, wpc>>

(* ftimer_destroy: ftimer_exit's two critical sections, then the join.     *)
Destroy ==
  /\ cpc \in {"idle", "quiet"}
  /\ ClearPausing
  /\ cpc' = "exiting"
  /\ UNCHANGED <<paused, exiting, outstanding_ticks, control_locked, expirations, exp>>

Exit ==
  /\ cpc = "exiting"
  /\ SetExiting
  /\ cpc' = "joining"
  /\ UNCHANGED <<pausing, paused, outstanding_ticks, control_locked, expirations, exp, wpc>>

Join ==
  /\ cpc = "joining" /\ wpc = "returned"
  /\ cpc' = "none"
  /\ UNCHANGED <<pausing, paused, exiting, outstanding_ticks, control_locked,
                 expirations, exp, wpc>>
-----------------------------------------------------------------------------
Loop   == Lock \/ Gate \/ Park \/ Relock \/ Unpark \/ Return \/ Proceed \/ Read \/ Count
Worker == Loop \/ Callback

Next ==
  \/ Worker \/ WorkerSpuriousWakeup
  \/ Tick
  \/ \E p \in BOOLEAN : Create(p) \/ Pause(p)
  \/ AwaitPaused \/ Unpause \/ Wait \/ TakeTick \/ ClientSpuriousWakeup
  \/ Destroy \/ Exit \/ Join

Spec == Init /\ [][Next]_vars

(***************************************************************************)
(* The worker and the kernel's clock run, callbacks return, and a client   *)
(* inside a call goes on.  The client's critical sections are single       *)
(* steps, so weak fairness suffices for the worker's locks.  The client's  *)
(* lock in ftimer_exit competes with a worker that takes control_mutex     *)
(* once per period and otherwise sleeps in read(): strong fairness.  So    *)
(* does a signalled ftimer_wait with the overflow of its counter: it runs  *)
(* before the counter has gone once round the values of an int.            *)
(***************************************************************************)
FairSpec ==
  /\ Spec
  /\ WF_vars(Worker) /\ WF_vars(Tick)
  /\ WF_vars(AwaitPaused \/ TakeTick \/ Join)
  /\ SF_vars(Exit) /\ SF_vars(TakeTick /\ outstanding_ticks > 0)
-----------------------------------------------------------------------------
TypeOK ==
  /\ pausing \in BOOLEAN /\ paused \in BOOLEAN /\ exiting \in BOOLEAN
  /\ control_locked \in BOOLEAN
  /\ outstanding_ticks \in -IntMax - 1 .. IntMax
  /\ expirations \in 0 .. MaxExp
  /\ exp \in 0 .. MaxExp
  /\ wpc \in WorkerPC
  /\ cpc \in ClientPC

Parked == wpc \in {"park", "asleep", "woken"}

(* Once ftimer_pause(timer, true) has returned, and until the client       *)
(* unpauses, the worker is inside its paused block: no callback is running *)
(* and none starts.  multi_tone_gen relies on it to have one timer at a    *)
(* time toggle the output, also right after an unpause that the worker has *)
(* not seen yet.                                                           *)
PauseQuiesces == cpc = "quiet" => Parked

(* Nobody sleeps through the event it waits for on any of the three        *)
(* condition variables.                                                    *)
NoLostWakeup ==
  /\ wpc = "asleep" => pausing
  /\ cpc = "paused_sleep" => ~paused
  /\ cpc = "tick_sleep" => outstanding_ticks <= 0

(* ftimer_pause(timer, true) returns, whatever the worker was doing;       *)
(* ftimer_wait returns, so that the modulators' symbol clock does not      *)
(* stop; and so does ftimer_destroy, also for a paused timer and for one   *)
(* whose worker is blocked in read().                                      *)
CallsReturn == /\ (cpc = "paused_test") ~> (cpc = "quiet")
               /\ (cpc = "tick_test") ~> (cpc = "idle")
               /\ (cpc = "exiting") ~> (cpc = "none")
-----------------------------------------------------------------------------
(***************************************************************************)
(* The refinement mapping.  Once the worker has tested pausing it holds    *)
(* control_mutex until it has tested exiting too, so that the outcome is   *)
(* settled at the first test; the callback's turn ends when it returns.    *)
(***************************************************************************)
WorkerIs ==
  CASE wpc \in {"lock", "gate"} -> "ready"
    [] Parked                   -> "parked"
    [] wpc = "exit"             -> IF exiting THEN "ended" ELSE "reading"
    [] wpc = "read"             -> "reading"
    [] wpc = "cb"               -> "calling"
    [] wpc = "count"            -> IF Again THEN "calling" ELSE "ready"
    [] wpc = "returned"         -> "ended"

CallbacksLeft ==
  CASE wpc = "cb"    -> IF CompensateMisses THEN 1 ELSE exp
    [] wpc = "count" -> IF Again THEN exp - 1 ELSE 0
    [] OTHER         -> 0

Pausable == INSTANCE PausableTimer WITH
              pending <- expirations, left <- CallbacksLeft, worker <- WorkerIs

(* The timer keeps the promise its owners rely on: it looks at a pause and *)
(* at an exit between two turns, whatever its locks are doing, it loses no *)
(* expiration, and it goes on.                                             *)
PausableSpec == Pausable!FairSpec
=============================================================================
