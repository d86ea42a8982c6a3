------------------------------ MODULE ToneGen ------------------------------
(***************************************************************************)
(* multi_tone_gen.c and the two modulators that drive it, fsk.c and        *)
(* dbpsk.c.  A generator has one timer per frequency; each timer's         *)
(* callback toggles the output, so that at most one of them may be         *)
(* running.  The modulator's thread pauses one timer and unpauses the next *)
(* (FSK, one tone per symbol) or inverts the output between two toggles    *)
(* (DBPSK).  It is the only thread that owns the timers.                   *)
(*                                                                         *)
(* Each timer is a PausableTimer, which FTimer is shown to implement.  The *)
(* symbol clock, ftimer_wait on a timer of its own, only says when the     *)
(* next symbol comes: any time.                                            *)
(***************************************************************************)
EXTENDS Integers

CONSTANTS
  NTones,   \* frequencies of the FSK modulator; DBPSK has one
  MaxExp    \* as in PausableTimer

ASSUME TonesAssumption == NTones \in Nat \ {0} /\ MaxExp \in Nat \ {0}

Tone   == 0 .. NTones - 1
Nobody == -1
NoTone == -1

VARIABLES
  modulator,     \* "FSK" or "DBPSK", for the whole run of the program
  pausing, exiting, pending, left, worker,  \* the timers, as in PausableTimer
  status,        \* tone_gen->status
  status_owner,  \* the timer whose callback holds status_mutex
  spinning,      \* what cb was given last: are the cores spinning?
  freq_idx,      \* tone_gen->freq_idx
  target,        \* the argument of multi_tone_gen_switch_frequency
  cpc,           \* where the modulator's thread is, see ClientPC
  k              \* the timer its loop over the timers is at

timers == <<pausing, exiting, pending, left, worker>>
output == <<status, status_owner, spinning>>
client == <<freq_idx, target, cpc, k>>

vars == <<modulator, timers, output, client>>

(***************************************************************************)
(* "none"    no generator: not started, or stopped                         *)
(* "create"  in multi_tone_gen_init's loop   "idle"    between two calls    *)
(* "pausing" waits in ftimer_pause           "switch"  the old timer, if    *)
(*                                                     any, is paused       *)
(* "silence" calls cb(0)                                                    *)
(* "unpause", "exit", "join"  in ftimer_destroy of timer k                 *)
(***************************************************************************)
ClientPC == {"none", "create", "idle", "pausing", "switch", "silence",
             "unpause", "exit", "join"}

TimerPC == {"ready", "parked", "reading", "calling", "ended"}

(* 1 << m_exp frequencies for FSK, the carrier alone for DBPSK.            *)
NFreqs == IF modulator = "DBPSK" THEN 1 ELSE NTones

Init == /\ modulator \in {"FSK", "DBPSK"}
        /\ pausing = [i \in Tone |-> FALSE]
        /\ exiting = [i \in Tone |-> FALSE]
        /\ pending = [i \in Tone |-> 0]
        /\ left = [i \in Tone |-> 0]
        /\ worker = [i \in Tone |-> "ended"]
        /\ status = 0 /\ status_owner = Nobody /\ spinning = 0
        /\ freq_idx = NoTone /\ target = NoTone
        /\ cpc = "none" /\ k = 0
-----------------------------------------------------------------------------
(* The timers                                                              *)

TimerOnly == UNCHANGED <<modulator, output, client>>

Tick(i) ==
  /\ worker[i] # "ended" /\ pending[i] < MaxExp
  /\ pending' = [pending EXCEPT ![i] = @ + 1]
  /\ UNCHANGED <<pausing, exiting, left, worker>> /\ TimerOnly

Park(i) ==
  /\ worker[i] = "ready" /\ pausing[i]
  /\ worker' = [worker EXCEPT ![i] = "parked"]
  /\ UNCHANGED <<pausing, exiting, pending, left>> /\ TimerOnly

(* Fault variant of Go: any wakeup ends the pause.                         *)
GoUnasked(i) ==
  /\ \/ worker[i] = "ready" /\ ~pausing[i]
     \/ worker[i] = "parked"
  /\ worker' = [worker EXCEPT ![i] = IF exiting[i] THEN "ended" ELSE "reading"]
  /\ UNCHANGED <<pausing, exiting, pending, left>> /\ TimerOnly

Go(i) ==
  /\ worker[i] \in {"ready", "parked"} /\ ~pausing[i]
  /\ worker' = [worker EXCEPT ![i] = IF exiting[i] THEN "ended" ELSE "reading"]
  /\ UNCHANGED <<pausing, exiting, pending, left>> /\ TimerOnly

(* Only DBPSK has FTIMER_COMPENSATE_MISSES: FSK makes up for every toggle, *)
(* also for those that fell due while the timer was paused.                *)
Read(i) ==
  /\ worker[i] = "reading" /\ pending[i] > 0
  /\ left' = [left EXCEPT ![i] = IF modulator = "DBPSK" THEN 1 ELSE pending[i]]
  /\ pending' = [pending EXCEPT ![i] = 0]
  /\ worker' = [worker EXCEPT ![i] = "calling"]
  /\ UNCHANGED <<pausing, exiting>> /\ TimerOnly

(* toggle(), the callback: under status_mutex, the new level ...           *)
Toggle(i) ==
  /\ worker[i] = "calling" /\ status_owner = Nobody
  /\ status_owner' = i
  /\ status' = 1 - status
  /\ UNCHANGED <<modulator, timers, spinning, client>>

(* Fault variant of Drive: status_mutex is not released.                   *)
DriveKeepsMutex(i) ==
  /\ worker[i] = "calling" /\ status_owner = i
  /\ spinning' = status
  /\ left' = [left EXCEPT ![i] = @ - 1]
  /\ worker' = [worker EXCEPT ![i] = IF left[i] = 1 THEN "ready" ELSE "calling"]
  /\ status_owner' = IF left[i] = 1 THEN i ELSE Nobody
  /\ UNCHANGED <<modulator, pausing, exiting, pending, status, client>>

(* ... which cb hands to the spinner; then the callback returns.           *)
Drive(i) ==
  /\ worker[i] = "calling" /\ status_owner = i
  /\ spinning' = status
  /\ status_owner' = Nobody
  /\ left' = [left EXCEPT ![i] = @ - 1]
  /\ worker' = [worker EXCEPT ![i] = IF left[i] = 1 THEN "ready" ELSE "calling"]
  /\ UNCHANGED <<modulator, pausing, exiting, pending, status, client>>

TimerStep(i) == Park(i) \/ Go(i) \/ Read(i) \/ Toggle(i) \/ Drive(i)
-----------------------------------------------------------------------------
(* The modulator's thread                                                  *)

(* fsk_start, dbpsk_start: multi_tone_gen_init up to its loop.             *)
Start ==
  /\ cpc = "none"
  /\ freq_idx' = NoTone /\ status' = 0
  /\ cpc' = "create" /\ k' = 0
  /\ UNCHANGED <<modulator, timers, status_owner, spinning, target>>

(* Its loop: every timer starts paused.                                    *)
CreateTimer ==
  /\ cpc = "create"
  /\ worker' = [worker EXCEPT ![k] = "ready"]
  /\ pausing' = [pausing EXCEPT ![k] = TRUE]
  /\ exiting' = [exiting EXCEPT ![k] = FALSE]
  /\ pending' = [pending EXCEPT ![k] = 0]
  /\ left' = [left EXCEPT ![k] = 0]
  /\ IF k + 1 = NFreqs THEN cpc' = "idle" /\ k' = 0
                       ELSE cpc' = "create" /\ k' = k + 1
  /\ UNCHANGED <<modulator, output, freq_idx, target>>

(* multi_tone_gen_switch_frequency(f): if a tone is on, ask its timer to   *)
(* pause, and wait ...                                                     *)
SwitchFrequency(f) ==
  /\ cpc = "idle"
  /\ target' = f
  /\ IF freq_idx = NoTone
     THEN cpc' = "switch" /\ UNCHANGED pausing
     ELSE cpc' = "pausing" /\ pausing' = [pausing EXCEPT ![freq_idx] = TRUE]
  /\ UNCHANGED <<modulator, exiting, pending, left, worker, output, freq_idx, k>>

(* Fault variant of AwaitPaused: ftimer_pause(timer, false).               *)
AwaitNothing ==
  /\ cpc = "pausing"
  /\ cpc' = "switch"
  /\ UNCHANGED <<modulator, timers, output, freq_idx, target, k>>

AwaitPaused ==
  /\ cpc = "pausing" /\ worker[freq_idx] = "parked"
  /\ cpc' = "switch"
  /\ UNCHANGED <<modulator, timers, output, freq_idx, target, k>>

(* ... then the new tone's timer is unpaused, if there is one.             *)
SetFrequency ==
  /\ cpc = "switch"
  /\ freq_idx' = target
  /\ IF target = NoTone
     THEN cpc' = "silence" /\ UNCHANGED pausing
     ELSE cpc' = "idle" /\ pausing' = [pausing EXCEPT ![target] = FALSE]
  /\ UNCHANGED <<modulator, exiting, pending, left, worker, output, target, k>>

(* cb(0): "shut down spinner when the tone generator is inactive".  Only   *)
(* multi_tone_gen_destroy asks for it; its loop comes next.                *)
Silence ==
  /\ cpc = "silence"
  /\ spinning' = 0
  /\ cpc' = "unpause" /\ k' = 0
  /\ UNCHANGED <<modulator, timers, status, status_owner, freq_idx, target>>

(* fsk_send_symbol; dbpsk_start has the carrier switched on once.          *)
SendTone ==
  \E f \in 0 .. NFreqs - 1 :
    /\ modulator = "DBPSK" => freq_idx = NoTone
    /\ SwitchFrequency(f)

(* Fault variant of SwitchPhase: without status_mutex.                     *)
SwitchPhaseUnlocked ==
  /\ cpc = "idle" /\ modulator = "DBPSK" /\ freq_idx # NoTone
  /\ status' = 1 - status
  /\ UNCHANGED <<modulator, timers, status_owner, spinning, client>>

(* dbpsk_send_symbol(1): multi_tone_gen_switch_phase.                      *)
SwitchPhase ==
  /\ cpc = "idle" /\ modulator = "DBPSK" /\ freq_idx # NoTone
  /\ status_owner = Nobody
  /\ status' = 1 - status
  /\ UNCHANGED <<modulator, timers, status_owner, spinning, client>>

(* fsk_stop, dbpsk_stop: multi_tone_gen_destroy.                           *)
Stop ==
  /\ modulator = "DBPSK" => freq_idx # NoTone
  /\ SwitchFrequency(NoTone)

(* Fault variant of Unpause: ftimer_exit only sets the flag.               *)
UnpauseNothing ==
  /\ cpc = "unpause"
  /\ cpc' = "exit"
  /\ UNCHANGED <<modulator, timers, output, freq_idx, target, k>>

(* ftimer_destroy of timer k, in its three parts.                          *)
Unpause ==
  /\ cpc = "unpause"
  /\ pausing' = [pausing EXCEPT ![k] = FALSE]
  /\ cpc' = "exit"
  /\ UNCHANGED <<modulator, exiting, pending, left, worker, output, freq_idx, target, k>>

Exit ==
  /\ cpc = "exit"
  /\ exiting' = [exiting EXCEPT ![k] = TRUE]
  /\ cpc' = "join"
  /\ UNCHANGED <<modulator, pausing, pending, left, worker, output, freq_idx, target, k>>

Join ==
  /\ cpc = "join" /\ worker[k] = "ended"
  /\ IF k + 1 = NFreqs THEN cpc' = "none" /\ k' = 0
                       ELSE cpc' = "unpause" /\ k' = k + 1
  /\ UNCHANGED <<modulator, timers, output, freq_idx, target>>

(* What the thread does on its own once it has begun, and what it chooses. *)
Continue == CreateTimer \/ AwaitPaused \/ SetFrequency \/ Silence \/ Unpause \/ Exit \/ Join
Choose   == Start \/ SendTone \/ SwitchPhase \/ Stop

Next == Continue \/ Choose \/ \E i \in Tone : Tick(i) \/ TimerStep(i)

Spec == Init /\ [][Next]_vars

(* The timers' threads and clocks run, as FTimer's do, and the modulator   *)
(* finishes the calls it has begun.                                        *)
FairSpec ==
  /\ Spec
  /\ WF_vars(Continue)
  /\ \A i \in Tone : WF_vars(TimerStep(i)) /\ WF_vars(worker[i] = "reading" /\ Tick(i))
-----------------------------------------------------------------------------
TypeOK ==
  /\ modulator \in {"FSK", "DBPSK"}
  /\ pausing \in [Tone -> BOOLEAN] /\ exiting \in [Tone -> BOOLEAN]
  /\ pending \in [Tone -> 0 .. MaxExp] /\ left \in [Tone -> 0 .. MaxExp]
  /\ worker \in [Tone -> TimerPC]
  /\ status \in {0, 1} /\ spinning \in {0, 1}
  /\ status_owner \in Tone \cup {Nobody}
  /\ freq_idx \in Tone \cup {NoTone} /\ target \in Tone \cup {NoTone}
  /\ cpc \in ClientPC
  /\ k \in Tone

Running(i) == worker[i] \in {"reading", "calling"}

(* The timer that may be running: the tone's, or the one being destroyed.  *)
Current == IF cpc \in {"unpause", "exit", "join"} THEN k ELSE freq_idx

(* Two tones are never on together: a timer other than the current tone's  *)
(* runs no callback, although every timer has a thread of its own that is  *)
(* only asked to pause.                                                    *)
OneToneAtATime == \A i \in Tone : Running(i) => i = Current

(* The modulator's own cb(0) never meets a callback: cpu_spinner_spin has  *)
(* one caller at a time, as CpuSpinner takes for granted.                  *)
OneSpinnerCaller == cpc = "silence" => \A i \in Tone : ~Running(i)

(* The spinner is off when the timers begin to be destroyed: no late       *)
(* toggle undoes cb(0).                                                    *)
SilentBeforeDestroy == cpc = "unpause" /\ k = 0 => spinning = 0

(* A phase switch does not fall between a toggle's new level and the       *)
(* spinner's being told: the level a callback hands over is the one it     *)
(* computed.                                                               *)
ToggleIsAtomic ==
  [][status_owner # Nobody /\ status_owner' = status_owner => status' = status]_vars

(* Switching tones returns, whatever the tone's timer is doing, and so do  *)
(* fsk_stop and dbpsk_stop.                                                *)
CallsReturn == /\ (cpc = "pausing") ~> (cpc = "switch")
               /\ (cpc = "silence") ~> (cpc = "none")

Timer(i) == INSTANCE PausableTimer WITH
              pausing <- pausing[i], exiting <- exiting[i], pending <- pending[i],
              left <- left[i], worker <- worker[i]

(* What this module takes the timers to do is no more than what FTimer has *)
(* been shown to implement.                                                *)
TimersSpec ==
  /\ \A i \in Tone : Timer(i)!Init
  /\ [][\A i \in Tone : [Timer(i)!Next]_(Timer(i)!vars)]_timers
-----------------------------------------------------------------------------
(* The claim below is false of the code.                                   *)

(* "shut down spinner when the tone generator is inactive": once fsk_stop  *)
(* or dbpsk_stop has returned the cores are idle.                          *)
SilentWhenInactive == cpc = "none" => spinning = 0
=============================================================================
