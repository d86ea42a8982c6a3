---------------------------- MODULE PingPongBuf ----------------------------
(***************************************************************************)
(* ping_pong_buf.c: two buffers ("slots") shared by one writer thread and  *)
(* one reader thread.  Each slot is FREE or ACTIVE, under ppbuf->mutex;    *)
(* each thread walks the slots in turn with an index only it uses          *)
(* (buf_writei, buf_readi) and sleeps on the one condition ppbuf->cond     *)
(* until its slot has the state it wants.                                  *)
(*                                                                         *)
(* A critical section of ppbuf->mutex is one step: everything it touches   *)
(* (buf_state, the sleepers of cond) is touched only under that mutex.     *)
(* What happens outside the mutex is a step of its own: the access to the  *)
(* slot's memory, and the index flip after set_state has unlocked.         *)
(*                                                                         *)
(* The writer and the reader run the same code with the states swapped,    *)
(* so most actions have the thread as a parameter.                         *)
(***************************************************************************)
EXTENDS Naturals

CONSTANTS Block,    \* what a slot can hold once it is written
          NoBlock   \* what malloc left there

ASSUME NoBlockAssumption == NoBlock \notin Block

PPBUF_STATE_FREE   == 0
PPBUF_STATE_ACTIVE == 1

Slot   == {0, 1}
Thread == {"writer", "reader"}

VARIABLES
  buf,        \* what each slot's memory holds
  buf_state,  \* FREE or ACTIVE, per slot
  bufi,       \* buf_writei and buf_readi: the slot a thread is at
  pc,         \* where each thread is, see PC
  item        \* the block the reader copied out last

vars == <<buf, buf_state, bufi, pc, item>>

(***************************************************************************)
(* "idle"   outside the buffer's functions, holding no slot                *)
(* "avail"  ppbuf_*_available has just returned true                       *)
(* "wait"   asleep in pthread_cond_wait                                    *)
(* "woken"  back from pthread_cond_wait, about to test the loop condition  *)
(* "held"   ppbuf_buf_*_begin has returned the slot                        *)
(* "used"   the slot has been written, or read                             *)
(* "flip"   set_state has returned, the index is not yet flipped           *)
(***************************************************************************)
PC == {"idle", "avail", "wait", "woken", "held", "used", "flip"}

(* The state a thread waits for, and the one it leaves the slot in.        *)
Wanted(t) == IF t = "writer" THEN PPBUF_STATE_FREE ELSE PPBUF_STATE_ACTIVE
Left(t)   == IF t = "writer" THEN PPBUF_STATE_ACTIVE ELSE PPBUF_STATE_FREE

Ready(t) == buf_state[bufi[t]] = Wanted(t)

Init == /\ buf = [i \in Slot |-> NoBlock]
        /\ buf_state = [i \in Slot |-> PPBUF_STATE_FREE]
        /\ bufi = [t \in Thread |-> 0]
        /\ pc = [t \in Thread |-> "idle"]
        /\ item = NoBlock
-----------------------------------------------------------------------------
(* ppbuf_read_available, ppbuf_write_available returning true.  Returning  *)
(* false changes nothing.                                                  *)
Available(t) ==
  /\ pc[t] = "idle"
  /\ Ready(t)
  /\ pc' = [pc EXCEPT ![t] = "avail"]
  /\ UNCHANGED <<buf, buf_state, bufi, item>>

(* Fault variant of Begin: no test at all.                                 *)
BeginNeverWaits(t) ==
  /\ pc[t] \in {"idle", "avail", "woken", "held"}
  /\ pc' = [pc EXCEPT ![t] = "held"]
  /\ UNCHANGED <<buf, buf_state, bufi, item>>

(* One round of the loop of wait_for_state_becomes, called by              *)
(* ppbuf_buf_write_begin and ppbuf_buf_read_begin.  A thread may call      *)
(* *_begin again before *_done: it gets the same slot.                     *)
Begin(t) ==
  /\ pc[t] \in {"idle", "avail", "woken", "held"}
  /\ pc' = [pc EXCEPT ![t] = IF Ready(t) THEN "held" ELSE "wait"]
  /\ UNCHANGED <<buf, buf_state, bufi, item>>

(* POSIX lets pthread_cond_wait return without a signal.                   *)
SpuriousWakeup(t) ==
  /\ pc[t] = "wait"
  /\ pc' = [pc EXCEPT ![t] = "woken"]
  /\ UNCHANGED <<buf, buf_state, bufi, item>>

(* The threads' own access to the slot *_begin returned.                   *)
WriteBlock(b) ==
  /\ pc["writer"] = "held"
  /\ buf' = [buf EXCEPT ![bufi["writer"]] = b]
  /\ pc' = [pc EXCEPT !["writer"] = "used"]
  /\ UNCHANGED <<buf_state, bufi, item>>

ReadBlock ==
  /\ pc["reader"] = "held"
  /\ item' = buf[bufi["reader"]]
  /\ pc' = [pc EXCEPT !["reader"] = "used"]
  /\ UNCHANGED <<buf, buf_state, bufi>>

(* Fault variant of Signal: set_state changes the state and wakes nobody.  *)
SignalNobody(p) == {p}

(* pthread_cond_signal: the program counters p with one sleeper woken.     *)
Signal(p) ==
  LET Sleepers == {t \in Thread : p[t] = "wait"}
  IN  IF Sleepers = {} THEN {p} ELSE {[p EXCEPT ![t] = "woken"] : t \in Sleepers}

(* set_state(ppbuf, index of t, Left(t)).                                  *)
SetState(t) ==
  /\ buf_state' = [buf_state EXCEPT ![bufi[t]] = Left(t)]
  /\ pc' \in Signal([pc EXCEPT ![t] = "flip"])
  /\ UNCHANGED <<buf, bufi, item>>

(* ppbuf_buf_write_done and ppbuf_buf_read_done, up to the index flip.     *)
Done(t) == pc[t] = "used" /\ SetState(t)

(* Fault variant of Flip: a copy-and-paste error has both threads flip the *)
(* writer's index.                                                         *)
FlipWriters(t) ==
  /\ pc[t] = "flip"
  /\ bufi' = [bufi EXCEPT !["writer"] = 1 - @]
  /\ pc' = [pc EXCEPT ![t] = "idle"]
  /\ UNCHANGED <<buf, buf_state, item>>

(* ppbuf->buf_writei = 1 - ppbuf->buf_writei, outside the mutex.           *)
Flip(t) ==
  /\ pc[t] = "flip"
  /\ bufi' = [bufi EXCEPT ![t] = 1 - @]
  /\ pc' = [pc EXCEPT ![t] = "idle"]
  /\ UNCHANGED <<buf, buf_state, item>>

ThreadStep(t) == Available(t) \/ Begin(t) \/ Done(t) \/ Flip(t)

Next ==
  \/ \E t \in Thread : ThreadStep(t) \/ SpuriousWakeup(t)
  \/ ReadBlock
  \/ \E b \in Block : WriteBlock(b)

Spec == Init /\ [][Next]_vars

(***************************************************************************)
(* The reader keeps asking for blocks and handles each one; the writer may *)
(* stop producing for good (psplay does at the end of the file), but a     *)
(* writer that has been woken runs on.  Weak fairness is enough: once a    *)
(* step of a thread is enabled only that thread's own step disables it.    *)
(***************************************************************************)
FairSpec ==
  /\ Spec
  /\ WF_vars(ThreadStep("reader") \/ ReadBlock)
  /\ WF_vars(pc["writer"] = "woken" /\ Begin("writer"))
-----------------------------------------------------------------------------
TypeOK ==
  /\ buf \in [Slot -> Block \cup {NoBlock}]
  /\ buf_state \in [Slot -> {PPBUF_STATE_FREE, PPBUF_STATE_ACTIVE}]
  /\ bufi \in [Thread -> Slot]
  /\ pc \in [Thread -> PC]
  /\ item \in Block \cup {NoBlock}

Holds(t) == pc[t] \in {"held", "used"}

(* The writer never fills the slot the reader is reading from: two threads *)
(* between *_begin and *_done are at different slots (the memory of a slot *)
(* is accessed outside the mutex, so only this keeps the accesses apart).  *)
SlotExclusive ==
  Holds("writer") /\ Holds("reader") => bufi["writer"] # bufi["reader"]

(* An answer of ppbuf_*_available stays true until the thread that asked   *)
(* acts on it, although the mutex was released in between: the player      *)
(* calls ppbuf_buf_read_begin from its timer thread on the strength of it  *)
(* and must not sleep there.                                               *)
AvailableStaysTrue == \A t \in Thread : pc[t] = "avail" => Ready(t)

(* No wakeup is lost on the one condition the two threads share: a thread  *)
(* asleep in wait_for_state_becomes is one whose slot is still not ready.  *)
NoLostWakeup == \A t \in Thread : pc[t] = "wait" => ~Ready(t)

(* The two threads are never asleep together, each waiting for the other.  *)
NeverBothAsleep == ~ \A t \in Thread : pc[t] = "wait"

(* While the reader is between read_begin and read_done, its slot's memory *)
(* does not change under it.                                               *)
HeldBlockStable ==
  [][Holds("reader") => buf'[bufi["reader"]] = buf[bufi["reader"]]]_vars

(* A writer asleep because both slots are in use gets its slot in the end. *)
WriterProceeds == (pc["writer"] = "wait") ~> (pc["writer"] = "held")
-----------------------------------------------------------------------------
(***************************************************************************)
(* The refinement mapping.  The blocks in flight are the ACTIVE slots from *)
(* the reader's on, in the order the reader visits them, without the one   *)
(* it has already copied out.  Between set_state and the flip the reader's *)
(* index is still the slot it gave back, which the writer may have filled  *)
(* again: that block comes second.                                         *)
(***************************************************************************)
Active(i) == buf_state[i] = PPBUF_STATE_ACTIVE

QueueFrom(i) ==
  IF ~Active(i) THEN <<>>
  ELSE IF ~Active(1 - i) THEN <<buf[i]>>
  ELSE <<buf[i], buf[1 - i]>>

InFlight ==
  LET r == bufi["reader"]
  IN  CASE pc["reader"] = "flip" -> QueueFrom(1 - r)
        [] pc["reader"] = "used" -> IF Active(1 - r) THEN <<buf[1 - r]>> ELSE <<>>
        [] OTHER                 -> QueueFrom(r)

Channel == INSTANCE BlockChannel WITH queue <- InFlight, out <- item, Capacity <- 2

(* The buffer is a FIFO channel of two blocks that delivers every block    *)
(* written, whole, once and in order (what the ConcurrentReadWrite test    *)
(* samples), and keeps delivering.                                         *)
ChannelSpec == Channel!FairSpec
=============================================================================
