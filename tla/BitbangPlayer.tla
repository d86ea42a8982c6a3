---------------------------- MODULE BitbangPlayer ----------------------------
(***************************************************************************)
(* bitbang_player.c and the audio loop of psplay.c: the main thread reads  *)
(* a file block by block into the ping-pong buffer, and the timer's        *)
(* callback plays one sample per tick out of it.  This module composes     *)
(* PingPongBuf (P), whose writer is the main thread and whose reader is    *)
(* the callback, with FTimer (T), whose client is the main thread.         *)
(*                                                                         *)
(* A sample is its position in everything there is to play: pass p (from   *)
(* 0) and position i (from 1) of the file make p * FileLen + i.  What      *)
(* memory holds before anything is written is 0.  The reader plays a       *)
(* block in place, sample by sample: what it copied out last, PingPongBuf's*)
(* item, is a sample here.                                                 *)
(*                                                                         *)
(* A stop can be forgotten, and what the main thread does next it then     *)
(* does to a timer that is still running.  C gives that no meaning: the    *)
(* model goes that far, and behaviours that get there end there.           *)
(***************************************************************************)
EXTENDS Integers

CONSTANTS
  BlockSize,   \* samples per block (block_size in psplay.c, 4096)
  FileLen,     \* samples in the file
  Passes,      \* loop_count
  NULL,
  Garbage,     \* a pointer that is not NULL and points to no slot
  IntMax,      \* as in FTimer
  MaxExp       \* as in FTimer

ASSUME PlayerAssumption == /\ {BlockSize, FileLen, Passes, IntMax, MaxExp} \subseteq Nat \ {0}
                           /\ NULL # Garbage /\ {NULL, Garbage} \cap {0, 1} = {}

STOPPED  == "STOPPED"
PLAYING  == "PLAYING"
STOPPING == "STOPPING"
STALLED  == "STALLED"

VARIABLES
  buf, buf_state, bufi, pp,   \* ppbuf: slots' memory, states, indices, threads
  pausing, paused, exiting, outstanding_ticks, control_locked, expirations,
  exp, wpc, cpc,              \* bbp->timer
  state,                      \* bbp->state
  state_locked,               \* the callback holds bbp->state_mutex
  bbuf,                       \* bbp->buf: a slot, NULL or Garbage
  pos,                        \* bbp->pos
  sample,                     \* the sample played last
  level,                      \* the sample the spinner renders, 0 if all idle
  reached,                    \* the latest sample played so far (history)
  stray,                      \* buf, which nothing initializes, was not NULL (history)
  tpc,                        \* where the callback is, while wpc = "cb"
  mpc,                        \* where the main thread is
  pass,                       \* passes begun before this one
  fpos                        \* samples read from the file in this pass

timer  == <<pausing, paused, exiting, outstanding_ticks, control_locked,
            expirations, exp, wpc, cpc>>
pingpong == <<buf, buf_state, bufi, pp>>
player == <<state, state_locked, bbuf, pos>>
speaker == <<level, reached, stray>>
output == <<sample, speaker>>
main   == <<mpc, pass, fpos>>

vars == <<timer, pingpong, player, output, tpc, main>>

LastSample == Passes * FileLen
Empty      == [i \in 1 .. BlockSize |-> 0]

P == INSTANCE PingPongBuf WITH
       Block <- [1 .. BlockSize -> 0 .. LastSample] \ {Empty},
       NoBlock <- Empty, pc <- pp, item <- sample

T == INSTANCE FTimer WITH CompensateMisses <- FALSE

TickPC == {"start", "flip", "lock", "poll", "begin", "starve", "unpause", "exit", "sample"}
MainPC == {"play", "begin", "read", "done", "flip", "stop", "recheck", "stopping",
           "destroy", "next", "finished", "undefined"}

(* The program has done nothing yet that C gives no meaning.               *)
Defined == mpc # "undefined"

Init == /\ T!Init
        /\ buf = [i \in P!Slot |-> Empty]
        /\ buf_state = [i \in P!Slot |-> P!PPBUF_STATE_FREE]
        /\ bufi = [t \in P!Thread |-> 0]
        /\ pp = [t \in P!Thread |-> "idle"]
        /\ state = STOPPED /\ state_locked = FALSE
        /\ bbuf \in {NULL, Garbage} /\ pos = 0
        /\ sample = 0 /\ level = 0 /\ reached = 0 /\ stray = (bbuf # NULL)
        /\ tpc = "start"
        /\ mpc = "play" /\ pass = 0 /\ fpos = 0
-----------------------------------------------------------------------------
(* tick_cb_func, called by the timer's worker thread *)

InTick(p) == Defined /\ wpc = "cb" /\ tpc = p

(* Parts of a tick that touch neither the buffer nor the timer.            *)
Aside == UNCHANGED <<timer, pingpong, main>>

InBlock ==
  /\ InTick("start") /\ pos # BlockSize
  /\ tpc' = "sample"
  /\ UNCHANGED <<player, output>> /\ Aside

(* size == pos and buf != NULL: ppbuf_buf_read_done, whatever buf is; the  *)
(* first time, that may be a slot nobody has begun to read.                *)
ReadDone ==
  /\ InTick("start") /\ pos = BlockSize /\ bbuf # NULL
  /\ P!SetState("reader")
  /\ tpc' = "flip"
  /\ UNCHANGED <<timer, player, speaker, main>>

(* Fault variant of Drop: buf still names the slot that was given back.    *)
DropKeepsBuf ==
  /\ InTick("flip")
  /\ P!Flip("reader")
  /\ tpc' = "lock"
  /\ UNCHANGED <<timer, player, speaker, main>>

Drop ==
  /\ InTick("flip")
  /\ P!Flip("reader")
  /\ bbuf' = NULL
  /\ tpc' = "lock"
  /\ UNCHANGED <<timer, state, state_locked, pos, speaker, main>>

NoBlockHeld ==
  /\ InTick("start") /\ pos = BlockSize /\ bbuf = NULL
  /\ tpc' = "lock"
  /\ UNCHANGED <<player, output>> /\ Aside

LockState ==
  /\ InTick("lock") /\ ~state_locked
  /\ state_locked' = TRUE
  /\ tpc' = "poll"
  /\ UNCHANGED <<state, bbuf, pos, output>> /\ Aside

(* Fault variant of Poll: no test, straight to ppbuf_buf_read_begin.       *)
PollNothing ==
  /\ InTick("poll")
  /\ tpc' = "begin"
  /\ UNCHANGED <<player, output>> /\ Aside

(* ppbuf_read_available *)
Poll ==
  /\ InTick("poll")
  /\ \/ P!Available("reader") /\ tpc' = "begin"
     \/ ~P!Ready("reader") /\ tpc' = "starve" /\ UNCHANGED <<pingpong, sample>>
  /\ UNCHANGED <<timer, player, speaker, main>>

(* Fault variant of BeginRead: playback resumes from any state.            *)
BeginReadAlwaysPlaying ==
  /\ InTick("begin")
  /\ P!Begin("reader")
  /\ IF pp'["reader"] = "held"
     THEN /\ bbuf' = bufi["reader"]
          /\ pos' = 0
          /\ state' = PLAYING
          /\ state_locked' = FALSE
          /\ tpc' = "sample"
     ELSE UNCHANGED <<player, tpc>>
  /\ UNCHANGED <<timer, speaker, main>>

(* ppbuf_buf_read_begin, and the unlock at the end of the branch.          *)
BeginRead ==
  /\ InTick("begin")
  /\ P!Begin("reader")
  /\ IF pp'["reader"] = "held"
     THEN /\ bbuf' = bufi["reader"]
          /\ pos' = 0
          /\ state' = IF state = STALLED THEN PLAYING ELSE state
          /\ state_locked' = FALSE
          /\ tpc' = "sample"
     ELSE UNCHANGED <<player, tpc>>
  /\ UNCHANGED <<timer, speaker, main>>

(* The switch over the state when no block is available.                   *)
StarveStopping ==
  /\ InTick("starve") /\ state = STOPPING
  /\ state' = STOPPED
  /\ level' = 0
  /\ tpc' = "unpause"
  /\ UNCHANGED <<state_locked, bbuf, pos, sample, reached, stray>> /\ Aside

(* Fault variant of StarvePlaying: returns with state_mutex locked.        *)
StarvePlayingKeepsLock ==
  /\ InTick("starve") /\ state = PLAYING
  /\ state' = STALLED
  /\ level' = 0
  /\ tpc' = "sample"
  /\ UNCHANGED <<state_locked, bbuf, pos, sample, reached, stray>> /\ Aside

StarvePlaying ==
  /\ InTick("starve") /\ state = PLAYING
  /\ state' = STALLED
  /\ level' = 0
  /\ state_locked' = FALSE
  /\ tpc' = "sample"
  /\ UNCHANGED <<bbuf, pos, sample, reached, stray>> /\ Aside

StarveOther ==
  /\ InTick("starve") /\ state \notin {STOPPING, PLAYING}
  /\ state_locked' = FALSE
  /\ tpc' = "sample"
  /\ UNCHANGED <<state, bbuf, pos, output>> /\ Aside

(* The two critical sections of ftimer_exit, called from the callback.     *)
ExitUnpause ==
  /\ InTick("unpause")
  /\ T!ClearPausing
  /\ tpc' = "exit"
  /\ UNCHANGED <<paused, exiting, outstanding_ticks, control_locked, expirations, exp, cpc,
                 pingpong, player, output, main>>

ExitExiting ==
  /\ InTick("exit")
  /\ T!SetExiting
  /\ state_locked' = FALSE
  /\ tpc' = "sample"
  /\ UNCHANGED <<pausing, paused, outstanding_ticks, control_locked, expirations, exp, wpc, cpc,
                 pingpong, state, bbuf, pos, output, main>>

(* Fault variant of Sample: one sample too far.                            *)
SampleSkips ==
  /\ InTick("sample")
  /\ IF pos < BlockSize
     THEN /\ sample' = buf[bbuf][pos + 1]
          /\ level' = sample'
          /\ reached' = IF sample' > reached THEN sample' ELSE reached
          /\ UNCHANGED stray
          /\ pos' = IF pos + 2 > BlockSize THEN BlockSize ELSE pos + 2
     ELSE UNCHANGED <<pos, output>>
  /\ tpc' = "start"
  /\ T!Callback
  /\ UNCHANGED <<pingpong, state, state_locked, bbuf, main>>

(* Play one sample, if there is one, and return.                           *)
Sample ==
  /\ InTick("sample")
  /\ IF pos < BlockSize
     THEN /\ sample' = buf[bbuf][pos + 1]
          /\ level' = sample'
          /\ reached' = IF sample' > reached THEN sample' ELSE reached
          /\ UNCHANGED stray
          /\ pos' = pos + 1
     ELSE UNCHANGED <<pos, output>>
  /\ tpc' = "start"
  /\ T!Callback
  /\ UNCHANGED <<pingpong, state, state_locked, bbuf, main>>

Tick_cb ==
  \/ InBlock \/ ReadDone \/ Drop \/ NoBlockHeld \/ LockState \/ Poll \/ BeginRead
  \/ StarveStopping \/ StarvePlaying \/ StarveOther \/ ExitUnpause \/ ExitExiting
  \/ Sample
-----------------------------------------------------------------------------
(* The rest of the timer: its worker outside the callback (the player      *)
(* never pauses it), and the kernel.                                       *)
Elsewhere == UNCHANGED <<pingpong, player, output, tpc, main>>

WorkerLoop ==
  /\ Defined
  /\ T!Lock \/ T!Gate \/ T!Return \/ T!Proceed \/ T!Read \/ T!Count
  /\ Elsewhere

KernelTick == Defined /\ T!Tick /\ Elsewhere
-----------------------------------------------------------------------------
(* The main thread *)

MainAt(p) == mpc = p

(* Fault variant of Play: pos is left as it was.                           *)
PlayKeepsPos ==
  /\ MainAt("play")
  /\ fpos' = 0
  /\ state' = STALLED
  /\ T!Create(FALSE)
  /\ mpc' = "begin"
  /\ UNCHANGED <<pingpong, state_locked, bbuf, pos, output, tpc, pass>>

(* sf_seek to the start, and bitbang_player_play: buf is left as it was.   *)
Play ==
  /\ MainAt("play")
  /\ fpos' = 0
  /\ state' = STALLED
  /\ pos' = BlockSize
  /\ T!Create(FALSE)
  /\ mpc' = "begin"
  /\ UNCHANGED <<pingpong, state_locked, bbuf, output, tpc, pass>>

(* The same after a stop that was forgotten: ftimer_create initializes the *)
(* mutexes and the fields that the running worker is using.                *)
PlayOverTimer ==
  /\ MainAt("play") /\ cpc # "none"
  /\ fpos' = 0
  /\ state' = STALLED
  /\ pos' = BlockSize
  /\ mpc' = "undefined"
  /\ UNCHANGED <<timer, pingpong, state_locked, bbuf, output, tpc, pass>>

(* ppbuf_buf_write_begin, again at every round until the slot is free.     *)
BeginWrite ==
  /\ MainAt("begin")
  /\ P!Begin("writer")
  /\ mpc' = IF pp'["writer"] = "held" THEN "read" ELSE "begin"
  /\ UNCHANGED <<timer, player, speaker, tpc, pass, fpos>>

MinOf(a, b) == IF a < b THEN a ELSE b

(* sf_read_double: as many samples as there are, up to a block; the rest   *)
(* of the slot keeps what it held.                                         *)
ReadFile ==
  LET n == MinOf(BlockSize, FileLen - fpos)
  IN  /\ MainAt("read")
      /\ IF n = 0
         THEN mpc' = "stop" /\ UNCHANGED <<pingpong, sample, fpos>>
         ELSE /\ P!WriteBlock([i \in 1 .. BlockSize |->
                                 IF i <= n THEN pass * FileLen + fpos + i
                                           ELSE buf[bufi["writer"]][i]])
              /\ fpos' = fpos + n
              /\ mpc' = "done"
      /\ UNCHANGED <<timer, player, speaker, tpc, pass>>

(* ppbuf_buf_write_done *)
WriteDone ==
  /\ MainAt("done")
  /\ P!Done("writer")
  /\ mpc' = "flip"
  /\ UNCHANGED <<timer, player, speaker, tpc, pass, fpos>>

WriteFlip ==
  /\ MainAt("flip")
  /\ P!Flip("writer")
  /\ mpc' = "begin"
  /\ UNCHANGED <<timer, player, speaker, tpc, pass, fpos>>

(* bitbang_player_stop reads state twice, without the mutex: is it STALLED *)
(* (line 90)?  ...                                                         *)
Stop ==
  /\ MainAt("stop")
  /\ mpc' = IF state = STALLED THEN "stopping" ELSE "recheck"
  /\ UNCHANGED <<timer, pingpong, player, output, tpc, pass, fpos>>

(* ... if not, is it PLAYING (line 93)? ...                                *)
StopPlaying ==
  /\ MainAt("recheck") /\ state = PLAYING
  /\ mpc' = "stopping"
  /\ UNCHANGED <<timer, pingpong, player, output, tpc, pass, fpos>>

(* ... if not either, there is nothing to stop: so also when the callback  *)
(* has gone from PLAYING to STALLED in between.                            *)
ForgetStop ==
  /\ MainAt("recheck") /\ state # PLAYING
  /\ mpc' = "next"
  /\ UNCHANGED <<timer, pingpong, player, output, tpc, pass, fpos>>

(* It sets STOPPING under the mutex, and destroys the timer.               *)
SetStopping ==
  /\ MainAt("stopping") /\ ~state_locked
  /\ state' = STOPPING
  /\ mpc' = "destroy"
  /\ UNCHANGED <<timer, pingpong, state_locked, bbuf, pos, output, tpc, pass, fpos>>

DestroyTimer ==
  /\ MainAt("destroy")
  /\ T!Destroy \/ T!Exit
  /\ UNCHANGED <<pingpong, player, output, tpc, main>>

JoinTimer ==
  /\ MainAt("destroy")
  /\ T!Join
  /\ mpc' = "next"
  /\ UNCHANGED <<pingpong, player, output, tpc, pass, fpos>>

(* if (loop_count != -1 && --loop_count <= 0) break                        *)
NextPass ==
  /\ MainAt("next") /\ pass + 1 < Passes
  /\ mpc' = "play" /\ pass' = pass + 1
  /\ UNCHANGED <<timer, pingpong, player, output, tpc, fpos>>

(* ppbuf_destroy frees the slots; if a stop was forgotten, while the       *)
(* callback goes on reading them.                                          *)
Finish ==
  /\ MainAt("next") /\ pass + 1 = Passes
  /\ mpc' = IF cpc = "none" THEN "finished" ELSE "undefined"
  /\ UNCHANGED <<timer, pingpong, player, output, tpc, pass, fpos>>

MainThread ==
  \/ Play \/ PlayOverTimer \/ BeginWrite \/ ReadFile \/ WriteDone \/ WriteFlip
  \/ Stop \/ StopPlaying \/ ForgetStop \/ SetStopping \/ DestroyTimer \/ JoinTimer
  \/ NextPass \/ Finish

SpuriousWakeup ==
  /\ Defined
  /\ \E t \in P!Thread : P!SpuriousWakeup(t)
  /\ UNCHANGED <<timer, player, speaker, tpc, main>>
-----------------------------------------------------------------------------
Next == Tick_cb \/ WorkerLoop \/ KernelTick \/ MainThread \/ SpuriousWakeup

Spec == Init /\ [][Next]_vars

(***************************************************************************)
(* The timer ticks, its worker runs and the main thread runs.  The main    *)
(* thread's locks compete with a worker that sleeps in read() between      *)
(* ticks with no mutex held: strong fairness for them.                     *)
(***************************************************************************)
FairSpec ==
  /\ Spec
  /\ WF_vars(Tick_cb \/ WorkerLoop) /\ WF_vars(KernelTick)
  /\ WF_vars(MainThread)
  /\ SF_vars(SetStopping) /\ SF_vars(DestroyTimer)
-----------------------------------------------------------------------------
TypeOK ==
  /\ T!TypeOK
  /\ buf \in [P!Slot -> [1 .. BlockSize -> 0 .. LastSample]]
  /\ buf_state \in [P!Slot -> {P!PPBUF_STATE_FREE, P!PPBUF_STATE_ACTIVE}]
  /\ bufi \in [P!Thread -> P!Slot]
  /\ pp \in [P!Thread -> P!PC]
  /\ state \in {STOPPED, PLAYING, STOPPING, STALLED}
  /\ state_locked \in BOOLEAN
  /\ bbuf \in P!Slot \cup {NULL, Garbage}
  /\ pos \in 0 .. BlockSize
  /\ sample \in 0 .. LastSample /\ level \in 0 .. LastSample
  /\ reached \in 0 .. LastSample /\ stray \in BOOLEAN
  /\ tpc \in TickPC
  /\ mpc \in MainPC
  /\ pass \in 0 .. Passes - 1
  /\ fpos \in 0 .. FileLen

(* The callback reads its sample from the slot the buffer has given it,    *)
(* while that slot is ACTIVE, so that the main thread cannot be writing    *)
(* there; also in a pass that began with a block left from the pass        *)
(* before.  It gives back only a slot it was given, but for the one its    *)
(* first tick gives back when buf began as something else than NULL.       *)
PlaysHeldSlot ==
  /\ InTick("sample") /\ pos < BlockSize =>
       /\ bbuf = bufi["reader"] /\ pp["reader"] = "held"
       /\ P!Ready("reader")
  /\ bbuf # NULL /\ tpc # "flip" =>
       \/ pp["reader"] = "held"
       \/ stray /\ bbuf = Garbage

(* The callback, which runs at real-time priority and may hold             *)
(* state_mutex, never sleeps in ppbuf_buf_read_begin.                      *)
ReaderNeverSleeps == pp["reader"] # "wait"

(* What the last block of the file fills of its slot, if not all of it.    *)
Rest == FileLen % BlockSize

(* After the samples of the file's last block, what its slot held before.  *)
Leftover == /\ pos' > Rest /\ Rest > 0
            /\ (buf[bbuf][1] - 1) % FileLen = FileLen - Rest

(* The samples of the file are played in order, none twice; what a stop    *)
(* cuts off is at most the rest of one block, and the next pass begins at  *)
(* the start of the file.  A short read leaves a stale end in its own slot *)
(* and is heard there (psplay.c gives the whole block away), never before  *)
(* the samples that were read and never in another block.  All of it is so *)
(* where buf began as NULL; else the reader is a slot ahead of the writer. *)
SamplesInOrder ==
  [][~stray /\ InTick("sample") /\ tpc' = "start" /\ pos < BlockSize =>
       \/ sample' = reached + 1
       \/ /\ sample' - reached \in 2 .. BlockSize
          /\ (sample' - 1) % FileLen = 0
       \/ sample' <= reached /\ Leftover]_vars

(* A stop that has set STOPPING is not forgotten: only STOPPED, or the     *)
(* next play, follows.  One that returns without it has the callback's     *)
(* stall between its two reads to blame, and no other: the player is left  *)
(* STALLED, its timer running.                                             *)
StopIsSticky ==
  [][/\ state = STOPPING => state' \in {STOPPING, STOPPED} \/ mpc = "play"
     /\ mpc \in {"stop", "recheck"} /\ mpc' = "next" => state = STALLED /\ cpc # "none"]_vars

(* The main thread, asleep because both slots are in use, gets one: the    *)
(* callback keeps giving slots back, through stalls and passes.            *)
WriterProceeds == (pp["writer"] = "wait") ~> (pp["writer"] = "held")
-----------------------------------------------------------------------------
(* The claim below is false of the code.                                   *)

(* The playback ends after loop_count passes.                              *)
StopReturns == (mpc = "stopping") ~> (mpc = "next")
=============================================================================
