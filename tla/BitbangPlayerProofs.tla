------------------------- MODULE BitbangPlayerProofs -------------------------
(***************************************************************************)
(* Proofs about BitbangPlayer, for every length of a block and of a file   *)
(* and every number of passes: the tick callback reads samples only from a *)
(* slot it holds and never sleeps, whatever bbp->buf held to begin with,   *)
(* and plays the file in order if that was NULL; a stop that has set       *)
(* STOPPING is not forgotten.                                              *)
(***************************************************************************)
EXTENDS BitbangPlayer, TLAPS

Types ==
  /\ buf_state \in [P!Slot -> {P!PPBUF_STATE_FREE, P!PPBUF_STATE_ACTIVE}]
  /\ bufi \in [P!Thread -> P!Slot]
  /\ pp \in [P!Thread -> P!PC]
  /\ tpc \in TickPC

(* A thread that was told its slot is ready, and has not given it back,    *)
(* finds it ready.                                                         *)
ReadyWhenHeld == \A t \in P!Thread : pp[t] \in {"avail", "held", "used"} => P!Ready(t)

(* No timer, no worker; and a callback that does not run is at its start.  *)
NoTimer  == cpc = "none" => wpc = "returned"
AtStart  == wpc # "cb" => tpc = "start"

(* buf names the slot the callback holds, or is NULL; in the latter case   *)
(* the block counts as played to its end, once there is a timer.  So it    *)
(* does before the first tick, where buf may be anything.                  *)
NothingHeld == bbuf = NULL /\ (pos = BlockSize \/ cpc = "none")
StrayStart  ==
  tpc = "start" /\ stray /\ bbuf = Garbage /\ (pos = BlockSize \/ cpc = "none")

BufIsHeld ==
  /\ tpc = "flip" => pp["reader"] = "flip" /\ pos = BlockSize
  /\ tpc = "begin" => pp["reader"] = "avail" /\ NothingHeld
  /\ tpc \in {"lock", "poll", "starve", "unpause", "exit"} =>
       pp["reader"] = "idle" /\ NothingHeld
  /\ tpc \in {"start", "sample"} =>
       \/ pp["reader"] = "idle" /\ (NothingHeld \/ StrayStart)
       \/ pp["reader"] = "held" /\ bbuf = bufi["reader"]

(* The inductive invariant.                                                *)
IInv == Types /\ ReadyWhenHeld /\ NoTimer /\ AtStart /\ BufIsHeld

LEMMA NullIsNoSlot == NULL \notin P!Slot /\ Garbage \notin P!Slot /\ NULL # Garbage
  BY PlayerAssumption DEF P!Slot

LEMMA InitIInv == Init => IInv
  BY DEF Init, T!Init, IInv, Types, ReadyWhenHeld, NoTimer, AtStart, BufIsHeld, NothingHeld,
         StrayStart, TickPC, P!Thread, P!Slot, P!PC, P!PPBUF_STATE_FREE, P!PPBUF_STATE_ACTIVE

(* set_state, by a thread that holds a slot, or by the reader anyway: the  *)
(* other thread, unless it sleeps, stays where it is, and finds its slot   *)
(* as ready as it was.                                                     *)
LEMMA SetStateStep ==
  ASSUME Types, ReadyWhenHeld, NEW t \in P!Thread, P!SetState(t),
         t = "reader" \/ pp[t] \in {"held", "used"}
  PROVE  /\ buf_state' \in [P!Slot -> {P!PPBUF_STATE_FREE, P!PPBUF_STATE_ACTIVE}]
         /\ pp' \in [P!Thread -> P!PC] /\ bufi' = bufi
         /\ pp'[t] = "flip"
         /\ \A u \in P!Thread : u # t => pp'[u] = IF pp[u] = "wait" THEN "woken" ELSE pp[u]
         /\ ReadyWhenHeld'
<1> USE DEF P!Thread, P!Slot, P!PC, P!PPBUF_STATE_FREE, P!PPBUF_STATE_ACTIVE
<1>1. /\ pp' \in [P!Thread -> P!PC]
      /\ pp'[t] = "flip"
      /\ \A u \in P!Thread : u # t => pp'[u] = IF pp[u] = "wait" THEN "woken" ELSE pp[u]
  BY DEF P!SetState, P!Signal, Types
<1>2. buf_state' = [buf_state EXCEPT ![bufi[t]] = P!Left(t)] /\ bufi' = bufi
  BY DEF P!SetState
<1>3. CASE t = "writer"
  BY <1>1, <1>2, <1>3 DEF P!Left, Types, ReadyWhenHeld, P!Ready, P!Wanted
<1>4. CASE t = "reader"
  BY <1>1, <1>2, <1>4 DEF P!Left, Types, ReadyWhenHeld, P!Ready, P!Wanted
<1>5. QED
  BY <1>3, <1>4

(* What a step on one thread's side of the buffer leaves alone.            *)
LEMMA FlipStep ==
  ASSUME Types, ReadyWhenHeld, NEW t \in P!Thread, P!Flip(t)
  PROVE  /\ bufi' \in [P!Thread -> P!Slot] /\ pp' \in [P!Thread -> P!PC]
         /\ buf_state' = buf_state /\ pp'[t] = "idle"
         /\ \A u \in P!Thread : u # t => pp'[u] = pp[u] /\ bufi'[u] = bufi[u]
         /\ ReadyWhenHeld'
  BY DEF P!Flip, Types, ReadyWhenHeld, P!Ready, P!Wanted, P!Thread, P!Slot, P!PC

LEMMA BeginStep ==
  ASSUME Types, ReadyWhenHeld, NEW t \in P!Thread, P!Begin(t)
  PROVE  /\ pp' \in [P!Thread -> P!PC] /\ UNCHANGED <<buf_state, bufi>>
         /\ pp'[t] = IF P!Ready(t) THEN "held" ELSE "wait"
         /\ \A u \in P!Thread : u # t => pp'[u] = pp[u]
         /\ ReadyWhenHeld'
  BY DEF P!Begin, Types, ReadyWhenHeld, P!Ready, P!Wanted, P!Thread, P!Slot, P!PC

(* The steps of the callback.                                              *)
LEMMA CallbackStep == IInv /\ Tick_cb => IInv'
<1> SUFFICES ASSUME IInv, Tick_cb PROVE IInv'
  OBVIOUS
<1> USE DEF IInv, NoTimer, AtStart, InTick
<1>r. "reader" \in P!Thread /\ wpc = "cb" /\ cpc # "none"
  BY DEF P!Thread, Tick_cb, InBlock, ReadDone, Drop, NoBlockHeld, LockState, Poll, BeginRead,
         StarveStopping, StarvePlaying, StarveOther, ExitUnpause, ExitExiting, Sample
<1>1. CASE InBlock
  BY <1>1 DEF InBlock, Aside, timer, pingpong, player, output, Types, TickPC, ReadyWhenHeld,
              P!Ready, BufIsHeld, NothingHeld, StrayStart
<1>2. CASE ReadDone
  <2>1. P!SetState("reader") /\ pos' = pos /\ pos = BlockSize
        /\ tpc' = "flip" /\ UNCHANGED timer
    BY <1>2 DEF ReadDone, player
  <2>2. Types' /\ ReadyWhenHeld' /\ pp'["reader"] = "flip"
    BY <1>r, <2>1, SetStateStep DEF Types, TickPC
  <2>3. QED
    BY <1>r, <2>1, <2>2 DEF timer, BufIsHeld
<1>3. CASE Drop
  <2>1. /\ pos = BlockSize /\ pos' = pos /\ bbuf' = NULL /\ P!Flip("reader") /\ tpc' = "lock"
        /\ UNCHANGED timer
    BY <1>3 DEF Drop, BufIsHeld
  <2>2. Types' /\ ReadyWhenHeld' /\ pp'["reader"] = "idle"
    BY <1>r, <2>1, FlipStep DEF Types, TickPC
  <2>3. QED
    BY <1>r, <2>1, <2>2 DEF timer, BufIsHeld, NothingHeld, StrayStart
<1>4. CASE NoBlockHeld
  BY <1>4, NullIsNoSlot DEF NoBlockHeld, Aside, timer, pingpong, player, output, Types, TickPC,
     ReadyWhenHeld, P!Ready, BufIsHeld, NothingHeld, StrayStart, P!Thread
<1>5. CASE LockState
  BY <1>5 DEF LockState, Aside, timer, pingpong, output, Types, TickPC, ReadyWhenHeld, P!Ready,
              BufIsHeld, NothingHeld, StrayStart
<1>6. CASE Poll
  <2>1. UNCHANGED <<timer, player>> /\ pp["reader"] = "idle" /\ NothingHeld
    BY <1>6 DEF Poll, BufIsHeld
  <2>2. CASE P!Available("reader") /\ tpc' = "begin"
    BY <1>r, <2>1, <2>2 DEF P!Available, timer, player, Types, TickPC, ReadyWhenHeld, P!Ready,
       P!Wanted, P!Thread, P!PC, BufIsHeld, NothingHeld, StrayStart
  <2>3. CASE UNCHANGED pingpong /\ tpc' = "starve"
    BY <1>r, <2>1, <2>3 DEF pingpong, timer, player, Types, TickPC, ReadyWhenHeld, P!Ready,
       BufIsHeld, NothingHeld, StrayStart
  <2>4. QED
    BY <1>6, <2>2, <2>3 DEF Poll
<1>7. CASE BeginRead
  <2>1. P!Begin("reader") /\ UNCHANGED timer /\ pp["reader"] = "avail"
    BY <1>7 DEF BeginRead, BufIsHeld
  <2>2. P!Ready("reader")
    BY <1>r, <2>1 DEF ReadyWhenHeld
  <2>3. /\ pp' \in [P!Thread -> P!PC] /\ UNCHANGED <<buf_state, bufi>> /\ ReadyWhenHeld'
        /\ pp'["reader"] = "held"
    BY <1>r, <2>1, <2>2, BeginStep
  <2>4. bbuf' = bufi["reader"] /\ tpc' = "sample"
    BY <1>7, <2>3 DEF BeginRead
  <2>5. QED
    BY <1>r, <2>1, <2>3, <2>4 DEF timer, Types, TickPC, BufIsHeld
<1>8. CASE StarveStopping
  BY <1>8 DEF StarveStopping, Aside, timer, pingpong, Types, TickPC, ReadyWhenHeld, P!Ready,
              BufIsHeld, NothingHeld, StrayStart
<1>9. CASE StarvePlaying
  BY <1>9 DEF StarvePlaying, Aside, timer, pingpong, Types, TickPC, ReadyWhenHeld, P!Ready,
              BufIsHeld, NothingHeld, StrayStart
<1>10. CASE StarveOther
  BY <1>10 DEF StarveOther, Aside, timer, pingpong, output, Types, TickPC, ReadyWhenHeld,
               P!Ready, BufIsHeld, NothingHeld, StrayStart
<1>11. CASE ExitUnpause
  <2>1. wpc' = "cb" /\ cpc' = cpc /\ tpc' = "exit" /\ UNCHANGED <<pingpong, player>>
    BY <1>r, <1>11 DEF ExitUnpause, T!ClearPausing
  <2>2. tpc = "unpause"
    BY <1>11 DEF ExitUnpause
  <2>3. QED
    BY <1>r, <2>1, <2>2 DEF pingpong, player, Types, TickPC, ReadyWhenHeld, P!Ready, BufIsHeld,
                            NothingHeld, StrayStart
<1>12. CASE ExitExiting
  BY <1>r, <1>12 DEF ExitExiting, pingpong, Types, TickPC, ReadyWhenHeld, P!Ready, BufIsHeld,
                     NothingHeld, StrayStart
<1>13. CASE Sample
  <2>1. /\ tpc = "sample" /\ tpc' = "start" /\ UNCHANGED <<pingpong, bbuf>>
        /\ wpc' = "count" /\ cpc' = cpc
        /\ pos' = pos \/ pos < BlockSize
    BY <1>13 DEF Sample, T!Callback
  <2>2. NothingHeld => pos = BlockSize
    BY <1>r DEF NothingHeld
  <2>3. BlockSize \in Nat /\ (NothingHeld => pos' = pos)
    BY <2>1, <2>2, PlayerAssumption
  <2>4. Types' /\ ReadyWhenHeld' /\ NoTimer' /\ AtStart'
    BY <1>r, <2>1 DEF pingpong, Types, TickPC, ReadyWhenHeld, P!Ready
  <2>5. BufIsHeld'
    BY <2>1, <2>3 DEF pingpong, BufIsHeld, NothingHeld, StrayStart
  <2>6. QED
    BY <2>4, <2>5
<1>14. QED
  BY <1>1, <1>2, <1>3, <1>4, <1>5, <1>6, <1>7, <1>8, <1>9, <1>10, <1>11, <1>12, <1>13 DEF Tick_cb

(* The callback never sleeps, so that no wakeup finds it asleep.           *)
LEMMA ReaderAwake == IInv => pp["reader"] # "wait"
  BY DEF IInv, Types, TickPC, BufIsHeld

(* The rest of the timer: no callback starts without a timer, or anywhere  *)
(* but at its start.                                                       *)
LEMMA TimerStep == IInv /\ (WorkerLoop \/ KernelTick) => IInv'
<1> SUFFICES ASSUME IInv, WorkerLoop \/ KernelTick PROVE IInv'
  OBVIOUS
<1> USE DEF IInv
<1>1. Elsewhere
  BY DEF WorkerLoop, KernelTick
<1>2. Types' /\ ReadyWhenHeld'
  BY <1>1 DEF Elsewhere, pingpong, Types, ReadyWhenHeld, P!Ready
<1>3. NoTimer' /\ AtStart' /\ (cpc' = "none" <=> cpc = "none")
  <2>1. tpc' = tpc
    BY <1>1 DEF Elsewhere
  <2>2. CASE KernelTick
    BY <2>1, <2>2 DEF KernelTick, T!Tick, NoTimer, AtStart
  <2>3. CASE T!Lock \/ T!Gate \/ T!Return
    BY <2>1, <2>3 DEF T!Lock, T!Gate, T!Return, NoTimer, AtStart
  <2>4. CASE T!Proceed \/ T!Read \/ T!Count
    BY <2>1, <2>4 DEF T!Proceed, T!Read, T!Count, NoTimer, AtStart
  <2>5. QED
    BY <2>2, <2>3, <2>4 DEF WorkerLoop
<1>4. BufIsHeld'
  BY <1>1, <1>3 DEF Elsewhere, pingpong, player, output, speaker, BufIsHeld, NothingHeld, StrayStart
<1>5. QED
  BY <1>2, <1>3, <1>4

(* A step of the writer's side of the buffer, or of none: the timer and    *)
(* the player stay as they are, and so does the reader.                    *)
LEMMA WritersStep ==
  ASSUME IInv, Types', ReadyWhenHeld', UNCHANGED <<timer, player, speaker, tpc>>,
         pp'["reader"] = pp["reader"], bufi'["reader"] = bufi["reader"]
  PROVE  IInv'
<1>1. NoTimer' /\ AtStart'
  BY DEF IInv, timer, NoTimer, AtStart
<1>2. BufIsHeld'
  BY DEF IInv, timer, player, speaker, BufIsHeld, NothingHeld, StrayStart
<1>3. QED
  BY <1>1, <1>2 DEF IInv

LEMMA WakeupStep == IInv /\ SpuriousWakeup => IInv'
<1> SUFFICES ASSUME IInv, SpuriousWakeup PROVE IInv'
  OBVIOUS
<1>1. /\ P!SpuriousWakeup("writer")
      /\ UNCHANGED <<timer, player, speaker, tpc>>
  BY ReaderAwake DEF SpuriousWakeup, P!SpuriousWakeup, P!Thread
<1>2. /\ Types' /\ ReadyWhenHeld'
      /\ pp'["reader"] = pp["reader"] /\ bufi'["reader"] = bufi["reader"]
  BY <1>1 DEF IInv, P!SpuriousWakeup, Types, ReadyWhenHeld, P!Ready, P!Thread, P!PC
<1>3. QED
  BY <1>1, <1>2, WritersStep

(* The steps of the main thread.                                           *)
LEMMA MainStep == IInv /\ MainThread => IInv'
<1> SUFFICES ASSUME IInv, MainThread PROVE IInv'
  OBVIOUS
<1>t. Types /\ ReadyWhenHeld /\ "writer" \in P!Thread /\ "reader" \in P!Thread
  BY DEF IInv, P!Thread
<1>1. CASE Play
  <2>1. /\ cpc = "none" /\ wpc' = "lock" /\ cpc' = "idle" /\ pos' = BlockSize
        /\ UNCHANGED <<pingpong, bbuf, stray, tpc>>
    BY <1>1 DEF Play, T!Create, output, speaker
  <2>2. tpc = "start"
    BY <2>1 DEF IInv, NoTimer, AtStart
  <2>3. Types' /\ ReadyWhenHeld'
    BY <1>t, <2>1 DEF pingpong, Types, ReadyWhenHeld, P!Ready
  <2>4. NoTimer' /\ AtStart'
    BY <2>1, <2>2 DEF NoTimer, AtStart
  <2>5. BufIsHeld'
    BY <2>1, <2>2 DEF IInv, pingpong, BufIsHeld, NothingHeld, StrayStart
  <2>6. QED
    BY <2>3, <2>4, <2>5 DEF IInv
<1>2. CASE BeginWrite
  <2>1. P!Begin("writer") /\ UNCHANGED <<timer, player, speaker, tpc>>
    BY <1>2 DEF BeginWrite
  <2>2. /\ pp' \in [P!Thread -> P!PC] /\ UNCHANGED <<buf_state, bufi>> /\ ReadyWhenHeld'
        /\ pp'["reader"] = pp["reader"]
    BY <1>t, <2>1, BeginStep
  <2>3. Types'
    BY <1>t, <2>1, <2>2 DEF Types
  <2>4. QED
    BY <2>1, <2>2, <2>3, WritersStep
<1>3. CASE ReadFile
  <2>1. UNCHANGED <<timer, player, speaker, tpc>> /\ (UNCHANGED pingpong \/ \E b : P!WriteBlock(b))
    BY <1>3, Zenon DEF ReadFile
  <2>2. /\ UNCHANGED <<buf_state, bufi, tpc>>
        /\ (pp' = pp \/ pp' = [pp EXCEPT !["writer"] = "used"])
    BY <2>1 DEF P!WriteBlock, pingpong
  <2>3. pp["writer"] = "held" \/ pp' = pp
    BY <2>1 DEF P!WriteBlock, pingpong
  <2>4. Types' /\ ReadyWhenHeld' /\ pp'["reader"] = pp["reader"]
    BY <1>t, <2>2, <2>3 DEF Types, ReadyWhenHeld, P!Ready, P!Thread, P!PC
  <2>5. QED
    BY <2>1, <2>2, <2>4, WritersStep
<1>4. CASE WriteDone
  <2>1. pp["writer"] = "used" /\ P!SetState("writer") /\ UNCHANGED <<timer, player, speaker, tpc>>
    BY <1>4 DEF WriteDone, P!Done
  <2>2. /\ pp' \in [P!Thread -> P!PC] /\ bufi' = bufi /\ ReadyWhenHeld'
        /\ buf_state' \in [P!Slot -> {P!PPBUF_STATE_FREE, P!PPBUF_STATE_ACTIVE}]
        /\ pp'["reader"] = pp["reader"]
    BY <1>t, <2>1, SetStateStep, ReaderAwake
  <2>3. Types'
    BY <1>t, <2>1, <2>2 DEF Types
  <2>4. QED
    BY <2>1, <2>2, <2>3, WritersStep
<1>5. CASE WriteFlip
  <2>1. P!Flip("writer") /\ UNCHANGED <<timer, player, speaker, tpc>>
    BY <1>5 DEF WriteFlip
  <2>2. /\ Types' /\ ReadyWhenHeld'
        /\ pp'["reader"] = pp["reader"] /\ bufi'["reader"] = bufi["reader"]
    BY <1>t, <2>1, FlipStep DEF Types
  <2>3. QED
    BY <2>1, <2>2, WritersStep
<1>6. CASE Stop \/ StopPlaying \/ ForgetStop \/ NextPass \/ Finish
  <2>1. UNCHANGED <<timer, pingpong, player, speaker, tpc>>
    BY <1>6 DEF Stop, StopPlaying, ForgetStop, NextPass, Finish, output
  <2>2. QED
    BY <1>t, <2>1, WritersStep DEF pingpong, Types, ReadyWhenHeld, P!Ready
<1>7. CASE SetStopping
  BY <1>7 DEF SetStopping, timer, pingpong, output, speaker, IInv, Types, ReadyWhenHeld, P!Ready,
              NoTimer, AtStart, BufIsHeld, NothingHeld, StrayStart
<1>8. CASE DestroyTimer \/ JoinTimer
  <2>1. UNCHANGED <<pingpong, player, stray, tpc>>
    BY <1>8 DEF DestroyTimer, JoinTimer, output, speaker
  <2>2. /\ wpc' = "cb" <=> wpc = "cb"
        /\ cpc' = "none" => wpc' = "returned"
        /\ cpc = "none" => cpc' = "none"
    BY <1>8 DEF DestroyTimer, JoinTimer, T!Destroy, T!Exit, T!Join, T!ClearPausing
  <2>3. Types' /\ ReadyWhenHeld'
    BY <1>t, <2>1 DEF pingpong, Types, ReadyWhenHeld, P!Ready
  <2>4. NoTimer' /\ AtStart'
    BY <2>1, <2>2 DEF IInv, NoTimer, AtStart
  <2>5. BufIsHeld'
    BY <2>1, <2>2 DEF IInv, pingpong, player, BufIsHeld, NothingHeld, StrayStart
  <2>6. QED
    BY <2>3, <2>4, <2>5 DEF IInv
<1>9. CASE PlayOverTimer
  <2>1. pos' = BlockSize /\ UNCHANGED <<timer, pingpong, bbuf, stray, tpc>>
    BY <1>9 DEF PlayOverTimer, output, speaker
  <2>2. Types' /\ ReadyWhenHeld'
    BY <1>t, <2>1 DEF pingpong, Types, ReadyWhenHeld, P!Ready
  <2>3. NoTimer' /\ AtStart'
    BY <2>1 DEF IInv, timer, NoTimer, AtStart
  <2>4. BufIsHeld'
    BY <2>1 DEF IInv, pingpong, BufIsHeld, NothingHeld, StrayStart
  <2>5. QED
    BY <2>2, <2>3, <2>4 DEF IInv
<1>10. QED
  BY <1>1, <1>2, <1>3, <1>4, <1>5, <1>6, <1>7, <1>8, <1>9 DEF MainThread

LEMMA StepIInv == IInv /\ [Next]_vars => IInv'
<1>1. IInv /\ UNCHANGED vars => IInv'
  BY WritersStep DEF vars, output, pingpong, IInv, Types, ReadyWhenHeld, P!Ready
<1>2. QED
  BY <1>1, CallbackStep, TimerStep, MainStep, WakeupStep DEF Next

LEMMA Invariance == Spec => []IInv
<1>1. Init => IInv
  BY InitIInv
<1>2. QED
  BY <1>1, StepIInv, PTL DEF Spec

(* The types of what IInv does not speak of.                               *)
Values == [1 .. BlockSize -> 0 .. LastSample]

PlayerTypes ==
  /\ state \in {STOPPED, PLAYING, STOPPING, STALLED} /\ state_locked \in BOOLEAN
  /\ bbuf \in P!Slot \cup {NULL, Garbage}
  /\ pos \in 0 .. BlockSize
  /\ sample \in 0 .. LastSample /\ level \in 0 .. LastSample /\ reached \in 0 .. LastSample
  /\ stray \in BOOLEAN

MainTypes ==
  /\ buf \in [P!Slot -> Values]
  /\ mpc \in MainPC /\ pass \in 0 .. Passes - 1 /\ fpos \in 0 .. FileLen

LEMMA TypesTogether == TypeOK <=> T!TypeOK /\ Types /\ PlayerTypes /\ MainTypes
  BY DEF TypeOK, Types, PlayerTypes, MainTypes, Values

(* The samples of every pass are within all there is to play.              *)
LEMMA PassFits ==
  ASSUME NEW p \in 0 .. Passes - 1
  PROVE  p * FileLen \in Nat /\ p * FileLen + FileLen <= LastSample /\ LastSample \in Nat
<1>1. p \in Nat /\ p + 1 <= Passes /\ Passes \in Nat /\ FileLen \in Nat
  BY PlayerAssumption
<1>2. /\ p * FileLen \in Nat /\ Passes * FileLen \in Nat
      /\ p * FileLen + FileLen = (p + 1) * FileLen
  BY <1>1
<1>3. (p + 1) * FileLen <= Passes * FileLen
  BY <1>1
<1>4. QED
  BY <1>2, <1>3 DEF LastSample

LEMMA InitTypes == Init => TypeOK
<1>1. SUFFICES ASSUME Init PROVE T!TypeOK /\ Types /\ PlayerTypes /\ MainTypes
  BY TypesTogether
<1>2. T!TypeOK
  <2>1. IntMax \in Nat /\ MaxExp \in Nat
    BY PlayerAssumption
  <2>2. 0 \in -IntMax - 1 .. IntMax /\ 0 \in 0 .. MaxExp
    BY <2>1
  <2>3. QED
    BY <1>1, <2>2 DEF Init, T!Init, T!TypeOK, T!WorkerPC, T!ClientPC
<1>3. BlockSize \in Nat /\ FileLen \in Nat /\ Passes \in Nat /\ 0 \in 0 .. Passes - 1
  BY PlayerAssumption
<1>4. 0 \in 0 .. LastSample
  BY <1>3, PassFits
<1>5. Types
  BY <1>1 DEF Init, Types, TickPC, P!Thread, P!Slot, P!PC, P!PPBUF_STATE_FREE,
              P!PPBUF_STATE_ACTIVE
<1>6. PlayerTypes
  <2>1. bbuf \in {NULL, Garbage}
    BY <1>1, PlayerAssumption DEF Init
  <2>2. 0 \in 0 .. BlockSize
    BY <1>3
  <2>3. QED
    BY <1>1, <1>4, <2>1, <2>2 DEF Init, PlayerTypes, STOPPED
<1>7. MainTypes
  BY <1>1, <1>3, <1>4 DEF Init, MainTypes, MainPC, Values, Empty
<1>8. QED
  BY <1>2, <1>5, <1>6, <1>7

(* The timer's fields, whoever steps.                                      *)
LEMMA CountsInRange ==
  ASSUME NEW n \in -IntMax - 1 .. IntMax
  PROVE  /\ T!Increment(n) \in -IntMax - 1 .. IntMax
         /\ 0 \in -IntMax - 1 .. IntMax /\ 0 \in 0 .. MaxExp
         /\ \A e \in 0 .. MaxExp : (e < MaxExp => e + 1 \in 0 .. MaxExp)
                                 /\ (e > 1 => e - 1 \in 0 .. MaxExp)
<1>1. IntMax \in Nat /\ MaxExp \in Nat
  BY PlayerAssumption
<1>2. QED
  BY <1>1 DEF T!Increment

LEMMA TimerTypes == T!TypeOK /\ [Next]_vars => T!TypeOK'
<1> SUFFICES ASSUME T!TypeOK, [Next]_vars PROVE T!TypeOK'
  OBVIOUS
<1> USE DEF T!TypeOK, T!WorkerPC, T!ClientPC
<1>1. CASE UNCHANGED timer
  BY <1>1 DEF timer
<1>2. CASE ExitUnpause \/ ExitExiting \/ Sample
  BY <1>2 DEF ExitUnpause, ExitExiting, Sample, T!ClearPausing, T!SetExiting, T!Callback
<1>3. CASE WorkerLoop
  <2>1. CASE T!Lock \/ T!Gate \/ T!Return
    BY <2>1 DEF T!Lock, T!Gate, T!Return
  <2>2. CASE T!Proceed \/ T!Read
    BY <2>2, CountsInRange DEF T!Proceed, T!Read
  <2>3. CASE T!Count
    BY <2>3, CountsInRange DEF T!Count, T!Again
  <2>4. QED
    BY <1>3, <2>1, <2>2, <2>3 DEF WorkerLoop
<1>4. CASE KernelTick
  BY <1>4, CountsInRange DEF KernelTick, T!Tick
<1>5. CASE Play
  BY <1>5, CountsInRange DEF Play, T!Create
<1>6. CASE DestroyTimer \/ JoinTimer
  BY <1>6 DEF DestroyTimer, JoinTimer, T!Destroy, T!Exit, T!Join, T!ClearPausing, T!SetExiting
<1>7. CASE Tick_cb /\ ~ (ExitUnpause \/ ExitExiting \/ Sample)
  BY <1>1, <1>7 DEF Tick_cb, InBlock, ReadDone, Drop, NoBlockHeld, LockState, Poll, BeginRead,
     StarveStopping, StarvePlaying, StarveOther, Aside
<1>8. CASE MainThread /\ ~ (Play \/ DestroyTimer \/ JoinTimer)
  BY <1>1, <1>8 DEF MainThread, PlayOverTimer, BeginWrite, ReadFile, WriteDone, WriteFlip, Stop,
     StopPlaying, ForgetStop, SetStopping, NextPass, Finish
<1>9. CASE SpuriousWakeup \/ UNCHANGED vars
  BY <1>1, <1>9 DEF SpuriousWakeup, vars
<1>10. QED
  BY <1>2, <1>3, <1>4, <1>5, <1>6, <1>7, <1>8, <1>9 DEF Next

(* When the callback is about to read a sample, buf names its slot.        *)
LEMMA ReadsItsSlot ==
  ASSUME IInv, InTick("sample"), pos < BlockSize
  PROVE  bbuf = bufi["reader"] /\ pp["reader"] = "held" /\ P!Ready("reader")
<1>1. ~ NothingHeld /\ ~ StrayStart
  BY PlayerAssumption DEF InTick, NothingHeld, StrayStart, IInv, NoTimer
<1>2. QED
  BY <1>1 DEF InTick, IInv, BufIsHeld, ReadyWhenHeld, P!Thread

LEMMA PlayerTypesStep ==
  ASSUME IInv, PlayerTypes, MainTypes, [Next]_vars
  PROVE  PlayerTypes'
<1> USE DEF PlayerTypes, STOPPED, PLAYING, STOPPING, STALLED
<1>1. BlockSize \in Nat /\ 0 \in 0 .. BlockSize /\ BlockSize \in 0 .. BlockSize
  BY PlayerAssumption
<1>2. 0 \in 0 .. LastSample
  BY PassFits DEF MainTypes
<1>3. CASE InBlock \/ ReadDone \/ Drop \/ NoBlockHeld \/ LockState \/ Poll
  BY <1>3 DEF InBlock, ReadDone, Drop, NoBlockHeld, LockState, Poll, P!SetState, P!Flip,
     P!Available, player, output, speaker
<1>4. CASE BeginRead
  <2>1. bufi["reader"] \in P!Slot /\ sample' = sample
    BY <1>4 DEF IInv, Types, P!Thread, BeginRead, P!Begin
  <2>2. QED
    BY <1>1, <1>4, <2>1 DEF BeginRead, player, speaker
<1>5. CASE StarveStopping \/ StarvePlaying \/ StarveOther
  BY <1>2, <1>5 DEF StarveStopping, StarvePlaying, StarveOther, output, speaker
<1>6. CASE ExitUnpause \/ ExitExiting
  BY <1>6 DEF ExitUnpause, ExitExiting, player, output, speaker
<1>7. CASE Sample
  <2>1. CASE pos < BlockSize
    <3>1. bbuf \in P!Slot
      BY <1>7, <2>1, ReadsItsSlot DEF Sample, IInv, Types, P!Thread
    <3>2. pos + 1 \in 1 .. BlockSize /\ pos + 1 \in 0 .. BlockSize
      BY <1>1, <2>1
    <3>3. buf[bbuf][pos + 1] \in 0 .. LastSample
      BY <3>1, <3>2 DEF MainTypes, Values
    <3>4. QED
      BY <1>7, <2>1, <3>2, <3>3 DEF Sample
  <2>2. CASE ~ (pos < BlockSize)
    BY <1>7, <2>2 DEF Sample, output, speaker
  <2>3. QED
    BY <2>1, <2>2
<1>8. CASE WorkerLoop \/ KernelTick \/ SpuriousWakeup
  BY <1>8 DEF WorkerLoop, KernelTick, Elsewhere, SpuriousWakeup, P!SpuriousWakeup, player, output,
     speaker
<1>9. CASE MainThread
  BY <1>1, <1>9 DEF MainThread, Play, PlayOverTimer, BeginWrite, ReadFile, WriteDone, WriteFlip,
     Stop, StopPlaying, ForgetStop, SetStopping, DestroyTimer, JoinTimer, NextPass, Finish, P!Begin,
     P!WriteBlock, P!Done, P!SetState, P!Flip, player, output, speaker
<1>10. CASE UNCHANGED vars
  BY <1>10 DEF vars, player, output, speaker
<1>11. QED
  BY <1>3, <1>4, <1>5, <1>6, <1>7, <1>8, <1>9, <1>10 DEF Next, Tick_cb

LEMMA MainTypesStep ==
  ASSUME IInv, MainTypes, [Next]_vars
  PROVE  MainTypes'
<1> USE DEF MainTypes, MainPC, MainAt
<1>1. CASE Tick_cb
  BY <1>1 DEF Tick_cb, InBlock, ReadDone, Drop, NoBlockHeld, LockState, Poll, BeginRead,
     StarveStopping, StarvePlaying, StarveOther, ExitUnpause, ExitExiting, Sample, Aside,
     P!SetState, P!Flip, P!Available, P!Begin, pingpong, main
<1>2. CASE WorkerLoop \/ KernelTick \/ SpuriousWakeup
  BY <1>2 DEF WorkerLoop, KernelTick, Elsewhere, SpuriousWakeup, P!SpuriousWakeup, pingpong, main
<1>3. FileLen \in Nat /\ Passes \in Nat /\ 0 \in 0 .. FileLen
  BY PlayerAssumption
<1>4. CASE \/ Play \/ PlayOverTimer \/ BeginWrite \/ WriteDone \/ WriteFlip
           \/ Stop \/ StopPlaying \/ ForgetStop \/ SetStopping
  BY <1>3, <1>4 DEF Play, PlayOverTimer, BeginWrite, WriteDone, WriteFlip, Stop, StopPlaying,
     ForgetStop, SetStopping, P!Begin, P!Done, P!SetState, P!Flip, pingpong
<1>5. CASE ReadFile
  <2> DEFINE n == MinOf(BlockSize, FileLen - fpos)
             w == bufi["writer"]
             b == [i \in 1 .. BlockSize |->
                     IF i <= n THEN pass * FileLen + fpos + i ELSE buf[w][i]]
  <2>1. n \in Nat /\ n <= FileLen - fpos /\ fpos + n \in 0 .. FileLen
    BY PlayerAssumption DEF MinOf
  <2>2. w \in P!Slot
    BY DEF IInv, Types, P!Thread
  <2>3. b \in Values
    <3> SUFFICES ASSUME NEW i \in 1 .. BlockSize PROVE b[i] \in 0 .. LastSample
      BY DEF Values
    <3>1. CASE i <= n
      <4>1. pass * FileLen + fpos + i \in 0 .. LastSample
        BY <1>3, <2>1, <3>1, PassFits
      <4>2. QED
        BY <3>1, <4>1
    <3>2. CASE ~ (i <= n)
      BY <2>2, <3>2 DEF Values
    <3>3. QED
      BY <3>1, <3>2
  <2>4. CASE n = 0
    BY <1>5, <2>4 DEF ReadFile, pingpong
  <2>5. CASE n # 0
    <3>1. buf' = [buf EXCEPT ![w] = b] /\ fpos' = fpos + n /\ mpc' = "done" /\ pass' = pass
      BY <1>5, <2>5 DEF ReadFile, P!WriteBlock
    <3> HIDE DEF n, w, b
    <3>2. QED
      BY <2>1, <2>2, <2>3, <3>1
  <2>6. QED
    BY <2>4, <2>5
<1>6. CASE DestroyTimer \/ JoinTimer
  BY <1>6 DEF DestroyTimer, JoinTimer, pingpong, main
<1>7. CASE NextPass \/ Finish
  BY <1>3, <1>7 DEF NextPass, Finish, pingpong
<1>8. CASE UNCHANGED vars
  BY <1>8 DEF vars, pingpong, main
<1>9. QED
  BY <1>1, <1>2, <1>4, <1>5, <1>6, <1>7, <1>8 DEF Next, MainThread

(* Every field and every sample keeps its type: whatever buf held to begin *)
(* with, the callback never reads beyond a block or out of no slot at all. *)
THEOREM TypeCorrect == Spec => []TypeOK
<1>1. IInv /\ TypeOK /\ [Next]_vars => TypeOK'
  <2> SUFFICES ASSUME IInv, TypeOK, [Next]_vars PROVE TypeOK'
    OBVIOUS
  <2>1. T!TypeOK /\ PlayerTypes /\ MainTypes
    BY TypesTogether
  <2>2. T!TypeOK' /\ Types' /\ PlayerTypes' /\ MainTypes'
    BY <2>1, TimerTypes, StepIInv, PlayerTypesStep, MainTypesStep DEF IInv
  <2>3. QED
    BY <2>2 DEF TypeOK, Types, PlayerTypes, MainTypes, Values
<1>2. QED
  BY <1>1, InitTypes, Invariance, PTL DEF Spec

(* The callback reads its samples only from a slot it holds, and gives     *)
(* back only such a one, but at its first tick if buf did not begin as     *)
(* NULL: in every pass and at every interleaving with the main thread's    *)
(* writes and stops, those included that are forgotten.                    *)
THEOREM PlaysWhatItHolds == Spec => []PlaysHeldSlot
<1>1. IInv => PlaysHeldSlot
  <2> SUFFICES ASSUME IInv PROVE PlaysHeldSlot
    OBVIOUS
  <2>1. bbuf # NULL /\ tpc # "flip" => pp["reader"] = "held" \/ (stray /\ bbuf = Garbage)
    BY DEF IInv, Types, TickPC, BufIsHeld, NothingHeld, StrayStart
  <2>2. QED
    BY <2>1, ReadsItsSlot DEF PlaysHeldSlot
<1>2. QED
  BY <1>1, Invariance, PTL

(* The callback, which runs at real-time priority, never sleeps in         *)
(* ppbuf_buf_read_begin, whatever buf held to begin with.                  *)
THEOREM CallbackNeverSleeps == Spec => []ReaderNeverSleeps
<1>1. IInv => ReaderNeverSleeps
  BY ReaderAwake DEF ReaderNeverSleeps
<1>2. QED
  BY <1>1, Invariance, PTL

(* From a pass's play to its stop there is a timer, and the player is      *)
(* STALLED or PLAYING.                                                     *)
InPass   == mpc \in {"begin", "read", "done", "flip", "stop", "recheck", "stopping"}
StateInv == InPass => state \in {STALLED, PLAYING} /\ cpc # "none"

LEMMA StateStep == StateInv /\ [Next]_vars => StateInv'
<1> SUFFICES ASSUME StateInv, [Next]_vars PROVE StateInv'
  OBVIOUS
<1> USE DEF StateInv, InPass, STOPPED, PLAYING, STOPPING, STALLED
<1>1. CASE Tick_cb
  BY <1>1 DEF Tick_cb, InBlock, ReadDone, Drop, NoBlockHeld, LockState, Poll, BeginRead,
     StarveStopping, StarvePlaying, StarveOther, ExitUnpause, ExitExiting, Sample, Aside,
     T!Callback, timer, player, main
<1>2. CASE WorkerLoop \/ KernelTick
  <2>1. UNCHANGED <<state, mpc>>
    BY <1>2 DEF WorkerLoop, KernelTick, Elsewhere, player, main
  <2>2. cpc # "none" => cpc' # "none"
    BY <1>2 DEF WorkerLoop, KernelTick, T!Lock, T!Gate, T!Return, T!Proceed, T!Read, T!Count,
       T!Tick
  <2>3. QED
    BY <2>1, <2>2
<1>3. CASE SpuriousWakeup \/ UNCHANGED vars
  BY <1>3 DEF SpuriousWakeup, vars, timer, player, main
<1>4. CASE Play
  BY <1>4 DEF Play, T!Create
<1>5. CASE MainThread /\ ~ Play
  BY <1>5 DEF MainThread, MainAt, PlayOverTimer, BeginWrite, ReadFile, WriteDone, WriteFlip, Stop,
     StopPlaying, ForgetStop, SetStopping, DestroyTimer, JoinTimer, NextPass, Finish, timer,
     player, main
<1>6. QED
  BY <1>1, <1>2, <1>3, <1>4, <1>5 DEF Next

(* A stop that has set STOPPING is answered by STOPPED or the next play,   *)
(* by nothing else, wherever the callback is; one that returns without it  *)
(* leaves the player STALLED and the timer running.                        *)
THEOREM StopsAreSticky == Spec => StopIsSticky
<1> DEFINE Sticky ==
             /\ state = STOPPING => state' \in {STOPPING, STOPPED} \/ mpc = "play"
             /\ mpc \in {"stop", "recheck"} /\ mpc' = "next" => state = STALLED /\ cpc # "none"
<1>1. Init => StateInv
  BY DEF Init, StateInv, InPass
<1>2. Next /\ state = STOPPING => state' \in {STOPPING, STOPPED} \/ mpc = "play"
  <2> SUFFICES ASSUME Next, state = STOPPING, mpc # "play"
               PROVE  state' \in {STOPPING, STOPPED}
    OBVIOUS
  <2> USE DEF STOPPED, PLAYING, STOPPING, STALLED, player
  <2>1. CASE Tick_cb
    BY <2>1 DEF Tick_cb, InBlock, ReadDone, Drop, NoBlockHeld, LockState, Poll, BeginRead,
       StarveStopping, StarvePlaying, StarveOther, ExitUnpause, ExitExiting, Sample
  <2>2. CASE WorkerLoop \/ KernelTick \/ SpuriousWakeup
    BY <2>2 DEF WorkerLoop, KernelTick, Elsewhere, SpuriousWakeup
  <2>3. CASE MainThread
    BY <2>3 DEF MainThread, MainAt, Play, PlayOverTimer, BeginWrite, ReadFile, WriteDone, WriteFlip,
       Stop, StopPlaying, ForgetStop, SetStopping, DestroyTimer, JoinTimer, NextPass, Finish
  <2>4. QED
    BY <2>1, <2>2, <2>3 DEF Next
<1>3. StateInv /\ Next /\ mpc \in {"stop", "recheck"} /\ mpc' = "next"
        => state = STALLED /\ cpc # "none"
  <2> SUFFICES ASSUME StateInv, Next, mpc \in {"stop", "recheck"}, mpc' = "next"
               PROVE  state = STALLED /\ cpc # "none"
    OBVIOUS
  <2>1. ForgetStop
    <3>1. ~ (Tick_cb \/ WorkerLoop \/ KernelTick \/ SpuriousWakeup)
      BY DEF Tick_cb, InBlock, ReadDone, Drop, NoBlockHeld, LockState, Poll, BeginRead,
         StarveStopping, StarvePlaying, StarveOther, ExitUnpause, ExitExiting, Sample, Aside,
         WorkerLoop, KernelTick, Elsewhere, SpuriousWakeup, main
    <3>2. QED
      BY <3>1 DEF Next, MainThread, MainAt, Play, PlayOverTimer, BeginWrite, ReadFile, WriteDone,
         WriteFlip, Stop, StopPlaying, SetStopping, DestroyTimer, JoinTimer, NextPass, Finish
  <2>2. QED
    BY <2>1 DEF ForgetStop, StateInv, InPass
<1>4. StateInv /\ [Next]_vars => [Sticky]_vars
  BY <1>2, <1>3
<1>5. QED
  BY <1>1, <1>4, StateStep, PTL DEF Spec, StopIsSticky

(***************************************************************************)
(* The order of the samples.  A slot that was written holds a block of the *)
(* file: the samples from Start on, as many as are Fresh, and after them   *)
(* what the slot held before.                                              *)
(***************************************************************************)
Active(i) == buf_state[i] = P!PPBUF_STATE_ACTIVE
Fresh(s)  == MinOf(BlockSize, FileLen - (s % FileLen))
Start(i)  == buf[i][1] - 1
End(i)    == Start(i) + Fresh(Start(i))

Written(i) ==
  /\ Start(i) \in Nat /\ (Start(i) % FileLen) % BlockSize = 0
  /\ \A k \in 1 .. BlockSize :
       IF k <= Fresh(Start(i)) THEN buf[i][k] = Start(i) + k ELSE buf[i][k] <= Start(i)

(* The slot of a thread's next call, when a flip on the way is over.       *)
Turn(t) == IF pp[t] = "flip" THEN 1 - bufi[t] ELSE bufi[t]

(* The main thread's samples: all those read, and those handed over.       *)
Total  == IF mpc = "play" THEN pass * FileLen ELSE pass * FileLen + fpos
Handed == IF pp["writer"] = "used" THEN Start(bufi["writer"]) ELSE Total

(* Both at one slot: the two slots are alike.  Otherwise one block is on   *)
(* its way.                                                                *)
Alternation ==
  IF Turn("writer") = Turn("reader")
  THEN Active(0) <=> Active(1)
  ELSE Active(Turn("reader")) /\ ~ Active(Turn("writer"))

(* The blocks on their way follow one another, up to the last one handed   *)
(* over, and nothing in memory is beyond what was read.                    *)
Queue ==
  /\ \A i \in P!Slot : Active(i) => Written(i)
  /\ \A i \in P!Slot, k \in 1 .. BlockSize : buf[i][k] <= Total
  /\ pp["writer"] = "used" => Written(bufi["writer"]) /\ End(bufi["writer"]) = Total
  /\ LET r == Turn("reader")
     IN  Active(r) => IF Active(1 - r) THEN End(r) = Start(1 - r) /\ End(1 - r) = Handed
                                       ELSE End(r) = Handed

(* Where the main thread is in a pass; a pass begins with a free slot.     *)
MainPhase ==
  /\ CASE mpc = "begin" -> pp["writer"] \in {"idle", "wait", "woken", "held"}
       [] mpc = "done"  -> pp["writer"] = "used"
       [] mpc = "flip"  -> pp["writer"] = "flip"
       [] mpc = "play"  -> pp["writer"] \in {"idle", "held"} /\ ~ Active(bufi["writer"])
       [] OTHER         -> pp["writer"] = "held"
  /\ mpc \in {"stop", "recheck", "stopping", "destroy", "next", "finished"} => fpos = FileLen
  /\ fpos = FileLen \/ fpos % BlockSize = 0

(* The sample the callback plays next, but for a stale end, is Due + 1.    *)
Holding == pp["reader"] = "held"
Due == IF Holding /\ pos # 0
       THEN Start(bufi["reader"]) + MinOf(pos, Fresh(Start(bufi["reader"])))
       ELSE IF Active(Turn("reader")) THEN Start(Turn("reader")) ELSE Handed

(* All samples up to Due were played, except that a stop may have cut off  *)
(* the rest of the block that ended its pass.                              *)
Progress ==
  /\ Holding /\ tpc = "start" => pos # 0
  /\ \/ reached = Due
     \/ /\ Holding => pos \in {0, BlockSize}
        /\ Due % FileLen = 0 /\ Due - reached \in 1 .. BlockSize - 1

OrderInv == Alternation /\ Queue /\ MainPhase /\ Progress

(* All this where buf began as NULL, and as far as there is a meaning.     *)
Ordered == ~stray /\ Defined => OrderInv

Typed == IInv /\ PlayerTypes /\ MainTypes

LEMMA TypedStep == Typed /\ [Next]_vars => Typed'
  BY StepIInv, PlayerTypesStep, MainTypesStep DEF Typed

-----------------------------------------------------------------------------
(* Blocks in the file: arithmetic.                                         *)
LEMMA Places ==
  ASSUME NEW p \in Nat, NEW x \in 0 .. FileLen - 1
  PROVE  (p * FileLen + x) % FileLen = x
<1>1. FileLen \in Nat \ {0}
  BY PlayerAssumption
<1>2. QED
  BY <1>1

LEMMA PassEnd ==
  ASSUME NEW p \in Nat
  PROVE  (p * FileLen) % FileLen = 0 /\ (p + 1) * FileLen = p * FileLen + FileLen
<1>1. FileLen \in Nat \ {0} /\ p * FileLen \in Nat
  BY PlayerAssumption
<1>2. (p * FileLen + 0) % FileLen = 0
  BY <1>1, Places
<1>3. QED
  BY <1>1, <1>2

LEMMA FreshSamples ==
  ASSUME NEW s \in Nat
  PROVE  /\ s % FileLen \in 0 .. FileLen - 1
         /\ Fresh(s) \in 1 .. BlockSize /\ Fresh(s) <= FileLen - (s % FileLen)
<1>1. FileLen \in Nat \ {0} /\ BlockSize \in Nat \ {0}
  BY PlayerAssumption
<1>2. s % FileLen \in 0 .. FileLen - 1
  BY <1>1
<1>3. QED
  BY <1>1, <1>2 DEF Fresh, MinOf

(* A block that a pass reads at fpos.                                      *)
LEMMA BlockRead ==
  ASSUME NEW p \in Nat, NEW f \in 0 .. FileLen - 1, f % BlockSize = 0
  PROVE  LET s == p * FileLen + f
             n == MinOf(BlockSize, FileLen - f)
         IN  /\ s \in Nat /\ (s % FileLen) % BlockSize = 0 /\ Fresh(s) = n
             /\ n \in 1 .. BlockSize /\ f + n \in 1 .. FileLen
             /\ f + n = FileLen \/ (f + n) % BlockSize = 0
<1> DEFINE s == p * FileLen + f
           n == MinOf(BlockSize, FileLen - f)
<1>1. FileLen \in Nat \ {0} /\ BlockSize \in Nat \ {0} /\ s \in Nat
  BY PlayerAssumption
<1>2. s % FileLen = f
  BY Places
<1>3. Fresh(s) = n
  BY <1>2 DEF Fresh
<1>4. n \in 1 .. BlockSize /\ f + n \in 1 .. FileLen /\ (n = BlockSize \/ f + n = FileLen)
  BY <1>1 DEF MinOf
<1>5. (f + BlockSize) % BlockSize = 0
  <2>1. f = BlockSize * (f \div BlockSize) /\ f \div BlockSize \in Nat
    BY <1>1
  <2>2. \A q \in Nat : BlockSize * q + BlockSize = BlockSize * (q + 1)
    BY <1>1
  <2>3. \A q \in Nat : (BlockSize * q) % BlockSize = 0
    BY <1>1
  <2>4. QED
    BY <2>1, <2>2, <2>3
<1>6. QED
  BY <1>1, <1>2, <1>3, <1>4, <1>5

(* A short block is what the blocks before it leave of the file.           *)
LEMMA ShortBlock ==
  ASSUME NEW s \in Nat, (s % FileLen) % BlockSize = 0, Fresh(s) < BlockSize
  PROVE  Fresh(s) = Rest /\ Rest > 0 /\ s % FileLen = FileLen - Rest
<1> DEFINE f == s % FileLen
           n == Fresh(s)
<1>1. FileLen \in Nat \ {0} /\ BlockSize \in Nat \ {0}
  BY PlayerAssumption
<1>2. f \in 0 .. FileLen - 1 /\ n \in 1 .. BlockSize /\ n < BlockSize
  BY FreshSamples
<1>3. n = MinOf(BlockSize, FileLen - f) /\ f % BlockSize = 0
  BY DEF Fresh
<1> HIDE DEF f, n
<1>4. (f + n) % BlockSize = n
  <2>1. f = BlockSize * (f \div BlockSize) /\ f \div BlockSize \in Nat
    BY <1>1, <1>2, <1>3
  <2>2. \A q \in Nat : (BlockSize * q + n) % BlockSize = n
    BY <1>1, <1>2
  <2>3. QED
    BY <2>1, <2>2
<1>5. FileLen = f + n
  BY <1>1, <1>2, <1>3 DEF MinOf
<1>6. n = Rest
  BY <1>4, <1>5 DEF Rest
<1>7. QED
  BY <1>1, <1>2, <1>5, <1>6 DEF f, n

-----------------------------------------------------------------------------
LEMMA OrderTypes ==
  ASSUME Typed
  PROVE  /\ \A t \in P!Thread : bufi[t] \in P!Slot /\ Turn(t) \in P!Slot
         /\ "writer" \in P!Thread /\ "reader" \in P!Thread
         /\ \A i \in P!Slot : Start(i) \in Int /\ \A k \in 1 .. BlockSize : buf[i][k] \in Nat
         /\ pass \in Nat /\ fpos \in Nat /\ fpos <= FileLen /\ Total \in Nat /\ Handed \in Int
         /\ reached \in Nat /\ pos \in Nat /\ pos <= BlockSize
         /\ BlockSize \in Nat \ {0} /\ FileLen \in Nat \ {0}
<1>1. BlockSize \in Nat \ {0} /\ FileLen \in Nat \ {0} /\ Passes \in Nat \ {0}
      /\ LastSample \in Nat
  BY PlayerAssumption, PassFits DEF Typed, MainTypes
<1>2. pass \in Nat /\ fpos \in Nat /\ fpos <= FileLen
      /\ reached \in Nat /\ pos \in Nat /\ pos <= BlockSize
  BY <1>1 DEF Typed, MainTypes, PlayerTypes
<1>3. "writer" \in P!Thread /\ "reader" \in P!Thread
  BY DEF P!Thread
<1>4. \A t \in P!Thread : bufi[t] \in P!Slot /\ Turn(t) \in P!Slot
  BY DEF Typed, IInv, Types, Turn, P!Slot
<1>5. \A i \in P!Slot, k \in 1 .. BlockSize : buf[i][k] \in Nat
  BY <1>1 DEF Typed, MainTypes, Values
<1>6. \A i \in P!Slot : Start(i) \in Int
  BY <1>1, <1>5 DEF Start
<1>7. Total \in Nat
  BY <1>1, <1>2 DEF Total
<1>8. Handed \in Int
  BY <1>3, <1>4, <1>6, <1>7 DEF Handed
<1>9. QED
  BY <1>1, <1>2, <1>3, <1>4, <1>5, <1>6, <1>7, <1>8

(* Steps that leave memory and states of the slots alone.                  *)
LEMMA SlotsKept ==
  ASSUME UNCHANGED <<buf, buf_state>>
  PROVE  \A i : /\ Active(i)' <=> Active(i)
                /\ Written(i)' <=> Written(i)
                /\ Start(i)' = Start(i) /\ End(i)' = End(i)
  BY DEF Active, Written, Start, End

LEMMA QueueKept ==
  ASSUME Alternation, Queue, UNCHANGED <<buf, buf_state>>, Total' = Total,
         pp'["writer"] = "used" <=> pp["writer"] = "used", bufi'["writer"] = bufi["writer"],
         Turn("writer")' = Turn("writer"), Turn("reader")' = Turn("reader")
  PROVE  Alternation' /\ Queue' /\ Handed' = Handed
<1>1. Handed' = Handed
  BY DEF Handed, Start
<1>2. Alternation'
  BY DEF Alternation, Active
<1>3. Queue'
  BY <1>1, SlotsKept DEF Queue
<1>4. QED
  BY <1>1, <1>2, <1>3

(* A step that hands nothing over, and of which the main thread sees no    *)
(* more than a wakeup.                                                     *)
LEMMA MainPhaseKept ==
  ASSUME MainPhase, UNCHANGED <<buf_state, mpc, fpos>>, bufi'["writer"] = bufi["writer"],
         pp'["writer"] = pp["writer"] \/ (pp["writer"] = "wait" /\ pp'["writer"] = "woken")
  PROVE  MainPhase'
  BY DEF MainPhase, Active

(* A step of the callback that plays nothing and moves no block.           *)
LEMMA CallbackAside ==
  ASSUME OrderInv, UNCHANGED <<buf, buf_state, mpc, pass, fpos, pos, reached>>,
         bufi'["writer"] = bufi["writer"], Holding => bufi' = bufi,
         pp'["writer"] = pp["writer"] \/ (pp["writer"] = "wait" /\ pp'["writer"] = "woken"),
         Turn("reader")' = Turn("reader"), Holding' <=> Holding,
         Holding /\ tpc' = "start" => tpc = "start"
  PROVE  OrderInv'
<1>1. Total' = Total /\ Turn("writer")' = Turn("writer")
      /\ (pp'["writer"] = "used" <=> pp["writer"] = "used")
  BY DEF Total, Turn
<1>2. Alternation' /\ Queue' /\ Handed' = Handed
  BY <1>1, QueueKept DEF OrderInv
<1>3. MainPhase'
  BY MainPhaseKept DEF OrderInv
<1>4. Due' = Due
  BY <1>2, SlotsKept DEF Due
<1>5. Progress'
  BY <1>4 DEF OrderInv, Progress
<1>6. QED
  BY <1>2, <1>3, <1>5 DEF OrderInv

LEMMA ReadDoneOrder == Typed /\ OrderInv /\ ~stray /\ ReadDone => OrderInv'
<1> SUFFICES ASSUME Typed, OrderInv, ~stray, ReadDone PROVE OrderInv'
  OBVIOUS
<1> DEFINE r == bufi["reader"]
<1>t. r \in P!Slot /\ Turn("writer") \in P!Slot
  BY OrderTypes
<1>1. /\ UNCHANGED <<buf, bufi, mpc, pass, fpos, pos, reached>> /\ tpc' = "flip"
      /\ buf_state' = [buf_state EXCEPT ![r] = P!PPBUF_STATE_FREE]
      /\ pos = BlockSize /\ pos # 0
  BY PlayerAssumption DEF ReadDone, P!SetState, P!Left, player, speaker, main
<1>2. pp["reader"] = "held" /\ Active(r)
  BY DEF Typed, IInv, BufIsHeld, NothingHeld, StrayStart, ReadDone, InTick, ReadyWhenHeld,
         P!Thread, P!Ready, P!Wanted, Active
<1>3. /\ pp'["reader"] = "flip"
      /\ pp'["writer"] = pp["writer"] \/ (pp["writer"] = "wait" /\ pp'["writer"] = "woken")
  <2>1. P!SetState("reader") /\ Types /\ ReadyWhenHeld
    BY DEF ReadDone, Typed, IInv
  <2>2. QED
    BY <1>2, <2>1, SetStateStep DEF P!Thread
<1>4. /\ \A i \in P!Slot : Active(i)' <=> i # r /\ Active(i)
      /\ r' = r
      /\ Turn("reader") = r /\ Turn("reader")' = 1 - r /\ Turn("writer")' = Turn("writer")
      /\ Total' = Total
  BY <1>t, <1>1, <1>2, <1>3 DEF Active, Turn, Total, Typed, IInv, Types, P!Slot,
     P!PPBUF_STATE_FREE, P!PPBUF_STATE_ACTIVE
<1>5. \A i : Start(i)' = Start(i) /\ End(i)' = End(i) /\ (Written(i)' <=> Written(i))
  BY <1>1 DEF Start, End, Written
<1>6. Handed' = Handed
  BY <1>1, <1>3, <1>4, <1>5 DEF Handed
<1>7. Alternation'
  BY <1>t, <1>2, <1>4 DEF OrderInv, Alternation, P!Slot
<1>8. Queue'
  <2>1. \A i \in P!Slot : Active(i)' => Active(i)
    BY <1>t, <1>2, <1>4 DEF P!Slot
  <2>2. 1 - r \in P!Slot /\ (Active(1 - r) => End(1 - r) = Handed)
    BY <1>t, <1>2, <1>4 DEF OrderInv, Queue, P!Slot
  <2>3. 1 - (1 - r) = r
    BY <1>t DEF P!Slot
  <2>4. QED
    BY <1>t, <1>1, <1>3, <1>4, <1>5, <1>6, <2>1, <2>2, <2>3 DEF OrderInv, Queue
<1>9. MainPhase'
  <2>1. mpc = "play" => bufi["writer"] # r
    BY <1>2 DEF OrderInv, MainPhase
  <2>2. mpc = "play" => ~ Active(bufi["writer"])'
    BY <1>t, <1>1, <2>1 DEF OrderInv, MainPhase, Active, Typed, IInv, Types, P!Slot
  <2>3. QED
    BY <1>1, <1>3, <2>2 DEF OrderInv, MainPhase
<1>10. Progress'
  <2>1. Due = Start(r) + MinOf(BlockSize, Fresh(Start(r)))
    BY <1>1, <1>2 DEF Due, Holding
  <2>2. Start(r) \in Nat
    BY <1>t, <1>2 DEF OrderInv, Queue, Written
  <2>3. Due = End(r)
    BY <2>1, <2>2, FreshSamples, OrderTypes DEF End, MinOf
  <2>4. Due' = IF Active(1 - r) THEN Start(1 - r) ELSE Handed
    BY <1>t, <1>2, <1>3, <1>4, <1>5, <1>6 DEF Due, Holding, P!Slot
  <2>5. Due' = End(r)
    BY <1>2, <1>4, <2>4 DEF OrderInv, Queue
  <2>6. QED
    BY <1>1, <1>2, <1>3, <2>3, <2>5 DEF OrderInv, Progress, Holding
<1>11. QED
  BY <1>7, <1>8, <1>9, <1>10 DEF OrderInv

LEMMA BeginReadOrder == Typed /\ OrderInv /\ BeginRead => OrderInv'
<1> SUFFICES ASSUME Typed, OrderInv, BeginRead PROVE OrderInv'
  OBVIOUS
<1>1. P!Begin("reader") /\ pp["reader"] = "avail" /\ P!Ready("reader")
  BY DEF BeginRead, Typed, IInv, BufIsHeld, InTick, ReadyWhenHeld, P!Thread
<1>2. /\ UNCHANGED <<buf, buf_state, bufi, mpc, pass, fpos>>
      /\ pp'["reader"] = "held" /\ pp'["writer"] = pp["writer"]
  BY <1>1 DEF P!Begin, BeginRead, Typed, IInv, Types, P!Thread, main
<1>3. pos' = 0 /\ tpc' = "sample" /\ reached' = reached
  BY <1>2 DEF BeginRead, speaker
<1>4. Total' = Total /\ Turn("reader")' = Turn("reader") /\ Turn("writer")' = Turn("writer")
  BY <1>1, <1>2 DEF Total, Turn
<1>5. Alternation' /\ Queue' /\ Handed' = Handed
  BY <1>2, <1>4, QueueKept DEF OrderInv
<1>6. MainPhase'
  BY <1>2, MainPhaseKept DEF OrderInv
<1>7. Due' = Due
  BY <1>1, <1>2, <1>3, <1>4, <1>5, SlotsKept DEF Due, Holding
<1>8. Progress'
  BY <1>1, <1>3, <1>7 DEF OrderInv, Progress, Holding
<1>9. QED
  BY <1>5, <1>6, <1>8 DEF OrderInv

(* The step that plays, if the block is not over.                          *)
LEMMA SampleOrder ==
  ASSUME Typed, OrderInv, Sample
  PROVE  /\ OrderInv'
         /\ pos < BlockSize =>
              \/ sample' = reached + 1
              \/ sample' - reached \in 2 .. BlockSize /\ (sample' - 1) % FileLen = 0
              \/ sample' <= reached /\ Leftover
<1> DEFINE r == bufi["reader"]
           s == Start(r)
           n == Fresh(s)
<1>0. /\ UNCHANGED <<buf, buf_state, bufi, pp, mpc, pass, fpos, bbuf>>
      /\ tpc = "sample" /\ tpc' = "start"
  BY DEF Sample, pingpong, main, InTick
<1>1. CASE ~ (pos < BlockSize)
  <2>1. UNCHANGED <<pos, reached, sample>> /\ pos # 0
    BY <1>1, OrderTypes DEF Sample, output, speaker
  <2>2. Total' = Total /\ Turn("reader")' = Turn("reader") /\ Turn("writer")' = Turn("writer")
        /\ (Holding' <=> Holding)
    BY <1>0 DEF Total, Turn, Holding
  <2>3. Alternation' /\ Queue' /\ Handed' = Handed
    BY <1>0, <2>2, QueueKept DEF OrderInv
  <2>4. MainPhase'
    BY <1>0, MainPhaseKept DEF OrderInv
  <2>5. Due' = Due
    BY <1>0, <2>1, <2>2, <2>3, SlotsKept DEF Due
  <2>6. Progress'
    BY <2>1, <2>2, <2>5 DEF OrderInv, Progress
  <2>7. QED
    BY <1>1, <2>3, <2>4, <2>6 DEF OrderInv
<1>2. CASE pos < BlockSize
  <2>t. /\ r \in P!Slot /\ reached \in Nat /\ pos \in Nat /\ BlockSize \in Nat
        /\ pos + 1 \in 1 .. BlockSize /\ pos + 1 # 0
    BY <1>2, OrderTypes
  <2>1. bbuf = r /\ pp["reader"] = "held" /\ Active(r)
    BY <1>0, <1>2, ReadsItsSlot DEF Typed, InTick, Sample, P!Ready, P!Wanted, Active
  <2>2. /\ sample' = buf[r][pos + 1] /\ pos' = pos + 1
        /\ reached' = IF sample' > reached THEN sample' ELSE reached
    BY <1>2, <2>1 DEF Sample
  <2>3. /\ s \in Nat /\ (s % FileLen) % BlockSize = 0 /\ sample' \in Nat
        /\ IF pos + 1 <= n THEN sample' = s + (pos + 1) ELSE sample' <= s
    <3>1. Written(r)
      BY <2>t, <2>1 DEF OrderInv, Queue
    <3>2. buf[r][pos + 1] \in Nat
      BY <2>t, OrderTypes
    <3>3. QED
      BY <2>t, <2>2, <3>1, <3>2 DEF Written
  <2>4. n \in 1 .. BlockSize
    BY <2>3, FreshSamples
  <2>5. /\ Total' = Total /\ Turn("reader")' = Turn("reader") /\ Turn("writer")' = Turn("writer")
        /\ Turn("reader") = r
    BY <1>0, <2>1 DEF Total, Turn
  <2>6. Alternation' /\ Queue' /\ Handed' = Handed
    BY <1>0, <2>5, QueueKept DEF OrderInv
  <2>7. MainPhase'
    BY <1>0, MainPhaseKept DEF OrderInv
  <2>8. Due = IF pos = 0 THEN s ELSE s + MinOf(pos, n)
    BY <2>1, <2>5 DEF Due, Holding
  <2>9. Due' = s + MinOf(pos + 1, n)
    BY <1>0, <2>t, <2>1, <2>2, SlotsKept DEF Due, Holding
  <2>10. /\ pos # 0 => reached = Due
         /\ \/ reached = Due
            \/ Due % FileLen = 0 /\ Due - reached \in 1 .. BlockSize - 1
    <3>1. pos \notin {0, BlockSize} \/ pos = 0
      BY <1>2, <2>t
    <3>2. QED
      BY <2>1, <3>1 DEF OrderInv, Progress, Holding
  <2> HIDE DEF r, s, n
  <2>11. CASE pos + 1 <= n
    <3>1. Due = s + pos /\ sample' = Due + 1 /\ Due' = sample'
      BY <2>t, <2>3, <2>4, <2>8, <2>9, <2>11 DEF MinOf
    <3>2. sample' > reached /\ reached' = sample'
      BY <2>t, <2>2, <2>3, <2>10, <3>1
    <3>3. \/ sample' = reached + 1
          \/ sample' - reached \in 2 .. BlockSize /\ (sample' - 1) % FileLen = 0
      <4>1. Due = sample' - 1
        BY <2>3, <3>1
      <4>2. CASE reached = Due
        BY <2>t, <3>1, <4>2
      <4>3. CASE Due % FileLen = 0 /\ Due - reached \in 1 .. BlockSize - 1
        BY <2>t, <2>3, <3>1, <4>1, <4>3
      <4>4. QED
        BY <2>10, <4>2, <4>3
    <3>4. Progress'
      BY <2>t, <2>2, <3>1, <3>2 DEF Progress
    <3>5. QED
      BY <2>6, <2>7, <3>3, <3>4 DEF OrderInv
  <2>12. CASE ~ (pos + 1 <= n)
    <3>1. pos # 0 /\ MinOf(pos, n) = n /\ MinOf(pos + 1, n) = n /\ sample' <= s
      BY <2>t, <2>3, <2>4, <2>12 DEF MinOf
    <3>2. reached = s + n /\ Due' = s + n
      BY <2>8, <2>9, <2>10, <3>1
    <3>3. sample' <= reached /\ reached' = reached
      BY <2>t, <2>2, <2>3, <2>4, <3>1, <3>2
    <3>4. n < BlockSize
      BY <2>t, <2>4, <2>12
    <3>5. n = Rest /\ Rest > 0 /\ s % FileLen = FileLen - Rest
      BY <2>3, <3>4, ShortBlock DEF n
    <3>6. Leftover
      BY <2>t, <2>1, <2>2, <2>4, <2>12, <3>5 DEF Leftover, s, Start
    <3>7. Progress'
      BY <2>t, <2>2, <3>2, <3>3 DEF Progress
    <3>8. QED
      BY <2>6, <2>7, <3>3, <3>6, <3>7 DEF OrderInv
  <2>13. QED
    BY <2>11, <2>12
<1>3. QED
  BY <1>1, <1>2

LEMMA CallbackOrder == Typed /\ OrderInv /\ ~stray /\ Tick_cb => OrderInv'
<1> SUFFICES ASSUME Typed, OrderInv, ~stray, Tick_cb PROVE OrderInv'
  OBVIOUS
<1>1. CASE InBlock \/ NoBlockHeld \/ LockState \/ StarveStopping \/ StarvePlaying \/ StarveOther
           \/ ExitUnpause \/ ExitExiting
  <2>1. UNCHANGED <<pingpong, main, pos, reached>> /\ tpc' # "start"
    BY <1>1 DEF InBlock, NoBlockHeld, LockState, StarveStopping, StarvePlaying, StarveOther,
       ExitUnpause, ExitExiting, Aside, player, output, speaker
  <2>2. QED
    BY <2>1, CallbackAside DEF pingpong, main, Turn, Holding
<1>2. CASE Poll
  <2>1. /\ UNCHANGED <<buf, buf_state, bufi, main, pos, reached>> /\ tpc' # "start"
        /\ pp' = pp \/ (pp["reader"] = "idle" /\ pp' = [pp EXCEPT !["reader"] = "avail"])
    BY <1>2 DEF Poll, P!Available, pingpong, player, speaker
  <2>2. pp'["writer"] = pp["writer"] /\ Turn("reader")' = Turn("reader") /\ (Holding' <=> Holding)
    BY <2>1 DEF Typed, IInv, Types, P!Thread, Turn, Holding
  <2>3. QED
    BY <2>1, <2>2, CallbackAside DEF main
<1>3. CASE Drop
  <2>1. /\ UNCHANGED <<buf, buf_state, main, pos, reached>> /\ tpc' # "start"
        /\ pp["reader"] = "flip" /\ pp' = [pp EXCEPT !["reader"] = "idle"]
        /\ bufi' = [bufi EXCEPT !["reader"] = 1 - bufi["reader"]]
    BY <1>3 DEF Drop, P!Flip, speaker
  <2>2. /\ pp'["writer"] = pp["writer"] /\ Turn("reader")' = Turn("reader")
        /\ ~ Holding /\ ~ Holding' /\ bufi'["writer"] = bufi["writer"]
    BY <2>1 DEF Typed, IInv, Types, P!Thread, Turn, Holding
  <2>3. QED
    BY <2>1, <2>2, CallbackAside DEF main
<1>4. QED
  BY <1>1, <1>2, <1>3, ReadDoneOrder, BeginReadOrder, SampleOrder DEF Tick_cb

(* A step of the main thread that neither writes nor hands over a block.   *)
LEMMA MainAside ==
  ASSUME OrderInv, UNCHANGED <<buf, buf_state, bufi, reached, pos, tpc>>, Total' = Total,
         pp'["reader"] = pp["reader"], Turn("writer")' = Turn("writer"),
         pp'["writer"] = "used" <=> pp["writer"] = "used", MainPhase'
  PROVE  OrderInv'
<1>1. Turn("reader")' = Turn("reader") /\ (Holding' <=> Holding)
  BY DEF Turn, Holding
<1>2. Alternation' /\ Queue' /\ Handed' = Handed
  BY <1>1, QueueKept DEF OrderInv
<1>3. Due' = Due
  BY <1>1, <1>2, SlotsKept DEF Due
<1>4. Progress'
  BY <1>1, <1>3 DEF OrderInv, Progress
<1>5. QED
  BY <1>2, <1>4 DEF OrderInv

(* The next pass: what a stop cut off was the end of the pass before.      *)
LEMMA PlayOrder == Typed /\ OrderInv /\ Play => OrderInv'
<1> SUFFICES ASSUME Typed, OrderInv, Play PROVE OrderInv'
  OBVIOUS
<1> DEFINE r == bufi["reader"]
           s == Start(r)
           n == Fresh(s)
<1>t. r \in P!Slot /\ bufi["writer"] \in P!Slot /\ pass \in Nat /\ pos \in Nat /\ reached \in Nat
      /\ FileLen \in Nat \ {0} /\ BlockSize \in Nat \ {0}
  BY OrderTypes
<1>1. /\ UNCHANGED <<buf, buf_state, bufi, pp, reached, tpc, pass>>
      /\ mpc = "play" /\ mpc' = "begin" /\ fpos' = 0 /\ pos' = BlockSize /\ cpc = "none"
  BY DEF Play, MainAt, pingpong, output, speaker, T!Create
<1>2. tpc = "start"
  BY <1>1 DEF Typed, IInv, NoTimer, AtStart
<1>3. pass * FileLen \in Nat /\ Total = pass * FileLen /\ Total' = pass * FileLen
  BY <1>t, <1>1 DEF Total
<1>4. pp["writer"] \in {"idle", "held"} /\ ~ Active(bufi["writer"])
  BY <1>1 DEF OrderInv, MainPhase
<1>5. MainPhase'
  BY <1>t, <1>1, <1>4 DEF MainPhase
<1>6. Turn("reader")' = Turn("reader") /\ Turn("writer")' = Turn("writer")
      /\ (Holding' <=> Holding)
  BY <1>1 DEF Turn, Holding
<1>7. Alternation' /\ Queue' /\ Handed' = Handed
  BY <1>1, <1>3, <1>6, QueueKept DEF OrderInv
<1>8. Progress'
  <2>1. CASE ~ Holding
    <3>1. Due' = Due
      BY <1>1, <1>6, <1>7, <2>1, SlotsKept DEF Due
    <3>2. QED
      BY <1>1, <1>6, <2>1, <3>1 DEF OrderInv, Progress
  <2>2. CASE Holding
    <3>1. pos # 0 /\ Active(r) /\ Turn("reader") = r
      BY <1>2, <2>2 DEF OrderInv, Progress, Holding, Typed, IInv, ReadyWhenHeld, P!Ready, P!Wanted,
         P!Thread, Active, Turn
    <3>2. ~ Active(1 - r)
      BY <1>t, <1>4, <3>1 DEF P!Slot
    <3>3. End(r) = pass * FileLen
      BY <1>3, <1>4, <3>1, <3>2 DEF OrderInv, Queue, Handed
    <3>4. s \in Nat /\ n \in 1 .. BlockSize /\ End(r) = s + n
      BY <1>t, <3>1, FreshSamples DEF OrderInv, Queue, Written, End
    <3>5. Due = s + MinOf(pos, n)
      BY <2>2, <3>1 DEF Due, Holding
    <3>6. Due' = s + MinOf(BlockSize, n)
      BY <1>t, <1>1, <1>6, <2>2, SlotsKept DEF Due, Holding
    <3>7. pos = BlockSize => Due' = Due
      BY <3>5, <3>6
    <3> HIDE DEF r, s, n
    <3>8. Due' = s + n /\ Due' % FileLen = 0
      <4>1. Due' = s + n
        BY <1>t, <3>4, <3>6 DEF MinOf
      <4>2. Due' = pass * FileLen
        BY <3>3, <3>4, <4>1
      <4>3. QED
        BY <1>t, <4>1, <4>2, PassEnd
    <3>9. CASE reached = Due
      <4>1. Due' = reached \/ Due' - reached \in 1 .. BlockSize - 1
        BY <1>t, <3>1, <3>4, <3>5, <3>8, <3>9 DEF MinOf
      <4>2. QED
        BY <1>t, <1>1, <3>8, <4>1 DEF Progress
    <3>10. CASE pos = BlockSize
      BY <1>1, <1>6, <2>2, <3>7, <3>10 DEF OrderInv, Progress
    <3>11. QED
      BY <2>2, <3>1, <3>9, <3>10 DEF OrderInv, Progress
  <2>3. QED
    BY <2>1, <2>2
<1>9. QED
  BY <1>5, <1>7, <1>8 DEF OrderInv

(* A block is read into a slot that is free, so that no block on its way   *)
(* and no block being played changes.                                      *)
LEMMA ReadFileOrder == Typed /\ OrderInv /\ ReadFile => OrderInv'
<1> SUFFICES ASSUME Typed, OrderInv, ReadFile PROVE OrderInv'
  OBVIOUS
<1> DEFINE n == MinOf(BlockSize, FileLen - fpos)
           w == bufi["writer"]
           s == pass * FileLen + fpos
<1>t. w \in P!Slot /\ pass \in Nat /\ fpos \in Nat /\ fpos <= FileLen
      /\ FileLen \in Nat \ {0} /\ BlockSize \in Nat \ {0} /\ pass * FileLen \in Nat /\ s \in Nat
      /\ 1 \in 1 .. BlockSize
  BY OrderTypes
<1>1. mpc = "read" /\ UNCHANGED <<buf_state, bufi, reached, pos, tpc, pass>> /\ pp["writer"] = "held"
  BY DEF ReadFile, MainAt, P!WriteBlock, pingpong, player, speaker, OrderInv, MainPhase
<1>2. Total = s /\ Handed = s
  BY <1>1 DEF Total, Handed
<1>3. CASE n = 0
  <2>1. mpc' = "stop" /\ UNCHANGED <<pingpong, fpos>>
    BY <1>3 DEF ReadFile
  <2>2. fpos = FileLen
    BY <1>t, <1>3 DEF MinOf
  <2>3. MainPhase'
    BY <1>1, <2>1, <2>2 DEF MainPhase, pingpong
  <2>4. QED
    BY <1>1, <2>1, <2>3, MainAside DEF Total, Turn, pingpong
<1>4. CASE n # 0
  <2> DEFINE b == [i \in 1 .. BlockSize |->
                     IF i <= n THEN pass * FileLen + fpos + i ELSE buf[w][i]]
  <2>1. /\ buf' = [buf EXCEPT ![w] = b] /\ pp' = [pp EXCEPT !["writer"] = "used"]
        /\ fpos' = fpos + n /\ mpc' = "done"
    BY <1>4 DEF ReadFile, P!WriteBlock
  <2>2. fpos \in 0 .. FileLen - 1 /\ fpos % BlockSize = 0
    BY <1>t, <1>4 DEF OrderInv, MainPhase, MinOf
  <2>3. /\ (s % FileLen) % BlockSize = 0 /\ Fresh(s) = n
        /\ n \in 1 .. BlockSize
        /\ fpos + n = FileLen \/ (fpos + n) % BlockSize = 0
    BY <1>t, <2>2, BlockRead
  <2>4. \A k \in 1 .. BlockSize :
          b[k] \in Nat /\ IF k <= n THEN b[k] = s + k ELSE b[k] <= s
    <3> SUFFICES ASSUME NEW k \in 1 .. BlockSize
                 PROVE  b[k] \in Nat /\ IF k <= n THEN b[k] = s + k ELSE b[k] <= s
      OBVIOUS
    <3>1. buf[w][k] <= s /\ buf[w][k] \in Nat
      BY <1>t, <1>2, OrderTypes DEF OrderInv, Queue
    <3>2. b[k] = IF k <= n THEN s + k ELSE buf[w][k]
      BY <1>t
    <3>3. QED
      BY <1>t, <3>1, <3>2
  <2> HIDE DEF b, n
  <2>a. s + n = pass * FileLen + (fpos + n) /\ w' = w /\ n \in Nat
    BY <1>t, <1>1, <2>3
  <2> HIDE DEF s, w
  <2>5. ~ Active(w) /\ \A i : Active(i)' <=> Active(i)
    BY <1>t, <1>1 DEF Typed, IInv, ReadyWhenHeld, P!Ready, P!Wanted, P!Thread, Active,
       P!PPBUF_STATE_FREE, P!PPBUF_STATE_ACTIVE, w
  <2>6. \A i \in P!Slot : i # w => buf'[i] = buf[i]
    BY <1>t, <2>1 DEF Typed, MainTypes
  <2>7. buf'[w] = b
    BY <1>t, <2>1 DEF Typed, MainTypes
  <2>8. \A i \in P!Slot : i # w => Start(i)' = Start(i) /\ End(i)' = End(i)
                                   /\ (Written(i)' <=> Written(i))
    BY <2>6 DEF Start, End, Written
  <2>9. Start(w)' = s
    <3>1. b[1] = s + 1
      BY <1>t, <2>3, <2>4
    <3>2. QED
      BY <1>t, <2>a, <2>7, <3>1 DEF Start
  <2>10. Written(w)' /\ End(w)' = s + n /\ w' = w
    BY <1>t, <2>a, <2>3, <2>4, <2>7, <2>9 DEF Written, End
  <2>11. Total' = s + n
    BY <1>t, <1>1, <2>a, <2>1 DEF Total
  <2>12. /\ pp'["writer"] = "used" /\ pp'["reader"] = pp["reader"]
         /\ Turn("writer")' = Turn("writer") /\ Turn("reader")' = Turn("reader")
         /\ (Holding' <=> Holding)
    BY <1>1, <2>1 DEF Turn, Holding, Typed, IInv, Types, P!Thread
  <2>13. Handed' = Handed
    BY <1>2, <2>9, <2>10, <2>12 DEF Handed, w
  <2>14. Alternation'
    BY <1>1, <2>5, <2>12 DEF OrderInv, Alternation
  <2>15. Queue'
    <3>1. \A i \in P!Slot, k \in 1 .. BlockSize : buf'[i][k] <= s + n
      <4> SUFFICES ASSUME NEW i \in P!Slot, NEW k \in 1 .. BlockSize PROVE buf'[i][k] <= s + n
        OBVIOUS
      <4>1. CASE i = w
        BY <1>t, <2>a, <2>4, <2>7, <4>1
      <4>2. CASE i # w
        <5>1. buf[i][k] <= s /\ buf[i][k] \in Nat
          BY <1>2, OrderTypes DEF OrderInv, Queue
        <5>2. QED
          BY <1>t, <2>a, <2>6, <4>2, <5>1
      <4>3. QED
        BY <4>1, <4>2
    <3>2. \A i \in P!Slot : Active(i)' => Written(i)'
      BY <2>5, <2>8 DEF OrderInv, Queue
    <3>3. LET q == Turn("reader")
          IN  Active(q) => IF Active(1 - q)
                           THEN End(q)' = (Start(1 - q))' /\ (End(1 - q))' = Handed'
                           ELSE End(q)' = Handed'
      <4> DEFINE q == Turn("reader")
      <4>1. q \in P!Slot /\ 1 - q \in P!Slot
        BY OrderTypes DEF P!Slot
      <4>2. /\ Active(q) => q # w
            /\ Active(1 - q) => 1 - q # w
        BY <2>5
      <4>3. QED
        BY <2>8, <2>12, <2>13, <4>1, <4>2 DEF OrderInv, Queue
    <3>4. QED
      BY <2>5, <2>10, <2>11, <2>12, <3>1, <3>2, <3>3 DEF Queue, w
  <2>16. MainPhase'
    BY <2>1, <2>3, <2>12 DEF MainPhase
  <2>17. Due' = Due
    <3>1. Holding => bufi["reader"] # w /\ bufi["reader"] \in P!Slot
      BY <2>5, OrderTypes DEF Holding, Typed, IInv, ReadyWhenHeld, P!Ready, P!Wanted, P!Thread,
         Active
    <3>2. Active(Turn("reader")) => Turn("reader") # w /\ Turn("reader") \in P!Slot
      BY <2>5, OrderTypes
    <3>3. Holding => Start(bufi["reader"])' = Start(bufi["reader"])
      BY <1>1, <2>8, <3>1
    <3>4. Active(Turn("reader")) => Start(Turn("reader"))' = Start(Turn("reader"))
      BY <2>8, <2>12, <3>2
    <3>5. QED
      BY <1>1, <2>5, <2>12, <2>13, <3>3, <3>4 DEF Due
  <2>18. Progress'
    BY <1>1, <2>12, <2>17 DEF OrderInv, Progress
  <2>19. QED
    BY <2>14, <2>15, <2>16, <2>18 DEF OrderInv
<1>5. QED
  BY <1>3, <1>4

(* The block is handed over.                                               *)
LEMMA WriteDoneOrder == Typed /\ OrderInv /\ WriteDone => OrderInv'
<1> SUFFICES ASSUME Typed, OrderInv, WriteDone PROVE OrderInv'
  OBVIOUS
<1> DEFINE w == bufi["writer"]
           q == Turn("reader")
<1>t. w \in P!Slot /\ 1 - w \in P!Slot /\ q \in P!Slot /\ 1 - q \in P!Slot
  BY OrderTypes DEF P!Slot
<1>1. /\ UNCHANGED <<buf, bufi, pos, reached, tpc, pass, fpos>>
      /\ buf_state' = [buf_state EXCEPT ![w] = P!PPBUF_STATE_ACTIVE]
      /\ mpc = "done" /\ mpc' = "flip" /\ pp["writer"] = "used" /\ P!SetState("writer")
  BY DEF WriteDone, MainAt, P!Done, P!SetState, P!Left, player, speaker
<1>2. pp'["writer"] = "flip" /\ pp'["reader"] = pp["reader"]
  <2>1. Types /\ ReadyWhenHeld /\ pp["reader"] # "wait"
    BY ReaderAwake DEF Typed, IInv
  <2>2. QED
    BY <1>1, <2>1, SetStateStep DEF P!Thread
<1>3. /\ ~ Active(w)
      /\ \A i \in P!Slot : Active(i)' <=> i = w \/ Active(i)
  BY <1>t, <1>1 DEF Typed, IInv, Types, ReadyWhenHeld, P!Ready, P!Wanted, P!Thread, Active,
     P!PPBUF_STATE_FREE, P!PPBUF_STATE_ACTIVE
<1>4. \A i : Start(i)' = Start(i) /\ End(i)' = End(i) /\ (Written(i)' <=> Written(i))
  BY <1>1 DEF Start, End, Written
<1>5. /\ Turn("writer") = w /\ Turn("writer")' = 1 - w /\ Turn("reader")' = q
      /\ (Holding' <=> Holding) /\ Total' = Total /\ q' = q /\ w' = w
  BY <1>1, <1>2 DEF Turn, Holding, Total
<1>6. Written(w) /\ End(w) = Total /\ Handed = Start(w) /\ Handed' = Total
  BY <1>1, <1>2, <1>5 DEF OrderInv, Queue, Handed
<1>7. IF q = w THEN ~ Active(1 - w) ELSE Active(q)
  BY <1>t, <1>3, <1>5 DEF OrderInv, Alternation, P!Slot
<1> HIDE DEF w, q
<1>8. Alternation'
  <2>1. CASE q = w
    BY <1>t, <1>3, <1>5, <1>7, <2>1 DEF Alternation, P!Slot
  <2>2. CASE q # w
    BY <1>t, <1>3, <1>5, <1>7, <2>2 DEF Alternation, P!Slot
  <2>3. QED
    BY <2>1, <2>2
<1>9. Active(q) => End(q) = Start(w) /\ q = 1 - w
  <2>1. ASSUME Active(q) PROVE q # w /\ q = 1 - w /\ w = 1 - q
    BY <1>t, <1>3, <2>1 DEF P!Slot
  <2>2. QED
    BY <1>3, <1>6, <2>1 DEF OrderInv, Queue, q
<1>10. Queue'
  <2>1. Active(q)' => IF Active(1 - q)'
                      THEN End(q) = Start(1 - q) /\ End(1 - q) = Total
                      ELSE End(q) = Total
    <3>1. CASE q = w
      BY <1>t, <1>3, <1>5, <1>6, <1>7, <3>1 DEF P!Slot
    <3>2. CASE q # w
      BY <1>t, <1>3, <1>5, <1>6, <1>7, <1>9, <3>2 DEF P!Slot
    <3>3. QED
      BY <3>1, <3>2
  <2>2. \A i \in P!Slot : Active(i)' => Written(i)'
    BY <1>3, <1>4, <1>6 DEF OrderInv, Queue
  <2>3. QED
    BY <1>1, <1>2, <1>4, <1>5, <1>6, <2>1, <2>2 DEF OrderInv, Queue, w, q
<1>11. MainPhase'
  BY <1>1, <1>2 DEF OrderInv, MainPhase
<1>12. Progress'
  <2>1. (IF Active(q)' THEN Start(q) ELSE Total) = IF Active(q) THEN Start(q) ELSE Handed
    BY <1>t, <1>3, <1>5, <1>6, <1>7, <1>9
  <2>2. Due' = Due
    BY <1>1, <1>4, <1>5, <1>6, <2>1 DEF Due, q
  <2>3. QED
    BY <1>1, <1>5, <2>2 DEF OrderInv, Progress
<1>13. QED
  BY <1>8, <1>10, <1>11, <1>12 DEF OrderInv

LEMMA WriteFlipOrder == Typed /\ OrderInv /\ WriteFlip => OrderInv'
<1> SUFFICES ASSUME Typed, OrderInv, WriteFlip PROVE OrderInv'
  OBVIOUS
<1>1. /\ UNCHANGED <<buf, buf_state, pos, reached, tpc, pass, fpos>>
      /\ mpc = "flip" /\ mpc' = "begin" /\ pp["writer"] = "flip"
      /\ pp' = [pp EXCEPT !["writer"] = "idle"]
      /\ bufi' = [bufi EXCEPT !["writer"] = 1 - bufi["writer"]]
  BY DEF WriteFlip, MainAt, P!Flip, player, speaker
<1>2. /\ pp'["writer"] = "idle" /\ pp'["reader"] = pp["reader"]
      /\ bufi'["reader"] = bufi["reader"]
      /\ Turn("writer")' = Turn("writer") /\ Turn("reader")' = Turn("reader")
      /\ (Holding' <=> Holding) /\ Total' = Total
  BY <1>1 DEF Typed, IInv, Types, P!Thread, Turn, Holding, Total
<1>3. Handed' = Handed
  BY <1>1, <1>2 DEF Handed
<1>4. Alternation' /\ Queue'
  BY <1>1, <1>2, <1>3, SlotsKept DEF OrderInv, Alternation, Queue
<1>5. MainPhase'
  BY <1>1, <1>2 DEF OrderInv, MainPhase
<1>6. Due' = Due
  BY <1>1, <1>2, <1>3, SlotsKept DEF Due
<1>7. Progress'
  BY <1>1, <1>2, <1>6 DEF OrderInv, Progress
<1>8. QED
  BY <1>4, <1>5, <1>7 DEF OrderInv

LEMMA MainOrder == Typed /\ OrderInv /\ MainThread /\ Defined' => OrderInv'
<1> SUFFICES ASSUME Typed, OrderInv, MainThread, Defined' PROVE OrderInv'
  OBVIOUS
<1>1. CASE BeginWrite
  <2>1. /\ UNCHANGED <<buf, buf_state, bufi, reached, pos, tpc, pass, fpos>>
        /\ mpc = "begin"
        /\ mpc' = IF pp'["writer"] = "held" THEN "read" ELSE "begin"
        /\ pp["writer"] \in {"idle", "wait", "woken", "held"}
        /\ P!Begin("writer")
    BY <1>1 DEF BeginWrite, MainAt, P!Begin, player, speaker, OrderInv, MainPhase
  <2>2. pp'["writer"] \in {"held", "wait"} /\ pp'["reader"] = pp["reader"]
    <3>1. Types /\ ReadyWhenHeld
      BY DEF Typed, IInv
    <3>2. QED
      BY <2>1, <3>1, BeginStep DEF P!Thread
  <2>3. MainPhase'
    BY <2>1, <2>2 DEF OrderInv, MainPhase
  <2>4. QED
    BY <2>1, <2>2, <2>3, MainAside DEF Total, Turn
<1>2. CASE Stop \/ StopPlaying \/ ForgetStop \/ SetStopping \/ DestroyTimer \/ JoinTimer
  <2>1. /\ UNCHANGED <<pingpong, reached, pos, tpc, pass, fpos>>
        /\ mpc \in {"stop", "recheck", "stopping", "destroy"}
        /\ mpc' \in {"recheck", "stopping", "destroy", "next"}
    BY <1>2 DEF Stop, StopPlaying, ForgetStop, SetStopping, DestroyTimer, JoinTimer, MainAt, player,
       output, speaker, main
  <2>2. MainPhase'
    BY <2>1 DEF pingpong, OrderInv, MainPhase
  <2>3. QED
    BY <2>1, <2>2, MainAside DEF pingpong, Total, Turn
<1>3. CASE NextPass \/ Finish
  <2>1. /\ UNCHANGED <<pingpong, reached, pos, tpc, fpos>>
        /\ mpc = "next" /\ fpos = FileLen /\ pp["writer"] = "held"
        /\ \/ mpc' = "finished" /\ pass' = pass
           \/ mpc' = "play" /\ pass' = pass + 1
    BY <1>3 DEF NextPass, Finish, Defined, MainAt, player, output, speaker, OrderInv, MainPhase
  <2>2. Total' = Total
    <3>1. pass \in Nat /\ fpos \in Nat
      BY OrderTypes
    <3>2. QED
      BY <2>1, <3>1, PassEnd DEF Total
  <2>3. ~ Active(bufi["writer"])
    BY <2>1 DEF Typed, IInv, ReadyWhenHeld, P!Ready, P!Wanted, P!Thread, Active,
       P!PPBUF_STATE_FREE, P!PPBUF_STATE_ACTIVE
  <2>4. MainPhase'
    BY <2>1, <2>3 DEF pingpong, MainPhase, Active
  <2>5. QED
    BY <2>1, <2>2, <2>4, MainAside DEF pingpong, Turn
<1>4. ~ PlayOverTimer
  BY DEF PlayOverTimer, Defined
<1>5. QED
  BY <1>1, <1>2, <1>3, <1>4, PlayOrder, ReadFileOrder, WriteDoneOrder, WriteFlipOrder
     DEF MainThread

LEMMA InitOrder == Init => OrderInv
<1> SUFFICES ASSUME Init PROVE OrderInv
  OBVIOUS
<1>1. FileLen \in Nat \ {0} /\ BlockSize \in Nat \ {0} /\ 1 \in 1 .. BlockSize
  BY PlayerAssumption
<1>2. /\ \A t \in P!Thread : bufi[t] = 0 /\ pp[t] = "idle"
      /\ \A i \in P!Slot : ~ Active(i) /\ \A k \in 1 .. BlockSize : buf[i][k] = 0
      /\ mpc = "play" /\ pass = 0 /\ fpos = 0 /\ reached = 0
  BY DEF Init, Active, Empty, P!PPBUF_STATE_FREE, P!PPBUF_STATE_ACTIVE
<1>3. Total = 0 /\ Handed = 0
  BY <1>1, <1>2 DEF Total, Handed, P!Thread
<1>4. Turn("writer") = 0 /\ Turn("reader") = 0 /\ ~ Holding
  BY <1>2 DEF Turn, Holding, P!Thread
<1>5. Due = 0
  BY <1>2, <1>3, <1>4 DEF Due, P!Slot
<1>6. 0 % BlockSize = 0
  BY <1>1
<1>7. QED
  BY <1>1, <1>2, <1>3, <1>4, <1>5, <1>6 DEF OrderInv, Alternation, Queue, MainPhase, Progress,
     Holding, P!Thread, P!Slot

(* What buf began as is a thing of the past, and there is no way back from *)
(* what has no meaning.                                                    *)
LEMMA HistoryKept == [Next]_vars => stray' = stray /\ (Defined' => Defined)
<1> USE DEF Defined, MainAt, InTick, Aside, Elsewhere, output, speaker, main
<1>1. CASE Tick_cb
  BY <1>1 DEF Tick_cb, InBlock, ReadDone, Drop, NoBlockHeld, LockState, Poll, BeginRead,
     StarveStopping, StarvePlaying, StarveOther, ExitUnpause, ExitExiting, Sample
<1>2. CASE WorkerLoop \/ KernelTick \/ SpuriousWakeup \/ UNCHANGED vars
  BY <1>2 DEF WorkerLoop, KernelTick, SpuriousWakeup, vars
<1>3. CASE MainThread
  BY <1>3 DEF MainThread, Play, PlayOverTimer, BeginWrite, ReadFile, WriteDone, WriteFlip, Stop,
     StopPlaying, ForgetStop, SetStopping, DestroyTimer, JoinTimer, NextPass, Finish
<1>4. QED
  BY <1>1, <1>2, <1>3 DEF Next

LEMMA StepOrder == Typed /\ Ordered /\ [Next]_vars => Ordered'
<1> SUFFICES ASSUME Typed, OrderInv, [Next]_vars, ~stray, Defined' PROVE OrderInv'
  BY HistoryKept DEF Ordered
<1>1. CASE WorkerLoop \/ KernelTick \/ UNCHANGED vars
  <2>1. UNCHANGED <<pingpong, reached, pos, tpc, mpc, pass, fpos>>
    BY <1>1 DEF WorkerLoop, KernelTick, Elsewhere, vars, player, output, speaker, main
  <2>2. MainPhase'
    BY <2>1 DEF pingpong, OrderInv, MainPhase, Active
  <2>3. QED
    BY <2>1, <2>2, MainAside DEF pingpong, Total, Turn
<1>2. CASE SpuriousWakeup
  <2>1. /\ P!SpuriousWakeup("writer")
        /\ UNCHANGED <<reached, pos, tpc, mpc, pass, fpos>>
    BY <1>2, ReaderAwake DEF SpuriousWakeup, P!SpuriousWakeup, P!Thread, Typed, player, speaker,
       main
  <2>2. /\ UNCHANGED <<buf, buf_state, bufi>> /\ pp["writer"] = "wait"
        /\ pp'["writer"] = "woken" /\ pp'["reader"] = pp["reader"]
    BY <2>1 DEF P!SpuriousWakeup, Typed, IInv, Types, P!Thread
  <2>3. MainPhase'
    BY <2>1, <2>2, MainPhaseKept DEF OrderInv
  <2>4. QED
    BY <2>1, <2>2, <2>3, MainAside DEF Total, Turn
<1>3. QED
  BY <1>1, <1>2, CallbackOrder, MainOrder DEF Next

(* Where buf began as NULL, the samples of the file are played in order    *)
(* and none twice, at every length of a block and of the file, over        *)
(* stalls, stops and passes; a stop cuts off at most the rest of one       *)
(* block, and what is heard out of turn is the stale end of a short        *)
(* block's own slot.                                                       *)
THEOREM PlaysInOrder == Spec => SamplesInOrder
<1> DEFINE InOrder == ~stray /\ InTick("sample") /\ tpc' = "start" /\ pos < BlockSize =>
                        \/ sample' = reached + 1
                        \/ /\ sample' - reached \in 2 .. BlockSize
                           /\ (sample' - 1) % FileLen = 0
                        \/ sample' <= reached /\ Leftover
<1>1. Init => Typed /\ Ordered
  BY InitIInv, InitTypes, TypesTogether, InitOrder DEF Typed, Ordered
<1>2. Typed /\ Ordered /\ [Next]_vars => (Typed /\ Ordered)'
  BY TypedStep, StepOrder
<1>3. Typed /\ Ordered /\ [Next]_vars => [InOrder]_vars
  <2> SUFFICES ASSUME Typed, Ordered, Next, ~stray, InTick("sample"), tpc' = "start",
                      pos < BlockSize
               PROVE  InOrder
    OBVIOUS
  <2>1. Sample
    <3>1. ~ (WorkerLoop \/ KernelTick \/ SpuriousWakeup)
      BY DEF InTick, WorkerLoop, KernelTick, Elsewhere, SpuriousWakeup
    <3>2. ~ MainThread
      BY DEF InTick, MainThread, Play, PlayOverTimer, BeginWrite, ReadFile, WriteDone, WriteFlip,
         Stop, StopPlaying, ForgetStop, SetStopping, DestroyTimer, JoinTimer, NextPass, Finish
    <3>3. QED
      BY <3>1, <3>2 DEF InTick, Next, Tick_cb, InBlock, ReadDone, Drop, NoBlockHeld, LockState, Poll,
         BeginRead, StarveStopping, StarvePlaying, StarveOther, ExitUnpause, ExitExiting
  <2>2. OrderInv
    BY DEF Ordered, InTick
  <2>3. QED
    BY <2>1, <2>2, SampleOrder
<1>4. QED
  BY <1>1, <1>2, <1>3, PTL DEF Spec, SamplesInOrder
=============================================================================
