------------------------- MODULE PingPongBufProofs -------------------------
(***************************************************************************)
(* Proofs about PingPongBuf, for every set of blocks: its type invariant,  *)
(* the exclusive use of a slot, the absence of lost wakeups and deadlock,  *)
(* and that it implements the safety part of BlockChannel.                 *)
(***************************************************************************)
EXTENDS PingPongBuf, Sequences, TLAPS

(* The slot a thread visits next, the flip of its index anticipated.       *)
At(t) == IF pc[t] = "flip" THEN 1 - bufi[t] ELSE bufi[t]

(* A thread that was told its slot is ready, and has not given it back,    *)
(* finds it ready.                                                         *)
ReadyWhenHeld == \A t \in Thread : pc[t] \in {"avail", "held", "used"} => Ready(t)

(* Both at one slot: the two slots are alike, nothing in flight or two     *)
(* blocks.  At different slots: one block in flight, at the reader's.      *)
Alternation ==
  IF At("writer") = At("reader")
  THEN buf_state[0] = buf_state[1]
  ELSE /\ buf_state[At("reader")] = PPBUF_STATE_ACTIVE
       /\ buf_state[At("writer")] = PPBUF_STATE_FREE

(* What the writer hands over has been written.                            *)
UsedIsWritten == pc["writer"] = "used" => buf[bufi["writer"]] \in Block

(* The inductive invariant.                                                *)
IInv == TypeOK /\ ReadyWhenHeld /\ NoLostWakeup /\ Alternation /\ UsedIsWritten

LEMMA InitIInv == Init => IInv
  BY DEF Init, IInv, TypeOK, ReadyWhenHeld, NoLostWakeup, Alternation, UsedIsWritten,
         At, Ready, Wanted, Thread, Slot, PC, PPBUF_STATE_FREE, PPBUF_STATE_ACTIVE

(* Signal wakes at most the other thread, and only out of its sleep.       *)
LEMMA SignalWakes ==
  ASSUME TypeOK, NEW t \in Thread, pc[t] # "wait",
         NEW q \in Signal([pc EXCEPT ![t] = "flip"])
  PROVE  /\ q \in [Thread -> PC]
         /\ q[t] = "flip"
         /\ \A u \in Thread : u # t => q[u] = IF pc[u] = "wait" THEN "woken" ELSE pc[u]
  BY DEF Signal, TypeOK, Thread, PC

LEMMA StepIInv == IInv /\ [Next]_vars => IInv'
<1> SUFFICES ASSUME IInv, [Next]_vars
             PROVE  IInv'
  OBVIOUS
<1> USE DEF IInv, TypeOK, ReadyWhenHeld, NoLostWakeup, Alternation, UsedIsWritten,
            At, Ready, Wanted, Thread, Slot, PC, PPBUF_STATE_FREE, PPBUF_STATE_ACTIVE
<1>1. ASSUME NEW t \in Thread, Available(t) PROVE IInv'
  BY <1>1 DEF Available
<1>2. ASSUME NEW t \in Thread, Begin(t) PROVE IInv'
  BY <1>2 DEF Begin
<1>3. ASSUME NEW t \in Thread, Done(t) PROVE IInv'
  <2>1. /\ pc' \in [Thread -> PC]
        /\ pc'[t] = "flip"
        /\ \A u \in Thread : u # t => pc'[u] = IF pc[u] = "wait" THEN "woken" ELSE pc[u]
    BY <1>3, SignalWakes DEF Done, SetState
  <2>2. /\ buf_state' = [buf_state EXCEPT ![bufi[t]] = Left(t)]
        /\ UNCHANGED <<buf, bufi, item>>
        /\ pc[t] = "used"
    BY <1>3 DEF Done, SetState
  <2>3. CASE t = "writer"
    BY <2>1, <2>2, <2>3 DEF Left
  <2>4. CASE t = "reader"
    BY <2>1, <2>2, <2>4 DEF Left
  <2>5. QED BY <2>3, <2>4
<1>4. ASSUME NEW t \in Thread, Flip(t) PROVE IInv'
  BY <1>4 DEF Flip
<1>5. ASSUME NEW t \in Thread, SpuriousWakeup(t) PROVE IInv'
  BY <1>5 DEF SpuriousWakeup
<1>6. CASE ReadBlock
  BY <1>6 DEF ReadBlock
<1>7. ASSUME NEW b \in Block, WriteBlock(b) PROVE IInv'
  BY <1>7 DEF WriteBlock
<1>8. CASE UNCHANGED vars
  BY <1>8 DEF vars
<1>9. QED
  BY <1>1, <1>2, <1>3, <1>4, <1>5, <1>6, <1>7, <1>8 DEF Next, ThreadStep

(* IInv is an invariant: the strengthening every theorem below rests on.   *)
LEMMA Invariance == Spec => []IInv
  BY InitIInv, StepIInv, PTL DEF Spec

(* Every variable keeps its type.                                          *)
THEOREM TypeCorrect == Spec => []TypeOK
<1>1. IInv => TypeOK
  BY DEF IInv
<1>2. QED
  BY <1>1, Invariance, PTL

(* Writer and reader never hold one slot between *_begin and *_done.       *)
THEOREM SlotsAreExclusive == Spec => []SlotExclusive
<1>1. IInv => SlotExclusive
  BY DEF IInv, ReadyWhenHeld, SlotExclusive, Holds, Ready, Wanted, Thread,
         PPBUF_STATE_FREE, PPBUF_STATE_ACTIVE
<1>2. QED
  BY <1>1, Invariance, PTL

(* A slot reported available is still available when it is asked for.      *)
THEOREM AvailabilityIsStable == Spec => []AvailableStaysTrue
<1>1. IInv => AvailableStaysTrue
  BY DEF IInv, ReadyWhenHeld, AvailableStaysTrue
<1>2. QED
  BY <1>1, Invariance, PTL

(* The one condition variable that the two threads share loses no wakeup.  *)
THEOREM NoWakeupIsLost == Spec => []NoLostWakeup
<1>1. IInv => NoLostWakeup
  BY DEF IInv
<1>2. QED
  BY <1>1, Invariance, PTL

(* The two threads never sleep together, each waiting for the other.       *)
THEOREM NoDeadlock == Spec => []NeverBothAsleep
<1>1. IInv => NeverBothAsleep
  BY DEF IInv, TypeOK, NoLostWakeup, Alternation, NeverBothAsleep, At, Ready, Wanted,
         Thread, Slot, PPBUF_STATE_FREE, PPBUF_STATE_ACTIVE
<1>2. QED
  BY <1>1, Invariance, PTL

(* The memory of the slot the reader holds does not change.                *)
THEOREM HeldBlocksAreStable == Spec => HeldBlockStable
<1>1. IInv /\ [Next]_vars
      => [Holds("reader") => buf'[bufi["reader"]] = buf[bufi["reader"]]]_vars
  <2> SUFFICES ASSUME IInv, Next, Holds("reader")
               PROVE  buf'[bufi["reader"]] = buf[bufi["reader"]]
    BY DEF vars
  <2>1. ASSUME NEW b \in Block, WriteBlock(b)
        PROVE  buf'[bufi["reader"]] = buf[bufi["reader"]]
    BY <2>1 DEF WriteBlock, IInv, TypeOK, ReadyWhenHeld, Holds, Ready, Wanted, Thread, Slot,
               PPBUF_STATE_FREE, PPBUF_STATE_ACTIVE
  <2>2. CASE ~ \E b \in Block : WriteBlock(b)
    BY <2>2 DEF Next, ThreadStep, Available, Begin, Done, SetState, Flip, SpuriousWakeup,
                ReadBlock
  <2>3. QED BY <2>1, <2>2
<1>2. QED
  BY <1>1, Invariance, PTL DEF Spec, HeldBlockStable
-----------------------------------------------------------------------------
(* Append to a channel that holds no block, and to one that holds one.     *)
LEMMA AppendOne == ASSUME NEW b PROVE Len(<<>>) < 2 /\ <<b>> = Append(<<>>, b)
  OBVIOUS

LEMMA AppendTwo == ASSUME NEW a, NEW b PROVE Len(<<a>>) < 2 /\ <<a, b>> = Append(<<a>>, b)
  OBVIOUS

(* A step of the buffer is a step of the channel or leaves it unchanged:   *)
(* writing into a slot, waiting and flipping are invisible, set_state by   *)
(* the writer is Put, the reader's copy is Get.                            *)
LEMMA StepRefines == IInv /\ IInv' /\ [Next]_vars => [Channel!Next]_(Channel!vars)
<1> SUFFICES ASSUME IInv, IInv', [Next]_vars
             PROVE  [Channel!Next]_(Channel!vars)
  OBVIOUS
<1> USE DEF IInv, TypeOK, Alternation, ReadyWhenHeld, At, Ready, Wanted, Thread, Slot, PC,
            PPBUF_STATE_FREE, PPBUF_STATE_ACTIVE, InFlight, QueueFrom, Active, Channel!vars
<1>1. ASSUME NEW t \in Thread, Available(t) PROVE UNCHANGED Channel!vars
  BY <1>1 DEF Available
<1>2. ASSUME NEW t \in Thread, Begin(t) PROVE UNCHANGED Channel!vars
  BY <1>2 DEF Begin
<1>3. ASSUME Done("reader") PROVE UNCHANGED Channel!vars
  BY <1>3, SignalWakes DEF Done, SetState, Left
<1>4. ASSUME Done("writer") PROVE Channel!Next
  <2> DEFINE b == buf[bufi["writer"]]
  <2>1. b \in Block
    BY <1>4 DEF Done, UsedIsWritten
  <2>2. /\ Len(InFlight) < 2
        /\ InFlight' = Append(InFlight, b)
    <3>1. /\ pc["writer"] = "used"
          /\ buf_state' = [buf_state EXCEPT ![bufi["writer"]] = PPBUF_STATE_ACTIVE]
          /\ UNCHANGED <<buf, bufi, item>>
          /\ pc'["reader"] = IF pc["reader"] = "wait" THEN "woken" ELSE pc["reader"]
      BY <1>4, SignalWakes DEF Done, SetState, Left
    <3>2. CASE At("writer") = At("reader")
      <4>1. InFlight = <<>> /\ InFlight' = <<b>>
        BY <3>1, <3>2
      <4>2. QED
        BY <4>1, AppendOne
    <3>3. CASE At("writer") # At("reader")
      <4> DEFINE a == buf[At("reader")]
      <4>1. CASE pc["reader"] = "used"
        <5>1. InFlight = <<>> /\ InFlight' = <<b>>
          BY <3>1, <3>3, <4>1
        <5>2. QED
          BY <5>1, AppendOne
      <4>2. CASE pc["reader"] # "used"
        <5>1. InFlight = <<a>> /\ InFlight' = <<a, b>>
          BY <3>1, <3>3, <4>2
        <5>2. Len(<<a>>) < 2 /\ <<a, b>> = Append(<<a>>, b)
          <6> HIDE DEF a, b
          <6>1. QED
            BY AppendTwo
        <5> HIDE DEF InFlight
        <5>3. QED
          BY <5>1, <5>2
      <4>3. QED
        BY <4>1, <4>2
    <3>4. QED
      BY <3>2, <3>3
  <2>3. item' = item
    BY <1>4 DEF Done, SetState
  <2>4. QED
    BY <2>1, <2>2, <2>3 DEF Channel!Next, Channel!Put
<1>5. ASSUME NEW t \in Thread, Flip(t) PROVE UNCHANGED Channel!vars
  BY <1>5 DEF Flip
<1>6. ASSUME NEW t \in Thread, SpuriousWakeup(t) PROVE UNCHANGED Channel!vars
  BY <1>6 DEF SpuriousWakeup
<1>7. ASSUME ReadBlock PROVE Channel!Next
  <2>1. /\ InFlight # <<>>
        /\ item' = Head(InFlight)
        /\ InFlight' = Tail(InFlight)
    BY <1>7 DEF ReadBlock
  <2>2. QED
    BY <2>1 DEF Channel!Next, Channel!Get
<1>8. ASSUME NEW b \in Block, WriteBlock(b) PROVE UNCHANGED Channel!vars
  BY <1>8 DEF WriteBlock
<1>9. CASE UNCHANGED vars
  BY <1>9 DEF vars
<1>10. QED
  BY <1>1, <1>2, <1>3, <1>4, <1>5, <1>6, <1>7, <1>8, <1>9 DEF Next, ThreadStep

(* The two slots, their states and indices implement the safety part of a  *)
(* FIFO channel of two blocks: no block is lost, duplicated, reordered or  *)
(* torn, whatever the interleaving of the two threads.                     *)
THEOREM ImplementsChannel == Spec => Channel!Spec
<1>1. Init => Channel!Init
  BY DEF Init, Channel!Init, InFlight, QueueFrom, Active, Thread, Slot,
         PPBUF_STATE_FREE, PPBUF_STATE_ACTIVE
<1>2. QED
  BY <1>1, StepRefines, Invariance, PTL DEF Spec, Channel!Spec
=============================================================================
