---------------------------- MODULE BlockChannel ----------------------------
(***************************************************************************)
(* What the ping-pong buffer promises its two threads: a channel of at     *)
(* most Capacity blocks that come out in the order they went in, each      *)
(* exactly once and whole.  PingPongBuf implements it (see ChannelSpec     *)
(* there); nothing here mentions slots, states, mutexes or conditions.     *)
(***************************************************************************)
EXTENDS Naturals, Sequences

CONSTANTS Block,     \* the blocks that can be sent
          NoBlock,   \* the receiver's value before its first block
          Capacity   \* how many blocks may be in flight

VARIABLES queue,     \* the blocks sent and not yet received, oldest first
          out        \* the block received last

vars == <<queue, out>>

Init == /\ queue = <<>>
        /\ out = NoBlock

Put(b) == /\ Len(queue) < Capacity
          /\ queue' = Append(queue, b)
          /\ out' = out

Get == /\ queue # <<>>
       /\ out' = Head(queue)
       /\ queue' = Tail(queue)

Next == Get \/ \E b \in Block : Put(b)

Spec == Init /\ [][Next]_vars

(* A block that was sent is received: the receiver never loses one.        *)
FairSpec == Spec /\ WF_vars(Get)
=============================================================================
