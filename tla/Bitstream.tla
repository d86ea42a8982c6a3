----------------------------- MODULE Bitstream -----------------------------
(***************************************************************************)
(* bitstream.c, and how psplay's message mode uses it: the framer appends  *)
(* bits, then a modulator reads the whole stream, m_exp bits for each      *)
(* symbol, as many times as the message is to be sent.                     *)
(*                                                                         *)
(* bitwise_copy moves runs of bits between octets that may start anywhere  *)
(* in an octet.  Memory is a function from the positions of its bits, bit  *)
(* p being the bit p % OctetBits, least significant first, of the octet    *)
(* p \div OctetBits; what the code stores it stores by octets.             *)
(*                                                                         *)
(* A caller may go on after a refused write (psplay does not): the stream  *)
(* must be sound then too.                                                 *)
(***************************************************************************)
EXTENDS Integers, Sequences

CONSTANTS
  OctetBits,  \* 8
  Capacity,   \* capacity of the stream, in bits
  MaxWrite,   \* bound: bits in a call of bitstream_write
  MaxSymbol   \* bound: bits in a symbol (m_exp)

ASSUME StreamAssumption == {OctetBits, Capacity, MaxWrite, MaxSymbol} \subseteq Nat \ {0}

VARIABLES
  stream,  \* the fields of bitstream_t
  given,   \* the bits passed to the last call that wrote, while filling
  failed,  \* that call returned -E2BIG
  m_exp,   \* bits per symbol; 1 for DBPSK
  sent,    \* the symbols sent in this pass
  phase    \* "fill", "send" or "sent"

streamVars == <<stream, given, failed, m_exp, sent, phase>>

MIN(x, y) == IF x < y THEN x ELSE y

(* The positions in the octets that n bits take.                          *)
Positions(n) == 0 .. OctetBits * ((n + OctetBits - 1) \div OctetBits) - 1

Memory(n) == [Positions(n) -> {0, 1}]

(* The reference: bits from..to of memory, without octets.                 *)
Bits(mem, from, to) == [k \in 1 .. to - from |-> mem[from + k - 1]]

(* Fault variant of Store: the octet's other bits are not kept.            *)
StoreOver(dst, to, bits) ==
  [p \in DOMAIN dst |->
     IF p \div OctetBits # to \div OctetBits THEN dst[p]
     ELSE IF to <= p /\ p < to + Len(bits) THEN bits[p - to + 1]
     ELSE 0]

(* One store to dst, of a whole octet: the bits below position to are      *)
(* kept, the given bits come next, and what is above them is cleared.      *)
Store(dst, to, bits) ==
  [p \in DOMAIN dst |->
     IF p \div OctetBits # to \div OctetBits \/ p < to THEN dst[p]
     ELSE IF p < to + Len(bits) THEN bits[p - to + 1]
     ELSE 0]

(* A round of the loops of bitwise_copy: the inner one, while there are    *)
(* bits in u.reg, moves as many as the octet of dst has left; the outer    *)
(* one fetches as many bits as the octet of src has left.                  *)
Round(src, c) ==
  IF c.reg # <<>>
  THEN LET m == MIN(Len(c.reg), OctetBits - (c.dst_offset % OctetBits))
       IN  [c EXCEPT !.dst = Store(@, c.dst_offset, SubSeq(c.reg, 1, m)),
                     !.dst_offset = @ + m,
                     !.reg = SubSeq(@, m + 1, Len(@))]
  ELSE LET m == MIN(c.src_remaining, OctetBits - (c.src_offset % OctetBits))
       IN  [c EXCEPT !.reg = Bits(src, c.src_offset, c.src_offset + m),
                     !.src_offset = @ + m,
                     !.src_remaining = @ - m]

(* bitwise_copy, of n bits that there are in src and fit in dst.  A bit    *)
(* takes part in at most one round of either loop; a round that finds      *)
(* nothing left changes nothing.                                           *)
Copy(src, src_offset, dst, dst_offset, n) ==
  LET run[k \in 0 .. 2 * n] ==
        IF k = 0 THEN [src_remaining |-> n, src_offset |-> src_offset, reg |-> <<>>,
                       dst |-> dst, dst_offset |-> dst_offset]
        ELSE Round(src, run[k - 1])
  IN  run[2 * n].dst
-----------------------------------------------------------------------------
(* The check of bitwise_copy, before it copies ...                         *)
NoRoom(s, n) == Capacity - s.pos_write < n

(* ... and that of bitstream_write, after the copy.                        *)
Overfull(s, n) == s.len + n > Capacity

Refused(s, n) == NoRoom(s, n) \/ Overfull(s, n)

(* bitstream_write *)
Write(s, src, n) ==
  IF NoRoom(s, n) THEN s
  ELSE LET copied == [s EXCEPT !.data = Copy(src, 0, @, s.pos_write, n)]
       IN  IF Overfull(s, n) THEN copied
           ELSE [copied EXCEPT !.pos_write = @ + n, !.len = @ + n]

(* bitstream_write_str: bit after bit, up to the first that is refused (a  *)
(* full stream refuses all that follow).                                   *)
WriteStr(s, str) ==
  LET written[k \in 0 .. Len(str)] ==
        IF k = 0 THEN s
        ELSE Write(written[k - 1], [p \in Positions(1) |-> IF p = 0 THEN str[k] ELSE 0], 1)
  IN  written[Len(str)]

(* Fault variant of Read: the position moves by what was asked for.        *)
ReadPastEnd(s, count) ==
  LET n == MIN(count, s.len - s.pos_read)
      buf == [p \in Positions(count) |-> 0]
  IN  [n |-> n, buf |-> Copy(s.data, s.pos_read, buf, 0, n),
       stream |-> [s EXCEPT !.pos_read = @ + (IF n = 0 THEN 0 ELSE count)]]

(* Fault variant of Read: a short last symbol is dropped.                  *)
ReadWholeSymbols(s, count) ==
  LET n == IF s.len - s.pos_read < count THEN 0 ELSE count
      buf == [p \in Positions(count) |-> 0]
  IN  [n |-> n, buf |-> Copy(s.data, s.pos_read, buf, 0, n),
       stream |-> [s EXCEPT !.pos_read = @ + n]]

(* bitstream_read into a buffer of zeros: fewer bits at the end.           *)
Read(s, count) ==
  LET n == MIN(count, s.len - s.pos_read)
      buf == [p \in Positions(count) |-> 0]
  IN  [n |-> n, buf |-> Copy(s.data, s.pos_read, buf, 0, n),
       stream |-> [s EXCEPT !.pos_read = @ + n]]

(* bitstream_seek *)
Seek(s, pos) == [s EXCEPT !.pos_read = MIN(pos, s.len)]
-----------------------------------------------------------------------------
(* bitstream_init                                                          *)
StreamInit ==
  /\ stream = [data |-> [p \in Positions(Capacity) |-> 0],
               len |-> 0, pos_read |-> 0, pos_write |-> 0]
  /\ given = <<>> /\ failed = FALSE
  /\ m_exp \in 1 .. MaxSymbol
  /\ sent = <<>>
  /\ phase = "fill"

(* What the framer appends: any octets, the last of them perhaps in part   *)
(* only (a 10-bit code group in two octets, say).                          *)
AppendBits ==
  /\ phase = "fill"
  /\ \E n \in 0 .. MaxWrite : \E src \in Memory(n) :
       /\ stream' = Write(stream, src, n)
       /\ given' = Bits(src, 0, n)
       /\ failed' = Refused(stream, n)
  /\ UNCHANGED <<m_exp, sent, phase>>

AppendString ==
  /\ phase = "fill"
  /\ \E n \in 1 .. MaxWrite : \E str \in [1 .. n -> {0, 1}] :
       LET room == Capacity - stream.pos_write
       IN  /\ stream' = WriteStr(stream, str)
           /\ given' = str
           /\ failed' = (n > room)
  /\ UNCHANGED <<m_exp, sent, phase>>

(* psplay's loop: a pass begins with bitstream_seek(&bitstream, 0).        *)
BeginPass ==
  /\ phase \in {"fill", "sent"}
  /\ stream' = Seek(stream, 0)
  /\ sent' = <<>>
  /\ phase' = "send"
  /\ given' = <<>> /\ failed' = FALSE
  /\ UNCHANGED m_exp

(* A round of the loop in fsk_send_sequence and dbpsk_send_sequence.       *)
SendSymbol ==
  LET r == Read(stream, m_exp)
  IN  /\ phase = "send"
      /\ stream' = r.stream
      /\ IF r.n = 0 THEN phase' = "sent" /\ UNCHANGED sent
                    ELSE sent' = Append(sent, r.buf) /\ UNCHANGED phase
      /\ UNCHANGED <<given, failed, m_exp>>

StreamNext == AppendBits \/ AppendString \/ BeginPass \/ SendSymbol

StreamSpec == StreamInit /\ [][StreamNext]_streamVars
-----------------------------------------------------------------------------
Stored(s) == Bits(s.data, 0, s.len)

(* The unsigned differences of bitwise_copy and of bitstream_remaining_cap *)
(* do not wrap, and the second capacity check of bitstream_write, which    *)
(* comes too late to undo the copy, never fires.                           *)
InBounds ==
  /\ stream.pos_read <= stream.len
  /\ stream.pos_write = stream.len
  /\ stream.len <= Capacity

(* Whatever octet boundaries it crosses, a write appends exactly the bits  *)
(* it was given and leaves those before it alone; one that is refused      *)
(* appends none, except that bitstream_write_str keeps the bits that fit.  *)
AppendsBits ==
  [][phase = "fill" /\ phase' = "fill" =>
       Stored(stream') =
         Stored(stream) \o
           (IF ~failed' THEN given'
            ELSE IF stream'.len = stream.len THEN <<>>
            ELSE SubSeq(given', 1, Capacity - stream.len))]_streamVars

(* Symbol j of a pass is made of the m_exp bits from (j - 1) * m_exp on,   *)
(* the last one filled up with zeros, and a pass sends them all: the       *)
(* receiver can put the frame together again, in every pass.               *)
SentIsStored ==
  /\ \A j \in 1 .. Len(sent) : \A i \in 1 .. m_exp :
       LET b == (j - 1) * m_exp + i
       IN  Bits(sent[j], 0, m_exp)[i] =
             IF b <= stream.len THEN Stored(stream)[b] ELSE 0
  /\ phase = "sent" => Len(sent) = (stream.len + m_exp - 1) \div m_exp
=============================================================================
