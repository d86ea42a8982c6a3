------------------------------- MODULE Framer -------------------------------
(***************************************************************************)
(* framer.c: framer_frame appends one frame to an empty stream,            *)
(*                                                                         *)
(*   preamble | start frame delimiter | header | payload and its parity    *)
(*                                                                         *)
(* after it has compared the frame's length with the room there is.  The   *)
(* delimiter and the header are optional, the payload is 8b/10b coded or   *)
(* raw.  The parity octets of the Reed-Solomon codes (libcorrect) may be   *)
(* any octets, and any number of them: the ratio is the user's.            *)
(***************************************************************************)
EXTENDS X8b10b

CONSTANTS
  Cap,          \* the stream's capacity (FRAME_MAX_LENGTH_BITS, 2620)
  MaxPayload,   \* FRAME_MAX_PAYLOAD_SIZE, 255
  SIZE_MAX,     \* the largest size_t
  MessageLens,  \* lengths of the message
  ParityLens,   \* ceil(payload_parity_len_ratio * in_len)
  PreambleLens, \* preamble_length; -q -1 makes it SIZE_MAX
  MExps,        \* m_exp
  Content       \* what an octet of the message or of a parity may be

ASSUME FramerAssumption ==
  /\ {Cap, MaxPayload, SIZE_MAX} \subseteq Nat
  /\ MessageLens \subseteq Nat /\ ParityLens \subseteq Nat
  /\ PreambleLens \subseteq 0 .. SIZE_MAX /\ MExps \subseteq 1 .. 32
  /\ Content \subseteq Octet

(* All of a frame that comes after its preamble has 2580 bits at most.     *)
ASSUME SizeAssumption == Cap + 2580 <= SIZE_MAX

VARIABLES
  job,        \* the call: in_len, payload_parity_len, the framer's fields
  pos_write,  \* bits in the stream
  len,        \* the length the frame is said to have, once it is computed
  rd,         \* the running disparity
  i,          \* units written of the part in hand
  at,         \* that part, or the outcome
  tail,       \* the last ten bits of the stream
  last,       \* <<octet, ctrl>> if they are a code group, else <<>>
  disparity   \* ones less zeros in all code groups so far

vars == <<job, pos_write, len, rd, i, at, tail, last, disparity>>

FRAME_SFD == \h3C
HeaderLen == 3      \* sizeof(header_encoded)

Job == [in_len : MessageLens, parity : ParityLens, preamble : PreambleLens,
        m_exp : MExps, header : BOOLEAN, coded : BOOLEAN]

Payload == job.in_len + job.parity

(* Fault variant of FrameLength: coded octets are counted as raw ones.     *)
RawLength(j) ==
  (j.preamble * (j.m_exp * 2) + (IF j.header THEN HeaderLen * 10 ELSE 0)
     + (j.in_len + j.parity) * 8) % (SIZE_MAX + 1)

(* The length the code computes, in a size_t: it leaves out the delimiter. *)
FrameLength(j) ==
  (j.preamble * (j.m_exp * 2) + (IF j.header THEN HeaderLen * 10 ELSE 0)
     + (j.in_len + j.parity) * (IF j.coded THEN 10 ELSE 8)) % (SIZE_MAX + 1)

Init == /\ job \in Job
        /\ pos_write = 0 /\ len = 0 /\ rd = -1 /\ i = 0
        /\ at = "check" /\ tail = <<>> /\ last = <<>> /\ disparity = 0
-----------------------------------------------------------------------------
(* n bits fit, or the write fails and CHECK_ERROR_LT0 aborts the program.  *)
Fits(n) == Cap - pos_write >= n

Abort(n) ==
  /\ ~Fits(n)
  /\ at' = "aborted"
  /\ UNCHANGED <<job, pos_write, len, rd, i, tail, last, disparity>>

LastBits(s, n) == IF Len(s) <= n THEN s ELSE SubSeq(s, Len(s) - n + 1, Len(s))

Put(bits) == /\ Fits(Len(bits))
             /\ pos_write' = pos_write + Len(bits)
             /\ tail' = LastBits(tail \o bits, 10)

(* bitstream_write_8b10b *)
PutGroup(u8b, ctrl) ==
  LET g == IF ctrl THEN Group(u8b, TRUE, rd) ELSE DataGroup[u8b][rd]
  IN  /\ Put(g.bits)
      /\ rd' = g.rd
      /\ last' = <<u8b, ctrl>>
      /\ disparity' = disparity + g.disparity

(* One more unit of the part in hand, n of them in all.                    *)
Advance(n, next) == IF i + 1 < n THEN i' = i + 1 /\ at' = at
                                 ELSE i' = 0 /\ at' = next

AfterPreamble == IF job.header THEN "sfd" ELSE "payload"

(* The tests at the beginning, in the code's order: EMSGSIZE, then E2BIG.  *)
Check ==
  /\ at = "check"
  /\ IF job.in_len > MaxPayload \/ Payload > 255 \/ Cap - pos_write < FrameLength(job)
     THEN at' = "refused" /\ UNCHANGED len
     ELSE /\ len' = FrameLength(job)
          /\ at' = IF job.preamble > 0 THEN "preamble" ELSE AfterPreamble
  /\ UNCHANGED <<job, pos_write, rd, i, tail, last, disparity>>

(* bitstream_write_n(s, 1 << m_exp, m_exp * 2): symbol 0, then symbol 1.   *)
(* Check has counted these bits; the write fails if the length wrapped.    *)
Preamble ==
  /\ at = "preamble"
  /\ \/ /\ Put([b \in 1 .. 2 * job.m_exp |-> IF b = job.m_exp + 1 THEN 1 ELSE 0])
        /\ Advance(job.preamble, AfterPreamble)
        /\ UNCHANGED <<job, len, rd, last, disparity>>
     \/ Abort(2 * job.m_exp)

(* Check has counted the header's thirty bits, so that these ten fit.      *)
Delimiter ==
  /\ at = "sfd"
  /\ PutGroup(FRAME_SFD, TRUE)
  /\ at' = "header"
  /\ UNCHANGED <<job, len, i>>

(* bitstream_write_8b10b_chunk asks for the room of all its octets first.  *)
Chunk(part, n, octets, next) ==
  /\ at = part
  /\ \/ /\ i = 0 => Fits(n * 10)
        /\ \E u8b \in octets : PutGroup(u8b, FALSE)
        /\ Advance(n, next)
        /\ UNCHANGED <<job, len>>
     \/ i = 0 /\ Abort(n * 10)

(* The message's length, and two octets of parity.                         *)
Header == Chunk("header", HeaderLen, IF i = 0 THEN {job.in_len} ELSE Content, "payload")

CodedPayload == job.coded /\ Payload > 0 /\ Chunk("payload", Payload, Content, "framed")

(* The octets as they are; the model does not look at their bits.          *)
RawPayload ==
  /\ at = "payload" /\ (Payload = 0 \/ ~job.coded)
  /\ \/ /\ Fits(Payload * 8)
        /\ pos_write' = pos_write + Payload * 8
        /\ tail' = <<>> /\ last' = <<>>
        /\ at' = "framed"
        /\ UNCHANGED <<job, len, rd, i, disparity>>
     \/ Abort(Payload * 8)

Returned == at \in {"framed", "refused", "aborted"} /\ UNCHANGED vars

Next == Check \/ Preamble \/ Delimiter \/ Header \/ CodedPayload \/ RawPayload \/ Returned

Spec == Init /\ [][Next]_vars
-----------------------------------------------------------------------------
(* The stream after a frame is as long as was announced, and ten bits more *)
(* for the delimiter; a refused frame has left nothing in it.              *)
LengthIsAnnounced ==
  /\ at = "framed"  => pos_write = len + (IF job.header THEN 10 ELSE 0)
  /\ at = "refused" => pos_write = 0

(* The code groups carry no direct current: rd is the stream's disparity.  *)
Balanced == rd \in RD /\ disparity = rd + 1

Groups(c) ==
  {g.bits : g \in {h \in {IF c[2] THEN Group(c[1], TRUE, r) ELSE DataGroup[c[1]][r] : r \in RD} :
                     h.ok}}

(* A receiver can tell what was sent from the ten bits alone, whatever     *)
(* running disparity it believes in.                                       *)
Decodable ==
  last # <<>> =>
    \A c \in (Octet \X {FALSE}) \cup {<<FRAME_SFD, TRUE>>} : tail \in Groups(c) <=> c = last

(* 0011111 or 1100000, from bit k on.                                      *)
IsComma(s, k) == s[k] = s[k + 1] /\ \A j \in k + 2 .. k + 6 : s[j] # s[k]

(* A receiver finds the bit clock (never more than five equal bits in a    *)
(* row) and the start of the frame: the seven bits of a comma appear in    *)
(* the delimiter and nowhere else, across no boundary of code groups, nor  *)
(* where the preamble ends.                                                *)
Synchronizes ==
  [][LET n == Len(tail)
         s == tail \o LastBits(tail', pos_write' - pos_write)
     IN  last' # <<>> /\ pos_write' > pos_write =>
           /\ \A k \in n - 5 .. n + 4 :
                k > 0 => (IsComma(s, k) <=> last' = <<FRAME_SFD, TRUE>> /\ k = n + 1)
           /\ \A k \in (IF last = <<>> THEN n + 1 ELSE n - 4) .. n + 5 :
                \E j \in k + 1 .. k + 5 : s[j] # s[k]]_vars
-----------------------------------------------------------------------------
(* The claim below is false of the code.                                   *)

(* A frame that does not fit is refused with E2BIG, "Could not encode      *)
(* message", before anything is written.                                   *)
FrameFits == at # "aborted"
=============================================================================
