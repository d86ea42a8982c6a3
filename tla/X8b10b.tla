------------------------------- MODULE X8b10b -------------------------------
(***************************************************************************)
(* x8b10b.c: the 8b/10b line code, a table-driven encoder that keeps the   *)
(* running disparity rd (-1 or +1), and the order in which framer.c puts   *)
(* the bits of a code group into a stream.                                 *)
(*                                                                         *)
(* A table entry is an octet: the code's bits, 64 if the code turns the    *)
(* disparity round, 128 (which nothing looks at), or NOTM for "no code".   *)
(***************************************************************************)
EXTENDS Integers, SequencesExt

NOTM == 255

(* A table of n entries: the data codes d, and the control codes k from    *)
(* entry c on.                                                             *)
Codes(n, d, c, k) ==
  [x \in 0 .. n - 1 |-> CASE x < Len(d)               -> d[x + 1]
                          [] x \in c .. c + Len(k) - 1 -> k[x - c + 1]
                          [] OTHER                    -> NOTM]

(* For rd = -1 ...                                                         *)
d5b6_1 ==
  <<\hE7, \hDD, \hED, \h31, \hF5, \h29, \h19, \hB8, \hF9, \h25, \h15, \h34, \h0D, \h2C, \h1C, \hD7,
    \hDB, \h23, \h13, \h32, \h0B, \h2A, \h1A, \hFA, \hF3, \h26, \h16, \hF6, \h0E, \hEE, \hDE, \hEB>>

b5b6_1 == Codes(64, d5b6_1, 55, <<\hFA, NOTM, NOTM, NOTM, \hF6, \hCF, \hEE, \hDE>>)

d3b4_1 == <<\hCB, \h09, \h05, \h8C, \hCD, \h0A, \h06, \hCE, \hC7>>

b3b4_1 == Codes(32, d3b4_1, 16, <<\hCB, \h86, \h8A, \h8C, \hCD, \h85, \h89, \hC7>>)

(* ... and for rd = +1.                                                    *)
d5b6_2 ==
  <<\hD8, \hE2, \hD2, \h31, \hCA, \h29, \h19, \h87, \hC6, \h25, \h15, \h34, \h0D, \h2C, \h1C, \hE8,
    \hE4, \h23, \h13, \h32, \h0B, \h2A, \h1A, \hC5, \hCC, \h26, \h16, \hC9, \h0E, \hD1, \hE1, \hD4>>

b5b6_2 == Codes(64, d5b6_2, 55, <<\hC5, NOTM, NOTM, NOTM, \hC9, \hF0, \hD1, \hE1>>)

d3b4_2 == <<\hC4, \h09, \h85, \h83, \hC2, \h0A, \h06, \hC1, \hC8>>

b3b4_2 == Codes(32, d3b4_2, 16, <<\hC4, \h89, \h8A, \h83, \hC2, \h8A, \h86, \hC8>>)
-----------------------------------------------------------------------------
Flag(b) == IF b THEN 1 ELSE 0

(* Fault variant of FiveOf: MASK(4) for MASK(5).                           *)
FourOf(u8b, ctrl) == (u8b % 16) + 32 * Flag(ctrl)

(* The two halves of an octet, each with the control bit on top.           *)
FiveOf(u8b, ctrl) == (u8b % 32) + 32 * Flag(ctrl)

ThreeOf(u8b, ctrl) == (u8b \div 32) + 16 * Flag(ctrl)

(* Fault variant of Turned: the running disparity is kept.                 *)
NotTurned(r, code) == r

(* The running disparity r after a code: RD_BIT turns it round.            *)
Turned(r, code) == IF (code \div 64) % 2 = 0 THEN r ELSE IF r < 0 THEN r + 2 ELSE r - 2

(* Fault variant of Alternate: D.x.P7 for every x.                         *)
PrimaryOnly(x, y, ctrl, r) == y

(* D.x.A7 takes the place of D.x.P7 where five equal bits would meet.      *)
Alternate(x, y, ctrl, r) ==
  IF y = 7 /\ ~ctrl /\ x \in (IF r < 0 THEN {17, 18, 20} ELSE {11, 13, 14}) THEN 8 ELSE y

(* x8b10b_enc: the 4-bit code is chosen by the disparity after the 6-bit   *)
(* one.  Without a code there is none to return.                           *)
x8b10b_enc(u8b, ctrl, r) ==
  LET x      == FiveOf(u8b, ctrl)
      abcdei == (IF r < 0 THEN b5b6_1 ELSE b5b6_2)[x]
      rd6    == Turned(r, abcdei)
      y      == Alternate(x, ThreeOf(u8b, ctrl), ctrl, rd6)
      fghj   == (IF rd6 < 0 THEN b3b4_1 ELSE b3b4_2)[y]
  IN  [ok |-> NOTM \notin {abcdei, fghj},
       p10b |-> (abcdei % 64) * 16 + (fghj % 16),
       rd |-> Turned(rd6, fghj)]
-----------------------------------------------------------------------------
(* rev10b: its table reverses five bits.                                   *)
Rev5(x) == 16 * (x % 2) + 8 * ((x \div 2) % 2) + 4 * ((x \div 4) % 2)
             + 2 * ((x \div 8) % 2) + (x \div 16)

rev10b(in) == 32 * Rev5(in % 32) + Rev5(in \div 32)

(* How many more ones than zeros there are in a code group.                *)
Excess(bits) ==
  2 * (bits[1] + bits[2] + bits[3] + bits[4] + bits[5]
         + bits[6] + bits[7] + bits[8] + bits[9] + bits[10]) - 10

(* What a stream, least significant bit first, gets for a code group, and  *)
(* the running disparity after it.                                         *)
Group(u8b, ctrl, r) ==
  LET e == x8b10b_enc(u8b, ctrl, r)
      t == rev10b(e.p10b)
      bits == SubSeq([n \in 1 .. 10 |-> (t \div 2^(n - 1)) % 2], 1, 10)
  IN  [ok |-> e.ok, rd |-> e.rd, bits |-> bits, disparity |-> Excess(bits)]

(* The code groups, worked out once.                                       *)
Octet  == 0 .. 255
RD     == {-1, 1}
DataGroup == [u8b \in Octet |-> [r \in RD |-> Group(u8b, FALSE, r)]]
=============================================================================
