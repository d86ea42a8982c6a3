---------------------------- MODULE MessageProofs ----------------------------
(***************************************************************************)
(* Proofs about the way of a message: Framer, for every capacity, message, *)
(* amount and content of parity, preamble and number of tones, and         *)
(* Bitstream, for octets, capacities, writes and symbols of every size.    *)
(*                                                                         *)
(*   - the frame is as long as framer_frame said, but for the ten bits of  *)
(*     the delimiter;                                                      *)
(*   - its code groups are free of direct current;                         *)
(*   - each of them tells which octet was sent;                            *)
(*   - a receiver finds the bit clock and the start of the frame;          *)
(*   - bitwise_copy is exact; writes append what they are given, positions *)
(*     stay in bounds, and every pass sends the whole stream.              *)
(*                                                                         *)
(* The second to fourth rest on what the tables of x8b10b_tables.h hold,   *)
(* which the first part goes through: it follows the bits of a code from   *)
(* the table through x8b10b_enc and rev10b into the stream.                *)
(***************************************************************************)
EXTENDS Framer, Bitstream, SequenceTheorems, WellFoundedInduction, TLAPS

(* The code of six bits and that of four, for a running disparity.         *)
Six(x, r)  == (IF r < 0 THEN b5b6_1 ELSE b5b6_2)[x]
Four(y, r) == (IF r < 0 THEN b3b4_1 ELSE b3b4_2)[y]

Bit(v, k) == (v \div k) % 2

Excess6(c) == 2 * (Bit(c, 1) + Bit(c, 2) + Bit(c, 4) + Bit(c, 8) + Bit(c, 16) + Bit(c, 32)) - 6
Excess4(c) == 2 * (Bit(c, 1) + Bit(c, 2) + Bit(c, 4) + Bit(c, 8)) - 4

(* The 33 six-bit codes that the framer uses, and the ten of four bits.    *)
LEMMA SixTable ==
  ASSUME NEW x \in 0 .. 31
  PROVE  b5b6_1[x] = d5b6_1[x + 1] /\ b5b6_2[x] = d5b6_2[x + 1]
<1>1. Len(d5b6_1) = 32 /\ Len(d5b6_2) = 32
  BY DEF d5b6_1, d5b6_2
<1>2. QED
  BY <1>1 DEF b5b6_1, b5b6_2, Codes

LEMMA SixKey == b5b6_1[60] = 207 /\ b5b6_2[60] = 240
<1>1. Len(d5b6_1) = 32 /\ Len(d5b6_2) = 32
  BY DEF d5b6_1, d5b6_2
<1>2. QED
  BY <1>1 DEF b5b6_1, b5b6_2, Codes

LEMMA FourTable ==
  ASSUME NEW y \in 0 .. 8
  PROVE  b3b4_1[y] = d3b4_1[y + 1] /\ b3b4_2[y] = d3b4_2[y + 1]
<1>1. Len(d3b4_1) = 9 /\ Len(d3b4_2) = 9
  BY DEF d3b4_1, d3b4_2
<1>2. QED
  BY <1>1 DEF b3b4_1, b3b4_2, Codes

LEMMA FourKey == b3b4_1[17] = 134 /\ b3b4_2[17] = 137
<1>1. Len(d3b4_1) = 9 /\ Len(d3b4_2) = 9
  BY DEF d3b4_1, d3b4_2
<1>2. QED
  BY <1>1 DEF b3b4_1, b3b4_2, Codes

LEMMA SixBalanced ==
  ASSUME NEW x \in 0 .. 31 \cup {60}, NEW r \in RD
  PROVE  /\ Six(x, r) \in 0 .. 254
         /\ Excess6(Six(x, r)) = Turned(r, Six(x, r)) - r
<1>1. ASSUME NEW n \in 1 .. 32
      PROVE  /\ d5b6_1[n] \in 0 .. 254
             /\ Excess6(d5b6_1[n]) = IF Bit(d5b6_1[n], 64) = 0 THEN 0 ELSE 2
  BY DEF d5b6_1, Excess6, Bit
<1>2. ASSUME NEW n \in 1 .. 32
      PROVE  /\ d5b6_2[n] \in 0 .. 254
             /\ Excess6(d5b6_2[n]) = IF Bit(d5b6_2[n], 64) = 0 THEN 0 ELSE -2
  BY DEF d5b6_2, Excess6, Bit
<1>3. Excess6(207) = 2 /\ Excess6(240) = -2 /\ Bit(207, 64) = 1 /\ Bit(240, 64) = 1
  BY DEF Excess6, Bit
<1>4. CASE x = 60
  BY <1>3, <1>4, SixKey DEF Six, Turned, RD, Bit
<1>5. CASE x \in 0 .. 31
  <2>1. x + 1 \in 1 .. 32
    BY <1>5
  <2>2. CASE r = -1
    BY <1>1, <1>5, <2>1, <2>2, SixTable DEF Six, Turned, Bit
  <2>3. CASE r = 1
    BY <1>2, <1>5, <2>1, <2>3, SixTable DEF Six, Turned, Bit
  <2>4. QED
    BY <2>2, <2>3 DEF RD
<1>6. QED
  BY <1>4, <1>5

LEMMA FourBalanced ==
  ASSUME NEW y \in 0 .. 8 \cup {17}, NEW r \in RD
  PROVE  /\ Four(y, r) \in 0 .. 254
         /\ Excess4(Four(y, r)) = Turned(r, Four(y, r)) - r
<1>1. ASSUME NEW n \in 1 .. 9
      PROVE  /\ d3b4_1[n] \in 0 .. 254
             /\ Excess4(d3b4_1[n]) = IF Bit(d3b4_1[n], 64) = 0 THEN 0 ELSE 2
  BY DEF d3b4_1, Excess4, Bit
<1>2. ASSUME NEW n \in 1 .. 9
      PROVE  /\ d3b4_2[n] \in 0 .. 254
             /\ Excess4(d3b4_2[n]) = IF Bit(d3b4_2[n], 64) = 0 THEN 0 ELSE -2
  BY DEF d3b4_2, Excess4, Bit
<1>3. Excess4(134) = 0 /\ Excess4(137) = 0 /\ Bit(134, 64) = 0 /\ Bit(137, 64) = 0
  BY DEF Excess4, Bit
<1>4. CASE y = 17
  BY <1>3, <1>4, FourKey DEF Four, Turned, RD, Bit
<1>5. CASE y \in 0 .. 8
  <2>1. y + 1 \in 1 .. 9
    BY <1>5
  <2>2. CASE r = -1
    BY <1>1, <1>5, <2>1, <2>2, FourTable DEF Four, Turned, Bit
  <2>3. CASE r = 1
    BY <1>2, <1>5, <2>1, <2>3, FourTable DEF Four, Turned, Bit
  <2>4. QED
    BY <2>2, <2>3 DEF RD
<1>6. QED
  BY <1>4, <1>5

(* Any octet is the sum of its bits.                                       *)
LEMMA Halve ==
  ASSUME NEW x \in Nat
  PROVE  x % 2 = x - 2 * (x \div 2) /\ x \div 2 \in Nat /\ x % 2 \in 0 .. 1
<1>1. x % 2 \in 0 .. 1
  OBVIOUS
<1>2. x \div 2 \in Nat
  OBVIOUS
<1>3. x % 2 = x - 2 * (x \div 2)
  OBVIOUS
<1>4. QED
  BY <1>1, <1>2, <1>3

LEMMA SumOfBits ==
  ASSUME NEW c \in Nat
  PROVE  /\ \A k \in {1, 2, 4, 8, 16, 32} : Bit(c, k) \in 0 .. 1
         /\ c % 64 = 32 * Bit(c, 32) + 16 * Bit(c, 16) + 8 * Bit(c, 8) + 4 * Bit(c, 4)
                       + 2 * Bit(c, 2) + Bit(c, 1)
         /\ c % 16 = 8 * Bit(c, 8) + 4 * Bit(c, 4) + 2 * Bit(c, 2) + Bit(c, 1)
<1> DEFINE c1 == c \div 2
           c2 == c1 \div 2
           c3 == c2 \div 2
           c4 == c3 \div 2
           c5 == c4 \div 2
           c6 == c5 \div 2
           e0 == c % 2
           e1 == c1 % 2
           e2 == c2 % 2
           e3 == c3 % 2
           e4 == c4 % 2
           e5 == c5 % 2
<1> HIDE DEF c1, c2, c3, c4, c5, c6, e0, e1, e2, e3, e4, e5
<1>1. e0 = c - 2 * c1 /\ c1 \in Nat /\ e0 \in 0 .. 1
  BY Halve DEF c1, e0
<1>2. e1 = c1 - 2 * c2 /\ c2 \in Nat /\ e1 \in 0 .. 1
  BY <1>1, Halve DEF c2, e1
<1>3. e2 = c2 - 2 * c3 /\ c3 \in Nat /\ e2 \in 0 .. 1
  BY <1>2, Halve DEF c3, e2
<1>4. e3 = c3 - 2 * c4 /\ c4 \in Nat /\ e3 \in 0 .. 1
  BY <1>3, Halve DEF c4, e3
<1>5. e4 = c4 - 2 * c5 /\ c5 \in Nat /\ e4 \in 0 .. 1
  BY <1>4, Halve DEF c5, e4
<1>6. e5 = c5 - 2 * c6 /\ c6 \in Nat /\ e5 \in 0 .. 1
  BY <1>5, Halve DEF c6, e5
<1>7. c \div 4 = c2
  BY <1>1, <1>2
<1>8. c \div 8 = c3
  BY <1>1, <1>2, <1>3
<1>9. c \div 16 = c4 /\ c % 16 = 8 * e3 + 4 * e2 + 2 * e1 + e0
  BY <1>1, <1>2, <1>3, <1>4
<1>10. c \div 32 = c5
  BY <1>1, <1>2, <1>3, <1>4, <1>5
<1>11. c % 64 = 32 * e5 + 16 * e4 + 8 * e3 + 4 * e2 + 2 * e1 + e0
  BY <1>1, <1>2, <1>3, <1>4, <1>5, <1>6
<1>12. Bit(c, 1) = e0 /\ Bit(c, 2) = e1
  <2>1. c \div 1 = c
    OBVIOUS
  <2>2. QED
    BY <2>1 DEF Bit, e0, e1, c1
<1>13. Bit(c, 4) = e2 /\ Bit(c, 8) = e3 /\ Bit(c, 16) = e4 /\ Bit(c, 32) = e5
  BY <1>7, <1>8, <1>9, <1>10 DEF Bit, e2, e3, e4, e5
<1>14. QED
  BY <1>1, <1>2, <1>3, <1>4, <1>5, <1>6, <1>9, <1>11, <1>12, <1>13

LEMMA Rev5Bits ==
  ASSUME NEW a \in 0 .. 1, NEW b \in 0 .. 1, NEW c \in 0 .. 1, NEW d \in 0 .. 1, NEW e \in 0 .. 1
  PROVE  Rev5(16 * a + 8 * b + 4 * c + 2 * d + e) = 16 * e + 8 * d + 4 * c + 2 * b + a
  BY DEF Rev5

(* The ten bits of a code group in the order in which they are sent, and   *)
(* the number they make, the first the lowest.                             *)
Ten(c, d) == <<Bit(c, 32), Bit(c, 16), Bit(c, 8), Bit(c, 4), Bit(c, 2), Bit(c, 1),
               Bit(d, 8), Bit(d, 4), Bit(d, 2), Bit(d, 1)>>

Number(b) == 512 * b[10] + 256 * b[9] + 128 * b[8] + 64 * b[7] + 32 * b[6] + 16 * b[5]
               + 8 * b[4] + 4 * b[3] + 2 * b[2] + b[1]

Packed(b) == (32 * b[1] + 16 * b[2] + 8 * b[3] + 4 * b[4] + 2 * b[5] + b[6]) * 16
               + (8 * b[7] + 4 * b[8] + 2 * b[9] + b[10])

LEMMA Rev10Bits ==
  ASSUME NEW b \in [1 .. 10 -> 0 .. 1]
  PROVE  rev10b(Packed(b)) = Number(b)
<1> DEFINE lo == 16 * b[6] + 8 * b[7] + 4 * b[8] + 2 * b[9] + b[10]
           hi == 16 * b[1] + 8 * b[2] + 4 * b[3] + 2 * b[4] + b[5]
<1>1. /\ b[1] \in 0 .. 1 /\ b[2] \in 0 .. 1 /\ b[3] \in 0 .. 1 /\ b[4] \in 0 .. 1
      /\ b[5] \in 0 .. 1 /\ b[6] \in 0 .. 1 /\ b[7] \in 0 .. 1 /\ b[8] \in 0 .. 1
      /\ b[9] \in 0 .. 1 /\ b[10] \in 0 .. 1
  OBVIOUS
<1>2. Packed(b) = 32 * hi + lo /\ lo \in 0 .. 31 /\ hi \in 0 .. 31
  BY <1>1 DEF Packed
<1>3. Packed(b) % 32 = lo /\ Packed(b) \div 32 = hi
  <2> HIDE DEF lo, hi
  <2>1. QED
    BY <1>2
<1>4. Rev5(lo) = 16 * b[10] + 8 * b[9] + 4 * b[8] + 2 * b[7] + b[6]
  BY <1>1, Rev5Bits
<1>5. Rev5(hi) = 16 * b[5] + 8 * b[4] + 4 * b[3] + 2 * b[2] + b[1]
  BY <1>1, Rev5Bits
<1>6. 32 * Rev5(lo) + Rev5(hi) = Number(b)
  BY <1>1, <1>4, <1>5 DEF Number
<1>7. QED
  <2> HIDE DEF lo, hi
  <2>1. QED
    BY <1>3, <1>6 DEF rev10b

(* The ten low bits of a number, as Group takes them.                      *)
LowTen(t) == SubSeq([n \in 1 .. 10 |-> (t \div 2^(n - 1)) % 2], 1, 10)

LEMMA LowTenBits ==
  ASSUME NEW b \in [1 .. 10 -> 0 .. 1]
  PROVE  LowTen(Number(b)) = b
<1> DEFINE t == Number(b)
           f == [n \in 1 .. 10 |-> (t \div 2^(n - 1)) % 2]
<1>1. /\ b[1] \in 0 .. 1 /\ b[2] \in 0 .. 1 /\ b[3] \in 0 .. 1 /\ b[4] \in 0 .. 1
      /\ b[5] \in 0 .. 1 /\ b[6] \in 0 .. 1 /\ b[7] \in 0 .. 1 /\ b[8] \in 0 .. 1
      /\ b[9] \in 0 .. 1 /\ b[10] \in 0 .. 1
  OBVIOUS
<1>2. /\ t \div 1 = t
      /\ t \div 2 = 256 * b[10] + 128 * b[9] + 64 * b[8] + 32 * b[7] + 16 * b[6] + 8 * b[5]
                      + 4 * b[4] + 2 * b[3] + b[2]
  BY <1>1 DEF Number
<1>3. t \div 4 = 128 * b[10] + 64 * b[9] + 32 * b[8] + 16 * b[7] + 8 * b[6] + 4 * b[5]
                   + 2 * b[4] + b[3]
  BY <1>1 DEF Number
<1>4. t \div 8 = 64 * b[10] + 32 * b[9] + 16 * b[8] + 8 * b[7] + 4 * b[6] + 2 * b[5] + b[4]
  BY <1>1 DEF Number
<1>5. t \div 16 = 32 * b[10] + 16 * b[9] + 8 * b[8] + 4 * b[7] + 2 * b[6] + b[5]
  BY <1>1 DEF Number
<1>6. t \div 32 = 16 * b[10] + 8 * b[9] + 4 * b[8] + 2 * b[7] + b[6]
  BY <1>1 DEF Number
<1>7. t \div 64 = 8 * b[10] + 4 * b[9] + 2 * b[8] + b[7]
  BY <1>1 DEF Number
<1>8. t \div 128 = 4 * b[10] + 2 * b[9] + b[8]
  BY <1>1 DEF Number
<1>9. t \div 256 = 2 * b[10] + b[9] /\ t \div 512 = b[10]
  BY <1>1 DEF Number
<1>10. /\ (t \div 1) % 2 = b[1] /\ (t \div 2) % 2 = b[2] /\ (t \div 4) % 2 = b[3]
       /\ (t \div 8) % 2 = b[4] /\ (t \div 16) % 2 = b[5] /\ (t \div 32) % 2 = b[6]
       /\ (t \div 64) % 2 = b[7] /\ (t \div 128) % 2 = b[8] /\ (t \div 256) % 2 = b[9]
       /\ (t \div 512) % 2 = b[10]
  <2>1. (t \div 1) % 2 = b[1]
    BY <1>1, <1>2 DEF Number
  <2> HIDE DEF t
  <2>2. QED
    BY <1>1, <1>2, <1>3, <1>4, <1>5, <1>6, <1>7, <1>8, <1>9, <2>1
<1>11. /\ 2^0 = 1 /\ 2^1 = 2 /\ 2^2 = 4 /\ 2^3 = 8 /\ 2^4 = 16 /\ 2^5 = 32 /\ 2^6 = 64
       /\ 2^7 = 128 /\ 2^8 = 256 /\ 2^9 = 512
  OBVIOUS
<1>12. LowTen(t) = SubSeq(f, 1, 10)
  BY DEF LowTen
<1>13. /\ f[1] = b[1] /\ f[2] = b[2] /\ f[3] = b[3] /\ f[4] = b[4] /\ f[5] = b[5]
       /\ f[6] = b[6] /\ f[7] = b[7] /\ f[8] = b[8] /\ f[9] = b[9] /\ f[10] = b[10]
  <2> HIDE DEF t
  <2>1. QED
    BY <1>10, <1>11
<1> HIDE DEF f
<1>14. SubSeq(f, 1, 10) = [n \in 1 .. 10 |-> f[n]]
  OBVIOUS
<1> HIDE DEF t
<1>15. \A n \in 1 .. 10 : f[n] = b[n]
  BY <1>13
<1>16. b = [n \in 1 .. 10 |-> b[n]]
  OBVIOUS
<1>17. [n \in 1 .. 10 |-> f[n]] = [n \in 1 .. 10 |-> b[n]]
  BY <1>15
<1>18. LowTen(t) = b
  BY <1>12, <1>14, <1>16, <1>17
<1>19. QED
  BY <1>18 DEF t

(* The ten bits that are sent for the codes c and d.                       *)
LEMMA SentBits ==
  ASSUME NEW c \in Nat, NEW d \in Nat
  PROVE  /\ Ten(c, d) \in [1 .. 10 -> 0 .. 1]
         /\ LowTen(rev10b((c % 64) * 16 + (d % 16))) = Ten(c, d)
<1> DEFINE a1 == Bit(c, 32)
           a2 == Bit(c, 16)
           a3 == Bit(c, 8)
           a4 == Bit(c, 4)
           a5 == Bit(c, 2)
           a6 == Bit(c, 1)
           a7 == Bit(d, 8)
           a8 == Bit(d, 4)
           a9 == Bit(d, 2)
           a10 == Bit(d, 1)
<1>1. /\ a1 \in 0 .. 1 /\ a2 \in 0 .. 1 /\ a3 \in 0 .. 1 /\ a4 \in 0 .. 1 /\ a5 \in 0 .. 1
      /\ a6 \in 0 .. 1 /\ a7 \in 0 .. 1 /\ a8 \in 0 .. 1 /\ a9 \in 0 .. 1 /\ a10 \in 0 .. 1
  BY SumOfBits
<1>2. /\ c % 64 = 32 * a1 + 16 * a2 + 8 * a3 + 4 * a4 + 2 * a5 + a6
      /\ d % 16 = 8 * a7 + 4 * a8 + 2 * a9 + a10
  BY SumOfBits
<1>3. Ten(c, d) = <<a1, a2, a3, a4, a5, a6, a7, a8, a9, a10>>
  BY DEF Ten
<1> HIDE DEF a1, a2, a3, a4, a5, a6, a7, a8, a9, a10
<1>4. Ten(c, d) \in [1 .. 10 -> 0 .. 1]
  BY <1>1, <1>3
<1>5. (c % 64) * 16 + (d % 16) = Packed(Ten(c, d))
  BY <1>1, <1>2, <1>3 DEF Packed
<1>6. QED
  BY <1>4, <1>5, Rev10Bits, LowTenBits

(* The octets that the framer codes: any data, and the delimiter.          *)
Coded == (Octet \X {FALSE}) \cup {<<60, TRUE>>}

LEMMA Halves ==
  ASSUME NEW w \in Coded
  PROVE  /\ FiveOf(w[1], w[2]) \in 0 .. 31 \cup {60}
         /\ \A r \in RD : Alternate(FiveOf(w[1], w[2]), ThreeOf(w[1], w[2]), w[2], r)
                            \in 0 .. 8 \cup {17}
<1>1. CASE w \in Octet \X {FALSE}
  <2>1. w[1] \in 0 .. 255 /\ w[2] = FALSE
    BY <1>1 DEF Octet
  <2>2. w[1] % 32 \in 0 .. 31 /\ w[1] \div 32 \in 0 .. 7
    BY <2>1
  <2>3. FiveOf(w[1], w[2]) = w[1] % 32 /\ ThreeOf(w[1], w[2]) = w[1] \div 32
    BY <2>1, <2>2 DEF FiveOf, ThreeOf, Flag
  <2>4. QED
    BY <2>2, <2>3 DEF Alternate
<1>2. CASE w = <<60, TRUE>>
  <2>1. FiveOf(60, TRUE) = 60 /\ ThreeOf(60, TRUE) = 17
    BY DEF FiveOf, ThreeOf, Flag
  <2>2. QED
    BY <1>2, <2>1 DEF Alternate
<1>3. QED
  BY <1>1, <1>2 DEF Coded

(* The two codes of w, and the disparity between them.                     *)
SixCode(w, r)  == Six(FiveOf(w[1], w[2]), r)
Middle(w, r) == Turned(r, SixCode(w, r))
FourCode(w, r) == Four(Alternate(FiveOf(w[1], w[2]), ThreeOf(w[1], w[2]), w[2], Middle(w, r)),
                     Middle(w, r))

LEMMA TurnedType ==
  ASSUME NEW r \in RD, NEW code PROVE Turned(r, code) \in RD
  BY DEF Turned, RD

LEMMA TenExcess ==
  ASSUME NEW c \in Nat, NEW d \in Nat
  PROVE  Excess(Ten(c, d)) = Excess6(c) + Excess4(d)
<1> DEFINE a1 == Bit(c, 32)
           a2 == Bit(c, 16)
           a3 == Bit(c, 8)
           a4 == Bit(c, 4)
           a5 == Bit(c, 2)
           a6 == Bit(c, 1)
           a7 == Bit(d, 8)
           a8 == Bit(d, 4)
           a9 == Bit(d, 2)
           a10 == Bit(d, 1)
<1>1. /\ a1 \in 0 .. 1 /\ a2 \in 0 .. 1 /\ a3 \in 0 .. 1 /\ a4 \in 0 .. 1 /\ a5 \in 0 .. 1
      /\ a6 \in 0 .. 1 /\ a7 \in 0 .. 1 /\ a8 \in 0 .. 1 /\ a9 \in 0 .. 1 /\ a10 \in 0 .. 1
  BY SumOfBits
<1>2. /\ Ten(c, d) = <<a1, a2, a3, a4, a5, a6, a7, a8, a9, a10>>
      /\ Excess6(c) = 2 * (a6 + a5 + a4 + a3 + a2 + a1) - 6
      /\ Excess4(d) = 2 * (a10 + a9 + a8 + a7) - 4
  BY DEF Ten, Excess6, Excess4
<1> HIDE DEF a1, a2, a3, a4, a5, a6, a7, a8, a9, a10
<1>3. QED
  BY <1>1, <1>2 DEF Excess

(* What a code group is, and that it turns the running disparity by as     *)
(* much as it has more ones than zeros.                                    *)
LEMMA GroupIs ==
  ASSUME NEW w \in Coded, NEW r \in RD
  PROVE  LET g == Group(w[1], w[2], r)
         IN  /\ g.bits = Ten(SixCode(w, r), FourCode(w, r))
             /\ g.bits \in [1 .. 10 -> 0 .. 1]
             /\ g.rd = Turned(Middle(w, r), FourCode(w, r)) /\ g.rd \in RD /\ g.ok
             /\ g.disparity = g.rd - r
<1> DEFINE c == SixCode(w, r)
           m == Middle(w, r)
           d == FourCode(w, r)
           e == x8b10b_enc(w[1], w[2], r)
<1>1. c \in 0 .. 254 /\ Excess6(c) = m - r
  BY Halves, SixBalanced DEF SixCode, Middle
<1>2. m \in RD
  BY TurnedType DEF Middle
<1>3. d \in 0 .. 254 /\ Excess4(d) = Turned(m, d) - m
  BY <1>2, Halves, FourBalanced DEF FourCode
<1>4. e.ok = (NOTM \notin {c, d}) /\ e.rd = Turned(m, d) /\ e.p10b = (c % 64) * 16 + (d % 16)
  BY DEF x8b10b_enc, SixCode, Middle, FourCode, Six, Four
<1>5. Turned(m, d) \in RD
  BY <1>2, TurnedType
<1> HIDE DEF c, m, d, e
<1>6. c \in Nat /\ d \in Nat /\ NOTM \notin {c, d}
  BY <1>1, <1>3 DEF NOTM
<1>7. LowTen(rev10b(e.p10b)) = Ten(c, d) /\ Ten(c, d) \in [1 .. 10 -> 0 .. 1]
  BY <1>4, <1>6, SentBits, Zenon
<1>8. Excess(Ten(c, d)) = Turned(m, d) - r
  <2>1. r \in Int /\ m \in Int /\ Turned(m, d) \in Int
    BY <1>2, <1>5 DEF RD
  <2>2. Excess(Ten(c, d)) = Excess6(c) + Excess4(d)
    BY <1>6, TenExcess
  <2>3. QED
    BY <1>1, <1>3, <2>1, <2>2
<1>9. e.ok
  BY <1>4, <1>6, Zenon
<1>10. LET g == Group(w[1], w[2], r)
       IN  /\ g.bits = LowTen(rev10b(e.p10b)) /\ g.rd = e.rd /\ g.ok = e.ok
           /\ g.disparity = Excess(g.bits)
  BY DEF Group, LowTen, e
<1>11. LET g == Group(w[1], w[2], r)
       IN  /\ g.bits = Ten(c, d) /\ g.bits \in [1 .. 10 -> 0 .. 1]
           /\ g.rd = Turned(m, d) /\ g.rd \in RD /\ g.ok
           /\ g.disparity = g.rd - r
  BY <1>4, <1>5, <1>7, <1>8, <1>9, <1>10
<1>12. QED
  BY <1>11 DEF c, m, d

(* The way back, which x8b10b.c does not have: 255 for no code.            *)
Six5 ==
  <<255, 255, 255, 255, 255,  23,   8,   7, 255,  27,   4,  20,  24,  12,  28,  60,
    255,  29,   2,  18,  31,  10,  26,  15,   0,   6,  22,  16,  14,   1,  30, 255,
    255,  30,   1,  17,  16,   9,  25,   0,  15,   5,  21,  31,  13,   2,  29, 255,
     60,   3,  19,  24,  11,   4,  27, 255,   7,   8,  23, 255, 255, 255, 255, 255>>

Four3 == <<255, 7, 4, 3, 0, 2, 6, 7, 7, 1, 5, 0, 3, 4, 7, 255>>

LEMMA SixBack ==
  ASSUME NEW x \in 0 .. 31 \cup {60}, NEW r \in RD
  PROVE  Six5[(Six(x, r) % 64) + 1] = x
<1>1. ASSUME NEW n \in 1 .. 32
      PROVE  /\ Six5[(d5b6_1[n] % 64) + 1] = n - 1
             /\ Six5[(d5b6_2[n] % 64) + 1] = n - 1
  BY DEF d5b6_1, d5b6_2, Six5
<1>2. Six5[(207 % 64) + 1] = 60 /\ Six5[(240 % 64) + 1] = 60
  BY DEF Six5
<1>3. CASE x = 60
  BY <1>2, <1>3, SixKey DEF Six
<1>4. CASE x \in 0 .. 31
  <2>1. x + 1 \in 1 .. 32 /\ (x + 1) - 1 = x
    BY <1>4
  <2>2. b5b6_1[x] = d5b6_1[x + 1] /\ b5b6_2[x] = d5b6_2[x + 1]
    BY <1>4, SixTable
  <2>3. QED
    BY <1>1, <2>1, <2>2 DEF Six
<1>5. QED
  BY <1>3, <1>4

LEMMA FourBack ==
  ASSUME NEW y \in 0 .. 8, NEW r \in RD
  PROVE  Four3[(Four(y, r) % 16) + 1] = IF y = 8 THEN 7 ELSE y
<1>1. ASSUME NEW n \in 1 .. 9
      PROVE  /\ Four3[(d3b4_1[n] % 16) + 1] = IF n = 9 THEN 7 ELSE n - 1
             /\ Four3[(d3b4_2[n] % 16) + 1] = IF n = 9 THEN 7 ELSE n - 1
  BY DEF d3b4_1, d3b4_2, Four3
<1>2. y + 1 \in 1 .. 9 /\ (y + 1) - 1 = y /\ (y + 1 = 9 <=> y = 8)
  OBVIOUS
<1>3. b3b4_1[y] = d3b4_1[y + 1] /\ b3b4_2[y] = d3b4_2[y + 1]
  BY FourTable
<1>4. QED
  BY <1>1, <1>2, <1>3 DEF Four

(* Equal bits, equal codes.                                                *)
LEMMA SameTen ==
  ASSUME NEW c \in Nat, NEW d \in Nat, NEW f \in Nat, NEW h \in Nat, Ten(c, d) = Ten(f, h)
  PROVE  c % 64 = f % 64 /\ d % 16 = h % 16
<1>1. /\ Bit(c, 32) = Bit(f, 32) /\ Bit(c, 16) = Bit(f, 16) /\ Bit(c, 8) = Bit(f, 8)
      /\ Bit(c, 4) = Bit(f, 4) /\ Bit(c, 2) = Bit(f, 2) /\ Bit(c, 1) = Bit(f, 1)
      /\ Bit(d, 8) = Bit(h, 8) /\ Bit(d, 4) = Bit(h, 4) /\ Bit(d, 2) = Bit(h, 2)
      /\ Bit(d, 1) = Bit(h, 1)
  BY DEF Ten
<1>2. /\ c % 64 = 32 * Bit(c, 32) + 16 * Bit(c, 16) + 8 * Bit(c, 8) + 4 * Bit(c, 4)
                    + 2 * Bit(c, 2) + Bit(c, 1)
      /\ f % 64 = 32 * Bit(f, 32) + 16 * Bit(f, 16) + 8 * Bit(f, 8) + 4 * Bit(f, 4)
                    + 2 * Bit(f, 2) + Bit(f, 1)
      /\ d % 16 = 8 * Bit(d, 8) + 4 * Bit(d, 4) + 2 * Bit(d, 2) + Bit(d, 1)
      /\ h % 16 = 8 * Bit(h, 8) + 4 * Bit(h, 4) + 2 * Bit(h, 2) + Bit(h, 1)
  BY SumOfBits
<1>3. QED
  BY <1>1, <1>2, Zenon

(* What a receiver gets back from the codes of w.                          *)
LEMMA CodesBack ==
  ASSUME NEW w \in Coded, NEW r \in RD
  PROVE  /\ SixCode(w, r) \in Nat /\ FourCode(w, r) \in Nat
         /\ Six5[(SixCode(w, r) % 64) + 1] = FiveOf(w[1], w[2])
         /\ \A u8b \in Octet :
              w = <<u8b, FALSE>> => Four3[(FourCode(w, r) % 16) + 1] = u8b \div 32
<1> DEFINE y == Alternate(FiveOf(w[1], w[2]), ThreeOf(w[1], w[2]), w[2], Middle(w, r))
<1>1. Middle(w, r) \in RD
  BY TurnedType DEF Middle
<1>2. FiveOf(w[1], w[2]) \in 0 .. 31 \cup {60} /\ y \in 0 .. 8 \cup {17}
  BY <1>1, Halves
<1>3. SixCode(w, r) \in 0 .. 254 /\ FourCode(w, r) \in 0 .. 254
  BY <1>1, <1>2, SixBalanced, FourBalanced DEF SixCode, FourCode
<1>4. Six5[(SixCode(w, r) % 64) + 1] = FiveOf(w[1], w[2])
  BY <1>2, SixBack DEF SixCode
<1>5. ASSUME NEW u8b \in Octet, w = <<u8b, FALSE>>
      PROVE  Four3[(FourCode(w, r) % 16) + 1] = u8b \div 32
  <2>1. u8b \div 32 \in 0 .. 7
    BY DEF Octet
  <2>2. ThreeOf(w[1], w[2]) = u8b \div 32
    BY <1>5, <2>1 DEF ThreeOf, Flag
  <2>3. y = u8b \div 32 \/ (y = 8 /\ u8b \div 32 = 7)
    BY <2>2 DEF Alternate
  <2>4. FourCode(w, r) = Four(y, Middle(w, r))
    BY DEF FourCode
  <2> HIDE DEF y
  <2>5. Four3[(Four(y, Middle(w, r)) % 16) + 1] = IF y = 8 THEN 7 ELSE y
    BY <1>1, <2>1, <2>3, FourBack
  <2>6. QED
    BY <2>1, <2>3, <2>4, <2>5
<1>6. SixCode(w, r) \in Nat /\ FourCode(w, r) \in Nat
  BY <1>3
<1>7. QED
  BY <1>4, <1>5, <1>6, Zenon

LEMMA FiveIs ==
  ASSUME NEW w \in Coded
  PROVE  \/ w = <<60, TRUE>> /\ FiveOf(w[1], w[2]) = 60
         \/ \E u8b \in Octet : w = <<u8b, FALSE>> /\ FiveOf(w[1], w[2]) = u8b % 32
<1>1. CASE w = <<60, TRUE>>
  <2>1. w[1] = 60 /\ w[2] = TRUE /\ FiveOf(60, TRUE) = 60
    BY <1>1 DEF FiveOf, Flag
  <2>2. FiveOf(w[1], w[2]) = 60
    BY <2>1, Zenon
  <2>3. QED
    BY <1>1, <2>2
<1>2. CASE w \in Octet \X {FALSE}
  <2>1. PICK u8b \in Octet : w = <<u8b, FALSE>>
    <3>1. w[1] \in Octet /\ w[2] = FALSE
      BY <1>2
    <3>2. w = <<w[1], w[2]>>
      BY <1>2
    <3>3. w = <<w[1], FALSE>>
      BY <3>1, <3>2, Zenon
    <3>4. QED
      BY <3>1, <3>3, Zenon
  <2>2. w[1] = u8b /\ w[2] = FALSE /\ u8b % 32 \in 0 .. 31
    <3>1. u8b % 32 \in 0 .. 31
      BY DEF Octet
    <3>2. QED
      BY <2>1, <3>1
  <2>3. FiveOf(w[1], w[2]) = u8b % 32
    BY <2>2 DEF FiveOf, Flag
  <2>4. QED
    BY <2>1, <2>3
<1>3. QED
  BY <1>1, <1>2 DEF Coded

(* No two of the octets coded share a code group, whatever the disparities.*)
LEMMA Distinct ==
  ASSUME NEW v \in Coded, NEW w \in Coded, NEW r \in RD, NEW q \in RD,
         Group(v[1], v[2], r).bits = Group(w[1], w[2], q).bits
  PROVE  v = w
<1>1. Ten(SixCode(v, r), FourCode(v, r)) = Ten(SixCode(w, q), FourCode(w, q))
  BY GroupIs
<1>2. /\ SixCode(v, r) \in Nat /\ FourCode(v, r) \in Nat
      /\ SixCode(w, q) \in Nat /\ FourCode(w, q) \in Nat
  BY CodesBack
<1>3. /\ SixCode(v, r) % 64 = SixCode(w, q) % 64
      /\ FourCode(v, r) % 16 = FourCode(w, q) % 16
  BY <1>1, <1>2, SameTen
<1>4. FiveOf(v[1], v[2]) = FiveOf(w[1], w[2])
  <2>1. /\ Six5[(SixCode(v, r) % 64) + 1] = FiveOf(v[1], v[2])
        /\ Six5[(SixCode(w, q) % 64) + 1] = FiveOf(w[1], w[2])
    BY CodesBack
  <2>2. QED
    BY <1>3, <2>1, Zenon
<1>5. CASE v = <<60, TRUE>> \/ w = <<60, TRUE>>
  <2>1. ASSUME NEW x \in Coded
        PROVE  FiveOf(x[1], x[2]) = 60 <=> x = <<60, TRUE>>
    <3>1. CASE x = <<60, TRUE>> /\ FiveOf(x[1], x[2]) = 60
      BY <3>1
    <3>2. ASSUME NEW u8b \in Octet, x = <<u8b, FALSE>>, FiveOf(x[1], x[2]) = u8b % 32
          PROVE  FiveOf(x[1], x[2]) # 60 /\ x # <<60, TRUE>>
      <4>1. u8b % 32 # 60
        BY DEF Octet
      <4>2. x[2] = FALSE /\ <<60, TRUE>>[2] = TRUE
        BY <3>2
      <4>3. QED
        BY <3>2, <4>1, <4>2
    <3>3. QED
      BY <3>1, <3>2, FiveIs, Zenon
  <2>2. v = <<60, TRUE>> <=> w = <<60, TRUE>>
    BY <1>4, <2>1
  <2>3. QED
    BY <1>5, <2>2, Zenon
<1>6. CASE v # <<60, TRUE>> /\ w # <<60, TRUE>>
  <2>1. PICK a \in Octet : v = <<a, FALSE>> /\ FiveOf(v[1], v[2]) = a % 32
    BY <1>6, FiveIs
  <2>2. PICK b \in Octet : w = <<b, FALSE>> /\ FiveOf(w[1], w[2]) = b % 32
    BY <1>6, FiveIs
  <2>3. a % 32 = b % 32
    BY <1>4, <2>1, <2>2
  <2>4. a \div 32 = b \div 32
    <3>1. /\ Four3[(FourCode(v, r) % 16) + 1] = a \div 32
          /\ Four3[(FourCode(w, q) % 16) + 1] = b \div 32
      BY <2>1, <2>2, CodesBack
    <3>2. QED
      BY <1>3, <3>1, Zenon
  <2>5. a \in 0 .. 255 /\ b \in 0 .. 255
    BY DEF Octet
  <2>6. a = b
    BY <2>3, <2>4, <2>5
  <2>7. QED
    BY <2>1, <2>2, <2>6
<1>7. QED
  BY <1>5, <1>6
-----------------------------------------------------------------------------
(* Bits of the parts before the one in hand, and of a unit of that one.    *)
PreambleBits == job.preamble * (2 * job.m_exp)
HeaderBits   == IF job.header THEN 10 + HeaderLen * 10 ELSE 0

(* The length that the code would compute if a size_t had no limit.        *)
TrueLength ==
  PreambleBits + (IF job.header THEN 30 ELSE 0) + Payload * (IF job.coded THEN 10 ELSE 8)

Types == /\ job \in Job
         /\ pos_write \in Nat /\ i \in Nat
         /\ rd \in RD
         /\ at \in {"check", "preamble", "sfd", "header", "payload", "framed", "refused", "aborted"}

(* Where the stream ends, given the part in hand and the units done.       *)
Position ==
  /\ at \in {"check", "refused"} => pos_write = 0 /\ i = 0
  /\ at \in {"preamble", "sfd", "header", "payload", "framed"} =>
       len = FrameLength(job) /\ Payload <= 255
  /\ at \in {"sfd", "header", "payload", "framed"} => PreambleBits <= Cap
  /\ at = "preamble" => i < job.preamble /\ pos_write = i * (2 * job.m_exp)
  /\ at = "sfd" => job.header /\ i = 0 /\ pos_write = PreambleBits
  /\ at = "header" => /\ job.header /\ i < HeaderLen
                      /\ pos_write = PreambleBits + 10 + i * 10
  /\ at = "payload" => /\ i = 0 \/ (job.coded /\ i < Payload)
                       /\ pos_write = PreambleBits + HeaderBits + i * 10
  /\ at = "framed" =>
       pos_write = PreambleBits + HeaderBits + Payload * (IF job.coded THEN 10 ELSE 8)

(* The inductive invariant.                                                *)
IInv == Types /\ Position

(* A code group has ten bits and leaves a running disparity of -1 or +1.   *)
LEMMA GroupFacts ==
  ASSUME NEW u8b, NEW ctrl, NEW r \in RD
  PROVE  Len(Group(u8b, ctrl, r).bits) = 10 /\ Group(u8b, ctrl, r).rd \in RD
<1>1. x8b10b_enc(u8b, ctrl, r).rd \in RD
  BY TurnedType DEF x8b10b_enc
<1>2. ASSUME NEW t PROVE Len(SubSeq([n \in 1 .. 10 |-> (t \div 2^(n - 1)) % 2], 1, 10)) = 10
  OBVIOUS
<1>3. QED
  BY <1>1, <1>2 DEF Group

LEMMA PutGroupFacts ==
  ASSUME Types, NEW u8b \in Octet, NEW ctrl \in BOOLEAN, PutGroup(u8b, ctrl)
  PROVE  pos_write' = pos_write + 10 /\ rd' \in RD
<1>1. ~ctrl => DataGroup[u8b][rd] = Group(u8b, FALSE, rd)
  BY DEF DataGroup, Types
<1>2. QED
  BY <1>1, GroupFacts DEF PutGroup, Put, Types

LEMMA JobFacts ==
  ASSUME job \in Job
  PROVE  /\ job.in_len \in Nat /\ job.parity \in Nat /\ Payload \in Nat
         /\ job.preamble \in Nat /\ job.m_exp \in Nat \ {0}
         /\ job.header \in BOOLEAN /\ job.coded \in BOOLEAN
         /\ PreambleBits \in Nat /\ HeaderBits \in Nat /\ TrueLength \in Nat
         /\ FrameLength(job) = TrueLength % (SIZE_MAX + 1)
         /\ TrueLength + (IF job.header THEN 10 ELSE 0)
              = PreambleBits + HeaderBits + Payload * (IF job.coded THEN 10 ELSE 8)
<1>1. /\ job.in_len \in Nat /\ job.parity \in Nat
      /\ job.preamble \in Nat /\ job.m_exp \in Nat \ {0}
      /\ job.header \in BOOLEAN /\ job.coded \in BOOLEAN
  <2>1. /\ job.in_len \in MessageLens /\ job.parity \in ParityLens
        /\ job.preamble \in PreambleLens /\ job.m_exp \in MExps
        /\ job.header \in BOOLEAN /\ job.coded \in BOOLEAN
    BY DEF Job
  <2>2. \A n \in MExps : n \in Nat \ {0}
    BY FramerAssumption
  <2>3. /\ \A n \in MessageLens : n \in Nat
        /\ \A n \in ParityLens : n \in Nat
        /\ \A n \in PreambleLens : n \in Nat
    BY FramerAssumption
  <2>4. QED
    BY <2>1, <2>2, <2>3
<1>2. /\ PreambleBits \in Nat /\ job.preamble * (job.m_exp * 2) = PreambleBits
      /\ Payload \in Nat /\ HeaderBits \in Nat
  BY <1>1 DEF PreambleBits, Payload, HeaderBits, HeaderLen
<1>3. FrameLength(job) = TrueLength % (SIZE_MAX + 1)
  <2>1. TrueLength = job.preamble * (job.m_exp * 2) + (IF job.header THEN HeaderLen * 10 ELSE 0)
                       + (job.in_len + job.parity) * (IF job.coded THEN 10 ELSE 8)
    BY <1>2 DEF TrueLength, Payload, HeaderLen
  <2>2. QED
    BY <2>1 DEF FrameLength
<1>4. HeaderBits = (IF job.header THEN 30 ELSE 0) + (IF job.header THEN 10 ELSE 0)
  BY <1>1 DEF HeaderBits, HeaderLen
<1>5. TrueLength \in Nat
  BY <1>1, <1>2 DEF TrueLength
<1>6. TrueLength + (IF job.header THEN 10 ELSE 0)
        = PreambleBits + HeaderBits + Payload * (IF job.coded THEN 10 ELSE 8)
  BY <1>1, <1>2, <1>4 DEF TrueLength
<1>7. QED
  BY <1>1, <1>2, <1>3, <1>5, <1>6

(* No length wraps once the preamble's bits are in the stream: the rest of *)
(* a frame has thirty bits of header and at most 255 octets.               *)
LEMMA NoWrap ==
  ASSUME job \in Job, Payload <= 255, PreambleBits <= Cap
  PROVE  FrameLength(job) = TrueLength
<1>1. /\ PreambleBits \in Nat /\ Payload \in Nat /\ TrueLength \in Nat
      /\ job.header \in BOOLEAN /\ job.coded \in BOOLEAN
      /\ FrameLength(job) = TrueLength % (SIZE_MAX + 1)
  BY JobFacts
<1>2. Cap \in Nat /\ SIZE_MAX \in Nat /\ Cap + 2580 <= SIZE_MAX
  BY FramerAssumption, SizeAssumption
<1>3. TrueLength <= Cap + 2580
  BY <1>1, <1>2 DEF TrueLength
<1>4. ASSUME NEW a \in Nat, NEW m \in Nat, a < m PROVE a % m = a
  <2>1. a = m * (a \div m) + (a % m) /\ a \div m = 0
    BY <1>4
  <2>2. QED
    BY <1>4, <2>1
<1>5. TrueLength < SIZE_MAX + 1
  BY <1>1, <1>2, <1>3
<1>6. QED
  BY <1>1, <1>2, <1>4, <1>5

LEMMA OneMore ==
  ASSUME NEW a \in Nat, NEW b \in Nat PROVE (a + 1) * b = a * b + b
  OBVIOUS

(* The lengths in Position do not change while the job does not.           *)
LEMMA SameJob ==
  ASSUME job' = job
  PROVE  /\ PreambleBits' = PreambleBits /\ HeaderBits' = HeaderBits /\ Payload' = Payload
         /\ FrameLength(job)' = FrameLength(job)
  BY DEF PreambleBits, HeaderBits, HeaderLen, Payload, FrameLength
-----------------------------------------------------------------------------
LEMMA InitIInv == Init => IInv
  BY DEF Init, IInv, Types, Position, RD

LEMMA CheckStep == IInv /\ Check => IInv'
<1> SUFFICES ASSUME IInv, Check PROVE IInv'
  OBVIOUS
<1>1. job' = job /\ pos_write' = pos_write /\ i' = i /\ rd' = rd /\ pos_write = 0 /\ i = 0
  BY DEF Check, IInv, Position
<1>2. job \in Job
  BY DEF IInv, Types
<1>3. Types'
  BY <1>1 DEF Check, AfterPreamble, IInv, Types
<1>4. PreambleBits' = job.preamble * (2 * job.m_exp) /\ HeaderBits' = HeaderBits
  BY <1>1, SameJob DEF PreambleBits
<1>5. job.preamble = 0 => PreambleBits' = 0 /\ 0 <= Cap
  BY <1>2, <1>4, JobFacts, FramerAssumption
<1>6. ~job.header => HeaderBits' = 0
  BY <1>4 DEF HeaderBits
<1>7. CASE at' = "refused"
  BY <1>1, <1>3, <1>7 DEF IInv, Position
<1>8. CASE at' # "refused"
  <2>1. len' = FrameLength(job)' /\ Payload' <= 255
    <3>1. len' = FrameLength(job) /\ ~(Payload > 255)
      BY <1>8 DEF Check
    <3>2. Payload \in Nat
      BY <1>2, JobFacts
    <3>3. QED
      BY <1>1, <3>1, <3>2, SameJob
  <2>2. CASE job.preamble > 0
    <3>1. at' = "preamble"
      BY <1>8, <2>2 DEF Check
    <3>2. 0 = 0 * (2 * job.m_exp) /\ 0 < job.preamble
      BY <1>2, <2>2, JobFacts
    <3>3. QED
      BY <1>1, <1>3, <2>1, <3>1, <3>2 DEF IInv, Position
  <2>3. CASE ~(job.preamble > 0)
    <3>1. job.preamble = 0
      BY <1>2, <2>3, JobFacts
    <3>2. at' = IF job.header THEN "sfd" ELSE "payload"
      BY <1>8, <2>3 DEF Check, AfterPreamble
    <3>3. QED
      BY <1>1, <1>2, <1>3, <1>5, <1>6, <2>1, <3>1, <3>2, JobFacts DEF IInv, Position
  <2>4. QED
    BY <2>2, <2>3
<1>9. QED
  BY <1>7, <1>8

LEMMA AbortStep == ASSUME NEW n, IInv, Abort(n) PROVE IInv'
<1>1. Types'
  BY DEF Abort, IInv, Types
<1>2. at' = "aborted"
  BY DEF Abort
<1>3. QED
  BY <1>1, <1>2 DEF IInv, Position

LEMMA PreambleStep == IInv /\ Preamble => IInv'
<1> SUFFICES ASSUME IInv, Preamble, ~Abort(2 * job.m_exp) PROVE IInv'
  BY AbortStep
<1> DEFINE unit == 2 * job.m_exp
<1>1. /\ job' = job /\ len' = len /\ rd' = rd /\ at = "preamble"
      /\ job \in Job /\ i \in Nat /\ i < job.preamble /\ pos_write = i * unit
      /\ len = FrameLength(job) /\ Payload <= 255
  BY DEF Preamble, IInv, Types, Position
<1>2. unit \in Nat /\ job.preamble \in Nat
  BY <1>1, JobFacts
<1>3. pos_write' = pos_write + unit /\ Cap - pos_write >= unit
  <2>1. Len([b \in 1 .. unit |-> IF b = job.m_exp + 1 THEN 1 ELSE 0]) = unit
    BY <1>2
  <2>2. QED
    BY <2>1 DEF Preamble, Put, Fits
<1>4. pos_write' = (i + 1) * unit /\ pos_write' \in Nat /\ pos_write' <= Cap
  <2> HIDE DEF unit
  <2>1. (i + 1) * unit = i * unit + unit
    BY <1>1, <1>2, OneMore
  <2>2. i * unit \in Nat /\ Cap \in Nat
    BY <1>1, <1>2, FramerAssumption
  <2>3. QED
    BY <1>1, <1>2, <1>3, <2>1, <2>2
<1>5. len' = FrameLength(job)' /\ PreambleBits' = job.preamble * unit /\ HeaderBits' = HeaderBits
      /\ Payload' <= 255
  BY <1>1, SameJob DEF PreambleBits
<1>6. CASE i + 1 < job.preamble
  <2>1. i' = i + 1 /\ at' = "preamble"
    BY <1>1, <1>6 DEF Preamble, Advance
  <2>2. QED
    BY <1>1, <1>4, <1>5, <1>6, <2>1 DEF IInv, Types, Position
<1>7. CASE ~(i + 1 < job.preamble)
  <2>1. i' = 0 /\ at' = IF job.header THEN "sfd" ELSE "payload"
    BY <1>7 DEF Preamble, Advance, AfterPreamble
  <2>2. i + 1 = job.preamble
    <3> i \in Nat /\ job.preamble \in Nat /\ i < job.preamble
      BY <1>1, <1>2
    <3>1. QED
      BY <1>7
  <2>3. pos_write' = PreambleBits'
    BY <1>4, <1>5, <2>2
  <2>4. PreambleBits' \in Nat /\ (~job.header => HeaderBits' = 0)
    BY <1>1, <1>4, <1>5, <2>3 DEF HeaderBits
  <2>5. QED
    BY <1>1, <1>4, <1>5, <2>1, <2>3, <2>4 DEF IInv, Types, Position
<1>8. QED
  BY <1>6, <1>7

LEMMA DelimiterStep == IInv /\ Delimiter => IInv'
<1> SUFFICES ASSUME IInv, Delimiter PROVE IInv'
  OBVIOUS
<1>1. /\ job' = job /\ len' = len /\ i' = 0 /\ at' = "header" /\ PutGroup(FRAME_SFD, TRUE)
      /\ job \in Job /\ job.header /\ pos_write = PreambleBits /\ PreambleBits <= Cap
      /\ len = FrameLength(job) /\ Payload <= 255
  BY DEF Delimiter, IInv, Types, Position
<1>2. pos_write' = PreambleBits + 10 /\ rd' \in RD
  <2>1. FRAME_SFD \in Octet /\ Types
    BY DEF FRAME_SFD, Octet, IInv
  <2>2. pos_write' = pos_write + 10 /\ rd' \in RD
    BY <1>1, <2>1, PutGroupFacts
  <2>3. QED
    BY <1>1, <2>2
<1>3. PreambleBits \in Nat /\ PreambleBits' = PreambleBits /\ len' = FrameLength(job)'
      /\ Payload' = Payload
  BY <1>1, JobFacts, SameJob
<1>4. pos_write' = PreambleBits' + 10 + i' * 10 /\ pos_write' \in Nat /\ job'.header
  BY <1>1, <1>2, <1>3
<1>5. QED
  BY <1>1, <1>2, <1>3, <1>4 DEF IInv, Types, Position, HeaderLen

(* A unit of a part of ten-bit units, n of them.                           *)
LEMMA ChunkFacts ==
  ASSUME IInv, NEW part, NEW n \in Nat, NEW octets \in SUBSET Octet, NEW next,
         Chunk(part, n, octets, next), ~Abort(n * 10)
  PROVE  /\ at = part /\ job' = job /\ len' = len
         /\ pos_write' = pos_write + 10 /\ rd' \in RD
         /\ Advance(n, next)
<1>1. PICK u8b \in octets : PutGroup(u8b, FALSE)
  BY DEF Chunk
<1>2. u8b \in Octet /\ Types
  BY DEF IInv
<1>3. pos_write' = pos_write + 10 /\ rd' \in RD
  BY <1>1, <1>2, PutGroupFacts
<1>4. QED
  BY <1>3 DEF Chunk

LEMMA HeaderStep == IInv /\ Header => IInv'
<1> SUFFICES ASSUME IInv, Header PROVE IInv'
  OBVIOUS
<1> DEFINE octets == IF i = 0 THEN {job.in_len} ELSE Content
<1>1. CASE Abort(HeaderLen * 10)
  BY <1>1, AbortStep
<1>2. CASE ~Abort(HeaderLen * 10)
  <2>1. /\ Chunk("header", HeaderLen, octets, "payload") /\ at = "header" /\ job \in Job
        /\ HeaderLen = 3
    BY DEF Header, Chunk, HeaderLen, IInv, Types
  <2>2. /\ i \in Nat /\ job.header /\ i < 3 /\ pos_write = PreambleBits + 10 + i * 10
        /\ len = FrameLength(job) /\ Payload <= 255
    BY <2>1 DEF IInv, Types, Position
  <2>3. octets \in SUBSET Octet
    <3>1. job.in_len \in 0 .. 255
      BY <2>1, <2>2, JobFacts DEF Payload
    <3>2. QED
      BY <3>1, FramerAssumption DEF Octet
  <2>4. /\ job' = job /\ len' = len /\ pos_write' = pos_write + 10 /\ rd' \in RD
        /\ Advance(3, "payload")
    BY <1>2, <2>1, <2>3, ChunkFacts
  <2>5. /\ PreambleBits \in Nat /\ PreambleBits' = PreambleBits
        /\ HeaderBits' = 40 /\ len' = FrameLength(job)' /\ Payload' <= 255
    BY <2>1, <2>2, <2>4, JobFacts, SameJob DEF HeaderBits
  <2>6. pos_write' = PreambleBits + 10 + (i + 1) * 10 /\ pos_write' \in Nat
    BY <2>2, <2>4, <2>5
  <2>7. CASE i + 1 < 3
    BY <2>1, <2>2, <2>4, <2>5, <2>6, <2>7 DEF IInv, Types, Position, Advance
  <2>8. CASE ~(i + 1 < 3)
    <3>1. i' = 0 /\ at' = "payload" /\ pos_write' = PreambleBits + 40
      <4>1. i' = 0 /\ at' = "payload" /\ i + 1 = 3
        BY <2>2, <2>4, <2>8 DEF Advance
      <4>2. QED
        BY <2>5, <2>6, <4>1
    <3>2. QED
      BY <2>1, <2>4, <2>5, <2>6, <3>1 DEF IInv, Types, Position
  <2>9. QED
    BY <2>7, <2>8
<1>3. QED
  BY <1>1, <1>2

LEMMA CodedPayloadStep == IInv /\ CodedPayload => IInv'
<1> SUFFICES ASSUME IInv, CodedPayload PROVE IInv'
  OBVIOUS
<1>1. CASE Abort(Payload * 10)
  BY <1>1, AbortStep
<1>2. CASE ~Abort(Payload * 10)
  <2>1. /\ Chunk("payload", Payload, Content, "framed") /\ at = "payload" /\ job \in Job
        /\ job.coded /\ Payload > 0
    BY DEF CodedPayload, Chunk, IInv, Types
  <2>2. Payload \in Nat /\ Content \in SUBSET Octet
    BY <2>1, JobFacts, FramerAssumption
  <2>3. /\ i \in Nat /\ (i = 0 \/ i < Payload)
        /\ pos_write = PreambleBits + HeaderBits + i * 10
        /\ len = FrameLength(job) /\ Payload <= 255
    BY <2>1 DEF IInv, Types, Position
  <2>4. /\ job' = job /\ len' = len /\ pos_write' = pos_write + 10 /\ rd' \in RD
        /\ Advance(Payload, "framed")
    BY <1>2, <2>1, <2>2, ChunkFacts
  <2>5. /\ PreambleBits \in Nat /\ PreambleBits' = PreambleBits
        /\ HeaderBits \in Nat /\ HeaderBits' = HeaderBits
        /\ len' = FrameLength(job)' /\ Payload' = Payload
    BY <2>1, <2>3, <2>4, JobFacts, SameJob
  <2>6. pos_write' = PreambleBits + HeaderBits + (i + 1) * 10 /\ pos_write' \in Nat
    BY <2>3, <2>4, <2>5
  <2>7. CASE i + 1 < Payload
    <3>1. i' = i + 1 /\ at' = "payload"
      BY <2>1, <2>4, <2>7 DEF Advance
    <3>2. QED
      BY <2>1, <2>2, <2>3, <2>4, <2>5, <2>6, <2>7, <3>1 DEF IInv, Types, Position
  <2>8. CASE ~(i + 1 < Payload)
    <3>1. i' = 0 /\ at' = "framed"
      BY <2>4, <2>8 DEF Advance
    <3>2. i + 1 = Payload
      BY <2>1, <2>2, <2>3, <2>8
    <3>3. QED
      BY <2>1, <2>3, <2>4, <2>5, <2>6, <3>1, <3>2 DEF IInv, Types, Position
  <2>9. QED
    BY <2>7, <2>8
<1>3. QED
  BY <1>1, <1>2

LEMMA RawPayloadStep == IInv /\ RawPayload => IInv'
<1> SUFFICES ASSUME IInv, RawPayload PROVE IInv'
  OBVIOUS
<1>1. CASE Abort(Payload * 8)
  BY <1>1, AbortStep
<1>2. CASE ~Abort(Payload * 8)
  <2>1. /\ job' = job /\ len' = len /\ rd' = rd /\ i' = i /\ at = "payload" /\ at' = "framed"
        /\ pos_write' = pos_write + Payload * 8 /\ (Payload = 0 \/ ~job.coded)
    BY <1>2 DEF RawPayload
  <2>2. /\ job \in Job /\ rd \in RD /\ i \in Nat /\ (i = 0 \/ (job.coded /\ i < Payload))
        /\ pos_write = PreambleBits + HeaderBits + i * 10
        /\ len = FrameLength(job) /\ Payload <= 255
    BY <2>1 DEF IInv, Types, Position
  <2>3. /\ PreambleBits \in Nat /\ PreambleBits' = PreambleBits
        /\ HeaderBits \in Nat /\ HeaderBits' = HeaderBits
        /\ len' = FrameLength(job)' /\ Payload' = Payload /\ Payload \in Nat
    BY <2>1, <2>2, JobFacts, SameJob
  <2>4. i = 0
    BY <2>1, <2>2, <2>3
  <2>5. pos_write' = PreambleBits + HeaderBits + Payload * (IF job.coded THEN 10 ELSE 8)
    BY <2>1, <2>2, <2>3, <2>4
  <2>6. pos_write' \in Nat
    BY <2>1, <2>2, <2>3, <2>4
  <2>7. QED
    BY <2>1, <2>2, <2>3, <2>5, <2>6 DEF IInv, Types, Position
<1>3. QED
  BY <1>1, <1>2

LEMMA StepIInv == IInv /\ [Next]_vars => IInv'
<1>1. IInv /\ UNCHANGED vars => IInv'
  BY SameJob DEF IInv, Types, Position, vars
<1>2. QED
  BY <1>1, CheckStep, PreambleStep, DelimiterStep, HeaderStep, CodedPayloadStep, RawPayloadStep
  DEF Next, Returned

(* The frame framer_frame has written is as long as it computed and        *)
(* returns, and ten bits longer if there is a header (the delimiter); a    *)
(* call that returns an error has written nothing.                         *)
THEOREM FrameLengthIsAnnounced == Spec => []LengthIsAnnounced
<1>1. IInv => LengthIsAnnounced
  BY JobFacts, NoWrap DEF IInv, Types, Position, LengthIsAnnounced
<1>2. QED
  BY <1>1, InitIInv, StepIInv, PTL DEF Spec

-----------------------------------------------------------------------------
(* What is on the line: the disparity of all code groups is the one that   *)
(* the encoder keeps, and the last ten bits are the group of last.         *)
LastGroup ==
  /\ last # <<>> => last \in Coded /\ \E r \in RD : tail = Group(last[1], last[2], r).bits
  /\ at \in {"check", "preamble", "sfd"} => last = <<>>

Line == tail \in Seq(0 .. 1) /\ disparity = rd + 1 /\ LastGroup

LEMMA LastTen ==
  ASSUME NEW s \in Seq(0 .. 1), NEW b \in [1 .. 10 -> 0 .. 1]
  PROVE  LastBits(s \o b, 10) = b /\ b \in Seq(0 .. 1)
<1> DEFINE m == Len(s) + 1
           n == Len(s) + 10
<1>1. b \in Seq(0 .. 1)
  BY 10 \in Nat, SeqDef
<1>2. Len(b) = 10
  BY <1>1, LenProperties
<1>3. Len(s) \in Nat
  BY LenProperties
<1>4. Len(s \o b) = Len(s) + Len(b)
  BY <1>1, ConcatProperties, Zenon
<1>5. /\ m \in Len(s) + 1 .. Len(s) + Len(b) /\ n \in Len(s) + 1 .. Len(s) + Len(b)
      /\ m - Len(s) = 1 /\ n - Len(s) = 10 /\ n - 10 + 1 = m
  BY <1>2, <1>3
<1>6. SubSeq(b, 1, 10) = b
  BY <1>1, <1>2, SubSeqFull, Zenon
<1>7. SubSeq(s \o b, m, n) = b
  <2> HIDE DEF m, n
  <2>1. SubSeq(s \o b, m, n) = SubSeq(b, m - Len(s), n - Len(s))
    BY <1>1, <1>5, SubSeqOfConcat2, Zenon
  <2>2. QED
    BY <1>5, <1>6, <2>1, Zenon
<1>8. CASE Len(s) = 0
  <2>1. s = <<>>
    BY <1>8, EmptySeq
  <2>2. s \o b = b
    BY <1>1, <2>1, ConcatEmptySeq, Zenon
  <2>3. Len(s \o b) <= 10
    BY <1>2, <2>2
  <2>4. LastBits(s \o b, 10) = s \o b
    BY <2>3, Zenon DEF LastBits
  <2>5. QED
    BY <1>1, <2>2, <2>4
<1>9. CASE Len(s) # 0
  <2>1. Len(s \o b) = n /\ ~(n <= 10)
    BY <1>2, <1>3, <1>4, <1>9
  <2>2. Len(s \o b) - 10 + 1 = m
    BY <2>1
  <2> HIDE DEF m, n
  <2>3. LastBits(s \o b, 10) = SubSeq(s \o b, m, n)
    BY <2>1, <2>2, Zenon DEF LastBits
  <2>4. QED
    BY <1>1, <1>7, <2>3
<1>10. QED
  BY <1>8, <1>9

LEMMA PutGroupLine ==
  ASSUME Types, Line, NEW u8b, NEW ctrl \in BOOLEAN, <<u8b, ctrl>> \in Coded,
         PutGroup(u8b, ctrl), at' \notin {"check", "preamble", "sfd"}
  PROVE  Line'
<1> DEFINE g == Group(u8b, ctrl, rd)
<1>1. /\ g.bits \in [1 .. 10 -> 0 .. 1] /\ g.rd \in RD /\ g.disparity = g.rd - rd /\ rd \in RD
  BY GroupIs DEF Types
<1>2. (IF ctrl THEN Group(u8b, TRUE, rd) ELSE DataGroup[u8b][rd]) = g
  <2>1. ~ctrl => u8b \in Octet
    BY DEF Coded
  <2>2. QED
    BY <1>1, <2>1 DEF DataGroup
<1>3. /\ tail' = LastBits(tail \o g.bits, 10) /\ rd' = g.rd /\ last' = <<u8b, ctrl>>
      /\ disparity' = disparity + g.disparity
  BY <1>2 DEF PutGroup, Put
<1> HIDE DEF g
<1>4. tail' = g.bits /\ tail' \in Seq(0 .. 1)
  BY <1>1, <1>3, LastTen DEF Line
<1>5. disparity' = rd' + 1
  BY <1>1, <1>3 DEF Line, RD
<1>6. LastGroup'
  BY <1>1, <1>3, <1>4 DEF LastGroup, g
<1>7. QED
  BY <1>4, <1>5, <1>6 DEF Line

LEMMA InitLine == Init => Line
  BY DEF Init, Line, LastGroup

LEMMA StepLine == IInv /\ Line /\ [Next]_vars => Line'
<1> SUFFICES ASSUME IInv, Line, [Next]_vars PROVE Line'
  OBVIOUS
<1>1. CASE UNCHANGED vars
  BY <1>1 DEF vars, Line, LastGroup
<1>2. CASE Check
  <2>1. UNCHANGED <<rd, tail, last, disparity>> /\ at = "check"
    BY <1>2 DEF Check
  <2>2. QED
    BY <2>1 DEF Line, LastGroup
<1>5. ASSUME NEW n, Abort(n) PROVE Line'
  BY <1>5 DEF Abort, Line, LastGroup
<1>3. CASE Preamble
  <2> SUFFICES ASSUME ~Abort(2 * job.m_exp) PROVE Line'
    BY <1>5
  <2> DEFINE bits == [b \in 1 .. 2 * job.m_exp |-> IF b = job.m_exp + 1 THEN 1 ELSE 0]
  <2>1. /\ UNCHANGED <<rd, last, disparity>> /\ at = "preamble"
        /\ tail' = LastBits(tail \o bits, 10)
    BY <1>3 DEF Preamble, Put
  <2>2. bits \in Seq(0 .. 1)
    <3>1. 2 * job.m_exp \in Nat
      BY JobFacts DEF IInv, Types
    <3>2. QED
      BY <3>1
  <2> HIDE DEF bits
  <2>3. tail' \in Seq(0 .. 1)
    BY <2>1, <2>2 DEF LastBits, Line
  <2>4. QED
    BY <2>1, <2>3 DEF Line, LastGroup
<1>4. CASE Delimiter
  <2>1. <<FRAME_SFD, TRUE>> \in Coded
    BY DEF FRAME_SFD, Coded
  <2>2. QED
    BY <1>4, <2>1, PutGroupLine DEF Delimiter, IInv
<1>6. ASSUME NEW part \in {"header", "payload"}, NEW n, NEW octets \in SUBSET Octet,
             NEW next \in {"payload", "framed"}, Chunk(part, n, octets, next)
      PROVE  Line'
  <2>1. CASE \E u8b \in octets : PutGroup(u8b, FALSE) /\ Advance(n, next)
    <3>1. PICK u8b \in octets : PutGroup(u8b, FALSE)
      BY <2>1
    <3>2. <<u8b, FALSE>> \in Coded
      BY DEF Coded
    <3>3. at' \notin {"check", "preamble", "sfd"}
      BY <1>6, <2>1 DEF Advance, Chunk
    <3>4. QED
      BY <3>1, <3>2, <3>3, PutGroupLine DEF IInv
  <2>2. QED
    BY <1>5, <1>6, <2>1 DEF Chunk
<1>7. CASE Header
  <2>1. (IF i = 0 THEN {job.in_len} ELSE Content) \in SUBSET Octet
    <3>1. at = "header" /\ Payload <= 255 /\ job \in Job
      BY <1>7 DEF Header, Chunk, IInv, Types, Position
    <3>2. job.in_len \in 0 .. 255
      BY <3>1, JobFacts DEF Payload
    <3>3. QED
      BY <3>2, FramerAssumption DEF Octet
  <2>2. QED
    BY <1>6, <1>7, <2>1 DEF Header
<1>8. CASE CodedPayload
  BY <1>6, <1>8, FramerAssumption DEF CodedPayload
<1>9. CASE RawPayload
  <2>1. CASE tail' = <<>> /\ last' = <<>> /\ at' = "framed" /\ UNCHANGED <<rd, disparity>>
    BY <2>1 DEF Line, LastGroup
  <2>2. QED
    BY <1>5, <1>9, <2>1 DEF RawPayload
<1>10. CASE Returned
  BY <1>1, <1>10 DEF Returned
<1>11. QED
  BY <1>1, <1>2, <1>3, <1>4, <1>7, <1>8, <1>9, <1>10 DEF Next

LEMMA LineInv == Spec => [](IInv /\ Line)
<1>1. Init => IInv /\ Line
  BY InitIInv, InitLine
<1>2. IInv /\ Line /\ [Next]_vars => (IInv /\ Line)'
  BY StepIInv, StepLine
<1>3. QED
  BY <1>1, <1>2, PTL DEF Spec

(* The code groups framer_frame writes carry no direct current: the ones   *)
(* and the zeros in them differ by the running disparity that x8b10b_enc   *)
(* keeps, so that they never differ by more than two.                      *)
THEOREM NoDirectCurrent == Spec => []Balanced
<1>1. IInv /\ Line => Balanced
  BY DEF IInv, Types, Line, Balanced
<1>2. QED
  BY <1>1, LineInv, PTL

(* All the groups of an octet.                                             *)
LEMMA GroupsAre ==
  ASSUME NEW c \in Coded
  PROVE  Groups(c) = {Group(c[1], c[2], r).bits : r \in RD}
<1>1. ASSUME NEW r \in RD
      PROVE  (IF c[2] THEN Group(c[1], TRUE, r) ELSE DataGroup[c[1]][r]) = Group(c[1], c[2], r)
  <2>1. CASE c = <<60, TRUE>>
    BY <2>1
  <2>2. CASE c \in Octet \X {FALSE}
    BY <2>2 DEF DataGroup
  <2>3. QED
    BY <2>1, <2>2 DEF Coded
<1>2. \A r \in RD : Group(c[1], c[2], r).ok
  BY GroupIs
<1>3. {IF c[2] THEN Group(c[1], TRUE, r) ELSE DataGroup[c[1]][r] : r \in RD}
        = {Group(c[1], c[2], r) : r \in RD}
  BY <1>1, Zenon
<1>4. Groups(c) = {g.bits : g \in {h \in {Group(c[1], c[2], r) : r \in RD} : h.ok}}
  BY <1>3, Zenon DEF Groups
<1>5. QED
  BY <1>2, <1>4

(* From the ten bits on the line a receiver can tell which octet was sent, *)
(* or that it was the delimiter, whatever running disparity it believes    *)
(* in: x8b10b_enc's tables have no two codes alike for two of them.        *)
THEOREM GroupsDecodable == Spec => []Decodable
<1>1. ASSUME Line PROVE Decodable
  <2>1. SUFFICES ASSUME last # <<>>, NEW c \in (Octet \X {FALSE}) \cup {<<FRAME_SFD, TRUE>>}
                 PROVE  tail \in Groups(c) <=> c = last
    BY DEF Decodable
  <2>2. c \in Coded /\ last \in Coded
    BY <1>1, <2>1 DEF FRAME_SFD, Coded, Line, LastGroup
  <2>3. PICK r \in RD : tail = Group(last[1], last[2], r).bits
    BY <1>1, <2>1 DEF Line, LastGroup
  <2>4. c = last => tail \in Groups(c)
    BY <2>2, <2>3, GroupsAre
  <2>5. tail \in Groups(c) => c = last
    <3>1. SUFFICES ASSUME tail \in Groups(c) PROVE c = last
      OBVIOUS
    <3>2. PICK q \in RD : tail = Group(c[1], c[2], q).bits
      BY <2>2, <3>1, GroupsAre
    <3>3. QED
      BY <2>2, <2>3, <3>2, Distinct
  <2>6. QED
    BY <2>4, <2>5
<1>2. QED
  BY <1>1, LineInv, PTL
-----------------------------------------------------------------------------
(***************************************************************************)
(* What a receiver synchronizes on: the runs of equal bits, and the comma. *)
(***************************************************************************)
(* The scarce bit of the codes for the disparity r.                        *)
Scarce(r) == IF r < 0 THEN 0 ELSE 1

(* What the codes abcdei and fghj, for disparities r and m, have in common:*)
(* their disparity, the few of them that are left out, and when D.x.A7     *)
(* takes the place of D.x.P7.                                              *)
SixLike(a, b, c, d, e, i6, r, m) ==
  LET l == Scarce(r)
      h == 1 - Scarce(r)
  IN  /\ 2 * (a + b + c + d + e + i6) - 6 = m - r
      /\ ~(a = l /\ b = l /\ c = l /\ d = h /\ e = h /\ i6 = h)
      /\ ~(a = h /\ b = h /\ c = h /\ d = h /\ e = l /\ i6 = l)
      /\ ~(a = l /\ b = l /\ c = h /\ d = h /\ e = h /\ i6 = h)

FourLike(e, i6, f, g, h4, j, m, q) ==
  LET l == Scarce(m)
      h == 1 - Scarce(m)
  IN  /\ 2 * (f + g + h4 + j) - 4 = q - m
      /\ ~(f = l /\ g = l /\ h4 = h /\ j = h)
      /\ f = h /\ g = h /\ h4 = h /\ j = l => ~(e = h /\ i6 = h)
      /\ f = l /\ g = h /\ h4 = h /\ j = h => e = h /\ i6 = h

EndLike(t, q) == \E m \in RD : FourLike(t[5], t[6], t[7], t[8], t[9], t[10], m, q)

GroupLike(t, r, q) ==
  \E m \in RD : /\ SixLike(t[1], t[2], t[3], t[4], t[5], t[6], r, m)
                /\ FourLike(t[5], t[6], t[7], t[8], t[9], t[10], m, q)

(* Seven bits that are a comma, six that are alike.                        *)
Comma(a, b, c, d, e, f, g) == a = b /\ c # a /\ d # a /\ e # a /\ f # a /\ g # a
Alike(a, b, c, d, e, f) == b = a /\ c = a /\ d = a /\ e = a /\ f = a

LEMMA InAGroup ==
  ASSUME NEW t \in [1 .. 10 -> 0 .. 1], NEW r \in RD, NEW q \in RD, GroupLike(t, r, q)
  PROVE  /\ ~Comma(t[1], t[2], t[3], t[4], t[5], t[6], t[7])
         /\ ~Comma(t[2], t[3], t[4], t[5], t[6], t[7], t[8])
         /\ ~Comma(t[3], t[4], t[5], t[6], t[7], t[8], t[9])
         /\ ~Comma(t[4], t[5], t[6], t[7], t[8], t[9], t[10])
         /\ ~Alike(t[1], t[2], t[3], t[4], t[5], t[6])
         /\ ~Alike(t[2], t[3], t[4], t[5], t[6], t[7])
         /\ ~Alike(t[3], t[4], t[5], t[6], t[7], t[8])
         /\ ~Alike(t[4], t[5], t[6], t[7], t[8], t[9])
         /\ ~Alike(t[5], t[6], t[7], t[8], t[9], t[10])
<1> DEFINE t1 == t[1]
           t2 == t[2]
           t3 == t[3]
           t4 == t[4]
           t5 == t[5]
           t6 == t[6]
           t7 == t[7]
           t8 == t[8]
           t9 == t[9]
           t10 == t[10]
<1>1. PICK m \in RD : /\ SixLike(t1, t2, t3, t4, t5, t6, r, m)
                      /\ FourLike(t5, t6, t7, t8, t9, t10, m, q)
  BY DEF GroupLike
<1>2. /\ t1 \in 0 .. 1 /\ t2 \in 0 .. 1 /\ t3 \in 0 .. 1 /\ t4 \in 0 .. 1 /\ t5 \in 0 .. 1
      /\ t6 \in 0 .. 1 /\ t7 \in 0 .. 1 /\ t8 \in 0 .. 1 /\ t9 \in 0 .. 1 /\ t10 \in 0 .. 1
  OBVIOUS
<1> HIDE DEF t1, t2, t3, t4, t5, t6, t7, t8, t9, t10
<1>3. /\ ~Comma(t1, t2, t3, t4, t5, t6, t7)
      /\ ~Comma(t2, t3, t4, t5, t6, t7, t8)
      /\ ~Comma(t3, t4, t5, t6, t7, t8, t9)
      /\ ~Comma(t4, t5, t6, t7, t8, t9, t10)
      /\ ~Alike(t1, t2, t3, t4, t5, t6)
      /\ ~Alike(t2, t3, t4, t5, t6, t7)
      /\ ~Alike(t3, t4, t5, t6, t7, t8)
      /\ ~Alike(t4, t5, t6, t7, t8, t9)
      /\ ~Alike(t5, t6, t7, t8, t9, t10)
  <2>1. CASE r = -1
    BY <1>1, <1>2, <2>1 DEF SixLike, FourLike, Scarce, RD, Comma, Alike
  <2>2. CASE r = 1
    BY <1>1, <1>2, <2>2 DEF SixLike, FourLike, Scarce, RD, Comma, Alike
  <2>3. QED
    BY <2>1, <2>2 DEF RD
<1>4. QED
  BY <1>3 DEF t1, t2, t3, t4, t5, t6, t7, t8, t9, t10

LEMMA AcrossGroups ==
  ASSUME NEW s \in [1 .. 10 -> 0 .. 1], NEW t \in [1 .. 10 -> 0 .. 1], NEW r \in RD, NEW q \in RD,
         EndLike(s, r), GroupLike(t, r, q)
  PROVE  /\ ~Comma(s[5], s[6], s[7], s[8], s[9], s[10], t[1])
         /\ ~Comma(s[6], s[7], s[8], s[9], s[10], t[1], t[2])
         /\ ~Comma(s[7], s[8], s[9], s[10], t[1], t[2], t[3])
         /\ ~Comma(s[8], s[9], s[10], t[1], t[2], t[3], t[4])
         /\ ~Comma(s[9], s[10], t[1], t[2], t[3], t[4], t[5])
         /\ ~Comma(s[10], t[1], t[2], t[3], t[4], t[5], t[6])
         /\ ~Alike(s[6], s[7], s[8], s[9], s[10], t[1])
         /\ ~Alike(s[7], s[8], s[9], s[10], t[1], t[2])
         /\ ~Alike(s[8], s[9], s[10], t[1], t[2], t[3])
         /\ ~Alike(s[9], s[10], t[1], t[2], t[3], t[4])
         /\ ~Alike(s[10], t[1], t[2], t[3], t[4], t[5])
<1> DEFINE s5 == s[5]
           s6 == s[6]
           s7 == s[7]
           s8 == s[8]
           s9 == s[9]
           s10 == s[10]
           t1 == t[1]
           t2 == t[2]
           t3 == t[3]
           t4 == t[4]
           t5 == t[5]
           t6 == t[6]
<1>1. PICK l \in RD : FourLike(s5, s6, s7, s8, s9, s10, l, r)
  BY DEF EndLike
<1>2. PICK m \in RD : SixLike(t1, t2, t3, t4, t5, t6, r, m)
  BY DEF GroupLike
<1>3. /\ s5 \in 0 .. 1 /\ s6 \in 0 .. 1 /\ s7 \in 0 .. 1 /\ s8 \in 0 .. 1 /\ s9 \in 0 .. 1
      /\ s10 \in 0 .. 1 /\ t1 \in 0 .. 1 /\ t2 \in 0 .. 1 /\ t3 \in 0 .. 1 /\ t4 \in 0 .. 1
      /\ t5 \in 0 .. 1 /\ t6 \in 0 .. 1
  OBVIOUS
<1> HIDE DEF s5, s6, s7, s8, s9, s10, t1, t2, t3, t4, t5, t6
<1>4. /\ ~Comma(s5, s6, s7, s8, s9, s10, t1)
      /\ ~Comma(s6, s7, s8, s9, s10, t1, t2)
      /\ ~Comma(s7, s8, s9, s10, t1, t2, t3)
      /\ ~Comma(s8, s9, s10, t1, t2, t3, t4)
      /\ ~Comma(s9, s10, t1, t2, t3, t4, t5)
      /\ ~Comma(s10, t1, t2, t3, t4, t5, t6)
      /\ ~Alike(s6, s7, s8, s9, s10, t1)
      /\ ~Alike(s7, s8, s9, s10, t1, t2)
      /\ ~Alike(s8, s9, s10, t1, t2, t3)
      /\ ~Alike(s9, s10, t1, t2, t3, t4)
      /\ ~Alike(s10, t1, t2, t3, t4, t5)
  <2>1. CASE r = -1
    BY <1>1, <1>2, <1>3, <2>1 DEF SixLike, FourLike, Scarce, RD, Comma, Alike
  <2>2. CASE r = 1
    BY <1>1, <1>2, <1>3, <2>2 DEF SixLike, FourLike, Scarce, RD, Comma, Alike
  <2>3. QED
    BY <2>1, <2>2 DEF RD
<1>5. QED
  BY <1>4 DEF s5, s6, s7, s8, s9, s10, t1, t2, t3, t4, t5, t6

(* The six-bit codes of data: those left out, and the ends that A7 is for. *)
HasAlternate(x, m) == x \in (IF m < 0 THEN {17, 18, 20} ELSE {11, 13, 14})

LEMMA SixShape ==
  ASSUME NEW x \in 0 .. 31, NEW r \in RD
  PROVE  LET c == Six(x, r)
             m == Turned(r, c)
         IN  /\ c % 64 \notin (IF r < 0 THEN {7, 60, 15} ELSE {56, 3, 48})
             /\ HasAlternate(x, m) <=> c % 4 = (IF m < 0 THEN 3 ELSE 0)
<1>1. ASSUME NEW n \in 1 .. 32
      PROVE  /\ d5b6_1[n] % 64 \notin {7, 60, 15}
             /\ HasAlternate(n - 1, IF (d5b6_1[n] \div 64) % 2 = 0 THEN -1 ELSE 1)
                  <=> d5b6_1[n] % 4 = (IF (d5b6_1[n] \div 64) % 2 = 0 THEN 3 ELSE 0)
  BY DEF d5b6_1, HasAlternate
<1>2. ASSUME NEW n \in 1 .. 32
      PROVE  /\ d5b6_2[n] % 64 \notin {56, 3, 48}
             /\ HasAlternate(n - 1, IF (d5b6_2[n] \div 64) % 2 = 0 THEN 1 ELSE -1)
                  <=> d5b6_2[n] % 4 = (IF (d5b6_2[n] \div 64) % 2 = 0 THEN 0 ELSE 3)
  BY DEF d5b6_2, HasAlternate
<1>3. x + 1 \in 1 .. 32 /\ (x + 1) - 1 = x
  OBVIOUS
<1>4. CASE r = -1
  <2>1. Six(x, r) = d5b6_1[x + 1]
    BY <1>4, SixTable DEF Six
  <2>2. Turned(r, Six(x, r)) = IF (Six(x, r) \div 64) % 2 = 0 THEN -1 ELSE 1
    BY <1>4 DEF Turned
  <2>3. QED
    BY <1>1, <1>3, <1>4, <2>1, <2>2
<1>5. CASE r = 1
  <2>1. Six(x, r) = d5b6_2[x + 1]
    BY <1>5, SixTable DEF Six
  <2>2. Turned(r, Six(x, r)) = IF (Six(x, r) \div 64) % 2 = 0 THEN 1 ELSE -1
    BY <1>5 DEF Turned
  <2>3. QED
    BY <1>2, <1>3, <1>5, <2>1, <2>2
<1>6. QED
  BY <1>4, <1>5 DEF RD

LEMMA FourShape ==
  ASSUME NEW y \in 0 .. 8, NEW m \in RD
  PROVE  LET d == Four(y, m) % 16
         IN  IF m < 0 THEN d # 3 /\ (d = 14 => y = 7) /\ (d = 7 => y = 8)
                      ELSE d # 12 /\ (d = 1 => y = 7) /\ (d = 8 => y = 8)
<1>1. ASSUME NEW n \in 1 .. 9
      PROVE  /\ d3b4_1[n] % 16 # 3
             /\ d3b4_1[n] % 16 = 14 => n = 8
             /\ d3b4_1[n] % 16 = 7 => n = 9
             /\ d3b4_2[n] % 16 # 12
             /\ d3b4_2[n] % 16 = 1 => n = 8
             /\ d3b4_2[n] % 16 = 8 => n = 9
  BY DEF d3b4_1, d3b4_2
<1>2. y + 1 \in 1 .. 9 /\ (y + 1 = 9 <=> y = 8) /\ (y + 1 = 8 <=> y = 7)
  OBVIOUS
<1>3. b3b4_1[y] = d3b4_1[y + 1] /\ b3b4_2[y] = d3b4_2[y + 1]
  BY FourTable
<1>4. QED
  BY <1>1, <1>2, <1>3 DEF Four, RD

(* From the codes' numbers to their bits.                                  *)
LEMMA SixBits ==
  ASSUME NEW c \in Nat, NEW r \in RD, NEW m \in RD, Excess6(c) = m - r,
         c % 64 \notin (IF r < 0 THEN {7, 60, 15} ELSE {56, 3, 48})
  PROVE  /\ SixLike(Bit(c, 32), Bit(c, 16), Bit(c, 8), Bit(c, 4), Bit(c, 2), Bit(c, 1), r, m)
         /\ c % 4 = 2 * Bit(c, 2) + Bit(c, 1)
<1> DEFINE a1 == Bit(c, 32)
           a2 == Bit(c, 16)
           a3 == Bit(c, 8)
           a4 == Bit(c, 4)
           a5 == Bit(c, 2)
           a6 == Bit(c, 1)
<1>1. /\ a1 \in 0 .. 1 /\ a2 \in 0 .. 1 /\ a3 \in 0 .. 1 /\ a4 \in 0 .. 1 /\ a5 \in 0 .. 1
      /\ a6 \in 0 .. 1
      /\ c % 64 = 32 * a1 + 16 * a2 + 8 * a3 + 4 * a4 + 2 * a5 + a6
  BY SumOfBits
<1>2. 2 * (a6 + a5 + a4 + a3 + a2 + a1) - 6 = m - r
  BY DEF Excess6
<1> HIDE DEF a1, a2, a3, a4, a5, a6
<1>3. SixLike(a1, a2, a3, a4, a5, a6, r, m)
  <2>1. CASE r = -1
    BY <1>1, <1>2, <2>1 DEF SixLike, Scarce, RD
  <2>2. CASE r = 1
    BY <1>1, <1>2, <2>2 DEF SixLike, Scarce, RD
  <2>3. QED
    BY <2>1, <2>2 DEF RD
<1>4. c % 4 = 2 * a5 + a6
  <2>1. c % 4 = (c % 64) % 4
    OBVIOUS
  <2>2. QED
    BY <1>1, <2>1
<1>5. QED
  BY <1>3, <1>4 DEF a1, a2, a3, a4, a5, a6

LEMMA FourBits ==
  ASSUME NEW d \in Nat, NEW m \in RD, NEW q \in RD, Excess4(d) = q - m,
         NEW e \in 0 .. 1, NEW i6 \in 0 .. 1,
         IF m < 0
         THEN /\ d % 16 # 3
              /\ d % 16 = 14 => 2 * e + i6 # 3
              /\ d % 16 = 7 => 2 * e + i6 = 3
         ELSE /\ d % 16 # 12
              /\ d % 16 = 1 => 2 * e + i6 # 0
              /\ d % 16 = 8 => 2 * e + i6 = 0
  PROVE  FourLike(e, i6, Bit(d, 8), Bit(d, 4), Bit(d, 2), Bit(d, 1), m, q)
<1> DEFINE a1 == Bit(d, 8)
           a2 == Bit(d, 4)
           a3 == Bit(d, 2)
           a4 == Bit(d, 1)
<1>1. /\ a1 \in 0 .. 1 /\ a2 \in 0 .. 1 /\ a3 \in 0 .. 1 /\ a4 \in 0 .. 1
      /\ d % 16 = 8 * a1 + 4 * a2 + 2 * a3 + a4
  BY SumOfBits
<1>2. 2 * (a4 + a3 + a2 + a1) - 4 = q - m
  BY DEF Excess4
<1> HIDE DEF a1, a2, a3, a4
<1>3. FourLike(e, i6, a1, a2, a3, a4, m, q)
  <2>1. CASE m = -1
    BY <1>1, <1>2, <2>1 DEF FourLike, Scarce, RD
  <2>2. CASE m = 1
    BY <1>1, <1>2, <2>2 DEF FourLike, Scarce, RD
  <2>3. QED
    BY <2>1, <2>2 DEF RD
<1>4. QED
  BY <1>3 DEF a1, a2, a3, a4

LEMMA DataShape ==
  ASSUME NEW u8b \in Octet, NEW r \in RD
  PROVE  LET g == Group(u8b, FALSE, r)
         IN  GroupLike(g.bits, r, g.rd)
<1> DEFINE w == <<u8b, FALSE>>
           x == FiveOf(w[1], w[2])
           t == ThreeOf(w[1], w[2])
           c == SixCode(w, r)
           m == Middle(w, r)
           y == Alternate(x, t, w[2], m)
           d == FourCode(w, r)
           g == Group(w[1], w[2], r)
<1>1. w \in Coded /\ w[1] = u8b /\ w[2] = FALSE
  BY DEF Coded
<1> HIDE DEF w
<1>2. x \in 0 .. 31 /\ t \in 0 .. 7
  <2>1. u8b % 32 \in 0 .. 31 /\ u8b \div 32 \in 0 .. 7
    BY DEF Octet
  <2>2. x = u8b % 32 /\ t = u8b \div 32
    BY <1>1, <2>1 DEF FiveOf, ThreeOf, Flag
  <2>3. QED
    BY <2>1, <2>2
<1>3. c = Six(x, r) /\ m = Turned(r, c) /\ d = Four(y, m)
  BY Zenon DEF SixCode, Middle, FourCode
<1>4. m \in RD
  BY TurnedType DEF Middle
<1>5. y \in 0 .. 8 /\ (y = 7 => ~HasAlternate(x, m)) /\ (y = 8 => HasAlternate(x, m))
  <2>1. y = IF t = 7 /\ ~w[2] /\ HasAlternate(x, m) THEN 8 ELSE t
    BY Zenon DEF Alternate, HasAlternate
  <2> HIDE DEF x, t, m, y
  <2>2. QED
    BY <1>1, <1>2, <2>1
<1>6. g.bits = Ten(c, d) /\ g.rd = Turned(m, d) /\ g.rd \in RD
  BY <1>1, GroupIs
<1> HIDE DEF x, t, c, m, y, d, g
<1>7. /\ c \in Nat /\ d \in Nat
      /\ Excess6(c) = m - r /\ Excess4(d) = g.rd - m
  <2>1. x \in 0 .. 31 \cup {60} /\ y \in 0 .. 8 \cup {17}
    BY <1>2, <1>5
  <2>2. /\ Six(x, r) \in 0 .. 254 /\ Excess6(Six(x, r)) = Turned(r, Six(x, r)) - r
        /\ Four(y, m) \in 0 .. 254 /\ Excess4(Four(y, m)) = Turned(m, Four(y, m)) - m
    BY <1>4, <2>1, SixBalanced, FourBalanced
  <2>3. QED
    BY <1>3, <1>6, <2>2
<1>8. /\ c % 64 \notin (IF r < 0 THEN {7, 60, 15} ELSE {56, 3, 48})
      /\ HasAlternate(x, m) <=> c % 4 = (IF m < 0 THEN 3 ELSE 0)
  BY <1>2, <1>3, SixShape
<1>9. IF m < 0 THEN d % 16 # 3 /\ (d % 16 = 14 => y = 7) /\ (d % 16 = 7 => y = 8)
                ELSE d % 16 # 12 /\ (d % 16 = 1 => y = 7) /\ (d % 16 = 8 => y = 8)
  BY <1>3, <1>4, <1>5, FourShape
<1>10. /\ SixLike(Bit(c, 32), Bit(c, 16), Bit(c, 8), Bit(c, 4), Bit(c, 2), Bit(c, 1), r, m)
       /\ c % 4 = 2 * Bit(c, 2) + Bit(c, 1)
       /\ Bit(c, 2) \in 0 .. 1 /\ Bit(c, 1) \in 0 .. 1
  BY <1>4, <1>7, <1>8, SixBits, SumOfBits
<1>11. FourLike(Bit(c, 2), Bit(c, 1), Bit(d, 8), Bit(d, 4), Bit(d, 2), Bit(d, 1), m, g.rd)
  <2>1. IF m < 0
        THEN /\ d % 16 # 3
             /\ d % 16 = 14 => 2 * Bit(c, 2) + Bit(c, 1) # 3
             /\ d % 16 = 7 => 2 * Bit(c, 2) + Bit(c, 1) = 3
        ELSE /\ d % 16 # 12
             /\ d % 16 = 1 => 2 * Bit(c, 2) + Bit(c, 1) # 0
             /\ d % 16 = 8 => 2 * Bit(c, 2) + Bit(c, 1) = 0
    BY <1>5, <1>8, <1>9, <1>10
  <2>2. QED
    BY <1>4, <1>6, <1>7, <1>10, <2>1, FourBits
<1>12. GroupLike(g.bits, r, g.rd)
  BY <1>4, <1>6, <1>10, <1>11 DEF GroupLike, Ten
<1>13. QED
  BY <1>1, <1>12, Zenon DEF g, w

(* The delimiter, K28.1, after the preamble.                               *)
LEMMA DelimiterShape ==
  LET g == Group(60, TRUE, -1)
  IN  /\ g.bits = <<0, 0, 1, 1, 1, 1, 1, 0, 0, 1>> /\ g.rd = 1
      /\ EndLike(g.bits, 1)
<1> DEFINE w == <<60, TRUE>>
           g == Group(w[1], w[2], -1)
<1>1. w \in Coded /\ w[1] = 60 /\ w[2] = TRUE /\ -1 \in RD
  BY DEF Coded, RD
<1> HIDE DEF w
<1>2. FiveOf(w[1], w[2]) = 60 /\ ThreeOf(w[1], w[2]) = 17
  BY <1>1 DEF FiveOf, ThreeOf, Flag
<1>3. Turned(-1, 207) = 1
  BY DEF Turned
<1>4. SixCode(w, -1) = 207
  <2>1. Six(60, -1) = 207
    BY SixKey DEF Six
  <2>2. QED
    BY <1>1, <1>2, <2>1, Zenon DEF SixCode
<1>5. Middle(w, -1) = 1
  BY <1>3, <1>4 DEF Middle
<1>6. FourCode(w, -1) = 137
  <2>1. Alternate(60, 17, w[2], 1) = 17
    BY DEF Alternate
  <2>2. Four(17, 1) = 137
    BY FourKey DEF Four
  <2>3. QED
    BY <1>1, <1>2, <1>5, <2>1, <2>2, Zenon DEF FourCode
<1>7. g.bits = Ten(207, 137) /\ g.rd = Turned(1, 137)
  BY <1>1, <1>4, <1>5, <1>6, GroupIs
<1>8. Ten(207, 137) = <<0, 0, 1, 1, 1, 1, 1, 0, 0, 1>> /\ Turned(1, 137) = 1
  BY DEF Ten, Bit, Turned
<1> HIDE DEF g
<1>9. EndLike(g.bits, 1)
  BY <1>7, <1>8 DEF EndLike, FourLike, Scarce, RD
<1>10. QED
  BY <1>1, <1>7, <1>8, <1>9 DEF g

LEMMA TenBits ==
  ASSUME NEW b \in [1 .. 10 -> 0 .. 1] PROVE b \in Seq(0 .. 1) /\ Len(b) = 10
<1>1. b \in Seq(0 .. 1)
  BY 10 \in Nat, SeqDef
<1>2. QED
  BY <1>1, LenProperties

(* Ten bits b behind the bits s.                                           *)
LEMMA Behind ==
  ASSUME NEW s \in Seq(0 .. 1), NEW b \in [1 .. 10 -> 0 .. 1], NEW k \in 1 .. Len(s) + 10
  PROVE  (s \o b)[k] = IF k <= Len(s) THEN s[k] ELSE b[k - Len(s)]
<1>1. b \in Seq(0 .. 1) /\ Len(b) = 10
  BY TenBits
<1>2. \A j \in 1 .. Len(s) + Len(b) : (s \o b)[j] = IF j <= Len(s) THEN s[j] ELSE b[j - Len(s)]
  BY <1>1, ConcatProperties, Zenon
<1>3. QED
  BY <1>1, <1>2

LEMMA CommaIs ==
  ASSUME NEW s, NEW k \in Int
  PROVE  IsComma(s, k) <=> Comma(s[k], s[k + 1], s[k + 2], s[k + 3], s[k + 4], s[k + 5], s[k + 6])
<1>1. k + 2 .. k + 6 = {k + 2, k + 3, k + 4, k + 5, k + 6}
  OBVIOUS
<1>2. QED
  BY <1>1, Zenon DEF IsComma, Comma

LEMMA AlikeIs ==
  ASSUME NEW s, NEW k \in Int,
         ~Alike(s[k], s[k + 1], s[k + 2], s[k + 3], s[k + 4], s[k + 5])
  PROVE  \E j \in k + 1 .. k + 5 : s[j] # s[k]
<1>1. k + 1 .. k + 5 = {k + 1, k + 2, k + 3, k + 4, k + 5}
  OBVIOUS
<1>2. QED
  BY <1>1, Zenon DEF Alike

(* No comma begins, and no six bits are alike, where a group follows one.  *)
LEMMA GroupAfterGroup ==
  ASSUME NEW t \in [1 .. 10 -> 0 .. 1], NEW b \in [1 .. 10 -> 0 .. 1], NEW r \in RD, NEW q \in RD,
         EndLike(t, r), GroupLike(b, r, q)
  PROVE  /\ \A k \in 5 .. 14 : ~IsComma(t \o b, k)
         /\ \A k \in 6 .. 15 : \E j \in k + 1 .. k + 5 : (t \o b)[j] # (t \o b)[k]
<1> DEFINE s == t \o b
<1>1. t \in Seq(0 .. 1) /\ Len(t) = 10
  BY TenBits
<1>2. \A k \in 1 .. 20 : s[k] = IF k <= 10 THEN t[k] ELSE b[k - 10]
  <2>1. 1 .. Len(t) + 10 = 1 .. 20
    BY <1>1
  <2>2. \A k \in 1 .. Len(t) + 10 : s[k] = IF k <= Len(t) THEN t[k] ELSE b[k - Len(t)]
    BY <1>1, Behind
  <2> HIDE DEF s
  <2>3. QED
    BY <1>1, <2>1, <2>2
<1> HIDE DEF s
<1>3. /\ s[5] = t[5] /\ s[6] = t[6] /\ s[7] = t[7] /\ s[8] = t[8] /\ s[9] = t[9] /\ s[10] = t[10]
      /\ s[11] = b[1] /\ s[12] = b[2] /\ s[13] = b[3] /\ s[14] = b[4] /\ s[15] = b[5]
      /\ s[16] = b[6] /\ s[17] = b[7] /\ s[18] = b[8] /\ s[19] = b[9] /\ s[20] = b[10]
  BY <1>2
<1>4. /\ ~Comma(s[5], s[6], s[7], s[8], s[9], s[10], s[11])
      /\ ~Comma(s[6], s[7], s[8], s[9], s[10], s[11], s[12])
      /\ ~Comma(s[7], s[8], s[9], s[10], s[11], s[12], s[13])
      /\ ~Comma(s[8], s[9], s[10], s[11], s[12], s[13], s[14])
      /\ ~Comma(s[9], s[10], s[11], s[12], s[13], s[14], s[15])
      /\ ~Comma(s[10], s[11], s[12], s[13], s[14], s[15], s[16])
      /\ ~Alike(s[6], s[7], s[8], s[9], s[10], s[11])
      /\ ~Alike(s[7], s[8], s[9], s[10], s[11], s[12])
      /\ ~Alike(s[8], s[9], s[10], s[11], s[12], s[13])
      /\ ~Alike(s[9], s[10], s[11], s[12], s[13], s[14])
      /\ ~Alike(s[10], s[11], s[12], s[13], s[14], s[15])
  BY <1>3, AcrossGroups
<1>5. /\ ~Comma(s[11], s[12], s[13], s[14], s[15], s[16], s[17])
      /\ ~Comma(s[12], s[13], s[14], s[15], s[16], s[17], s[18])
      /\ ~Comma(s[13], s[14], s[15], s[16], s[17], s[18], s[19])
      /\ ~Comma(s[14], s[15], s[16], s[17], s[18], s[19], s[20])
      /\ ~Alike(s[11], s[12], s[13], s[14], s[15], s[16])
      /\ ~Alike(s[12], s[13], s[14], s[15], s[16], s[17])
      /\ ~Alike(s[13], s[14], s[15], s[16], s[17], s[18])
      /\ ~Alike(s[14], s[15], s[16], s[17], s[18], s[19])
      /\ ~Alike(s[15], s[16], s[17], s[18], s[19], s[20])
  BY <1>3, InAGroup
<1>6. ASSUME NEW k \in 5 .. 14
       PROVE  ~Comma(s[k], s[k + 1], s[k + 2], s[k + 3], s[k + 4], s[k + 5], s[k + 6])
  <2>1. k \in {5, 6, 7, 8, 9, 10, 11, 12, 13, 14}
    OBVIOUS
  <2>2. QED
    BY <1>4, <1>5, <2>1
<1>7. ASSUME NEW k \in 6 .. 15
       PROVE  ~Alike(s[k], s[k + 1], s[k + 2], s[k + 3], s[k + 4], s[k + 5])
  <2>1. k \in {6, 7, 8, 9, 10, 11, 12, 13, 14, 15}
    OBVIOUS
  <2>2. QED
    BY <1>4, <1>5, <2>1
<1>8. QED
  <2>1. ASSUME NEW k \in 5 .. 14 PROVE ~IsComma(s, k)
    BY <1>6, CommaIs
  <2>2. ASSUME NEW k \in 6 .. 15 PROVE \E j \in k + 1 .. k + 5 : s[j] # s[k]
    BY <1>7, AlikeIs
  <2>3. QED
    BY <2>1, <2>2 DEF s

(* In the preamble no two ones are neighbours.                             *)
Sparse(s) == \A k \in 1 .. Len(s) - 1 : s[k] = 0 \/ s[k + 1] = 0

(* Where a group follows the preamble no comma begins before the group.    *)
LEMMA NoCommaBefore ==
  ASSUME NEW t \in Seq(0 .. 1), Sparse(t), NEW b \in [1 .. 10 -> 0 .. 1],
         ~(b[1] = 1 /\ b[2] = 1 /\ b[3] = 1 /\ b[4] = 1),
         ~(b[2] # b[1] /\ b[3] # b[1] /\ b[4] # b[1] /\ b[5] # b[1] /\ b[6] # b[1]),
         NEW k \in Len(t) - 5 .. Len(t), k > 0
  PROVE  ~IsComma(t \o b, k)
<1> DEFINE n == Len(t)
           s == t \o b
<1>1. \A j \in 1 .. n + 10 : s[j] = IF j <= n THEN t[j] ELSE b[j - n]
  BY Behind
<1>2. n \in Nat /\ \A j \in 1 .. n : t[j] \in 0 .. 1
  OBVIOUS
<1>3. \A j \in 1 .. n - 1 : t[j] = 0 \/ t[j + 1] = 0
  BY DEF Sparse
<1>4. b[1] \in 0 .. 1 /\ b[2] \in 0 .. 1 /\ b[3] \in 0 .. 1 /\ b[4] \in 0 .. 1
  OBVIOUS
<1> HIDE DEF s, n
<1>5. k \in 1 .. n /\ k >= n - 5
  BY <1>2 DEF n
<1>6. SUFFICES ASSUME Comma(s[k], s[k + 1], s[k + 2], s[k + 3], s[k + 4], s[k + 5], s[k + 6])
               PROVE  FALSE
  <2>1. k \in Int
    BY <1>5, <1>2
  <2>2. QED
    BY <2>1, CommaIs DEF s
<1>7. CASE k = n
  <2>1. s[k] = t[k] /\ s[k + 1] = b[1] /\ s[k + 2] = b[2] /\ s[k + 3] = b[3] /\ s[k + 4] = b[4]
        /\ s[k + 5] = b[5] /\ s[k + 6] = b[6]
    BY <1>1, <1>2, <1>5, <1>7
  <2>2. QED
    BY <1>6, <2>1 DEF Comma
<1>8. CASE k < n
  <2>1. s[k] = t[k] /\ s[k + 1] = t[k + 1] /\ t[k] \in 0 .. 1 /\ t[k + 1] \in 0 .. 1
    BY <1>1, <1>2, <1>5, <1>8
  <2>2. s[k] = 0
    <3>1. k \in 1 .. n - 1 /\ s[k] = s[k + 1]
      BY <1>2, <1>5, <1>6, <1>8 DEF Comma
    <3>2. QED
      BY <1>3, <2>1, <3>1
  <2>3. s[k + 2] # 0 /\ s[k + 3] # 0 /\ s[k + 4] # 0 /\ s[k + 5] # 0 /\ s[k + 6] # 0
    BY <1>6, <2>2 DEF Comma
  <2>4. CASE k + 3 <= n
    <3>1. s[k + 2] = t[k + 2] /\ s[k + 3] = t[k + 3] /\ k + 2 \in 1 .. n - 1 /\ (k + 2) + 1 = k + 3
      BY <1>1, <1>2, <1>5, <2>4
    <3>2. QED
      BY <1>3, <2>3, <3>1
  <2>5. CASE k + 2 = n
    <3>1. s[k + 3] = b[1] /\ s[k + 4] = b[2] /\ s[k + 5] = b[3] /\ s[k + 6] = b[4]
      BY <1>1, <1>2, <1>5, <2>5
    <3>2. QED
      BY <1>4, <2>3, <3>1
  <2>6. CASE k + 1 = n
    <3>1. s[k + 2] = b[1] /\ s[k + 3] = b[2] /\ s[k + 4] = b[3] /\ s[k + 5] = b[4]
      BY <1>1, <1>2, <1>5, <2>6
    <3>2. QED
      BY <1>4, <2>3, <3>1
  <2>7. QED
    BY <1>2, <1>5, <1>8, <2>4, <2>5, <2>6
<1>9. QED
  BY <1>2, <1>5, <1>7, <1>8

(* The windows that begin in the group are the group's.                    *)
LEMMA Inside ==
  ASSUME NEW t \in Seq(0 .. 1), NEW b \in [1 .. 10 -> 0 .. 1]
  PROVE  /\ \A o \in 1 .. 4 :
              IsComma(t \o b, Len(t) + o)
                <=> Comma(b[o], b[o + 1], b[o + 2], b[o + 3], b[o + 4], b[o + 5], b[o + 6])
         /\ \A o \in 1 .. 5 :
              ~Alike(b[o], b[o + 1], b[o + 2], b[o + 3], b[o + 4], b[o + 5])
                => \E j \in Len(t) + o + 1 .. Len(t) + o + 5 : (t \o b)[j] # (t \o b)[Len(t) + o]
<1> DEFINE n == Len(t)
           s == t \o b
<1>1. n \in Nat
  OBVIOUS
<1>2. \A k \in 1 .. n + 10 : s[k] = IF k <= n THEN t[k] ELSE b[k - n]
  BY Behind
<1> HIDE DEF n, s
<1>3. \A o \in 1 .. 10 : s[n + o] = b[o]
  <2>1. TAKE o \in 1 .. 10
  <2>2. n + o \in 1 .. n + 10 /\ ~(n + o <= n) /\ (n + o) - n = o
    BY <1>1
  <2>3. QED
    BY <1>2, <2>2
<1>4. ASSUME NEW o \in 1 .. 4
      PROVE  IsComma(s, n + o)
               <=> Comma(b[o], b[o + 1], b[o + 2], b[o + 3], b[o + 4], b[o + 5], b[o + 6])
  <2>1. /\ s[n + o] = b[o] /\ s[n + (o + 1)] = b[o + 1] /\ s[n + (o + 2)] = b[o + 2]
        /\ s[n + (o + 3)] = b[o + 3] /\ s[n + (o + 4)] = b[o + 4] /\ s[n + (o + 5)] = b[o + 5]
        /\ s[n + (o + 6)] = b[o + 6]
    BY <1>3
  <2>2. /\ n + (o + 1) = (n + o) + 1 /\ n + (o + 2) = (n + o) + 2 /\ n + (o + 3) = (n + o) + 3
        /\ n + (o + 4) = (n + o) + 4 /\ n + (o + 5) = (n + o) + 5 /\ n + (o + 6) = (n + o) + 6
        /\ n + o \in Int
    BY <1>1
  <2> DEFINE k == n + o
  <2> HIDE DEF k
  <2>3. /\ k \in Int /\ s[k] = b[o] /\ s[k + 1] = b[o + 1] /\ s[k + 2] = b[o + 2]
        /\ s[k + 3] = b[o + 3] /\ s[k + 4] = b[o + 4] /\ s[k + 5] = b[o + 5] /\ s[k + 6] = b[o + 6]
    BY <2>1, <2>2 DEF k
  <2>4. IsComma(s, k)
          <=> Comma(b[o], b[o + 1], b[o + 2], b[o + 3], b[o + 4], b[o + 5], b[o + 6])
    BY <2>3, CommaIs
  <2>5. QED
    BY <2>4 DEF k
<1>5. ASSUME NEW o \in 1 .. 5, ~Alike(b[o], b[o + 1], b[o + 2], b[o + 3], b[o + 4], b[o + 5])
      PROVE  \E j \in n + o + 1 .. n + o + 5 : s[j] # s[n + o]
  <2>1. /\ s[n + o] = b[o] /\ s[n + (o + 1)] = b[o + 1] /\ s[n + (o + 2)] = b[o + 2]
        /\ s[n + (o + 3)] = b[o + 3] /\ s[n + (o + 4)] = b[o + 4] /\ s[n + (o + 5)] = b[o + 5]
    BY <1>3
  <2>2. /\ n + (o + 1) = (n + o) + 1 /\ n + (o + 2) = (n + o) + 2 /\ n + (o + 3) = (n + o) + 3
        /\ n + (o + 4) = (n + o) + 4 /\ n + (o + 5) = (n + o) + 5 /\ n + o \in Int
    BY <1>1
  <2> DEFINE k == n + o
  <2> HIDE DEF k
  <2>3. /\ k \in Int /\ s[k] = b[o] /\ s[k + 1] = b[o + 1] /\ s[k + 2] = b[o + 2]
        /\ s[k + 3] = b[o + 3] /\ s[k + 4] = b[o + 4] /\ s[k + 5] = b[o + 5]
    BY <2>1, <2>2 DEF k
  <2>4. \E j \in k + 1 .. k + 5 : s[j] # s[k]
    BY <1>5, <2>3, AlikeIs
  <2>5. QED
    BY <2>4 DEF k
<1>6. QED
  BY <1>4, <1>5 DEF n, s

LEMMA GroupAfterPreamble ==
  ASSUME NEW t \in Seq(0 .. 1), Sparse(t), NEW b \in [1 .. 10 -> 0 .. 1], NEW q \in RD,
         GroupLike(b, -1, q)
  PROVE  /\ \A k \in Len(t) - 5 .. Len(t) + 4 : k > 0 => ~IsComma(t \o b, k)
         /\ \A k \in Len(t) + 1 .. Len(t) + 5 :
              \E j \in k + 1 .. k + 5 : (t \o b)[j] # (t \o b)[k]
<1> DEFINE n == Len(t)
           s == t \o b
<1>1. n \in Nat /\ -1 \in RD
  BY DEF RD
<1>2. /\ ~Comma(b[1], b[2], b[3], b[4], b[5], b[6], b[7])
      /\ ~Comma(b[2], b[3], b[4], b[5], b[6], b[7], b[8])
      /\ ~Comma(b[3], b[4], b[5], b[6], b[7], b[8], b[9])
      /\ ~Comma(b[4], b[5], b[6], b[7], b[8], b[9], b[10])
      /\ ~Alike(b[1], b[2], b[3], b[4], b[5], b[6])
      /\ ~Alike(b[2], b[3], b[4], b[5], b[6], b[7])
      /\ ~Alike(b[3], b[4], b[5], b[6], b[7], b[8])
      /\ ~Alike(b[4], b[5], b[6], b[7], b[8], b[9])
      /\ ~Alike(b[5], b[6], b[7], b[8], b[9], b[10])
  BY <1>1, InAGroup
<1>3. /\ \A o \in 1 .. 4 :
           ~Comma(b[o], b[o + 1], b[o + 2], b[o + 3], b[o + 4], b[o + 5], b[o + 6])
      /\ \A o \in 1 .. 5 : ~Alike(b[o], b[o + 1], b[o + 2], b[o + 3], b[o + 4], b[o + 5])
  <2>1. 1 .. 4 = {1, 2, 3, 4} /\ 1 .. 5 = {1, 2, 3, 4, 5}
    OBVIOUS
  <2>2. QED
    BY <1>2, <2>1
<1>4. /\ ~(b[1] = 1 /\ b[2] = 1 /\ b[3] = 1 /\ b[4] = 1)
      /\ ~(b[2] # b[1] /\ b[3] # b[1] /\ b[4] # b[1] /\ b[5] # b[1] /\ b[6] # b[1])
  <2> DEFINE b1 == b[1]
             b2 == b[2]
             b3 == b[3]
             b4 == b[4]
             b5 == b[5]
             b6 == b[6]
  <2>1. PICK m \in RD : SixLike(b1, b2, b3, b4, b5, b6, -1, m)
    BY DEF GroupLike
  <2>2. /\ b1 \in 0 .. 1 /\ b2 \in 0 .. 1 /\ b3 \in 0 .. 1 /\ b4 \in 0 .. 1 /\ b5 \in 0 .. 1
        /\ b6 \in 0 .. 1
    OBVIOUS
  <2> HIDE DEF b1, b2, b3, b4, b5, b6
  <2>3. /\ ~(b1 = 1 /\ b2 = 1 /\ b3 = 1 /\ b4 = 1)
        /\ ~(b2 # b1 /\ b3 # b1 /\ b4 # b1 /\ b5 # b1 /\ b6 # b1)
    BY <2>1, <2>2 DEF SixLike, Scarce, RD
  <2>4. QED
    BY <2>3 DEF b1, b2, b3, b4, b5, b6
<1>5. ASSUME NEW k \in n - 5 .. n + 4, k > 0 PROVE ~IsComma(s, k)
  <2>1. CASE k <= n
    <3>1. k \in n - 5 .. n
      BY <1>1, <2>1
    <3>2. QED
      BY <1>4, <1>5, <3>1, NoCommaBefore
  <2>2. CASE k > n
    <3>1. k - n \in 1 .. 4 /\ n + (k - n) = k
      <4> HIDE DEF n, s
      <4>1. QED
        BY <1>1, <2>2
    <3>2. ~IsComma(s, n + (k - n))
      BY <1>3, <3>1, Inside
    <3>3. QED
      BY <3>1, <3>2
  <2>3. QED
    BY <1>1, <2>1, <2>2
<1>6. ASSUME NEW k \in n + 1 .. n + 5 PROVE \E j \in k + 1 .. k + 5 : s[j] # s[k]
  <2>1. k - n \in 1 .. 5 /\ n + (k - n) = k
    <3> HIDE DEF n, s
    <3>1. QED
      BY <1>1
  <2>2. \E j \in n + (k - n) + 1 .. n + (k - n) + 5 : s[j] # s[n + (k - n)]
    BY <1>3, <2>1, Inside
  <2>3. QED
    BY <2>1, <2>2
<1>7. QED
  BY <1>5, <1>6

LEMMA DelimiterAfterPreamble ==
  ASSUME NEW t \in Seq(0 .. 1), Sparse(t), NEW b \in [1 .. 10 -> 0 .. 1],
         b = <<0, 0, 1, 1, 1, 1, 1, 0, 0, 1>>
  PROVE  /\ \A k \in Len(t) - 5 .. Len(t) + 4 : k > 0 => (IsComma(t \o b, k) <=> k = Len(t) + 1)
         /\ \A k \in Len(t) + 1 .. Len(t) + 5 :
              \E j \in k + 1 .. k + 5 : (t \o b)[j] # (t \o b)[k]
<1> DEFINE n == Len(t)
           s == t \o b
<1>1. n \in Nat
  OBVIOUS
<1>2. /\ b[1] = 0 /\ b[2] = 0 /\ b[3] = 1 /\ b[4] = 1 /\ b[5] = 1 /\ b[6] = 1 /\ b[7] = 1
      /\ b[8] = 0 /\ b[9] = 0 /\ b[10] = 1
      /\ b \in [1 .. 10 -> 0 .. 1]
  OBVIOUS
<1>3. \A o \in 1 .. 4 :
        Comma(b[o], b[o + 1], b[o + 2], b[o + 3], b[o + 4], b[o + 5], b[o + 6]) <=> o = 1
  <2>1. TAKE o \in 1 .. 4
  <2>2. o \in {1, 2, 3, 4}
    OBVIOUS
  <2>3. QED
    BY <1>2, <2>2 DEF Comma
<1>4. \A o \in 1 .. 5 : ~Alike(b[o], b[o + 1], b[o + 2], b[o + 3], b[o + 4], b[o + 5])
  <2>1. TAKE o \in 1 .. 5
  <2>2. o \in {1, 2, 3, 4, 5}
    OBVIOUS
  <2>3. QED
    BY <1>2, <2>2 DEF Alike
<1>5. ASSUME NEW k \in n - 5 .. n + 4, k > 0 PROVE IsComma(s, k) <=> k = n + 1
  <2>1. CASE k <= n
    <3>1. k \in n - 5 .. n /\ k # n + 1
      BY <1>1, <2>1
    <3>2. QED
      BY <1>2, <1>5, <3>1, NoCommaBefore
  <2>2. CASE k > n
    <3>1. k - n \in 1 .. 4 /\ n + (k - n) = k /\ (k - n = 1 <=> k = n + 1)
      <4> HIDE DEF n, s
      <4>1. QED
        BY <1>1, <2>2
    <3>2. IsComma(s, n + (k - n)) <=> k - n = 1
      BY <1>2, <1>3, <3>1, Inside
    <3>3. QED
      BY <3>1, <3>2
  <2>3. QED
    BY <1>1, <2>1, <2>2
<1>6. ASSUME NEW k \in n + 1 .. n + 5 PROVE \E j \in k + 1 .. k + 5 : s[j] # s[k]
  <2>1. k - n \in 1 .. 5 /\ n + (k - n) = k
    <3> HIDE DEF n, s
    <3>1. QED
      BY <1>1
  <2>2. \E j \in n + (k - n) + 1 .. n + (k - n) + 5 : s[j] # s[n + (k - n)]
    BY <1>2, <1>4, <2>1, Inside
  <2>3. QED
    BY <2>1, <2>2
<1>7. QED
  BY <1>5, <1>6

LEMMA PreambleSparse ==
  ASSUME NEW t \in Seq(0 .. 1), Sparse(t), NEW m \in Nat \ {0}
  PROVE  LET b == [j \in 1 .. 2 * m |-> IF j = m + 1 THEN 1 ELSE 0]
         IN  Sparse(LastBits(t \o b, 10))
<1> DEFINE b == [j \in 1 .. 2 * m |-> IF j = m + 1 THEN 1 ELSE 0]
           n == Len(t)
           s == t \o b
           l == n + 2 * m
<1>1. b \in Seq(0 .. 1) /\ Len(b) = 2 * m
  <2>1. 2 * m \in Nat
    OBVIOUS
  <2>2. QED
    BY <2>1
<1>2. n \in Nat /\ m \in Nat /\ m > 0
  OBVIOUS
<1>3. s \in Seq(0 .. 1) /\ Len(s) = l
  BY <1>1, ConcatProperties
<1>4. \A j \in 1 .. l : s[j] = IF j <= n THEN t[j] ELSE b[j - n]
  BY <1>1, ConcatProperties
<1>5. \A j \in 1 .. n - 1 : t[j] = 0 \/ t[j + 1] = 0
  BY DEF Sparse
<1>6. \A j \in 1 .. 2 * m : b[j] = IF j = m + 1 THEN 1 ELSE 0
  OBVIOUS
<1> HIDE DEF b, s, n
<1>7. \A j \in 1 .. l - 1 : s[j] = 0 \/ s[j + 1] = 0
  <2>1. TAKE j \in 1 .. l - 1
  <2>2. CASE j < n
    <3>1. j \in 1 .. n - 1 /\ s[j] = t[j] /\ s[j + 1] = t[j + 1]
      BY <1>2, <1>4, <2>2
    <3>2. QED
      BY <1>5, <3>1
  <2>3. CASE j >= n
    <3>1. (j + 1) - n \in 1 .. 2 * m /\ s[j + 1] = b[(j + 1) - n]
      BY <1>2, <1>4, <2>3
    <3>2. CASE (j + 1) - n # m + 1
      BY <1>6, <3>1, <3>2
    <3>3. CASE (j + 1) - n = m + 1
      <4>1. j - n \in 1 .. 2 * m /\ s[j] = b[j - n] /\ j - n # m + 1
        BY <1>2, <1>4, <2>3, <3>3
      <4>2. QED
        BY <1>6, <4>1
    <3>4. QED
      BY <3>2, <3>3
  <2>4. QED
    BY <1>2, <2>2, <2>3
<1>8. Sparse(LastBits(s, 10))
  <2>1. CASE l <= 10
    BY <1>3, <1>7, <2>1 DEF LastBits, Sparse
  <2>2. CASE l > 10
    <3> DEFINE k == Len(s) - 10 + 1
               u == SubSeq(s, k, Len(s))
    <3>1. LastBits(s, 10) = u
      BY <1>3, <2>2 DEF LastBits
    <3>2. k = l - 9 /\ l \in Nat /\ k \in 1 .. l
      BY <1>2, <1>3, <2>2
    <3>3. Len(u) = 10 /\ \A j \in 1 .. 10 : u[j] = s[(k + j) - 1]
      <4>1. \A j \in k .. Len(s) : s[j] \in 0 .. 1
        BY <1>3, <3>2
      <4>2. Len(u) = IF k <= Len(s) THEN (Len(s) - k) + 1 ELSE 0
        BY <1>3, <3>2, <4>1, SubSeqProperties
      <4>3. \A j \in 1 .. (Len(s) - k) + 1 : u[j] = s[(k + j) - 1]
        BY <1>3, <3>2, <4>1, SubSeqProperties
      <4>4. (Len(s) - k) + 1 = 10 /\ k <= Len(s)
        BY <1>3, <3>2
      <4> HIDE DEF k, u
      <4>5. QED
        BY <4>2, <4>3, <4>4
    <3> HIDE DEF k, u, l
    <3>4. ASSUME NEW j \in 1 .. 9 PROVE u[j] = 0 \/ u[j + 1] = 0
      <4>1. /\ (k + j) - 1 \in 1 .. l - 1 /\ (k + (j + 1)) - 1 = ((k + j) - 1) + 1
            /\ j \in 1 .. 10 /\ j + 1 \in 1 .. 10
        BY <3>2
      <4>2. u[j] = s[(k + j) - 1] /\ u[j + 1] = s[((k + j) - 1) + 1]
        BY <3>3, <4>1
      <4>3. QED
        BY <1>7, <4>1, <4>2
    <3>5. QED
      BY <3>1, <3>3, <3>4 DEF Sparse
  <2>3. QED
    BY <1>2, <2>1, <2>2
<1>9. QED
  BY <1>8 DEF s, b

(* What the next group follows: a group, or the preamble alone.            *)
Follows ==
  /\ last # <<>> => tail \in [1 .. 10 -> 0 .. 1] /\ EndLike(tail, rd)
  /\ last = <<>> /\ at # "framed" => rd = -1 /\ Sparse(tail)

LEMMA GroupPut ==
  ASSUME Types, Line, NEW u8b, NEW ctrl \in BOOLEAN, <<u8b, ctrl>> \in Coded, PutGroup(u8b, ctrl),
         ctrl => rd = -1
  PROVE  /\ tail' \in [1 .. 10 -> 0 .. 1] /\ LastBits(tail', pos_write' - pos_write) = tail'
         /\ last' = <<u8b, ctrl>> /\ last' # <<>>
         /\ EndLike(tail', rd')
         /\ ctrl => tail' = <<0, 0, 1, 1, 1, 1, 1, 0, 0, 1>>
         /\ ~ctrl => GroupLike(tail', rd, rd') /\ rd' \in RD
<1> DEFINE g == Group(u8b, ctrl, rd)
<1>1. g.bits \in [1 .. 10 -> 0 .. 1] /\ g.rd \in RD /\ rd \in RD
  BY GroupIs DEF Types
<1>2. (IF ctrl THEN Group(u8b, TRUE, rd) ELSE DataGroup[u8b][rd]) = g
  <2>1. ~ctrl => u8b \in Octet
    BY DEF Coded
  <2>2. QED
    BY <1>1, <2>1 DEF DataGroup
<1>3. /\ tail' = LastBits(tail \o g.bits, 10) /\ rd' = g.rd /\ last' = <<u8b, ctrl>>
      /\ pos_write' = pos_write + Len(g.bits)
  BY <1>2 DEF PutGroup, Put
<1>4. CASE ctrl
  <2>1. u8b = 60 /\ ctrl = TRUE
    BY <1>4 DEF Coded
  <2>2. g.bits = <<0, 0, 1, 1, 1, 1, 1, 0, 0, 1>> /\ EndLike(g.bits, g.rd)
    BY <1>4, <2>1, DelimiterShape
  <2> HIDE DEF g
  <2>3. tail' = g.bits /\ Len(g.bits) = 10
    BY <1>1, <1>3, LastTen, TenBits DEF Line
  <2>4. pos_write' - pos_write = 10 /\ LastBits(g.bits, 10) = g.bits
    BY <1>3, <2>3 DEF LastBits, Types
  <2>5. QED
    BY <1>1, <1>3, <1>4, <2>2, <2>3, <2>4
<1>5. CASE ~ctrl
  <2>1. u8b \in Octet /\ ctrl = FALSE
    BY <1>5 DEF Coded
  <2>2. GroupLike(g.bits, rd, g.rd)
    BY <1>1, <2>1, DataShape
  <2>3. EndLike(g.bits, g.rd)
    BY <2>2 DEF GroupLike, EndLike
  <2> HIDE DEF g
  <2>4. tail' = g.bits /\ Len(g.bits) = 10
    BY <1>1, <1>3, LastTen, TenBits DEF Line
  <2>5. pos_write' - pos_write = 10 /\ LastBits(g.bits, 10) = g.bits
    BY <1>3, <2>4 DEF LastBits, Types
  <2>6. QED
    BY <1>1, <1>3, <1>5, <2>2, <2>3, <2>4, <2>5
<1>6. QED
  BY <1>4, <1>5

LEMMA InitFollows == Init => Follows
  BY DEF Init, Follows, Sparse

(* Which group a step writes, if any.                                      *)
LEMMA WhatIsPut ==
  ASSUME IInv, Line, Follows, [Next]_vars
  PROVE  \/ PutGroup(60, TRUE) /\ last = <<>> /\ rd = -1 /\ Sparse(tail)
         \/ \E u8b \in Octet : PutGroup(u8b, FALSE) /\ at \in {"header", "payload"}
         \/ /\ last' = <<>> \/ pos_write' = pos_write
            /\ Follows'
<1>1. CASE UNCHANGED vars
  BY <1>1 DEF vars, Follows
<1>2. CASE Check
  BY <1>2 DEF Check, Follows
<1>5. ASSUME NEW n, Abort(n), at # "framed" PROVE pos_write' = pos_write /\ Follows'
  BY <1>5 DEF Abort, Follows
<1>3. CASE Preamble
  <2> SUFFICES ASSUME ~Abort(2 * job.m_exp) PROVE Follows' /\ last' = <<>>
    BY <1>3, <1>5 DEF Preamble
  <2>1. /\ last' = last /\ rd' = rd /\ at = "preamble"
        /\ tail' = LastBits(tail \o [b \in 1 .. 2 * job.m_exp |->
                                       IF b = job.m_exp + 1 THEN 1 ELSE 0], 10)
    BY <1>3 DEF Preamble, Put
  <2>2. last = <<>> /\ rd = -1 /\ Sparse(tail) /\ tail \in Seq(0 .. 1)
    BY <2>1 DEF Line, LastGroup, Follows
  <2>3. job.m_exp \in Nat \ {0}
    BY JobFacts DEF IInv, Types
  <2>4. Sparse(tail')
    BY <2>1, <2>2, <2>3, PreambleSparse
  <2>5. QED
    BY <2>1, <2>2, <2>4 DEF Follows
<1>4. CASE Delimiter
  BY <1>4 DEF Delimiter, FRAME_SFD, Line, LastGroup, Follows
<1>6. CASE Header
  <2>1. CASE \E u8b \in (IF i = 0 THEN {job.in_len} ELSE Content) : PutGroup(u8b, FALSE)
    <3>1. (IF i = 0 THEN {job.in_len} ELSE Content) \in SUBSET Octet
      <4>1. at = "header" /\ Payload <= 255 /\ job \in Job
        BY <1>6 DEF Header, Chunk, IInv, Types, Position
      <4>2. job.in_len \in 0 .. 255
        BY <4>1, JobFacts DEF Payload
      <4>3. QED
        BY <4>2, FramerAssumption DEF Octet
    <3>2. QED
      BY <1>6, <2>1, <3>1 DEF Header, Chunk
  <2>2. QED
    BY <1>5, <1>6, <2>1 DEF Header, Chunk
<1>7. CASE CodedPayload
  <2>1. CASE \E u8b \in Content : PutGroup(u8b, FALSE)
    BY <1>7, <2>1, FramerAssumption DEF CodedPayload, Chunk
  <2>2. QED
    BY <1>5, <1>7, <2>1 DEF CodedPayload, Chunk
<1>8. CASE RawPayload
  BY <1>5, <1>8 DEF RawPayload, Follows
<1>9. CASE Returned
  BY <1>1, <1>9 DEF Returned
<1>10. QED
  BY <1>1, <1>2, <1>3, <1>4, <1>6, <1>7, <1>8, <1>9 DEF Next

LEMMA StepFollows == IInv /\ Line /\ Follows /\ [Next]_vars => Follows'
<1> SUFFICES ASSUME IInv, Line, Follows, [Next]_vars PROVE Follows'
  OBVIOUS
<1>1. CASE PutGroup(60, TRUE) /\ rd = -1
  <2>1. <<60, TRUE>> \in Coded
    BY DEF Coded
  <2>2. tail' \in [1 .. 10 -> 0 .. 1] /\ EndLike(tail', rd') /\ last' # <<>>
    BY <1>1, <2>1, GroupPut DEF IInv
  <2>3. QED
    BY <2>2 DEF Follows
<1>2. CASE \E u8b \in Octet : PutGroup(u8b, FALSE)
  <2>1. PICK u8b \in Octet : PutGroup(u8b, FALSE)
    BY <1>2
  <2>2. <<u8b, FALSE>> \in Coded
    BY DEF Coded
  <2>3. tail' \in [1 .. 10 -> 0 .. 1] /\ EndLike(tail', rd') /\ last' # <<>>
    BY <2>1, <2>2, GroupPut DEF IInv
  <2>4. QED
    BY <2>3 DEF Follows
<1>3. QED
  BY <1>1, <1>2, WhatIsPut

(* A receiver finds the bit clock and the start of the frame: what Put     *)
(* appends never makes more than five equal bits in a row, and the seven   *)
(* bits of a comma begin where the delimiter does and nowhere else, inside *)
(* no code group, across no two of them, and not where the preamble ends.  *)
THEOREM FramesSynchronize == Spec => Synchronizes
<1> DEFINE n == Len(tail)
           s == tail \o LastBits(tail', pos_write' - pos_write)
           Step == last' # <<>> /\ pos_write' > pos_write =>
             /\ \A k \in n - 5 .. n + 4 :
                  k > 0 => (IsComma(s, k) <=> last' = <<FRAME_SFD, TRUE>> /\ k = n + 1)
             /\ \A k \in (IF last = <<>> THEN n + 1 ELSE n - 4) .. n + 5 :
                  \E j \in k + 1 .. k + 5 : s[j] # s[k]
<1>1. ASSUME IInv, Line, Follows, [Next]_vars PROVE Step
  <2>1. tail \in Seq(0 .. 1) /\ rd \in RD
    BY <1>1 DEF Line, IInv, Types
  <2> DEFINE w == tail \o tail'
  <2>2. CASE PutGroup(60, TRUE) /\ last = <<>> /\ rd = -1 /\ Sparse(tail)
    <3>1. <<60, TRUE>> \in Coded
      BY DEF Coded
    <3>2. /\ s = w /\ tail' = <<0, 0, 1, 1, 1, 1, 1, 0, 0, 1>>
          /\ last' = <<60, TRUE>> /\ tail' \in [1 .. 10 -> 0 .. 1]
      BY <1>1, <2>2, <3>1, GroupPut DEF IInv
    <3>3. /\ \A k \in n - 5 .. n + 4 : k > 0 => (IsComma(w, k) <=> k = n + 1)
          /\ \A k \in n + 1 .. n + 5 : \E j \in k + 1 .. k + 5 : w[j] # w[k]
      BY <2>1, <2>2, <3>2, DelimiterAfterPreamble
    <3> HIDE DEF s, n, w
    <3>4. QED
      BY <2>2, <3>2, <3>3 DEF FRAME_SFD
  <2>3. CASE \E u8b \in Octet : PutGroup(u8b, FALSE) /\ at \in {"header", "payload"}
    <3>1. PICK u8b \in Octet : PutGroup(u8b, FALSE) /\ at \in {"header", "payload"}
      BY <2>3
    <3>2. <<u8b, FALSE>> \in Coded
      BY DEF Coded
    <3>3. /\ s = w /\ tail' \in [1 .. 10 -> 0 .. 1]
          /\ last' = <<u8b, FALSE>> /\ GroupLike(tail', rd, rd') /\ rd' \in RD
      BY <1>1, <3>1, <3>2, GroupPut DEF IInv
    <3>4. last' # <<FRAME_SFD, TRUE>>
      BY <3>3
    <3>5. CASE last = <<>>
      <4>1. rd = -1 /\ Sparse(tail)
        BY <1>1, <3>1, <3>5 DEF Follows
      <4>2. /\ \A k \in n - 5 .. n + 4 : k > 0 => ~IsComma(w, k)
            /\ \A k \in n + 1 .. n + 5 : \E j \in k + 1 .. k + 5 : w[j] # w[k]
        BY <2>1, <3>3, <4>1, GroupAfterPreamble
      <4> HIDE DEF s, n, w
      <4>3. QED
        BY <3>3, <3>4, <3>5, <4>2
    <3>6. CASE last # <<>>
      <4>1. tail \in [1 .. 10 -> 0 .. 1] /\ EndLike(tail, rd)
        BY <1>1, <3>6 DEF Follows
      <4>2. n = 10
        BY <4>1, TenBits
      <4>3. /\ \A k \in 5 .. 14 : ~IsComma(w, k)
            /\ \A k \in 6 .. 15 : \E j \in k + 1 .. k + 5 : w[j] # w[k]
        BY <2>1, <3>3, <4>1, GroupAfterGroup
      <4> HIDE DEF s, n, w
      <4>4. n - 5 = 5 /\ n + 4 = 14 /\ n - 4 = 6 /\ n + 5 = 15
        BY <4>2
      <4>5. QED
        BY <3>3, <3>4, <3>6, <4>3, <4>4
    <3>7. QED
      BY <3>5, <3>6
  <2>4. CASE last' = <<>> \/ pos_write' = pos_write
    BY <1>1, <2>4 DEF IInv, Types
  <2>5. QED
    BY <1>1, <2>2, <2>3, <2>4, WhatIsPut
<1>2. Init => Follows
  BY InitFollows
<1>3. IInv /\ Line /\ Follows /\ [Next]_vars => Follows' /\ [Step]_vars
  BY <1>1, StepFollows
<1> HIDE DEF Step
<1>4. Spec => [][Step]_vars
  BY <1>2, <1>3, LineInv, PTL DEF Spec
<1>5. QED
  BY <1>4 DEF Step, Synchronizes

-----------------------------------------------------------------------------
LEMMA LessIsWellFounded == IsWellFoundedOn({ss \in Nat \X Nat : ss[1] < ss[2]}, Nat)
<1>1. IsWellFoundedOn(OpToRel(<, Nat), Nat)
  BY NatLessThanWellFounded, Zenon
<1>2. QED
  BY <1>1, Zenon DEF OpToRel

LEMMA Induction ==
  ASSUME NEW S, S \subseteq Nat, 0 \in S,
         \A n \in Nat : n \in S => n + 1 \in S
  PROVE  S = Nat
<1> SUFFICES ASSUME Nat \ S # {} PROVE FALSE
  OBVIOUS
<1>1. PICK x \in Nat \ S :
        \A y \in Nat \ S : ~ (<<y, x>> \in {ss \in Nat \X Nat : ss[1] < ss[2]})
  BY WFMin, LessIsWellFounded, Zenon
<1>2. x # 0 /\ x - 1 \in Nat /\ x - 1 < x
  OBVIOUS
<1>3. x - 1 \in S
  BY <1>1, <1>2
<1>4. QED
  BY <1>2, <1>3

LEMMA StreamConstants ==
  OctetBits \in Nat /\ OctetBits > 0 /\ Capacity \in Nat /\ Capacity > 0
  /\ MaxWrite \in Nat /\ MaxSymbol \in Nat
BY StreamAssumption

(* Where an octet begins and ends.                                         *)
LEMMA Division ==
  ASSUME NEW w \in Nat, w > 0, NEW a \in Nat
  PROVE  /\ a \div w \in Nat /\ a % w \in Nat
         /\ a = w * (a \div w) + (a % w)
         /\ 0 <= a % w /\ a % w < w
OBVIOUS

LEMMA Quotient ==
  ASSUME NEW w \in Nat, w > 0, NEW a \in Nat, NEW q \in Nat, w * q <= a, a < w * q + w
  PROVE  a \div w = q
OBVIOUS

LEMMA OctetOf ==
  ASSUME NEW a \in Nat, NEW p \in Nat, a <= p, p < a + OctetBits - (a % OctetBits)
  PROVE  p \div OctetBits = a \div OctetBits
<1> DEFINE q == a \div OctetBits
<1>1. q \in Nat /\ a = OctetBits * q + (a % OctetBits) /\ (a % OctetBits) \in Nat
  BY Division, StreamConstants
<1>2. OctetBits * q \in Nat
  BY <1>1, StreamConstants
<1> HIDE DEF q
<1>3. OctetBits * q <= p /\ p < OctetBits * q + OctetBits
  BY <1>1, <1>2, StreamConstants
<1>4. p \div OctetBits = q
  BY <1>1, <1>3, Quotient, StreamConstants
<1>5. QED
  BY <1>4 DEF q

(* What a store leaves, given that the bits fit in the octet.              *)
LEMMA StoreFacts ==
  ASSUME NEW D, D \subseteq Nat, NEW dst \in [D -> {0, 1}], NEW to \in Nat,
         NEW bits \in Seq({0, 1}), Len(bits) <= OctetBits - (to % OctetBits)
  PROVE  /\ Store(dst, to, bits) \in [D -> {0, 1}]
         /\ \A p \in D :
              /\ p < to => Store(dst, to, bits)[p] = dst[p]
              /\ to <= p /\ p < to + Len(bits) => Store(dst, to, bits)[p] = bits[p - to + 1]
              /\ to + Len(bits) <= p => Store(dst, to, bits)[p] \in {0, dst[p]}
<1> DEFINE st == Store(dst, to, bits)
<1>1. Len(bits) \in Nat /\ DOMAIN dst = D
  OBVIOUS
<1>2. ASSUME NEW p \in D
      PROVE  /\ p < to => st[p] = dst[p]
             /\ to <= p /\ p < to + Len(bits) => st[p] = bits[p - to + 1]
             /\ to + Len(bits) <= p => st[p] \in {0, dst[p]}
  <2>1. p \in Nat
    OBVIOUS
  <2>2. to % OctetBits \in Nat
    BY Division, StreamConstants
  <2>3. to <= p /\ p < to + Len(bits) => p \div OctetBits = to \div OctetBits
    BY <1>1, <2>1, <2>2, OctetOf, StreamConstants
  <2> HIDE <2>2
  <2>4. st[p] = IF p \div OctetBits # to \div OctetBits \/ p < to THEN dst[p]
                ELSE IF p < to + Len(bits) THEN bits[p - to + 1] ELSE 0
    BY <1>1 DEF Store
  <2> HIDE DEF st
  <2>5. QED
    BY <1>1, <2>1, <2>3, <2>4
<1>3. ASSUME NEW p \in D PROVE st[p] \in {0, 1}
  <2>1. p \in Nat /\ dst[p] \in {0, 1}
    OBVIOUS
  <2>2. to <= p /\ p < to + Len(bits) => bits[p - to + 1] \in {0, 1}
    <3>1. to <= p /\ p < to + Len(bits) => p - to + 1 \in 1 .. Len(bits)
      BY <1>1, <2>1
    <3>2. QED
      BY <3>1
  <2> HIDE DEF st
  <2>3. QED
    BY <1>1, <1>2, <2>1, <2>2
<1>4. st = [p \in D |-> st[p]]
  BY <1>1 DEF Store
<1>5. QED
  <2> HIDE DEF st
  <2>1. st \in [D -> {0, 1}]
    BY <1>3, <1>4
  <2>2. QED
    BY <1>2, <2>1 DEF st
-----------------------------------------------------------------------------
(* bitwise_copy.                                                           *)
CopyState(D) == [src_remaining : Nat, src_offset : Nat, reg : Seq({0, 1}),
                 dst : [D -> {0, 1}], dst_offset : Nat]

(* After any round: the bits moved are in dst, the next are in u.reg, the  *)
(* rest is in src; what was in dst before them is as it was, and what is   *)
(* behind them was there before or is 0.                                   *)
Moved(src, f, dst, t, n, c) ==
  /\ t <= c.dst_offset
  /\ Len(c.reg) + c.src_remaining + (c.dst_offset - t) = n
  /\ c.src_offset = f + (c.dst_offset - t) + Len(c.reg)
  /\ \A j \in 1 .. Len(c.reg) : c.reg[j] = src[f + (c.dst_offset - t) + j - 1]
  /\ \A p \in DOMAIN dst :
       /\ p < t => c.dst[p] = dst[p]
       /\ t <= p /\ p < c.dst_offset => c.dst[p] = src[f + p - t]
       /\ c.dst_offset <= p => c.dst[p] \in {0, dst[p]}

(* src has the n bits that a copy from f takes.                            *)
HasBits(src, f, n) == \A p \in Nat : f <= p /\ p < f + n => src[p] \in {0, 1}

(* Each round moves a bit, as long as there is one.                        *)
Left(c) == 2 * c.src_remaining + Len(c.reg)

(* The inner loop: some bits go from u.reg to dst.                         *)
LEMMA Consumes ==
  ASSUME NEW D, D \subseteq Nat, NEW dst \in [D -> {0, 1}], NEW t \in Nat,
         NEW src, NEW f \in Nat, NEW n \in Nat,
         NEW c \in CopyState(D), Moved(src, f, dst, t, n, c), c.reg # <<>>
  PROVE  /\ Round(src, c) \in CopyState(D)
         /\ Moved(src, f, dst, t, n, Round(src, c))
         /\ Left(Round(src, c)) <= Left(c) - 1
<1> DEFINE to == c.dst_offset
           room == OctetBits - (to % OctetBits)
           m == MIN(Len(c.reg), room)
           bits == SubSeq(c.reg, 1, m)
           rest == SubSeq(c.reg, m + 1, Len(c.reg))
           st == Store(c.dst, to, bits)
           d == Round(src, c)
<1>1. /\ c.reg \in Seq({0, 1}) /\ to \in Nat /\ c.dst \in [D -> {0, 1}]
      /\ c.src_remaining \in Nat /\ c.src_offset \in Nat /\ DOMAIN dst = D
      /\ Len(c.reg) \in Nat /\ Len(c.reg) > 0
  BY DEF CopyState
<1>2. room \in Nat /\ room > 0
  BY <1>1, Division, StreamConstants
<1> HIDE DEF room
<1>3. m \in Nat /\ m > 0 /\ m <= Len(c.reg) /\ m <= room
  BY <1>1, <1>2 DEF MIN
<1> HIDE DEF m
<1>4. /\ bits \in Seq({0, 1}) /\ Len(bits) = m
      /\ \A j \in 1 .. m : bits[j] = c.reg[j]
  BY <1>1, <1>3
<1>5. /\ rest \in Seq({0, 1}) /\ Len(rest) = Len(c.reg) - m
      /\ \A j \in 1 .. Len(c.reg) - m : rest[j] = c.reg[j + m]
  BY <1>1, <1>3
<1>6. d = [src_remaining |-> c.src_remaining, src_offset |-> c.src_offset,
           reg |-> rest, dst |-> st, dst_offset |-> to + m]
  BY DEF Round, CopyState, m, room
<1> HIDE DEF bits, rest, d
<1>7. /\ st \in [D -> {0, 1}]
      /\ \A p \in D :
              /\ p < to => st[p] = c.dst[p]
              /\ to <= p /\ p < to + m => st[p] = bits[p - to + 1]
              /\ to + m <= p => st[p] \in {0, c.dst[p]}
  <2>1. Len(bits) <= OctetBits - (to % OctetBits)
    BY <1>3, <1>4 DEF room
  <2> HIDE DEF to, bits
  <2>2. /\ Store(c.dst, to, bits) \in [D -> {0, 1}]
        /\ \A p \in D :
              /\ p < to => Store(c.dst, to, bits)[p] = c.dst[p]
              /\ to <= p /\ p < to + Len(bits) => Store(c.dst, to, bits)[p] = bits[p - to + 1]
              /\ to + Len(bits) <= p => Store(c.dst, to, bits)[p] \in {0, c.dst[p]}
    BY <1>1, <1>4, <2>1, StoreFacts
  <2>3. QED
    BY <1>4, <2>2, Zenon
<1> HIDE DEF st, to
<1>8. d \in CopyState(D)
  BY <1>1, <1>3, <1>5, <1>6, <1>7 DEF CopyState
<1>9. /\ d.reg = rest /\ d.src_remaining = c.src_remaining /\ d.src_offset = c.src_offset
      /\ d.dst = st /\ d.dst_offset = to + m
  BY <1>6
<1>10. /\ t <= to
       /\ Len(c.reg) + c.src_remaining + (to - t) = n
       /\ c.src_offset = f + (to - t) + Len(c.reg)
       /\ \A j \in 1 .. Len(c.reg) : c.reg[j] = src[f + (to - t) + j - 1]
       /\ \A p \in D :
            /\ p < t => c.dst[p] = dst[p]
            /\ t <= p /\ p < to => c.dst[p] = src[f + p - t]
            /\ to <= p => c.dst[p] \in {0, dst[p]}
  BY <1>1 DEF Moved, to
<1>11. \A j \in 1 .. Len(d.reg) : d.reg[j] = src[f + (d.dst_offset - t) + j - 1]
  <2> SUFFICES ASSUME NEW j \in 1 .. Len(d.reg)
               PROVE  d.reg[j] = src[f + (d.dst_offset - t) + j - 1]
    OBVIOUS
  <2>1. j \in 1 .. Len(c.reg) - m /\ j + m \in 1 .. Len(c.reg)
    BY <1>1, <1>3, <1>5, <1>9
  <2>2. d.reg[j] = src[f + (to - t) + (j + m) - 1]
    BY <1>5, <1>9, <1>10, <2>1
  <2>3. f + (to - t) + (j + m) - 1 = f + (d.dst_offset - t) + j - 1
    <3>1. to \in Nat /\ m \in Nat /\ j \in Nat
      BY <1>1, <1>3, <2>1
    <3>2. f + (to - t) + (j + m) - 1 = f + ((to + m) - t) + j - 1
      BY <3>1
    <3>3. QED
      BY <1>9, <3>2
  <2>4. QED
    BY <2>2, <2>3
<1>12. ASSUME NEW p \in D
       PROVE  /\ p < t => d.dst[p] = dst[p]
              /\ t <= p /\ p < d.dst_offset => d.dst[p] = src[f + p - t]
              /\ d.dst_offset <= p => d.dst[p] \in {0, dst[p]}
  <2>1. p \in Nat
    OBVIOUS
  <2>2. CASE p < to
    BY <1>1, <1>3, <1>7, <1>9, <1>10, <2>1, <2>2
  <2>3. CASE to <= p /\ p < to + m
    <3>1. p - to + 1 \in 1 .. m /\ p - to + 1 \in 1 .. Len(c.reg)
      BY <1>1, <1>3, <2>1, <2>3
    <3>2. st[p] = src[f + (to - t) + (p - to + 1) - 1]
      BY <1>4, <1>7, <1>10, <2>3, <3>1
    <3>3. f + (to - t) + (p - to + 1) - 1 = f + p - t
      <4>1. to \in Nat
        BY <1>1
      <4>2. QED
        BY <2>1, <4>1
    <3>4. to \in Nat /\ m \in Nat /\ t <= to
      BY <1>1, <1>3, <1>10
    <3>5. d.dst[p] = src[f + p - t]
      BY <1>9, <3>2, <3>3, Zenon
    <3>6. ~ (p < t) /\ ~ (to + m <= p)
      BY <2>1, <2>3, <3>4
    <3>7. QED
      BY <1>9, <3>5, <3>6, Zenon
  <2>4. CASE to + m <= p
    BY <1>1, <1>3, <1>7, <1>9, <1>10, <2>1, <2>4
  <2>5. QED
    BY <1>1, <1>3, <2>1, <2>2, <2>3, <2>4
<1>13. Len(d.reg) + d.src_remaining + (d.dst_offset - t) = n
       /\ t <= d.dst_offset /\ d.src_offset = f + (d.dst_offset - t) + Len(d.reg)
  <2>1. Len(d.reg) = Len(c.reg) - m
    BY <1>5, <1>9
  <2>2. /\ Len(c.reg) + c.src_remaining + (to - t) = n /\ t <= to
        /\ c.src_offset = f + (to - t) + Len(c.reg)
    BY <1>10
  <2>3. t <= d.dst_offset
    BY <1>1, <1>3, <1>9, <2>2
  <2>4. Len(d.reg) + d.src_remaining + (d.dst_offset - t) = n
    BY <1>1, <1>3, <1>9, <2>1, <2>2
  <2>5. d.src_offset = f + (d.dst_offset - t) + Len(d.reg)
    <3>1. to \in Nat /\ m \in Nat /\ Len(c.reg) \in Nat
      BY <1>1, <1>3
    <3>2. \A x \in Nat : f + (to - t) + x = f + ((to + m) - t) + (x - m)
      BY <3>1
    <3>3. f + (to - t) + Len(c.reg) = f + ((to + m) - t) + (Len(c.reg) - m)
      BY <3>1, <3>2, Zenon
    <3>4. QED
      BY <1>9, <2>1, <2>2, <3>3
  <2>6. QED
    BY <2>3, <2>4, <2>5
<1>14. Moved(src, f, dst, t, n, d)
  BY <1>1, <1>11, <1>12, <1>13 DEF Moved
<1>15. Left(d) <= Left(c) - 1
  <2>1. Len(d.reg) = Len(c.reg) - m /\ d.src_remaining = c.src_remaining
    BY <1>5, <1>9
  <2>2. m \in Nat /\ m > 0 /\ Len(c.reg) \in Nat /\ c.src_remaining \in Nat
    BY <1>1, <1>3
  <2>3. QED
    BY <2>1, <2>2 DEF Left
<1>16. QED
  BY <1>8, <1>14, <1>15 DEF d

(* The outer loop: some bits go from src to u.reg.                         *)
LEMMA Fetches ==
  ASSUME NEW D, D \subseteq Nat, NEW dst \in [D -> {0, 1}], NEW t \in Nat,
         NEW f \in Nat, NEW n \in Nat,
         NEW src, HasBits(src, f, n),
         NEW c \in CopyState(D), Moved(src, f, dst, t, n, c), c.reg = <<>>
  PROVE  /\ Round(src, c) \in CopyState(D)
         /\ Moved(src, f, dst, t, n, Round(src, c))
         /\ Left(c) > 0 => Left(Round(src, c)) <= Left(c) - 1
         /\ Left(c) = 0 => Left(Round(src, c)) = 0
<1> DEFINE from == c.src_offset
           room == OctetBits - (from % OctetBits)
           m == MIN(c.src_remaining, room)
           bits == Bits(src, from, from + m)
           d == Round(src, c)
<1>1. /\ from \in Nat /\ c.dst \in [D -> {0, 1}] /\ c.dst_offset \in Nat
      /\ c.src_remaining \in Nat /\ DOMAIN dst = D /\ Len(c.reg) = 0
  BY DEF CopyState
<1>2. room \in Nat /\ room > 0
  BY <1>1, Division, StreamConstants
<1> HIDE DEF room
<1>3. /\ m \in Nat /\ m <= c.src_remaining
      /\ c.src_remaining > 0 => m > 0
  BY <1>1, <1>2 DEF MIN
<1> HIDE DEF m
<1>4. /\ t <= c.dst_offset
      /\ c.src_remaining + (c.dst_offset - t) = n
      /\ from = f + (c.dst_offset - t)
      /\ \A p \in D :
            /\ p < t => c.dst[p] = dst[p]
            /\ t <= p /\ p < c.dst_offset => c.dst[p] = src[f + p - t]
            /\ c.dst_offset <= p => c.dst[p] \in {0, dst[p]}
  BY <1>1 DEF Moved
<1>5. bits = [j \in 1 .. m |-> src[from + j - 1]]
  <2> HIDE DEF from
  <2>1. 1 .. (from + m) - from = 1 .. m
    BY <1>1, <1>3
  <2>2. bits = [j \in 1 .. (from + m) - from |-> src[from + j - 1]]
    BY DEF Bits
  <2>3. QED
    BY <2>1, <2>2, Zenon
<1>6. d = [src_remaining |-> c.src_remaining - m, src_offset |-> from + m,
           reg |-> bits, dst |-> c.dst, dst_offset |-> c.dst_offset]
  BY DEF Round, CopyState, m, room
<1> HIDE DEF bits, d, from
<1>7. \A j \in 1 .. m : src[from + j - 1] \in {0, 1}
  <2> SUFFICES ASSUME NEW j \in 1 .. m PROVE src[from + j - 1] \in {0, 1}
    OBVIOUS
  <2>1. /\ c.src_remaining + (c.dst_offset - t) = n /\ from = f + (c.dst_offset - t)
        /\ t <= c.dst_offset
    BY <1>4
  <2> DEFINE done == c.dst_offset - t
  <2>2. done \in Nat /\ c.src_remaining \in Nat /\ m \in Nat /\ m <= c.src_remaining
    BY <1>1, <1>3, <2>1
  <2> HIDE DEF done
  <2>3. c.src_remaining + done = n /\ from = f + done
    BY <2>1 DEF done
  <2>4. j \in Nat /\ 1 <= j /\ j <= c.src_remaining
    BY <2>2
  <2>5. from + j - 1 \in Nat /\ f <= from + j - 1 /\ from + j - 1 < f + n
    BY <2>2, <2>3, <2>4
  <2>6. QED
    BY <2>5 DEF HasBits
<1>8. /\ bits \in Seq({0, 1}) /\ Len(bits) = m
      /\ \A j \in 1 .. m : bits[j] = src[from + j - 1]
  BY <1>3, <1>5, <1>7
<1>9. d \in CopyState(D)
  BY <1>1, <1>3, <1>6, <1>8 DEF CopyState
<1>10. /\ d.reg = bits /\ d.src_remaining = c.src_remaining - m /\ d.src_offset = from + m
       /\ d.dst = c.dst /\ d.dst_offset = c.dst_offset
  BY <1>6
<1>11. \A j \in 1 .. Len(d.reg) : d.reg[j] = src[f + (d.dst_offset - t) + j - 1]
  BY <1>4, <1>8, <1>10
<1>12. /\ t <= d.dst_offset /\ Len(d.reg) + d.src_remaining + (d.dst_offset - t) = n
       /\ d.src_offset = f + (d.dst_offset - t) + Len(d.reg)
  BY <1>1, <1>3, <1>4, <1>8, <1>10
<1>13. Moved(src, f, dst, t, n, d)
  BY <1>1, <1>4, <1>10, <1>11, <1>12 DEF Moved
<1>14. /\ Left(c) > 0 => Left(d) <= Left(c) - 1
       /\ Left(c) = 0 => Left(d) = 0
  <2>1. Len(d.reg) = m /\ Len(c.reg) = 0 /\ d.src_remaining = c.src_remaining - m
    BY <1>1, <1>8, <1>10
  <2>2. m \in Nat /\ c.src_remaining \in Nat /\ m <= c.src_remaining
        /\ (c.src_remaining > 0 => m > 0)
    BY <1>1, <1>3
  <2>3. QED
    BY <2>1, <2>2 DEF Left
<1>15. QED
  BY <1>9, <1>13, <1>14 DEF d

CopyStart(src_offset, dst, dst_offset, n) ==
  [src_remaining |-> n, src_offset |-> src_offset, reg |-> <<>>,
   dst |-> dst, dst_offset |-> dst_offset]

(* The rounds of a copy exist, one after the other.                        *)
LEMMA CopyRuns ==
  ASSUME NEW src, NEW f, NEW dst, NEW t, NEW n \in Nat
  PROVE  \E run : /\ run = [k \in 0 .. 2 * n |->
                              IF k = 0 THEN CopyStart(f, dst, t, n) ELSE Round(src, run[k - 1])]
                  /\ Copy(src, f, dst, t, n) = run[2 * n].dst
<1> DEFINE Start == CopyStart(f, dst, t, n)
           Upto(N, g) == g = [k \in 0 .. N |-> IF k = 0 THEN Start ELSE Round(src, g[k - 1])]
           Good == {N \in Nat : \E g : Upto(N, g)}
<1> HIDE DEF Start
<1>1. 0 \in Good
  <2>1. Upto(0, [k \in 0 .. 0 |-> Start])
    OBVIOUS
  <2>2. QED
    BY <2>1
<1>2. ASSUME NEW N \in Nat, N \in Good PROVE N + 1 \in Good
  <2>1. PICK g : Upto(N, g)
    BY <1>2
  <2> DEFINE h == [k \in 0 .. N + 1 |-> IF k <= N THEN g[k] ELSE Round(src, g[k - 1])]
  <2>2. \A k \in 0 .. N + 1 : h[k] = IF k = 0 THEN Start ELSE Round(src, h[k - 1])
    <3> SUFFICES ASSUME NEW k \in 0 .. N + 1
                 PROVE  h[k] = IF k = 0 THEN Start ELSE Round(src, h[k - 1])
      OBVIOUS
    <3>1. k = 0 \/ (k - 1 \in 0 .. N /\ k - 1 \in 0 .. N + 1)
      OBVIOUS
    <3>2. k \in 0 .. N => g[k] = IF k = 0 THEN Start ELSE Round(src, g[k - 1])
      BY <2>1
    <3>3. k # 0 => h[k - 1] = g[k - 1]
      BY <3>1
    <3>4. QED
      BY <3>2, <3>3
  <2>3. Upto(N + 1, h)
    BY <2>2
  <2> HIDE DEF Upto
  <2>4. QED
    BY <2>3
<1>3. Good = Nat
  <2> HIDE DEF Good
  <2>1. Good \subseteq Nat
    BY DEF Good
  <2>2. QED
    BY <1>1, <1>2, <2>1, Induction
<1>4. \E g : Upto(2 * n, g)
  <2>1. 2 * n \in Good
    <3> HIDE DEF Good
    <3>1. QED
      BY <1>3
  <2> HIDE DEF Upto
  <2>2. QED
    BY <2>1
<1> DEFINE run == CHOOSE g : Upto(2 * n, g)
<1>5. Upto(2 * n, run)
  BY <1>4
<1>6. Copy(src, f, dst, t, n) = run[2 * n].dst
  BY DEF Copy, Start, CopyStart
<1>7. QED
  BY <1>5, <1>6 DEF Start

(* bitwise_copy is exact for octets of any width, from any position to any *)
(* other and for any number of bits: they arrive, in order, the bits before*)
(* them stay, and those after them stay or are cleared.  2 * n rounds end it.*)
THEOREM CopyIsExact ==
  ASSUME NEW D, D \subseteq Nat, NEW dst \in [D -> {0, 1}], NEW t \in Nat,
         NEW f \in Nat, NEW n \in Nat,
         NEW src, HasBits(src, f, n)
  PROVE  /\ Copy(src, f, dst, t, n) \in [D -> {0, 1}]
         /\ \A p \in D :
              /\ p < t => Copy(src, f, dst, t, n)[p] = dst[p]
              /\ t <= p /\ p < t + n => Copy(src, f, dst, t, n)[p] = src[f + p - t]
              /\ t + n <= p => Copy(src, f, dst, t, n)[p] \in {0, dst[p]}
<1>1. PICK run : /\ run = [k \in 0 .. 2 * n |->
                              IF k = 0 THEN CopyStart(f, dst, t, n) ELSE Round(src, run[k - 1])]
                 /\ Copy(src, f, dst, t, n) = run[2 * n].dst
  BY CopyRuns
<1> DEFINE Good == {k \in Nat : k <= 2 * n =>
                      /\ run[k] \in CopyState(D)
                      /\ Moved(src, f, dst, t, n, run[k])
                      /\ Left(run[k]) <= 2 * n - k}
<1>2. 0 \in Good
  <2> DEFINE c == CopyStart(f, dst, t, n)
  <2>1. run[0] = c
    BY <1>1
  <2>2. /\ c.src_remaining = n /\ c.src_offset = f /\ c.reg = <<>> /\ c.dst = dst
        /\ c.dst_offset = t /\ Len(c.reg) = 0 /\ c \in CopyState(D) /\ DOMAIN dst = D
    BY DEF CopyStart, CopyState
  <2> HIDE DEF c
  <2>3. Moved(src, f, dst, t, n, c)
    BY <2>2 DEF Moved
  <2>4. Left(c) = 2 * n
    BY <2>2 DEF Left
  <2>5. QED
    BY <2>1, <2>2, <2>3, <2>4
<1>3. ASSUME NEW k \in Nat, k \in Good PROVE k + 1 \in Good
  <2> SUFFICES ASSUME k + 1 <= 2 * n
               PROVE  /\ run[k + 1] \in CopyState(D)
                      /\ Moved(src, f, dst, t, n, run[k + 1])
                      /\ Left(run[k + 1]) <= 2 * n - (k + 1)
    OBVIOUS
  <2> DEFINE c == run[k]
  <2>1. c \in CopyState(D) /\ Moved(src, f, dst, t, n, c) /\ Left(c) <= 2 * n - k
    BY <1>3
  <2>2. run[k + 1] = Round(src, c)
    <3>1. k + 1 \in 0 .. 2 * n /\ k + 1 # 0 /\ (k + 1) - 1 = k
      OBVIOUS
    <3>2. QED
      BY <1>1, <3>1
  <2>3. Left(c) \in Nat /\ Left(Round(src, c)) \in Int
    <3> HIDE DEF c
    <3>1. Left(c) \in Nat
      BY <2>1 DEF Left, CopyState
    <3>2. Round(src, c) \in CopyState(D)
      BY <2>1, Consumes, Fetches
    <3>3. QED
      BY <3>1, <3>2 DEF Left, CopyState
  <2> HIDE DEF c
  <2>4. CASE c.reg # <<>>
    <3>1. /\ Round(src, c) \in CopyState(D)
          /\ Moved(src, f, dst, t, n, Round(src, c))
          /\ Left(Round(src, c)) <= Left(c) - 1
      BY <2>1, <2>4, Consumes
    <3>2. QED
      BY <2>1, <2>2, <2>3, <3>1
  <2>5. CASE c.reg = <<>>
    <3>1. /\ Moved(src, f, dst, t, n, Round(src, c))
          /\ Round(src, c) \in CopyState(D)
          /\ Left(c) > 0 => Left(Round(src, c)) <= Left(c) - 1
          /\ Left(c) = 0 => Left(Round(src, c)) = 0
      BY <2>1, <2>5, Fetches
    <3>2. QED
      BY <2>1, <2>2, <2>3, <3>1
  <2>6. QED
    BY <2>4, <2>5
<1>4. Good = Nat
  <2> HIDE DEF Good
  <2>1. Good \subseteq Nat
    BY DEF Good
  <2>2. QED
    BY <1>2, <1>3, <2>1, Induction
<1> DEFINE c == run[2 * n]
<1>5. c \in CopyState(D) /\ Moved(src, f, dst, t, n, c) /\ Left(c) <= 0
  <2>1. 2 * n \in Good /\ 2 * n \in Nat
    <3> HIDE DEF Good
    <3>1. QED
      BY <1>4
  <2>2. QED
    BY <2>1
<1>6. Copy(src, f, dst, t, n) = c.dst
  BY <1>1
<1> HIDE DEF c
<1>7. c.dst_offset = t + n
  <2>1. /\ Len(c.reg) \in Nat /\ c.src_remaining \in Nat /\ c.dst_offset \in Nat
    BY <1>5 DEF CopyState
  <2>2. Len(c.reg) + c.src_remaining + (c.dst_offset - t) = n
    BY <1>5 DEF Moved
  <2>3. Len(c.reg) = 0 /\ c.src_remaining = 0
    BY <1>5, <2>1 DEF Left
  <2>4. QED
    BY <2>1, <2>2, <2>3
<1>8. QED
  BY <1>5, <1>6, <1>7 DEF CopyState, Moved
-----------------------------------------------------------------------------
(* The calls.                                                              *)
StreamType == {s \in [data : Memory(Capacity), len : 0 .. Capacity,
                      pos_read : Nat, pos_write : Nat] : s.pos_write = s.len}

LEMMA PositionsOf ==
  ASSUME NEW n \in Nat
  PROVE  Positions(n) \subseteq Nat /\ 0 .. n - 1 \subseteq Positions(n)
<1> DEFINE q == (n + OctetBits - 1) \div OctetBits
<1>1. n + OctetBits - 1 \in Nat
  BY StreamConstants
<1>2. q \in Nat /\ n + OctetBits - 1 < OctetBits * q + OctetBits
  BY <1>1, Division, StreamConstants
<1>3. OctetBits * q \in Nat
  BY <1>2, StreamConstants
<1> HIDE DEF q
<1>4. n <= OctetBits * q
  BY <1>2, <1>3, StreamConstants
<1>5. Positions(n) = 0 .. OctetBits * q - 1
  BY DEF Positions, q
<1>6. QED
  BY <1>3, <1>4, <1>5

(* bitstream_write appends n bits or does nothing.                         *)
LEMMA WriteFacts ==
  ASSUME NEW s \in StreamType, NEW n \in Nat, NEW src \in Memory(n)
  PROVE  LET w == Write(s, src, n)
         IN  IF Capacity - s.len < n THEN w = s
             ELSE /\ w \in StreamType
                  /\ w.len = s.len + n /\ w.pos_read = s.pos_read
                  /\ \A p \in 0 .. s.len - 1 : w.data[p] = s.data[p]
                  /\ \A j \in 1 .. n : w.data[s.len + j - 1] = src[j - 1]
<1> DEFINE w == Write(s, src, n)
           data == Copy(src, 0, s.data, s.len, n)
           P == Positions(Capacity)
<1>1. /\ s \in [data : Memory(Capacity), len : 0 .. Capacity, pos_read : Nat, pos_write : Nat]
      /\ s.data \in [P -> {0, 1}] /\ s.len \in Nat /\ s.len <= Capacity
      /\ s.pos_read \in Nat /\ s.pos_write = s.len
  BY StreamConstants DEF StreamType, Memory
<1>2. P \subseteq Nat /\ 0 .. Capacity - 1 \subseteq P
  BY PositionsOf, StreamConstants
<1>3. \A p \in 0 .. n - 1 : src[p] \in {0, 1}
  BY PositionsOf DEF Memory
<1>4. CASE Capacity - s.len < n
  BY <1>1, <1>4 DEF Write, NoRoom
<1>5. CASE ~ (Capacity - s.len < n)
  <2> HIDE DEF P
  <2>1. HasBits(src, 0, n)
    BY <1>3 DEF HasBits
  <2> HIDE DEF data
  <2>2. /\ data \in [P -> {0, 1}]
        /\ \A p \in P :
             /\ p < s.len => data[p] = s.data[p]
             /\ s.len <= p /\ p < s.len + n => data[p] = src[0 + p - s.len]
    <3>1. 0 \in Nat /\ s.len \in Nat /\ s.data \in [P -> {0, 1}] /\ P \subseteq Nat
      BY <1>1, <1>2
    <3>2. /\ Copy(src, 0, s.data, s.len, n) \in [P -> {0, 1}]
          /\ \A p \in P :
               /\ p < s.len => Copy(src, 0, s.data, s.len, n)[p] = s.data[p]
               /\ s.len <= p /\ p < s.len + n =>
                    Copy(src, 0, s.data, s.len, n)[p] = src[0 + p - s.len]
               /\ s.len + n <= p =>
                    Copy(src, 0, s.data, s.len, n)[p] \in {0, s.data[p]}
      BY <2>1, <3>1, CopyIsExact, Zenon
    <3>3. QED
      BY <3>2 DEF data
  <2>3. ~ NoRoom(s, n) /\ ~ Overfull(s, n)
    BY <1>1, <1>5, StreamConstants DEF NoRoom, Overfull
  <2>4. w = [data |-> data, len |-> s.len + n, pos_read |-> s.pos_read,
             pos_write |-> s.pos_write + n]
    BY <1>1, <1>5, <2>3 DEF Write, data
  <2> HIDE DEF w
  <2>5. /\ w.data = data /\ w.len = s.len + n /\ w.pos_read = s.pos_read
    BY <2>4
  <2>6. w \in StreamType
    BY <1>1, <1>5, <2>2, <2>4, StreamConstants DEF StreamType, Memory, P
  <2>7. \A p \in 0 .. s.len - 1 : w.data[p] = s.data[p]
    BY <1>1, <1>2, <2>2, <2>5, StreamConstants
  <2>8. \A j \in 1 .. n : w.data[s.len + j - 1] = src[j - 1]
    <3> SUFFICES ASSUME NEW j \in 1 .. n PROVE w.data[s.len + j - 1] = src[j - 1]
      OBVIOUS
    <3>1. s.len + j - 1 \in 0 .. Capacity - 1 /\ s.len + j - 1 < s.len + n /\ s.len <= s.len + j - 1
      BY <1>1, <1>5, StreamConstants
    <3>2. 0 + (s.len + j - 1) - s.len = j - 1
      BY <1>1
    <3>3. s.len + j - 1 \in P
      BY <1>2, <3>1
    <3>4. QED
      BY <2>2, <2>5, <3>1, <3>2, <3>3
  <2>9. QED
    BY <1>5, <2>5, <2>6, <2>7, <2>8 DEF w
<1>6. QED
  BY <1>4, <1>5

(* w holds what s does and then m more bits, those of bits.                *)
Grows(s, w, m, bits) ==
  /\ w \in StreamType
  /\ w.len = s.len + m /\ w.pos_read = s.pos_read
  /\ \A p \in 0 .. s.len - 1 : w.data[p] = s.data[p]
  /\ \A j \in 1 .. m : w.data[s.len + j - 1] = bits[j]

LEMMA StoredIs ==
  ASSUME NEW s \in StreamType
  PROVE  /\ s.len \in Nat /\ s.len <= Capacity /\ s.pos_read \in Nat /\ s.pos_write = s.len
         /\ s.data \in [Positions(Capacity) -> {0, 1}]
         /\ \A p \in 0 .. s.len - 1 : p \in Positions(Capacity) /\ s.data[p] \in {0, 1}
         /\ Stored(s) = [k \in 1 .. s.len |-> s.data[k - 1]]
         /\ Stored(s) \in Seq({0, 1}) /\ Len(Stored(s)) = s.len
<1>1. /\ s.len \in Nat /\ s.len <= Capacity /\ s.pos_read \in Nat /\ s.pos_write = s.len
      /\ s.data \in [Positions(Capacity) -> {0, 1}]
  BY StreamConstants DEF StreamType, Memory
<1>2. \A p \in 0 .. s.len - 1 : p \in Positions(Capacity) /\ s.data[p] \in {0, 1}
  <2>1. 0 .. s.len - 1 \subseteq 0 .. Capacity - 1
    BY <1>1, StreamConstants
  <2>2. 0 .. Capacity - 1 \subseteq Positions(Capacity)
    BY PositionsOf, StreamConstants
  <2>3. QED
    BY <1>1, <2>1, <2>2
<1>3. Stored(s) = [k \in 1 .. s.len |-> s.data[k - 1]]
  <2>1. 1 .. s.len - 0 = 1 .. s.len
    BY <1>1
  <2>2. \A k \in 1 .. s.len : 0 + k - 1 = k - 1
    BY <1>1
  <2>3. Stored(s) = [k \in 1 .. s.len |-> s.data[0 + k - 1]]
    BY <2>1 DEF Stored, Bits
  <2>4. QED
    BY <2>2, <2>3
<1>4. \A k \in 1 .. s.len : s.data[k - 1] \in {0, 1}
  BY <1>1, <1>2
<1>5. QED
  BY <1>1, <1>2, <1>3, <1>4

(* The same as a fact on sequences.                                        *)
LEMMA StoredGrows ==
  ASSUME NEW s \in StreamType, NEW w, NEW m \in Nat, NEW bits \in Seq({0, 1}),
         m <= Len(bits), Grows(s, w, m, bits)
  PROVE  Stored(w) = Stored(s) \o SubSeq(bits, 1, m)
<1>1. /\ s.len \in Nat /\ Stored(s) = [k \in 1 .. s.len |-> s.data[k - 1]]
      /\ Stored(s) \in Seq({0, 1}) /\ Len(Stored(s)) = s.len
  BY StoredIs
<1>2. /\ w.len = s.len + m
      /\ \A p \in 0 .. s.len - 1 : w.data[p] = s.data[p]
      /\ \A j \in 1 .. m : w.data[s.len + j - 1] = bits[j]
  BY DEF Grows
<1>3. Stored(w) = [k \in 1 .. s.len + m |-> w.data[k - 1]]
  BY <1>2, StoredIs DEF Grows
<1>4. /\ SubSeq(bits, 1, m) \in Seq({0, 1}) /\ Len(SubSeq(bits, 1, m)) = m
      /\ \A j \in 1 .. m : SubSeq(bits, 1, m)[j] = bits[j]
  OBVIOUS
<1> DEFINE more == SubSeq(bits, 1, m)
<1> HIDE DEF more
<1>5. /\ Stored(s) \o more \in Seq({0, 1}) /\ Len(Stored(s) \o more) = s.len + m
      /\ \A k \in 1 .. s.len + m :
           (Stored(s) \o more)[k] = IF k <= s.len THEN Stored(s)[k] ELSE more[k - s.len]
  <2>1. more \in Seq({0, 1}) /\ Len(more) = m
    BY <1>4 DEF more
  <2>2. QED
    BY <1>1, <2>1, ConcatProperties
<1>6. \A k \in 1 .. s.len + m : (Stored(s) \o more)[k] = w.data[k - 1]
  <2> SUFFICES ASSUME NEW k \in 1 .. s.len + m
               PROVE  (Stored(s) \o more)[k] = w.data[k - 1]
    OBVIOUS
  <2>1. CASE k <= s.len
    <3>1. k \in 1 .. s.len /\ k - 1 \in 0 .. s.len - 1
      BY <1>1, <2>1
    <3>2. QED
      BY <1>1, <1>2, <1>5, <2>1, <3>1
  <2>2. CASE k > s.len
    <3>1. k - s.len \in 1 .. m /\ s.len + (k - s.len) - 1 = k - 1 /\ ~ (k <= s.len)
      BY <1>1, <2>2
    <3>2. more[k - s.len] = bits[k - s.len]
      BY <1>4, <3>1, Zenon DEF more
    <3>3. (Stored(s) \o more)[k] = more[k - s.len]
      BY <1>5, <3>1
    <3>4. w.data[s.len + (k - s.len) - 1] = bits[k - s.len]
      BY <1>2, <3>1
    <3>5. w.data[k - 1] = bits[k - s.len]
      BY <3>1, <3>4
    <3>6. QED
      BY <3>2, <3>3, <3>5, Zenon
  <2>3. k <= s.len \/ k > s.len
    <3>1. s.len \in Int /\ k \in Int
      BY <1>1
    <3>2. QED
      BY <3>1
  <2>4. QED
    BY <2>1, <2>2, <2>3
<1>7. Stored(s) \o more = [k \in 1 .. s.len + m |-> w.data[k - 1]]
  <2> DEFINE both == Stored(s) \o more
  <2>0. both \in Seq({0, 1}) /\ Len(both) = s.len + m
    BY <1>5, Zenon
  <2> HIDE DEF both
  <2>1. DOMAIN both = 1 .. s.len + m /\ both = [k \in DOMAIN both |-> both[k]]
    BY <2>0
  <2>2. \A k \in 1 .. s.len + m : both[k] = w.data[k - 1]
    BY <1>6 DEF both
  <2>3. both = [k \in 1 .. s.len + m |-> w.data[k - 1]]
    BY <2>1, <2>2
  <2>4. QED
    BY <2>3 DEF both
<1>8. QED
  BY <1>3, <1>7 DEF more

LEMMA WriteStrRuns ==
  ASSUME NEW s, NEW str, Len(str) \in Nat
  PROVE  \E written :
           /\ written = [k \in 0 .. Len(str) |->
                 IF k = 0 THEN s
                 ELSE Write(written[k - 1],
                            [p \in Positions(1) |-> IF p = 0 THEN str[k] ELSE 0], 1)]
           /\ WriteStr(s, str) = written[Len(str)]
<1> DEFINE Put1(t, k) == Write(t, [p \in Positions(1) |-> IF p = 0 THEN str[k] ELSE 0], 1)
           Upto(N, g) == g = [k \in 0 .. N |-> IF k = 0 THEN s ELSE Put1(g[k - 1], k)]
           Good == {N \in Nat : \E g : Upto(N, g)}
<1> HIDE DEF Put1
<1>1. 0 \in Good
  <2>1. Upto(0, [k \in 0 .. 0 |-> s])
    OBVIOUS
  <2>2. QED
    BY <2>1
<1>2. ASSUME NEW N \in Nat, N \in Good PROVE N + 1 \in Good
  <2>1. PICK g : Upto(N, g)
    BY <1>2
  <2> DEFINE h == [k \in 0 .. N + 1 |-> IF k <= N THEN g[k] ELSE Put1(g[k - 1], k)]
  <2>2. \A k \in 0 .. N + 1 : h[k] = IF k = 0 THEN s ELSE Put1(h[k - 1], k)
    <3> SUFFICES ASSUME NEW k \in 0 .. N + 1
                 PROVE  h[k] = IF k = 0 THEN s ELSE Put1(h[k - 1], k)
      OBVIOUS
    <3>1. k = 0 \/ (k - 1 \in 0 .. N /\ k - 1 \in 0 .. N + 1)
      OBVIOUS
    <3>2. k \in 0 .. N => g[k] = IF k = 0 THEN s ELSE Put1(g[k - 1], k)
      BY <2>1
    <3>3. k # 0 => h[k - 1] = g[k - 1]
      BY <3>1
    <3>4. QED
      BY <3>2, <3>3
  <2>3. Upto(N + 1, h)
    BY <2>2
  <2> HIDE DEF Upto
  <2>4. QED
    BY <2>3
<1>3. Good = Nat
  <2> HIDE DEF Good
  <2>1. Good \subseteq Nat
    BY DEF Good
  <2>2. QED
    BY <1>1, <1>2, <2>1, Induction
<1>4. \E g : Upto(Len(str), g)
  <2>1. Len(str) \in Good
    <3> HIDE DEF Good
    <3>1. QED
      BY <1>3
  <2> HIDE DEF Upto
  <2>2. QED
    BY <2>1
<1> DEFINE written == CHOOSE g : Upto(Len(str), g)
<1>5. Upto(Len(str), written)
  BY <1>4
<1>6. WriteStr(s, str) = written[Len(str)]
  BY DEF WriteStr, Put1
<1>7. QED
  BY <1>5, <1>6 DEF Put1

(* bitstream_write_str keeps the bits that fit.                            *)
LEMMA WriteStrFacts ==
  ASSUME NEW s \in StreamType, NEW str \in Seq({0, 1})
  PROVE  Grows(s, WriteStr(s, str), MIN(Len(str), Capacity - s.len), str)
<1>1. PICK written :
           /\ written = [k \in 0 .. Len(str) |->
                 IF k = 0 THEN s
                 ELSE Write(written[k - 1],
                            [p \in Positions(1) |-> IF p = 0 THEN str[k] ELSE 0], 1)]
           /\ WriteStr(s, str) = written[Len(str)]
  <2>1. Len(str) \in Nat
    OBVIOUS
  <2>2. QED
    BY <2>1, WriteStrRuns, Zenon
<1>2. /\ s.len \in Nat /\ s.len <= Capacity /\ Len(str) \in Nat /\ Capacity \in Nat
  BY StoredIs, StreamConstants
<1> DEFINE room == Capacity - s.len
           Good == {k \in Nat : k <= Len(str) => Grows(s, written[k], MIN(k, room), str)}
<1>3. room \in Nat
  BY <1>2
<1> HIDE DEF room
<1>4. 0 \in Good
  <2>1. written[0] = s /\ MIN(0, room) = 0
    BY <1>1, <1>2, <1>3 DEF MIN
  <2>2. Grows(s, s, 0, str)
    BY <1>2 DEF Grows
  <2>3. QED
    BY <2>1, <2>2
<1>5. ASSUME NEW k \in Nat, k \in Good PROVE k + 1 \in Good
  <2> SUFFICES ASSUME k + 1 <= Len(str)
               PROVE  Grows(s, written[k + 1], MIN(k + 1, room), str)
    OBVIOUS
  <2> DEFINE m == MIN(k, room)
             t == written[k]
             octet == [p \in Positions(1) |-> IF p = 0 THEN str[k + 1] ELSE 0]
             w == Write(t, octet, 1)
  <2>1. Grows(s, t, m, str)
    BY <1>2, <1>5
  <2>2. written[k + 1] = w
    <3>1. k + 1 \in 0 .. Len(str) /\ k + 1 # 0 /\ (k + 1) - 1 = k
      BY <1>2
    <3>2. QED
      BY <1>1, <3>1
  <2>3. octet \in Memory(1) /\ octet[0] = str[k + 1]
    <3>1. str[k + 1] \in {0, 1} /\ 0 \in Positions(1)
      BY <1>2, PositionsOf
    <3>2. QED
      BY <3>1 DEF Memory
  <2> HIDE DEF octet, t
  <2>4. /\ t \in StreamType /\ t.len = s.len + m /\ m \in Nat /\ t.pos_read = s.pos_read
        /\ \A p \in 0 .. s.len - 1 : t.data[p] = s.data[p]
        /\ \A j \in 1 .. m : t.data[s.len + j - 1] = str[j]
    BY <1>3, <2>1 DEF Grows, MIN
  <2>5. IF Capacity - t.len < 1 THEN w = t
        ELSE /\ w \in StreamType
             /\ w.len = t.len + 1 /\ w.pos_read = t.pos_read
             /\ \A p \in 0 .. t.len - 1 : w.data[p] = t.data[p]
             /\ \A j \in 1 .. 1 : w.data[t.len + j - 1] = octet[j - 1]
    BY <2>3, <2>4, WriteFacts
  <2> HIDE DEF w, m
  <2>6. CASE Capacity - t.len < 1
    <3>1. m = room /\ MIN(k + 1, room) = m
      BY <1>2, <1>3, <2>4, <2>6 DEF room, m, MIN
    <3>2. QED
      BY <2>1, <2>2, <2>5, <2>6, <3>1
  <2>7. CASE ~ (Capacity - t.len < 1)
    <3>1. m = k /\ MIN(k + 1, room) = k + 1
      BY <1>2, <1>3, <2>4, <2>7 DEF room, m, MIN
    <3>0. /\ w \in StreamType
          /\ w.len = t.len + 1 /\ w.pos_read = t.pos_read
          /\ \A p \in 0 .. t.len - 1 : w.data[p] = t.data[p]
      BY <2>5, <2>7, Zenon
    <3>2. /\ w \in StreamType /\ w.len = s.len + (k + 1) /\ w.pos_read = s.pos_read
      <4>1. s.len + m + 1 = s.len + (k + 1)
        BY <1>2, <3>1
      <4>2. QED
        BY <2>4, <3>0, <4>1, Zenon
    <3>3. \A p \in 0 .. s.len + k - 1 : w.data[p] = t.data[p]
      <4>1. t.len = s.len + k
        BY <2>4, <3>1
      <4>2. s.len + k - 1 = t.len - 1
        BY <1>2, <4>1
      <4>3. QED
        BY <3>0, <4>2, Zenon
    <3>4. w.data[s.len + k] = str[k + 1]
      <4>1. t.len + 1 - 1 = s.len + k /\ 1 - 1 = 0
        BY <1>2, <2>4, <3>1
      <4>2. w.data[t.len + 1 - 1] = octet[1 - 1]
        BY <2>5, <2>7
      <4>3. QED
        BY <2>3, <4>1, <4>2
    <3>5. \A p \in 0 .. s.len - 1 : w.data[p] = s.data[p]
      BY <1>2, <2>4, <3>3
    <3>6. \A j \in 1 .. k + 1 : w.data[s.len + j - 1] = str[j]
      <4> SUFFICES ASSUME NEW j \in 1 .. k + 1 PROVE w.data[s.len + j - 1] = str[j]
        OBVIOUS
      <4>1. CASE j = k + 1
        <5>1. s.len + j - 1 = s.len + k
          BY <1>2, <4>1
        <5>2. QED
          BY <3>4, <4>1, <5>1
      <4>2. CASE j # k + 1
        <5>1. j \in 1 .. m /\ s.len + j - 1 \in 0 .. s.len + k - 1
          BY <1>2, <3>1, <4>2
        <5>2. QED
          BY <2>4, <3>3, <5>1
      <4>3. QED
        BY <4>1, <4>2
    <3>7. Grows(s, w, k + 1, str)
      BY <3>2, <3>5, <3>6 DEF Grows
    <3>8. QED
      BY <2>2, <3>1, <3>7
  <2>8. QED
    BY <2>6, <2>7
<1>6. Good = Nat
  <2> HIDE DEF Good
  <2>1. Good \subseteq Nat
    BY DEF Good
  <2>2. QED
    BY <1>4, <1>5, <2>1, Induction
<1>7. Grows(s, written[Len(str)], MIN(Len(str), room), str)
  <2>1. Len(str) \in Good
    <3> HIDE DEF Good
    <3>1. QED
      BY <1>2, <1>6
  <2>2. QED
    BY <1>2, <2>1
<1>8. QED
  BY <1>1, <1>7 DEF room

(* bitstream_read takes as many bits as there are, up to count, and moves the*)
(* position by that many.                                                  *)
LEMMA ReadFacts ==
  ASSUME NEW s \in StreamType, s.pos_read <= s.len, NEW count \in Nat
  PROVE  LET n == MIN(count, s.len - s.pos_read)
             r == Read(s, count)
         IN  /\ n \in Nat /\ r.n = n
             /\ r.stream \in StreamType
             /\ r.stream.pos_read = s.pos_read + n
             /\ r.stream.data = s.data /\ r.stream.len = s.len
             /\ r.buf \in Memory(count)
             /\ \A p \in Positions(count) :
                  r.buf[p] = IF p < n THEN s.data[s.pos_read + p] ELSE 0
<1> DEFINE n == MIN(count, s.len - s.pos_read)
           zeros == [p \in Positions(count) |-> 0]
           buf == Copy(s.data, s.pos_read, zeros, 0, n)
           r == Read(s, count)
           P == Positions(count)
<1>1. /\ s.len \in Nat /\ s.len <= Capacity /\ s.pos_read \in Nat /\ s.pos_write = s.len
      /\ s.data \in [Positions(Capacity) -> {0, 1}]
      /\ \A p \in 0 .. s.len - 1 : s.data[p] \in {0, 1}
  BY StoredIs
<1>2. n \in Nat /\ n <= s.len - s.pos_read
  BY <1>1 DEF MIN
<1>3. HasBits(s.data, s.pos_read, n)
  <2> HIDE DEF n
  <2> SUFFICES ASSUME NEW p \in Nat, s.pos_read <= p, p < s.pos_read + n
               PROVE  s.data[p] \in {0, 1}
    BY DEF HasBits
  <2>1. p \in 0 .. s.len - 1
    BY <1>1, <1>2
  <2>2. QED
    BY <1>1, <2>1
<1>4. r = [n |-> n, buf |-> buf, stream |-> [s EXCEPT !.pos_read = @ + n]]
  BY DEF Read
<1> HIDE DEF n, r, buf
<1>5. P \subseteq Nat /\ zeros \in [P -> {0, 1}]
  BY PositionsOf
<1>6. /\ buf \in [P -> {0, 1}]
      /\ \A p \in P : buf[p] = IF p < n THEN s.data[s.pos_read + p] ELSE 0
  <2> HIDE DEF P, zeros
  <2>1. 0 \in Nat /\ s.pos_read \in Nat
    BY <1>1
  <2>2. /\ Copy(s.data, s.pos_read, zeros, 0, n) \in [P -> {0, 1}]
        /\ \A p \in P :
             /\ p < 0 => Copy(s.data, s.pos_read, zeros, 0, n)[p] = zeros[p]
             /\ 0 <= p /\ p < 0 + n =>
                  Copy(s.data, s.pos_read, zeros, 0, n)[p] = s.data[s.pos_read + p - 0]
             /\ 0 + n <= p => Copy(s.data, s.pos_read, zeros, 0, n)[p] \in {0, zeros[p]}
    BY <1>2, <1>3, <1>5, <2>1, CopyIsExact, Zenon
  <2>3. /\ buf \in [P -> {0, 1}]
        /\ \A p \in P :
             /\ 0 <= p /\ p < 0 + n => buf[p] = s.data[s.pos_read + p - 0]
             /\ 0 + n <= p => buf[p] \in {0, zeros[p]}
    BY <2>2, Zenon DEF buf
  <2>4. ASSUME NEW p \in P
        PROVE  buf[p] = IF p < n THEN s.data[s.pos_read + p] ELSE 0
    <3>1. p \in Nat /\ zeros[p] = 0
      BY <1>5 DEF zeros, P
    <3>2. s.pos_read + p - 0 = s.pos_read + p /\ 0 + n = n /\ 0 <= p
      BY <1>1, <1>2, <3>1
    <3>3. p < n => buf[p] = s.data[s.pos_read + p]
      BY <2>3, <3>2
    <3>4. ~ (p < n) => buf[p] = 0
      <4>1. ~ (p < n) => 0 + n <= p
        BY <1>2, <3>1
      <4>2. QED
        BY <2>3, <3>1, <4>1
    <3>5. QED
      BY <3>3, <3>4
  <2>5. QED
    BY <2>3, <2>4
<1>7. /\ r.n = n /\ r.buf = buf /\ r.stream = [s EXCEPT !.pos_read = @ + n]
  BY <1>4
<1>8. /\ r.stream \in StreamType /\ r.stream.pos_read = s.pos_read + n
      /\ r.stream.data = s.data /\ r.stream.len = s.len
  BY <1>1, <1>2, <1>7 DEF StreamType
<1>9. QED
  BY <1>2, <1>6, <1>7, <1>8 DEF Memory, n, r
-----------------------------------------------------------------------------
(* The stream and its passes.                                              *)
StreamTypeOK ==
  /\ stream \in StreamType
  /\ given \in Seq({0, 1}) /\ failed \in BOOLEAN
  /\ m_exp \in 1 .. MaxSymbol
  /\ sent \in Seq(Memory(m_exp))
  /\ phase \in {"fill", "send", "sent"}

(* The symbols of the pass so far are the stream from its beginning to the *)
(* position of the next read.                                              *)
SentSoFar ==
  /\ stream.pos_read = MIN(Len(sent) * m_exp, stream.len)
  /\ Len(sent) > 0 => (Len(sent) - 1) * m_exp < stream.len
  /\ phase = "fill" => sent = <<>>
  /\ phase = "sent" => stream.pos_read = stream.len
  /\ \A j \in 1 .. Len(sent) : \A p \in 0 .. m_exp - 1 :
       sent[j][p] = IF (j - 1) * m_exp + p < stream.len
                    THEN stream.data[(j - 1) * m_exp + p] ELSE 0

StreamInv == StreamTypeOK /\ SentSoFar

LEMMA InitStreamInv == StreamInit => StreamInv
<1> SUFFICES ASSUME StreamInit PROVE StreamInv
  OBVIOUS
<1>1. stream = [data |-> [p \in Positions(Capacity) |-> 0],
                len |-> 0, pos_read |-> 0, pos_write |-> 0]
      /\ sent = <<>> /\ phase = "fill" /\ given = <<>> /\ failed = FALSE
      /\ m_exp \in 1 .. MaxSymbol
  BY DEF StreamInit
<1>2. stream \in StreamType
  BY <1>1, StreamConstants DEF StreamType, Memory
<1>3. StreamTypeOK
  <2>1. sent \in Seq(Memory(m_exp)) /\ given \in Seq({0, 1})
    BY <1>1
  <2>2. failed \in BOOLEAN /\ phase \in {"fill", "send", "sent"}
    BY <1>1
  <2>3. QED
    BY <1>1, <1>2, <2>1, <2>2, Zenon DEF StreamTypeOK
<1>4. Len(sent) = 0 /\ 0 * m_exp = 0 /\ stream.pos_read = 0 /\ stream.len = 0
  BY <1>1, StreamConstants
<1>5. SentSoFar
  BY <1>1, <1>4 DEF SentSoFar, MIN
<1>6. QED
  BY <1>3, <1>5 DEF StreamInv

(* What AppendBits and AppendString do.                                    *)
LEMMA AppendBitsGrows ==
  ASSUME StreamInv, AppendBits
  PROVE  \/ failed' = FALSE /\ given' \in Seq({0, 1})
            /\ Grows(stream, stream', Len(given'), given')
         \/ failed' = TRUE /\ given' \in Seq({0, 1}) /\ stream' = stream
<1>0. PICK n \in 0 .. MaxWrite : \E src \in Memory(n) :
        /\ stream' = Write(stream, src, n)
        /\ given' = Bits(src, 0, n)
        /\ failed' = Refused(stream, n)
  BY DEF AppendBits
<1>1. PICK src \in Memory(n) :
        /\ stream' = Write(stream, src, n)
        /\ given' = Bits(src, 0, n)
        /\ failed' = Refused(stream, n)
  BY <1>0
<1>2. n \in Nat /\ stream \in StreamType
  BY StreamConstants DEF StreamInv, StreamTypeOK
<1>3. stream.len \in Nat /\ stream.pos_write = stream.len
  BY <1>2, StoredIs
<1>4. /\ Bits(src, 0, n) \in Seq({0, 1}) /\ Len(Bits(src, 0, n)) = n
      /\ \A j \in 1 .. n : Bits(src, 0, n)[j] = src[j - 1]
  <2>1. Bits(src, 0, n) = [k \in 1 .. n |-> src[k - 1]]
    <3>1. 1 .. n - 0 = 1 .. n
      BY <1>2
    <3>2. Bits(src, 0, n) = [k \in 1 .. n |-> src[0 + k - 1]]
      BY <3>1 DEF Bits
    <3>3. \A k \in 1 .. n : 0 + k - 1 = k - 1
      BY <1>2
    <3>4. QED
      BY <3>2, <3>3
  <2>2. \A k \in 1 .. n : src[k - 1] \in {0, 1}
    <3>1. \A p \in 0 .. n - 1 : src[p] \in {0, 1}
      BY <1>2, PositionsOf DEF Memory
    <3>2. QED
      BY <1>2, <3>1
  <2>3. QED
    BY <1>2, <2>1, <2>2
<1>5. CASE Capacity - stream.len < n
  <2>1. Refused(stream, n) = TRUE
    BY <1>3, <1>5 DEF Refused, NoRoom, Overfull
  <2>2. stream' = stream
    BY <1>1, <1>2, <1>5, WriteFacts
  <2>3. QED
    BY <1>1, <1>4, <2>1, <2>2
<1>6. CASE ~ (Capacity - stream.len < n)
  <2>1. Refused(stream, n) = FALSE
    BY <1>2, <1>3, <1>6, StreamConstants DEF Refused, NoRoom, Overfull
  <2> DEFINE w == Write(stream, src, n)
  <2>2. /\ w \in StreamType
        /\ w.len = stream.len + n /\ w.pos_read = stream.pos_read
        /\ \A p \in 0 .. stream.len - 1 : w.data[p] = stream.data[p]
        /\ \A j \in 1 .. n : w.data[stream.len + j - 1] = src[j - 1]
    BY <1>2, <1>6, WriteFacts
  <2> HIDE DEF w
  <2>3. Grows(stream, w, n, Bits(src, 0, n))
    BY <1>4, <2>2 DEF Grows
  <2>4. QED
    BY <1>1, <1>4, <2>1, <2>3 DEF w
<1>7. QED
  BY <1>5, <1>6

LEMMA AppendStringGrows ==
  ASSUME StreamInv, AppendString
  PROVE  /\ given' \in Seq({0, 1}) /\ Len(given') > 0
         /\ failed' = (Len(given') > Capacity - stream.len)
         /\ Grows(stream, stream', MIN(Len(given'), Capacity - stream.len), given')
<1>0. PICK n \in 1 .. MaxWrite : \E str \in [1 .. n -> {0, 1}] :
        /\ stream' = WriteStr(stream, str)
        /\ given' = str
        /\ failed' = (n > Capacity - stream.pos_write)
  BY DEF AppendString
<1>1. PICK str \in [1 .. n -> {0, 1}] :
        /\ stream' = WriteStr(stream, str)
        /\ given' = str
        /\ failed' = (n > Capacity - stream.pos_write)
  BY <1>0
<1>2. n \in Nat /\ n > 0 /\ stream \in StreamType
  BY StreamConstants DEF StreamInv, StreamTypeOK
<1>3. stream.pos_write = stream.len
  BY <1>2, StoredIs
<1>4. str \in Seq({0, 1}) /\ Len(str) = n
  BY <1>2
<1>5. Grows(stream, WriteStr(stream, str), MIN(Len(str), Capacity - stream.len), str)
  BY <1>2, <1>4, WriteStrFacts
<1>6. QED
  BY <1>1, <1>2, <1>3, <1>4, <1>5

(* While the stream is filled, nothing has been sent.                      *)
LEMMA GrowsKeeps ==
  ASSUME StreamInv, NEW more \in Nat, NEW bits, Grows(stream, stream', more, bits),
         phase = "fill", UNCHANGED <<m_exp, sent, phase>>,
         given' \in Seq({0, 1}), failed' \in BOOLEAN
  PROVE  StreamInv'
<1>1. stream' \in StreamType /\ stream'.len = stream.len + more
      /\ stream'.pos_read = stream.pos_read
  BY DEF Grows
<1>2. sent = <<>> /\ Len(sent) = 0 /\ m_exp \in Nat /\ 0 * m_exp = 0 /\ stream.len \in Nat
      /\ stream'.len \in Nat
  BY <1>1, StreamConstants, StoredIs DEF StreamInv, StreamTypeOK, SentSoFar
<1>3. stream.pos_read = 0
  BY <1>2 DEF StreamInv, SentSoFar, MIN
<1>4. StreamTypeOK'
  BY <1>1 DEF StreamInv, StreamTypeOK
<1>5. SentSoFar'
  BY <1>1, <1>2, <1>3 DEF SentSoFar, MIN
<1>6. QED
  BY <1>4, <1>5 DEF StreamInv

LEMMA BeginPassKeeps ==
  ASSUME StreamInv, BeginPass
  PROVE  StreamInv'
<1>1. stream \in StreamType /\ m_exp \in Nat /\ m_exp \in 1 .. MaxSymbol
  BY StreamConstants DEF StreamInv, StreamTypeOK
<1>2. stream.len \in Nat
  BY <1>1, StoredIs
<1>3. /\ stream' = [stream EXCEPT !.pos_read = 0]
      /\ sent' = <<>> /\ phase' = "send" /\ given' = <<>> /\ failed' = FALSE /\ m_exp' = m_exp
  BY <1>2 DEF BeginPass, Seek, MIN
<1>4. stream' \in StreamType /\ stream'.pos_read = 0 /\ stream'.len = stream.len
  BY <1>1, <1>3 DEF StreamType
<1>5. StreamTypeOK'
  <2>1. sent' \in Seq(Memory(m_exp')) /\ given' \in Seq({0, 1})
    BY <1>3
  <2>2. failed' \in BOOLEAN /\ phase' \in {"fill", "send", "sent"}
    BY <1>3
  <2>3. QED
    BY <1>1, <1>3, <1>4, <2>1, <2>2, Zenon DEF StreamTypeOK
<1>6. Len(sent') = 0 /\ 0 * m_exp' = 0
  BY <1>1, <1>3
<1>7. SentSoFar'
  BY <1>2, <1>3, <1>4, <1>6 DEF SentSoFar, MIN
<1>8. QED
  BY <1>5, <1>7 DEF StreamInv

LEMMA Times ==
  ASSUME NEW k \in Nat, NEW m \in Nat
  PROVE  k * m \in Nat /\ (k + 1) * m = k * m + m /\ (k + 1) - 1 = k
OBVIOUS

LEMMA SendSymbolKeeps ==
  ASSUME StreamInv, SendSymbol
  PROVE  StreamInv'
<1> DEFINE s == stream
           r == Read(stream, m_exp)
           n == MIN(m_exp, s.len - s.pos_read)
           k == Len(sent)
           m == m_exp
<1>1. /\ s \in StreamType /\ m \in Nat /\ m > 0 /\ k \in Nat
      /\ sent \in Seq(Memory(m)) /\ given \in Seq({0, 1}) /\ failed \in BOOLEAN
      /\ m \in 1 .. MaxSymbol
  BY StreamConstants DEF StreamInv, StreamTypeOK
<1>2. s.len \in Nat /\ s.pos_read \in Nat
  BY <1>1, StoredIs
<1>3. /\ s.pos_read = MIN(k * m, s.len)
      /\ k > 0 => (k - 1) * m < s.len
      /\ \A j \in 1 .. k : \A p \in 0 .. m - 1 :
           sent[j][p] = IF (j - 1) * m + p < s.len THEN s.data[(j - 1) * m + p] ELSE 0
  BY DEF StreamInv, SentSoFar
<1>4. k * m \in Nat /\ (k + 1) * m = k * m + m
  BY <1>1, Times
<1> HIDE DEF s, k, m
<1>5. s.pos_read <= s.len
  BY <1>2, <1>3, <1>4 DEF MIN
<1>6. /\ phase = "send" /\ stream' = r.stream /\ given' = given /\ failed' = failed /\ m' = m
      /\ IF r.n = 0 THEN phase' = "sent" /\ sent' = sent
                    ELSE sent' = Append(sent, r.buf) /\ phase' = phase
  BY DEF SendSymbol, m
<1>7. /\ n \in Nat /\ r.n = n
      /\ r.stream \in StreamType
      /\ r.stream.pos_read = s.pos_read + n
      /\ r.stream.data = s.data /\ r.stream.len = s.len
      /\ r.buf \in Memory(m)
      /\ \A p \in Positions(m) : r.buf[p] = IF p < n THEN s.data[s.pos_read + p] ELSE 0
  BY <1>1, <1>5, ReadFacts DEF s, m
<1>8. n = MIN(m, s.len - s.pos_read)
  BY DEF n, m
<1> HIDE DEF n, r
<1>9. CASE n = 0
  <2>1. s.pos_read = s.len
    BY <1>1, <1>2, <1>5, <1>8, <1>9 DEF MIN
  <2>2. /\ stream'.pos_read = s.pos_read /\ stream'.data = s.data /\ stream'.len = s.len
        /\ phase' = "sent" /\ sent' = sent
    BY <1>2, <1>6, <1>7, <1>9
  <2>3. StreamTypeOK'
    <3>1. stream' \in StreamType
      BY <1>6, <1>7
    <3>2. m_exp' = m_exp
      BY <1>6 DEF m
    <3>3. QED
      BY <1>1, <1>6, <2>2, <3>1, <3>2 DEF StreamTypeOK, m
  <2>4. SentSoFar'
    <3>1. m_exp' = m_exp
      BY <1>6 DEF m
    <3>2. QED
      BY <1>3, <2>1, <2>2, <3>1 DEF SentSoFar, s, k, m
  <2>5. QED
    BY <2>3, <2>4 DEF StreamInv
<1>10. CASE n # 0
  <2>1. s.pos_read = k * m /\ k * m < s.len
    BY <1>1, <1>2, <1>3, <1>4, <1>8, <1>10 DEF MIN
  <2>2. /\ stream'.data = s.data /\ stream'.len = s.len
        /\ stream'.pos_read = k * m + n
        /\ phase' = "send" /\ sent' = Append(sent, r.buf)
    BY <1>6, <1>7, <1>10, <2>1
  <2>3. /\ sent' \in Seq(Memory(m)) /\ Len(sent') = k + 1
        /\ \A j \in 1 .. k : sent'[j] = sent[j]
        /\ sent'[k + 1] = r.buf
    BY <1>1, <1>7, <2>2 DEF k
  <2>4. m_exp' = m_exp
    BY <1>6 DEF m
  <2>5. StreamTypeOK'
    <3>1. stream' \in StreamType
      BY <1>6, <1>7
    <3>2. sent' \in Seq(Memory(m_exp'))
      BY <2>3, <2>4 DEF m
    <3>3. QED
      BY <1>1, <1>6, <2>2, <2>4, <3>1, <3>2 DEF StreamTypeOK, m
  <2>6. k * m + n = MIN((k + 1) * m, s.len)
    <3> DEFINE x == k * m
    <3>1. x \in Nat /\ (k + 1) * m = x + m /\ x < s.len /\ n = MIN(m, s.len - x)
      BY <1>4, <1>8, <2>1
    <3> HIDE DEF x
    <3>2. x + n = MIN(x + m, s.len)
      BY <1>1, <1>2, <3>1 DEF MIN
    <3>3. QED
      BY <3>1, <3>2 DEF x
  <2>7. \A j \in 1 .. k + 1 : \A p \in 0 .. m - 1 :
          sent'[j][p] = IF (j - 1) * m + p < s.len THEN s.data[(j - 1) * m + p] ELSE 0
    <3> SUFFICES ASSUME NEW j \in 1 .. k + 1, NEW p \in 0 .. m - 1
                 PROVE  sent'[j][p] = IF (j - 1) * m + p < s.len
                                      THEN s.data[(j - 1) * m + p] ELSE 0
      OBVIOUS
    <3>1. CASE j # k + 1
      <4>1. j \in 1 .. k
        BY <1>1, <3>1
      <4>2. QED
        BY <1>3, <2>3, <4>1
    <3>2. CASE j = k + 1
      <4>1. p \in Positions(m) /\ p \in Nat
        BY <1>1, PositionsOf
      <4>2. sent'[j][p] = IF p < n THEN s.data[k * m + p] ELSE 0
        BY <1>7, <2>1, <2>3, <3>2, <4>1
      <4>3. p < n <=> k * m + p < s.len
        BY <1>1, <1>2, <1>4, <1>8, <2>1, <4>1 DEF MIN
      <4>4. (j - 1) * m = k * m
        BY <1>1, <3>2, Times
      <4>5. QED
        BY <4>2, <4>3, <4>4
    <3>3. QED
      BY <3>1, <3>2
  <2>8. (k + 1) - 1 = k
    BY <1>1
  <2>9. SentSoFar'
    <3>1. Len(sent') = k + 1 /\ m_exp' = m /\ stream'.len = s.len /\ stream'.data = s.data
      BY <2>2, <2>3, <2>4 DEF m
    <3>2. stream'.pos_read = MIN((k + 1) * m, s.len)
      BY <2>2, <2>6
    <3>3. (Len(sent') - 1) * m_exp' < stream'.len
      BY <2>1, <2>8, <3>1
    <3>4. phase' # "fill" /\ phase' # "sent"
      BY <2>2
    <3>5. QED
      BY <2>7, <3>1, <3>2, <3>3, <3>4 DEF SentSoFar
  <2>10. QED
    BY <2>5, <2>9 DEF StreamInv
<1>11. QED
  BY <1>9, <1>10

LEMMA StepStreamInv == StreamInv /\ [StreamNext]_streamVars => StreamInv'
<1> SUFFICES ASSUME StreamInv, [StreamNext]_streamVars PROVE StreamInv'
  OBVIOUS
<1>1. CASE AppendBits
  <2>1. phase = "fill" /\ UNCHANGED <<m_exp, sent, phase>>
    BY <1>1 DEF AppendBits
  <2>2. CASE failed' = FALSE /\ given' \in Seq({0, 1})
             /\ Grows(stream, stream', Len(given'), given')
    <3>1. Len(given') \in Nat
      BY <2>2
    <3>2. failed' \in BOOLEAN
      BY <2>2, Zenon
    <3>3. QED
      BY <2>1, <2>2, <3>1, <3>2, GrowsKeeps
  <2>3. CASE failed' = TRUE /\ given' \in Seq({0, 1}) /\ stream' = stream
    <3>1. StreamTypeOK'
      BY <2>1, <2>3 DEF StreamInv, StreamTypeOK
    <3>2. SentSoFar'
      BY <2>1, <2>3 DEF StreamInv, SentSoFar
    <3>3. QED
      BY <3>1, <3>2 DEF StreamInv
  <2>4. QED
    BY <1>1, <2>2, <2>3, AppendBitsGrows
<1>2. CASE AppendString
  <2>1. phase = "fill" /\ UNCHANGED <<m_exp, sent, phase>>
    BY <1>2 DEF AppendString
  <2>2. /\ given' \in Seq({0, 1}) /\ failed' \in BOOLEAN
        /\ Grows(stream, stream', MIN(Len(given'), Capacity - stream.len), given')
    BY <1>2, AppendStringGrows
  <2>3. MIN(Len(given'), Capacity - stream.len) \in Nat
    BY <2>2, StoredIs, StreamConstants DEF StreamInv, StreamTypeOK, MIN
  <2>4. QED
    BY <2>1, <2>2, <2>3, GrowsKeeps
<1>3. CASE BeginPass
  BY <1>3, BeginPassKeeps
<1>4. CASE SendSymbol
  BY <1>4, SendSymbolKeeps
<1>5. CASE UNCHANGED streamVars
  <2>1. StreamTypeOK'
    BY <1>5 DEF StreamInv, StreamTypeOK, streamVars
  <2>2. SentSoFar'
    BY <1>5 DEF StreamInv, SentSoFar, streamVars
  <2>3. QED
    BY <2>1, <2>2 DEF StreamInv
<1>6. QED
  BY <1>1, <1>2, <1>3, <1>4, <1>5 DEF StreamNext

LEMMA StreamInvariant == StreamSpec => []StreamInv
<1>1. QED
  BY InitStreamInv, StepStreamInv, PTL DEF StreamSpec

(* The positions of the stream stay within its length, and that within its *)
(* capacity: no difference of bitwise_copy wraps, and the check after the  *)
(* copy in bitstream_write never undoes one.                               *)
THEOREM PositionsInBounds == StreamSpec => []InBounds
<1>1. StreamInv => InBounds
  <2> SUFFICES ASSUME StreamInv PROVE InBounds
    OBVIOUS
  <2>1. /\ stream.len \in Nat /\ stream.len <= Capacity /\ stream.pos_write = stream.len
    BY StoredIs DEF StreamInv, StreamTypeOK
  <2>2. Len(sent) * m_exp \in Nat
    BY Times, StreamConstants DEF StreamInv, StreamTypeOK
  <2>3. stream.pos_read = MIN(Len(sent) * m_exp, stream.len)
    BY DEF StreamInv, SentSoFar
  <2>4. stream.pos_read <= stream.len
    BY <2>1, <2>2, <2>3 DEF MIN
  <2>5. QED
    BY <2>1, <2>4 DEF InBounds
<1>2. QED
  BY <1>1, StreamInvariant, PTL

(* Writes append what they are given, or, refused, nothing or what fits, at*)
(* any position in an octet; what was in the stream stays.                 *)
THEOREM WritesAppend == StreamSpec => AppendsBits
<1> DEFINE Step == phase = "fill" /\ phase' = "fill" =>
       Stored(stream') =
         Stored(stream) \o
           (IF ~failed' THEN given'
            ELSE IF stream'.len = stream.len THEN <<>>
            ELSE SubSeq(given', 1, Capacity - stream.len))
<1>1. ASSUME StreamInv, StreamNext PROVE Step
  <2> SUFFICES ASSUME phase = "fill", phase' = "fill"
               PROVE  Stored(stream') =
                        Stored(stream) \o
                          (IF ~failed' THEN given'
                           ELSE IF stream'.len = stream.len THEN <<>>
                           ELSE SubSeq(given', 1, Capacity - stream.len))
    OBVIOUS
  <2>1. stream \in StreamType
    BY <1>1 DEF StreamInv, StreamTypeOK
  <2>2. /\ stream.len \in Nat /\ stream.len <= Capacity /\ Capacity \in Nat
        /\ Stored(stream) \in Seq({0, 1})
    BY <2>1, StoredIs, StreamConstants
  <2>3. Stored(stream) \o <<>> = Stored(stream)
    BY <2>2
  <2>4. CASE AppendBits
    <3>1. CASE failed' = FALSE /\ given' \in Seq({0, 1})
               /\ Grows(stream, stream', Len(given'), given')
      <4>1. Len(given') \in Nat /\ SubSeq(given', 1, Len(given')) = given'
        BY <3>1
      <4>2. Stored(stream') = Stored(stream) \o SubSeq(given', 1, Len(given'))
        BY <2>1, <3>1, <4>1, StoredGrows
      <4>3. QED
        BY <3>1, <4>1, <4>2
    <3>2. CASE failed' = TRUE /\ given' \in Seq({0, 1}) /\ stream' = stream
      BY <2>3, <3>2
    <3>3. QED
      BY <1>1, <2>4, <3>1, <3>2, AppendBitsGrows
  <2>5. CASE AppendString
    <3> DEFINE room == Capacity - stream.len
               more == MIN(Len(given'), room)
    <3>1. /\ given' \in Seq({0, 1}) /\ Len(given') > 0 /\ Len(given') \in Nat
          /\ failed' = (Len(given') > room)
          /\ Grows(stream, stream', more, given')
      BY <1>1, <2>5, AppendStringGrows
    <3>2. room \in Nat
      BY <2>2
    <3> HIDE DEF room
    <3>3. more \in Nat /\ more <= Len(given')
      BY <3>1, <3>2 DEF MIN
    <3>4. stream'.len = stream.len + more
      BY <3>1 DEF Grows
    <3>5. Stored(stream') = Stored(stream) \o SubSeq(given', 1, more)
      BY <2>1, <3>1, <3>3, StoredGrows
    <3>6. CASE ~ (Len(given') > room)
      <4>1. more = Len(given') /\ SubSeq(given', 1, Len(given')) = given'
        BY <3>1, <3>2, <3>6 DEF MIN
      <4>2. ~ failed'
        BY <3>1, <3>6, Zenon
      <4>3. QED
        BY <3>5, <4>1, <4>2, Zenon
    <3>7. CASE Len(given') > room
      <4>0. failed'
        BY <3>1, <3>7, Zenon
      <4>1. more = room
        BY <3>1, <3>2, <3>7 DEF MIN
      <4>2. CASE room = 0
        <5>1. stream'.len = stream.len /\ SubSeq(given', 1, 0) = <<>>
          BY <2>2, <3>1, <3>4, <4>1, <4>2
        <5>2. QED
          BY <3>5, <4>0, <4>1, <4>2, <5>1, Zenon
      <4>3. CASE room # 0
        <5>1. stream'.len # stream.len
          BY <2>2, <3>2, <3>4, <4>1, <4>3
        <5>2. QED
          BY <3>5, <4>0, <4>1, <5>1, Zenon DEF room
      <4>4. QED
        BY <4>2, <4>3
    <3>8. QED
      BY <3>6, <3>7
  <2>6. CASE BeginPass \/ SendSymbol
    BY <2>6 DEF BeginPass, SendSymbol
  <2>7. QED
    BY <1>1, <2>4, <2>5, <2>6 DEF StreamNext
<1>2. StreamInv /\ [StreamNext]_streamVars => [Step]_streamVars
  BY <1>1
<1> HIDE DEF Step
<1>3. StreamSpec => [][Step]_streamVars
  BY <1>2, StreamInvariant, PTL DEF StreamSpec
<1>4. QED
  BY <1>3 DEF Step, AppendsBits

(* In every pass the modulator's symbols are the whole stream, m_exp bits at*)
(* a time, the last of them filled up with zeros.                          *)
THEOREM EveryPassSendsTheStream == StreamSpec => []SentIsStored
<1>1. StreamInv => SentIsStored
  <2> SUFFICES ASSUME StreamInv PROVE SentIsStored
    OBVIOUS
  <2> DEFINE k == Len(sent)
             m == m_exp
             l == stream.len
  <2>1. /\ stream \in StreamType /\ m \in Nat /\ m > 0 /\ k \in Nat
        /\ sent \in Seq(Memory(m))
    BY StreamConstants DEF StreamInv, StreamTypeOK
  <2>2. l \in Nat /\ Stored(stream) = [b \in 1 .. l |-> stream.data[b - 1]]
    BY <2>1, StoredIs
  <2>3. /\ stream.pos_read = MIN(k * m, l)
        /\ k > 0 => (k - 1) * m < l
        /\ phase = "sent" => stream.pos_read = l
        /\ \A j \in 1 .. k : \A p \in 0 .. m - 1 :
             sent[j][p] = IF (j - 1) * m + p < l THEN stream.data[(j - 1) * m + p] ELSE 0
    BY DEF StreamInv, SentSoFar
  <2> HIDE DEF k, m, l
  <2>4. ASSUME NEW j \in 1 .. k, NEW e \in 1 .. m
        PROVE  Bits(sent[j], 0, m)[e] =
                 IF (j - 1) * m + e <= l THEN Stored(stream)[(j - 1) * m + e] ELSE 0
    <3>1. j - 1 \in Nat /\ (j - 1) * m \in Nat /\ e - 1 \in 0 .. m - 1 /\ e \in Nat
      BY <2>1, Times
    <3> DEFINE q == (j - 1) * m
    <3> HIDE DEF q
    <3>2. q \in Nat
      BY <3>1 DEF q
    <3>3. Bits(sent[j], 0, m)[e] = sent[j][e - 1]
      <4>1. e \in 1 .. m - 0 /\ 0 + e - 1 = e - 1
        BY <2>1, <3>1
      <4>2. QED
        BY <4>1 DEF Bits
    <3>4. sent[j][e - 1] = IF q + (e - 1) < l THEN stream.data[q + (e - 1)] ELSE 0
      BY <2>3, <3>1 DEF q
    <3>5. q + (e - 1) < l <=> q + e <= l
      BY <2>2, <3>1, <3>2
    <3>6. q + e <= l => Stored(stream)[q + e] = stream.data[q + (e - 1)]
      <4>1. q + e <= l => q + e \in 1 .. l
        BY <2>2, <3>1, <3>2
      <4>2. (q + e) - 1 = q + (e - 1)
        BY <3>1, <3>2
      <4>3. QED
        BY <2>2, <4>1, <4>2
    <3>7. QED
      BY <3>3, <3>4, <3>5, <3>6 DEF q
  <2>5. ASSUME phase = "sent" PROVE k = (l + m - 1) \div m
    <3>1. k * m \in Nat /\ l <= k * m
      <4>1. k * m \in Nat
        BY <2>1, Times
      <4>2. QED
        BY <2>2, <2>3, <2>5, <4>1 DEF MIN
    <3>2. m * k = k * m
      BY <2>1
    <3>3. k * m <= l + m - 1
      <4>1. CASE k = 0
        <5>1. k * m = 0
          BY <2>1, <4>1
        <5>2. QED
          BY <2>1, <2>2, <5>1
      <4>2. CASE k > 0
        <5>1. k - 1 \in Nat /\ (k - 1) + 1 = k
          BY <2>1, <4>2
        <5>2. (k - 1) * m \in Nat /\ ((k - 1) + 1) * m = (k - 1) * m + m
          BY <2>1, <5>1, Times
        <5>3. (k - 1) * m < l /\ k * m = (k - 1) * m + m
          BY <2>3, <4>2, <5>1, <5>2
        <5> DEFINE x == (k - 1) * m
        <5> HIDE DEF x
        <5>4. x \in Nat /\ x < l /\ k * m = x + m
          BY <5>2, <5>3 DEF x
        <5>5. QED
          BY <2>1, <2>2, <5>4
      <4>3. QED
        BY <2>1, <4>1, <4>2
    <3> DEFINE a == l + m - 1
    <3>4. a \in Nat /\ m * k <= a /\ a < m * k + m
      BY <2>1, <2>2, <3>1, <3>2, <3>3
    <3> HIDE DEF a
    <3>5. a \div m = k
      BY <2>1, <3>4, Quotient
    <3>6. QED
      BY <3>5 DEF a
  <2>6. QED
    BY <2>4, <2>5 DEF SentIsStored, k, m, l
<1>2. QED
  BY <1>1, StreamInvariant, PTL
=============================================================================
