---------------------------- MODULE PsplayProofs ----------------------------
(***************************************************************************)
(* Proofs about Psplay, for command lines of any length and arrays of any  *)
(* size.  That every symbol has a tone rests on the arithmetic of IS_POT   *)
(* and log2_int: of a number of which x & (x - 1) leaves nothing, log2_int *)
(* finds the exponent.  They are recursive functions here, and what is     *)
(* said of all numbers is proved by induction over sets of numbers.        *)
(***************************************************************************)
EXTENDS Psplay, WellFoundedInduction, TLAPS

LEMMA LessIsWellFounded == IsWellFoundedOn({ss \in Nat \X Nat : ss[1] < ss[2]}, Nat)
<1>1. IsWellFoundedOn(OpToRel(<, Nat), Nat)
  BY NatLessThanWellFounded, Zenon
<1>2. QED
  BY <1>1, Zenon DEF OpToRel

LEMMA Induction ==
  ASSUME NEW S, S \subseteq Nat, 0 \in S,
         \A n \in Nat : n \in S => n + 1 \in S
  PROVE  S = Nat
<1> SUFFICES ASSUME Nat \ S # {} PROVE FALSE
  OBVIOUS
<1>1. PICK x \in Nat \ S :
        \A y \in Nat \ S : ~ (<<y, x>> \in {ss \in Nat \X Nat : ss[1] < ss[2]})
  BY WFMin, LessIsWellFounded, Zenon
<1>2. x # 0 /\ x - 1 \in Nat /\ x - 1 < x
  OBVIOUS
<1>3. x - 1 \in S
  BY <1>1, <1>2
<1>4. QED
  BY <1>2, <1>3

(* The same from each number to its double and the one after that.         *)
LEMMA BinaryInduction ==
  ASSUME NEW S, S \subseteq Nat, 0 \in S,
         \A n \in Nat \ {0} : n \div 2 \in S => n \in S
  PROVE  S = Nat
<1> SUFFICES ASSUME Nat \ S # {} PROVE FALSE
  OBVIOUS
<1>1. PICK x \in Nat \ S :
        \A y \in Nat \ S : ~ (<<y, x>> \in {ss \in Nat \X Nat : ss[1] < ss[2]})
  BY WFMin, LessIsWellFounded, Zenon
<1>2. x # 0 /\ x \div 2 \in Nat /\ x \div 2 < x
  OBVIOUS
<1>3. x \div 2 \in S
  BY <1>1, <1>2
<1>4. QED
  BY <1>2, <1>3

LEMMA SizesAreNumbers ==
  /\ MAX_FREQ_SIZE \in Nat /\ MAX_FREQ_SIZE >= 2
  /\ Sizes \subseteq Nat /\ 0 \in Sizes /\ 1 \in Sizes
  /\ \A x \in Nat : x \div 2 \in Nat /\ x \div 2 <= x
                    /\ x % 2 \in {0, 1} /\ x = 2 * (x \div 2) + (x % 2)
  /\ \A x \in Sizes : x \div 2 \in Sizes
<1>1. MAX_FREQ_SIZE \in Nat /\ MAX_FREQ_SIZE >= 2
  BY PsplayAssumption
<1>2. \A x \in Nat : x \div 2 \in Nat /\ x \div 2 <= x
                     /\ x % 2 \in {0, 1} /\ x = 2 * (x \div 2) + (x % 2)
  OBVIOUS
<1>3. QED
  BY <1>1, <1>2 DEF Sizes

(* The recursive functions are what their definitions say.                 *)
LEMMA Log2Def ==
  \A x \in Sizes : log2_int[x] = IF x \div 2 = 0 THEN 0 ELSE log2_int[x \div 2] + 1
<1> DEFINE Upto(n, f) ==
             f = [x \in 0 .. n |-> IF x \div 2 = 0 THEN 0 ELSE f[x \div 2] + 1]
           Good == {n \in Nat : \E f : Upto(n, f)}
<1>1. 0 \in Good
  <2>1. Upto(0, [x \in 0 .. 0 |-> 0])
    OBVIOUS
  <2>2. QED
    BY <2>1
<1>2. ASSUME NEW n \in Nat, n \in Good PROVE n + 1 \in Good
  <2>1. PICK f : Upto(n, f)
    BY <1>2
  <2> DEFINE g == [x \in 0 .. n + 1 |->
                     IF x <= n THEN f[x]
                     ELSE IF x \div 2 = 0 THEN 0 ELSE f[x \div 2] + 1]
  <2>2. \A x \in 0 .. n + 1 : g[x] = IF x \div 2 = 0 THEN 0 ELSE g[x \div 2] + 1
    <3> SUFFICES ASSUME NEW x \in 0 .. n + 1
                 PROVE  g[x] = IF x \div 2 = 0 THEN 0 ELSE g[x \div 2] + 1
      OBVIOUS
    <3>1. x \div 2 = 0 \/ (x \div 2 \in 0 .. n /\ x \div 2 \in 0 .. n + 1)
      OBVIOUS
    <3>2. x \in 0 .. n => f[x] = IF x \div 2 = 0 THEN 0 ELSE f[x \div 2] + 1
      BY <2>1
    <3>3. x \div 2 # 0 => g[x \div 2] = f[x \div 2]
      BY <3>1
    <3>4. QED
      BY <3>2, <3>3
  <2>3. Upto(n + 1, g)
    BY <2>2
  <2> HIDE DEF Upto
  <2>4. QED
    BY <2>3
<1>3. Good = Nat
  <2> HIDE DEF Good
  <2>1. Good \subseteq Nat
    BY DEF Good
  <2>2. QED
    BY <1>1, <1>2, <2>1, Induction
<1>4. \E f : Upto(MAX_FREQ_SIZE, f)
  BY <1>3, SizesAreNumbers
<1>5. log2_int = [x \in Sizes |-> IF x \div 2 = 0 THEN 0 ELSE log2_int[x \div 2] + 1]
  BY <1>4 DEF log2_int, Sizes
<1>6. QED
  BY <1>5

LEMMA BitDef == \A k \in Sizes : Bit[k] = IF k = 0 THEN 1 ELSE 2 * Bit[k - 1]
<1> DEFINE Upto(n, f) == f = [k \in 0 .. n |-> IF k = 0 THEN 1 ELSE 2 * f[k - 1]]
           Good == {n \in Nat : \E f : Upto(n, f)}
<1>1. 0 \in Good
  <2>1. Upto(0, [k \in 0 .. 0 |-> 1])
    OBVIOUS
  <2>2. QED
    BY <2>1
<1>2. ASSUME NEW n \in Nat, n \in Good PROVE n + 1 \in Good
  <2>1. PICK f : Upto(n, f)
    BY <1>2
  <2> DEFINE g == [k \in 0 .. n + 1 |-> IF k <= n THEN f[k] ELSE 2 * f[k - 1]]
  <2>2. \A k \in 0 .. n + 1 : g[k] = IF k = 0 THEN 1 ELSE 2 * g[k - 1]
    <3> SUFFICES ASSUME NEW k \in 0 .. n + 1
                 PROVE  g[k] = IF k = 0 THEN 1 ELSE 2 * g[k - 1]
      OBVIOUS
    <3>1. k = 0 \/ (k - 1 \in 0 .. n /\ k - 1 \in 0 .. n + 1)
      OBVIOUS
    <3>2. k \in 0 .. n => f[k] = IF k = 0 THEN 1 ELSE 2 * f[k - 1]
      BY <2>1
    <3>3. k # 0 => g[k - 1] = f[k - 1]
      BY <3>1
    <3>4. QED
      BY <3>2, <3>3
  <2>3. Upto(n + 1, g)
    BY <2>2
  <2> HIDE DEF Upto
  <2>4. QED
    BY <2>3
<1>3. Good = Nat
  <2> HIDE DEF Good
  <2>1. Good \subseteq Nat
    BY DEF Good
  <2>2. QED
    BY <1>1, <1>2, <2>1, Induction
<1>4. \E f : Upto(MAX_FREQ_SIZE, f)
  BY <1>3, SizesAreNumbers
<1>5. Bit = [k \in Sizes |-> IF k = 0 THEN 1 ELSE 2 * Bit[k - 1]]
  BY <1>4 DEF Bit, Sizes
<1>6. QED
  BY <1>5

LEMMA AndDef ==
  \A x \in Sizes, y \in Sizes :
    And[x][y] = IF x = 0 THEN 0 ELSE 2 * And[x \div 2][y \div 2] + (x % 2) * (y % 2)
<1> DEFINE Row(f, x) == [y \in Sizes |-> IF x = 0 THEN 0
                                         ELSE 2 * f[x \div 2][y \div 2] + (x % 2) * (y % 2)]
           Upto(n, f) == f = [x \in 0 .. n |-> Row(f, x)]
           Good == {n \in Nat : \E f : Upto(n, f)}
<1>1. 0 \in Good
  <2>1. Upto(0, [x \in 0 .. 0 |-> [y \in Sizes |-> 0]])
    OBVIOUS
  <2>2. QED
    BY <2>1
<1>2. ASSUME NEW n \in Nat, n \in Good PROVE n + 1 \in Good
  <2>1. PICK f : Upto(n, f)
    BY <1>2
  <2> DEFINE g == [x \in 0 .. n + 1 |-> IF x <= n THEN f[x] ELSE Row(f, x)]
  <2>2. \A x \in 0 .. n + 1 : g[x] = Row(g, x)
    <3> SUFFICES ASSUME NEW x \in 0 .. n + 1 PROVE g[x] = Row(g, x)
      OBVIOUS
    <3>1. x = 0 \/ (x \div 2 \in 0 .. n /\ x \div 2 \in 0 .. n + 1)
      OBVIOUS
    <3>2. x \in 0 .. n => f[x] = Row(f, x)
      BY <2>1
    <3>3. x # 0 => g[x \div 2] = f[x \div 2]
      BY <3>1
    <3>4. Row(g, x) = Row(f, x)
      BY <3>3
    <3> HIDE DEF Row
    <3>5. QED
      BY <3>2, <3>4
  <2>3. Upto(n + 1, g)
    <3> HIDE DEF Row
    <3>1. QED
      BY <2>2
  <2> HIDE DEF Upto
  <2>4. QED
    BY <2>3
<1>3. Good = Nat
  <2> HIDE DEF Good
  <2>1. Good \subseteq Nat
    BY DEF Good
  <2>2. QED
    BY <1>1, <1>2, <2>1, Induction
<1>4. \E f : Upto(MAX_FREQ_SIZE, f)
  BY <1>3, SizesAreNumbers
<1>5. And = [x \in Sizes |-> Row(And, x)]
  BY <1>4 DEF And, Sizes
<1>6. QED
  BY <1>5

LEMMA Log2Range == \A x \in Sizes : log2_int[x] \in Sizes /\ log2_int[x] <= x
<1> DEFINE Good == {x \in Nat : x \in Sizes => log2_int[x] \in Nat /\ log2_int[x] <= x}
<1>1. 0 \in Good
  BY Log2Def, SizesAreNumbers
<1>2. ASSUME NEW x \in Nat \ {0}, x \div 2 \in Good PROVE x \in Good
  <2> SUFFICES ASSUME x \in Sizes PROVE log2_int[x] \in Nat /\ log2_int[x] <= x
    OBVIOUS
  <2>1. x \div 2 \in Sizes /\ x \div 2 \in Nat /\ x \div 2 < x
    BY SizesAreNumbers
  <2>2. log2_int[x \div 2] \in Nat /\ log2_int[x \div 2] <= x \div 2
    BY <1>2, <2>1
  <2>3. log2_int[x] = IF x \div 2 = 0 THEN 0 ELSE log2_int[x \div 2] + 1
    BY Log2Def
  <2>4. QED
    BY <2>1, <2>2, <2>3
<1>3. Good = Nat
  <2> HIDE DEF Good
  <2>1. Good \subseteq Nat
    BY DEF Good
  <2>2. QED
    BY <1>1, <1>2, <2>1, BinaryInduction
<1>4. QED
  BY <1>3, SizesAreNumbers DEF Sizes

LEMMA BitIsNumber == \A k \in Sizes : Bit[k] \in Nat \ {0}
<1> DEFINE Good == {k \in Nat : k \in Sizes => Bit[k] \in Nat \ {0}}
<1>1. 0 \in Good
  BY BitDef, SizesAreNumbers
<1>2. ASSUME NEW k \in Nat, k \in Good PROVE k + 1 \in Good
  <2> SUFFICES ASSUME k + 1 \in Sizes PROVE Bit[k + 1] \in Nat \ {0}
    OBVIOUS
  <2>1. k \in Sizes
    BY SizesAreNumbers DEF Sizes
  <2>2. Bit[k] \in Nat \ {0}
    BY <1>2, <2>1
  <2>3. Bit[k + 1] = 2 * Bit[k]
    BY BitDef
  <2>4. QED
    BY <2>2, <2>3
<1>3. Good = Nat
  <2> HIDE DEF Good
  <2>1. Good \subseteq Nat
    BY DEF Good
  <2>2. QED
    BY <1>1, <1>2, <2>1, Induction
<1>4. QED
  BY <1>3, SizesAreNumbers

LEMMA AndIsNumber == \A x \in Sizes, y \in Sizes : And[x][y] \in Nat
<1> DEFINE Good == {x \in Nat : x \in Sizes => \A y \in Sizes : And[x][y] \in Nat}
<1>1. 0 \in Good
  BY AndDef, SizesAreNumbers
<1>2. ASSUME NEW x \in Nat \ {0}, x \div 2 \in Good PROVE x \in Good
  <2> SUFFICES ASSUME x \in Sizes, NEW y \in Sizes PROVE And[x][y] \in Nat
    OBVIOUS
  <2>1. x \div 2 \in Sizes /\ y \div 2 \in Sizes /\ x % 2 \in {0, 1} /\ y % 2 \in {0, 1}
    BY SizesAreNumbers
  <2>2. And[x \div 2][y \div 2] \in Nat
    BY <1>2, <2>1
  <2>3. And[x][y] = 2 * And[x \div 2][y \div 2] + (x % 2) * (y % 2)
    BY AndDef
  <2>4. (x % 2) * (y % 2) \in {0, 1}
    BY <2>1
  <2>5. QED
    BY <2>2, <2>3, <2>4
<1>3. Good = Nat
  <2> HIDE DEF Good
  <2>1. Good \subseteq Nat
    BY DEF Good
  <2>2. QED
    BY <1>1, <1>2, <2>1, BinaryInduction
<1>4. QED
  BY <1>3, SizesAreNumbers

LEMMA AndSelf == \A x \in Sizes : And[x][x] = x
<1> DEFINE Good == {x \in Nat : x \in Sizes => And[x][x] = x}
<1>1. 0 \in Good
  BY AndDef, SizesAreNumbers
<1>2. ASSUME NEW x \in Nat \ {0}, x \div 2 \in Good PROVE x \in Good
  <2> SUFFICES ASSUME x \in Sizes PROVE And[x][x] = x
    OBVIOUS
  <2>1. x \div 2 \in Sizes /\ x % 2 \in {0, 1} /\ x = 2 * (x \div 2) + (x % 2)
    BY SizesAreNumbers
  <2>2. And[x][x] = 2 * (x \div 2) + (x % 2) * (x % 2)
    BY <1>2, <2>1, AndDef
  <2>3. (x % 2) * (x % 2) = x % 2
    BY <2>1
  <2>4. QED
    BY <2>1, <2>2, <2>3
<1>3. Good = Nat
  <2> HIDE DEF Good
  <2>1. Good \subseteq Nat
    BY DEF Good
  <2>2. QED
    BY <1>1, <1>2, <2>1, BinaryInduction
<1>4. QED
  BY <1>3, SizesAreNumbers

(* IS_POT holds of powers of two only: an odd number above 1 shares its    *)
(* upper bits with the one before, and an even one passes if its half does.*)
LEMMA PowersOfTwo == \A x \in Sizes : IS_POT(x) => Bit[log2_int[x]] = x
<1> DEFINE Good == {x \in Nat : x \in Sizes /\ IS_POT(x) => Bit[log2_int[x]] = x}
<1>1. 0 \in Good
  BY DEF IS_POT
<1>2. ASSUME NEW x \in Nat \ {0}, x \div 2 \in Good PROVE x \in Good
  <2> SUFFICES ASSUME x \in Sizes, IS_POT(x) PROVE Bit[log2_int[x]] = x
    OBVIOUS
  <2> DEFINE h == x \div 2
  <2>1. /\ h \in Sizes /\ h \in Nat /\ x % 2 \in {0, 1} /\ x = 2 * h + (x % 2)
        /\ x - 1 \in Sizes /\ x - 1 \in Nat
    BY SizesAreNumbers DEF Sizes
  <2>2. And[x][x - 1] = 0
    BY DEF IS_POT
  <2>3. 0 = 2 * And[h][(x - 1) \div 2] + (x % 2) * ((x - 1) % 2)
    BY <2>1, <2>2, AndDef
  <2>4. CASE h = 0
    <3>1. x = 1 /\ log2_int[x] = 0
      BY <2>1, <2>4, Log2Def
    <3>2. QED
      BY <3>1, BitDef, SizesAreNumbers
  <2>5. CASE h # 0 /\ x % 2 = 1
    <3>1. (x - 1) \div 2 = h /\ (x - 1) % 2 = 0
      BY <2>1, <2>5
    <3>2. And[h][h] = h
      BY <2>1, AndSelf
    <3>3. QED
      BY <2>1, <2>3, <2>5, <3>1, <3>2
  <2>6. CASE h # 0 /\ x % 2 = 0
    <3>1. (x - 1) \div 2 = h - 1
      BY <2>1, <2>6
    <3>2. h - 1 \in Sizes
      BY <2>1, <2>6, SizesAreNumbers DEF Sizes
    <3>3. And[h][h - 1] \in Nat
      BY <2>1, <3>2, AndIsNumber
    <3>4. 0 = 2 * And[h][h - 1]
      <4>1. (x - 1) % 2 \in Nat /\ (x % 2) * ((x - 1) % 2) = 0
        BY <2>1, <2>6
      <4>2. QED
        BY <2>3, <3>1, <3>3, <4>1
    <3>5. IS_POT(h)
      BY <2>6, <3>3, <3>4 DEF IS_POT
    <3>6. Bit[log2_int[h]] = h
      BY <1>2, <2>1, <3>5
    <3>7. log2_int[x] = log2_int[h] + 1 /\ log2_int[x] \in Sizes /\ log2_int[h] \in Nat
      BY <2>1, <2>6, Log2Def, Log2Range, SizesAreNumbers
    <3>8. Bit[log2_int[x]] = 2 * Bit[log2_int[h]]
      BY <3>7, BitDef
    <3>9. QED
      BY <2>1, <2>6, <3>6, <3>8
  <2>7. QED
    BY <2>1, <2>4, <2>5, <2>6
<1>3. Good = Nat
  <2> HIDE DEF Good
  <2>1. Good \subseteq Nat
    BY DEF Good
  <2>2. QED
    BY <1>1, <1>2, <2>1, BinaryInduction
<1>4. QED
  BY <1>3, SizesAreNumbers
-----------------------------------------------------------------------------
(* The program.                                                            *)
Things == {"message", "spinner", "dbpsk", "fsk", "tone_gen", "framer", "bitstream", "ppbuf",
           "bbplayer", "sndfile"}
Modes  == {MODE_ALTERNATING_SYMBOLS, MODE_MESSAGE, MODE_CHIRP, MODE_AUDIOFILE}

Types ==
  /\ mode \in Modes /\ use_dbpsk \in BOOLEAN
  /\ n_freqs \in Sizes /\ message_len \in 0 .. FRAME_MAX_PAYLOAD_SIZE
  /\ loop_count \in Int /\ asked \in Int /\ asked <= MaxLoops
  /\ m_exp \in Sizes /\ symbol \in Int /\ i \in Nat /\ passes \in 0 .. MaxPasses
  /\ pc \in {"options", "stdin", "setup", "frame", "alternate", "symbols", "play", "next",
             "teardown", "returned", "stuck", "exited"}

(* Where the options are over.                                             *)
Running == pc \in {"frame", "alternate", "symbols", "play", "next", "teardown"}

(* What the mode has set up, apart from the message and the file.          *)
Owned == CASE mode = MODE_MESSAGE   -> {"spinner", Modulator}
                                         \cup (IF At("frame") THEN {} ELSE {"framer", "bitstream"})
           [] mode = MODE_AUDIOFILE -> {"spinner", "ppbuf", "bbplayer"}
           [] mode = MODE_CHIRP     -> {"spinner", "tone_gen"}
           [] OTHER                 -> {"spinner", Modulator}

Given == {"message", "sndfile"}

LiveInv ==
  /\ mode = MODE_AUDIOFILE /\ ~ At("returned") => "sndfile" \in live
  /\ pc \in {"options", "stdin", "setup"} => live \subseteq Given
  /\ Running => Owned \subseteq live /\ live \subseteq Owned \cup Given
  /\ At("frame") => mode = MODE_MESSAGE
  /\ At("alternate") \/ At("symbols") => mode = MODE_ALTERNATING_SYMBOLS
  /\ At("play") \/ At("next") => mode # MODE_ALTERNATING_SYMBOLS
  /\ At("returned") => live \subseteq {"sndfile"} /\ (live # {} => mode # MODE_AUDIOFILE)

(* The modulator has as many tones as it has symbols.                      *)
ToneInv ==
  /\ symbol # NoSymbol => Symbolic /\ symbol < Bit[m_exp] /\ pc \notin {"options", "stdin", "setup"}
  /\ "fsk" \in live => Bit[m_exp] <= n_freqs
  /\ Running /\ Symbolic => Bit[m_exp] = Symbols
  /\ At("symbols") => i < Symbols
  /\ ~ At("symbols") => i = 0

(* The passes that are left, and those that have been made.                *)
LoopInv ==
  /\ pc \in {"options", "stdin"} => loop_count = asked
  /\ pc \in {"options", "stdin", "setup"} => passes = 0
  /\ pc \notin {"options", "stdin", "exited"} /\ Forever => loop_count = -1
  /\ pc \in {"teardown", "returned"} => ~ Forever

IInv == Types /\ LiveInv /\ ToneInv /\ LoopInv

Wanted == IF asked >= 1 THEN asked ELSE 1

PassInv ==
  asked >= 0 /\ ~ Forever =>
    /\ At("setup") => loop_count = Wanted
    /\ At("frame") \/ At("play") => passes + loop_count = Wanted /\ loop_count >= 1
    /\ At("alternate") => passes + loop_count = Wanted /\ loop_count >= 0
    /\ At("symbols") => passes + loop_count + 1 = Wanted /\ loop_count >= 0
    /\ At("next") => passes + loop_count = Wanted + 1 /\ loop_count >= 1
    /\ At("teardown") \/ At("returned") => passes = Wanted

LEMMA InitIInv == Init => IInv /\ PassInv
<1> SUFFICES ASSUME Init PROVE IInv /\ PassInv
  OBVIOUS
<1>1. /\ mode = MODE_ALTERNATING_SYMBOLS /\ n_freqs = 0 /\ message_len = 0
      /\ use_dbpsk = FALSE /\ loop_count = 0 /\ asked = 0 /\ m_exp = 0
      /\ live = {"message"} /\ symbol = NoSymbol /\ i = 0 /\ passes = 0 /\ pc = "options"
  BY DEF Init
<1>2. /\ 0 \in Sizes /\ 0 \in 0 .. FRAME_MAX_PAYLOAD_SIZE /\ 0 \in 0 .. MaxPasses /\ 0 <= MaxLoops
  BY SizesAreNumbers, PsplayAssumption
<1>3. Types
  <2>1. NoSymbol \in Int
    BY DEF NoSymbol
  <2>2. QED
    <3>1. mode \in Modes /\ use_dbpsk \in BOOLEAN
      BY <1>1 DEF Modes
    <3>2. QED
      BY <1>1, <1>2, <2>1, <3>1 DEF Types
<1>4. LiveInv
  BY <1>1 DEF LiveInv, At, Running, Given, MODE_AUDIOFILE, MODE_ALTERNATING_SYMBOLS
<1>5. ToneInv
  BY <1>1 DEF ToneInv, At, Running
<1>6. LoopInv /\ PassInv
  BY <1>1 DEF LoopInv, PassInv, At
<1>7. QED
  BY <1>3, <1>4, <1>5, <1>6 DEF IInv

LEMMA TypesStep == IInv /\ [Next]_vars => Types'
<1> SUFFICES ASSUME IInv, [Next]_vars PROVE Types'
  OBVIOUS
<1> USE DEF IInv, Types
<1>1. /\ MAX_FREQ_SIZE \in Nat /\ FRAME_MAX_PAYLOAD_SIZE \in Nat /\ MaxPasses \in Nat
      /\ MaxLoops \in Nat /\ ListLens \subseteq Nat /\ MessageLens \subseteq Nat
  BY PsplayAssumption
<1>2. CASE Exit
  BY <1>2 DEF Exit, Goto, options, work
<1>3. CASE Simple
  <2>1. mode' \in Modes /\ use_dbpsk' \in BOOLEAN
    BY <1>3 DEF Simple, Modes
  <2>2. /\ loop_count' \in Int /\ asked' \in Int /\ asked' <= MaxLoops
        /\ UNCHANGED <<n_freqs, message_len, m_exp, symbol, i, passes, pc>>
    BY <1>1, <1>3 DEF Simple, work
  <2>3. QED
    BY <2>1, <2>2
<1>4. CASE Frequencies
  BY <1>1, <1>4 DEF Frequencies, Option, MinOf, Sizes, work
<1>5. CASE Message
  BY <1>1, <1>2, <1>5 DEF Message, Option, Modes, work
<1>6. CASE Stdin \/ AudioFile
  BY <1>6 DEF Stdin, AudioFile, Option, Goto, Modes, work
<1>7. CASE ReadStdin
  <2>1. CASE Goto("options") /\ UNCHANGED <<options, loop_count, m_exp, live, work, opts>>
    BY <2>1 DEF Goto, options, work
  <2>2. ASSUME NEW bytes_read \in 1 .. FRAME_MAX_PAYLOAD_SIZE - message_len,
               message_len' = message_len + bytes_read,
               UNCHANGED <<mode, n_freqs, use_dbpsk, loop_count, asked, m_exp, live, work, opts,
                           pc>>
        PROVE  Types'
    BY <1>1, <2>2 DEF work
  <2>3. QED
    BY <1>2, <1>7, <2>1, <2>2 DEF ReadStdin
<1>8. CASE Defaults
  <2>1. 1 \in Sizes /\ 2 \in Sizes
    BY <1>1, PsplayAssumption DEF Sizes
  <2>2. n_freqs' \in Sizes /\ loop_count' \in Int
    BY <1>8, <2>1 DEF Defaults
  <2>3. QED
    BY <1>8, <2>2 DEF Defaults, Goto, work
<1>9. CASE Setup
  <2>1. m_exp' \in Sizes
    BY <1>9, Log2Range, SizesAreNumbers DEF Setup
  <2>2. QED
    BY <1>9, <2>1 DEF Setup, Goto, options, work
<1>10. CASE FrameMessage \/ Refused
  BY <1>2, <1>10 DEF FrameMessage, Refused, Goto, options, work
<1>11. CASE Alternate \/ NextPass
  BY <1>11 DEF Alternate, NextPass, Goto, options, work
<1>12. CASE SendAlternating
  BY <1>1, <1>12 DEF SendAlternating, Count, MinOf, Goto, options
<1>13. CASE SendSequence
  BY <1>1, <1>13, BitIsNumber DEF SendSequence, Count, MinOf, Goto, options
<1>14. CASE PlayChirp \/ PlayFile
  BY <1>1, <1>14 DEF PlayChirp, PlayFile, Count, MinOf, Goto, options
<1>15. CASE Teardown
  BY <1>15 DEF Teardown, Goto, options, work
<1>16. CASE UNCHANGED vars
  BY <1>16 DEF vars, options, work
<1>17. QED
  BY <1>3, <1>4, <1>5, <1>6, <1>7, <1>8, <1>9, <1>10, <1>11, <1>12, <1>13, <1>14, <1>15, <1>16
     DEF Next, Options, Run

LEMMA LiveStep == IInv /\ [Next]_vars => LiveInv'
<1> SUFFICES ASSUME IInv, [Next]_vars PROVE LiveInv'
  OBVIOUS
<1> USE DEF IInv, LiveInv, At, Goto, Running, Given, MODE_ALTERNATING_SYMBOLS, MODE_MESSAGE,
            MODE_CHIRP, MODE_AUDIOFILE
<1>1. CASE Exit /\ pc \in {"options", "stdin", "frame"}
  BY <1>1 DEF Exit, options
<1>2. CASE Simple
  BY <1>2 DEF Simple, Option
<1>3. CASE Frequencies \/ Stdin \/ AudioFile
  BY <1>3 DEF Frequencies, Stdin, AudioFile, Option
<1>4. CASE Message
  BY <1>1, <1>4 DEF Message, Option
<1>5. CASE ReadStdin
  <2>1. CASE ~ Exit
    BY <1>5, <2>1 DEF ReadStdin, options
  <2>2. QED
    BY <1>1, <1>5, <2>1 DEF ReadStdin
<1>6. CASE Defaults
  BY <1>6 DEF Defaults
<1>7. CASE Setup
  <2>1. At("setup") /\ live \subseteq Given /\ mode \in Modes
    BY <1>7 DEF Setup, Types
  <2>2. /\ UNCHANGED <<mode, use_dbpsk>>
        /\ pc' \in {"frame", "alternate", "play", "exited"}
    BY <1>7 DEF Setup, options
  <2>3. CASE Symbolic /\ pc' # "exited"
    BY <1>7, <2>1, <2>2, <2>3 DEF Setup, Symbolic, Owned, Modulator
  <2>4. CASE mode = MODE_CHIRP
    BY <1>7, <2>1, <2>2, <2>4 DEF Setup, Symbolic, Owned
  <2>5. CASE mode = MODE_AUDIOFILE
    BY <1>7, <2>1, <2>2, <2>5 DEF Setup, Symbolic, Owned
  <2>6. CASE Symbolic /\ pc' = "exited"
    BY <1>7, <2>1, <2>2, <2>6 DEF Setup, Symbolic
  <2>7. QED
    BY <2>1, <2>3, <2>4, <2>5, <2>6 DEF Modes, Symbolic
<1>8. CASE FrameMessage
  <2>1. CASE pc' = "play"
    BY <1>8, <2>1 DEF FrameMessage, Exit, Owned, Modulator, options
  <2>2. QED
    BY <1>1, <1>8, <2>1 DEF FrameMessage
<1>9. CASE Alternate \/ SendAlternating
  <2>1. UNCHANGED <<mode, use_dbpsk, live>> /\ pc' \in {"alternate", "symbols", "teardown"}
        /\ mode = MODE_ALTERNATING_SYMBOLS /\ pc \in {"alternate", "symbols"}
    BY <1>9 DEF Alternate, SendAlternating, options
  <2>2. QED
    BY <2>1 DEF Owned, Modulator
<1>10. CASE SendSequence \/ PlayChirp \/ PlayFile \/ NextPass
  <2>1. UNCHANGED <<mode, use_dbpsk, live>> /\ pc' \in {"play", "next", "teardown", "stuck"}
        /\ mode # MODE_ALTERNATING_SYMBOLS /\ pc \in {"play", "next"}
    BY <1>10 DEF SendSequence, PlayChirp, PlayFile, NextPass, options
  <2>2. QED
    BY <2>1 DEF Owned, Modulator
<1>11. CASE Teardown
  <2>1. /\ pc = "teardown" /\ pc' = "returned" /\ UNCHANGED <<mode, use_dbpsk>>
        /\ live \subseteq Owned \cup Given /\ mode \in Modes
    BY <1>11 DEF Teardown, options, Types
  <2>2. CASE mode = MODE_MESSAGE
    BY <1>11, <2>1, <2>2 DEF Teardown, Owned
  <2>3. CASE mode = MODE_AUDIOFILE
    BY <1>11, <2>1, <2>3 DEF Teardown, Owned
  <2>4. CASE mode = MODE_CHIRP
    BY <1>11, <2>1, <2>4 DEF Teardown, Owned
  <2>5. CASE mode = MODE_ALTERNATING_SYMBOLS
    BY <1>11, <2>1, <2>5 DEF Teardown, Owned
  <2>6. QED
    BY <2>1, <2>2, <2>3, <2>4, <2>5 DEF Modes
<1>12. CASE Refused
  BY <1>1, <1>12 DEF Refused
<1>13. CASE UNCHANGED vars
  BY <1>13 DEF vars, options, Owned, Modulator
<1>14. QED
  BY <1>2, <1>3, <1>4, <1>5, <1>6, <1>7, <1>8, <1>9, <1>10, <1>11, <1>12, <1>13
     DEF Next, Options, Run

LEMMA ToneStep == IInv /\ [Next]_vars => ToneInv'
<1> SUFFICES ASSUME IInv, [Next]_vars PROVE ToneInv'
  OBVIOUS
<1> USE DEF IInv, ToneInv, At, Goto, Running
<1>1. CASE Exit /\ pc \in {"options", "stdin", "frame"}
  BY <1>1 DEF Exit, options, work, Symbolic
<1>2. CASE Simple \/ Frequencies \/ Stdin \/ AudioFile \/ Defaults
  <2>1. /\ symbol = NoSymbol /\ "fsk" \notin live /\ i = 0
    BY <1>2 DEF Simple, Frequencies, Stdin, AudioFile, Defaults, Option, LiveInv, Given
  <2>2. /\ symbol' = symbol /\ "fsk" \notin live' /\ i' = i
        /\ pc' \in {"options", "stdin", "setup"}
    BY <1>2, <2>1 DEF Simple, Frequencies, Stdin, AudioFile, Defaults, Option, work
  <2>3. QED
    BY <2>1, <2>2
<1>3. CASE Message \/ ReadStdin
  <2>1. CASE ~ Exit
    <3>1. /\ symbol = NoSymbol /\ "fsk" \notin live /\ i = 0
      BY <1>3, <2>1 DEF Message, ReadStdin, Option, LiveInv, Given
    <3>2. UNCHANGED <<symbol, live, i>> /\ pc' \in {"options", "stdin"}
      BY <1>3, <2>1 DEF Message, ReadStdin, Option, work
    <3>3. QED
      BY <3>1, <3>2
  <2>2. QED
    BY <1>1, <1>3, <2>1 DEF Message, ReadStdin, Option
<1>4. CASE Setup
  <2>1. symbol = NoSymbol /\ "fsk" \notin live /\ i = 0 /\ n_freqs \in Sizes
        /\ UNCHANGED <<options, symbol, i>> /\ pc' # "symbols"
    BY <1>4 DEF Setup, LiveInv, Given, work, Types
  <2>2. CASE Symbolic /\ AcceptFrequencies
    <3>1. m_exp' = IF use_dbpsk THEN 1 ELSE log2_int[n_freqs]
      BY <1>4, <2>2 DEF Setup, Symbolic, MODE_CHIRP, MODE_AUDIOFILE, MODE_MESSAGE,
                        MODE_ALTERNATING_SYMBOLS
    <3>2. Bit[1] = 2
      BY BitDef, SizesAreNumbers
    <3>3. Bit[m_exp'] = Symbols
      BY <2>1, <2>2, <3>1, <3>2, PowersOfTwo DEF AcceptFrequencies, Symbols
    <3>4. "fsk" \in live' => ~ use_dbpsk
      BY <1>4, <2>1 DEF Setup, Modulator
    <3>5. n_freqs <= n_freqs
      BY <2>1, SizesAreNumbers
    <3>6. QED
      BY <2>1, <3>3, <3>4, <3>5 DEF Symbols, options
  <2>3. CASE ~ (Symbolic /\ AcceptFrequencies)
    BY <1>4, <2>1, <2>3 DEF Setup, Symbolic, options, MODE_ALTERNATING_SYMBOLS, MODE_MESSAGE,
       MODE_CHIRP, MODE_AUDIOFILE
  <2>4. QED
    BY <2>2, <2>3
<1>5. CASE FrameMessage
  <2>1. CASE ~ Exit
    BY <1>5, <2>1 DEF FrameMessage, options, work, Symbols, Symbolic
  <2>2. QED
    BY <1>1, <1>5, <2>1 DEF FrameMessage
<1>6. CASE Alternate
  <2>1. /\ UNCHANGED <<options, m_exp, live, symbol, i>> /\ pc = "alternate"
        /\ pc' \in {"symbols", "teardown"} /\ i = 0
    BY <1>6 DEF Alternate, work
  <2>2. Symbolic /\ Bit[m_exp] = Symbols /\ m_exp \in Sizes
    BY <2>1 DEF LiveInv, Symbolic, Types
  <2>3. 0 < Symbols
    BY <2>2, BitIsNumber
  <2>4. QED
    BY <2>1, <2>2, <2>3 DEF options, Symbols, Symbolic
<1>7. CASE SendAlternating
  <2>1. /\ UNCHANGED <<options, m_exp, live>> /\ pc = "symbols" /\ symbol' = i /\ i \in Nat
        /\ pc' \in {"symbols", "alternate"} /\ i < Symbols
        /\ IF pc' = "symbols" THEN i' = i + 1 /\ i + 1 < Symbols ELSE i' = 0
    BY <1>7 DEF SendAlternating, Types
  <2>2. Symbolic /\ Bit[m_exp] = Symbols
    BY <2>1 DEF LiveInv, Symbolic
  <2>3. QED
    BY <2>1, <2>2 DEF options, Symbols, Symbolic
<1>8. CASE SendSequence
  <2>1. /\ UNCHANGED <<options, m_exp, live, i>> /\ pc = "play" /\ pc' \in {"play", "next"}
        /\ symbol' = symbol \/ symbol' \in 0 .. Bit[m_exp] - 1
        /\ Symbolic /\ m_exp \in Sizes
    BY <1>8 DEF SendSequence, Symbolic, Types
  <2>2. Bit[m_exp] \in Nat
    BY <2>1, BitIsNumber
  <2>3. symbol' # NoSymbol => symbol' < Bit[m_exp]
    BY <2>1, <2>2
  <2>4. QED
    BY <2>1, <2>3 DEF options, Symbols, Symbolic
<1>9. CASE PlayChirp \/ PlayFile \/ NextPass \/ Teardown
  <2>1. /\ UNCHANGED <<options, m_exp, symbol, i>> /\ live' \subseteq live
        /\ pc \in {"play", "next", "teardown"}
        /\ pc' \in {"next", "play", "teardown", "returned", "stuck"}
    BY <1>9 DEF PlayChirp, PlayFile, NextPass, Teardown, work
  <2>2. QED
    BY <2>1 DEF options, Symbols, Symbolic
<1>10. CASE Refused
  BY <1>1, <1>10 DEF Refused
<1>11. CASE UNCHANGED vars
  BY <1>11 DEF vars, options, work, Symbols, Symbolic
<1>12. QED
  BY <1>2, <1>3, <1>4, <1>5, <1>6, <1>7, <1>8, <1>9, <1>10, <1>11 DEF Next, Options, Run

(* What Forever and Wanted speak of changes only while options are read.   *)
LEMMA LoopStep == IInv /\ PassInv /\ [Next]_vars => LoopInv' /\ PassInv'
<1> SUFFICES ASSUME IInv, PassInv, [Next]_vars PROVE LoopInv' /\ PassInv'
  OBVIOUS
<1> USE DEF IInv, LoopInv, PassInv, At, Goto, Wanted
<1>1. loop_count \in Int /\ asked \in Int /\ asked <= MaxLoops /\ passes \in 0 .. MaxPasses
      /\ MaxPasses \in Nat /\ MaxLoops \in Nat /\ MaxPasses > MaxLoops
  BY PsplayAssumption DEF Types
<1>2. CASE Exit
  BY <1>2 DEF Exit, options, work, Forever
<1>3. CASE Simple \/ Frequencies \/ Stdin \/ AudioFile
  <2>1. /\ pc = "options" /\ pc' \in {"options", "stdin"} /\ passes' = passes
        /\ loop_count' = asked'
    BY <1>3 DEF Simple, Frequencies, Stdin, AudioFile, Option, work
  <2>2. QED
    BY <2>1
<1>4. CASE Message \/ ReadStdin
  <2>1. CASE ~ Exit
    <3>1. /\ pc \in {"options", "stdin"} /\ pc' \in {"options", "stdin"} /\ passes' = passes
          /\ loop_count' = loop_count /\ asked' = asked
      BY <1>4, <2>1 DEF Message, ReadStdin, Option, work, options
    <3>2. QED
      BY <3>1
  <2>2. QED
    BY <1>2, <2>1
<1>5. CASE Defaults
  <2>1. /\ pc = "options" /\ pc' = "setup" /\ UNCHANGED <<mode, asked, passes>>
        /\ loop_count = asked /\ passes = 0
        /\ loop_count' = IF asked # 0 THEN asked
                         ELSE IF mode = MODE_ALTERNATING_SYMBOLS THEN -1 ELSE 1
    BY <1>5 DEF Defaults, work
  <2>2. (Forever' <=> Forever) /\ (Forever => loop_count' = -1)
        /\ (asked >= 0 /\ ~ Forever => loop_count' = Wanted)
    BY <1>1, <2>1 DEF Forever
  <2>3. QED
    BY <2>1, <2>2
<1>6. CASE Setup \/ FrameMessage
  <2>1. CASE ~ Exit
    <3>1. /\ UNCHANGED <<mode, asked, passes, loop_count>> /\ (Forever' <=> Forever)
          /\ pc \in {"setup", "frame"} /\ pc' \in {"frame", "alternate", "play", "exited"}
      BY <1>6, <2>1 DEF Setup, FrameMessage, options, work, Forever
    <3>2. QED
      BY <1>1, <3>1
  <2>2. QED
    BY <1>2, <2>1
<1>7. CASE Alternate
  <2>1. /\ UNCHANGED <<mode, asked, passes>> /\ (Forever' <=> Forever) /\ pc = "alternate"
        /\ loop_count' = IF loop_count = -1 THEN -1 ELSE loop_count - 1
        /\ pc' = IF loop_count = -1 \/ loop_count > 0 THEN "symbols" ELSE "teardown"
    BY <1>7 DEF Alternate, options, work, Forever
  <2>2. QED
    BY <1>1, <2>1
<1>8. ASSUME passes' = MinOf(passes + 1, MaxPasses), asked >= 0, passes + 1 <= Wanted
      PROVE  passes' = passes + 1
  BY <1>1, <1>8 DEF MinOf
<1>9. CASE SendAlternating
  <2>1. /\ UNCHANGED <<mode, asked, loop_count>> /\ (Forever' <=> Forever) /\ pc = "symbols"
        /\ \/ pc' = "symbols" /\ passes' = passes
           \/ pc' = "alternate" /\ passes' = MinOf(passes + 1, MaxPasses)
    BY <1>9 DEF SendAlternating, Count, options, Forever
  <2>2. QED
    BY <1>1, <1>8, <2>1
<1>10. CASE SendSequence \/ PlayChirp \/ PlayFile
  <2>1. /\ UNCHANGED <<mode, asked, loop_count>> /\ (Forever' <=> Forever) /\ pc = "play"
        /\ \/ pc' \in {"play", "stuck"} /\ passes' = passes
           \/ pc' = "next" /\ passes' = MinOf(passes + 1, MaxPasses)
    BY <1>10 DEF SendSequence, PlayChirp, PlayFile, Count, options, Forever
  <2>2. QED
    BY <1>1, <1>8, <2>1
<1>11. CASE NextPass
  <2>1. /\ UNCHANGED <<mode, asked, passes>> /\ (Forever' <=> Forever) /\ pc = "next"
        /\ loop_count' = IF loop_count = -1 THEN -1 ELSE loop_count - 1
        /\ pc' = IF loop_count # -1 /\ loop_count - 1 <= 0 THEN "teardown" ELSE "play"
    BY <1>11 DEF NextPass, options, work, Forever
  <2>2. QED
    BY <1>1, <2>1
<1>12. CASE Teardown
  <2>1. /\ UNCHANGED <<mode, asked, passes, loop_count>> /\ (Forever' <=> Forever)
        /\ pc = "teardown" /\ pc' = "returned"
    BY <1>12 DEF Teardown, options, work, Forever
  <2>2. QED
    BY <2>1
<1>13. CASE Refused
  BY <1>2, <1>13 DEF Refused
<1>14. CASE UNCHANGED vars
  BY <1>14 DEF vars, options, work, Forever
<1>15. QED
  BY <1>3, <1>4, <1>5, <1>6, <1>7, <1>9, <1>10, <1>11, <1>12, <1>13, <1>14
     DEF Next, Options, Run

LEMMA Invariance == Spec => [](IInv /\ PassInv)
<1>1. IInv /\ PassInv /\ [Next]_vars => (IInv /\ PassInv)'
  BY TypesStep, LiveStep, ToneStep, LoopStep DEF IInv
<1>2. QED
  BY <1>1, InitIInv, PTL DEF Spec

(* Whatever options come in whatever order and number: neither the array   *)
(* of the message nor that of the frequencies is overrun, and fsk_init is  *)
(* given as many frequencies as it will read.                              *)
THEOREM ArraysNotOverrun == Spec => []WithinArrays
<1>1. IInv => WithinArrays
  BY PsplayAssumption DEF IInv, Types, ToneInv, WithinArrays, Sizes
<1>2. QED
  BY <1>1, Invariance, PTL

(* No symbol is sent that has no tone, in any mode with any number of      *)
(* frequencies: IS_POT lets only powers of two through, of which log2_int  *)
(* finds the exponent.                                                     *)
THEOREM SymbolsHaveTones == Spec => []EverySymbolHasTone
<1>1. IInv => EverySymbolHasTone
  BY DEF IInv, ToneInv, EverySymbolHasTone
<1>2. QED
  BY <1>1, Invariance, PTL

(* What a mode uses has been set up for it, and main takes down what it    *)
(* set up, whatever options came in whatever order.                        *)
THEOREM SetUpAndTakenDown == Spec => []Lifecycle
<1>1. IInv => Lifecycle
  <2> SUFFICES ASSUME IInv PROVE Lifecycle
    OBVIOUS
  <2> USE DEF IInv, LiveInv, At, Running, Owned, MODE_ALTERNATING_SYMBOLS, MODE_MESSAGE,
              MODE_CHIRP, MODE_AUDIOFILE
  <2>1. At("alternate") \/ At("symbols") \/ At("frame") => {"spinner", Modulator} \subseteq live
    OBVIOUS
  <2>2. At("play") /\ mode = MODE_MESSAGE =>
          {"spinner", Modulator, "framer", "bitstream"} \subseteq live
    OBVIOUS
  <2>3. At("play") /\ mode = MODE_AUDIOFILE =>
          {"spinner", "ppbuf", "bbplayer", "sndfile"} \subseteq live
    OBVIOUS
  <2>4. QED
    BY <2>1, <2>2, <2>3 DEF Lifecycle
<1>2. QED
  BY <1>1, Invariance, PTL

(* The program returns only after as many passes as it was asked to make,  *)
(* one by default: the loop of the alternating symbols, which tests before *)
(* a pass, and the other modes', which test after one, agree.              *)
PassesAsAsked ==
  At("returned") => (asked >= 1 => passes = asked) /\ (asked = 0 => passes = 1)

THEOREM ReturnsAsAsked == Spec => []PassesAsAsked
<1>1. IInv /\ PassInv => PassesAsAsked
  BY DEF IInv, Types, LoopInv, PassInv, PassesAsAsked, At, Wanted
<1>2. QED
  BY <1>1, Invariance, PTL
=============================================================================
