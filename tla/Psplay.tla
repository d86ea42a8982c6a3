------------------------------- MODULE Psplay -------------------------------
(***************************************************************************)
(* psplay.c: main reads its options, in the order the user gives them, and *)
(* each of them changes what the ones before it have set; then it sets up  *)
(* what the chosen mode needs, makes its passes and takes all of it down.  *)
(*                                                                         *)
(* What a pass does is in the modules of the components it uses: here it   *)
(* is a row of symbols, or one step.  Of the options only those appear     *)
(* that decide where the program goes; the others (-g, -b, -d, -x, -r, -e, *)
(* -q) set numbers that other modules leave open.                          *)
(***************************************************************************)
EXTENDS Integers

CONSTANTS
  MaxOpts,     \* bound: options on the command line
  MAX_FREQ_SIZE,
  FRAME_MAX_PAYLOAD_SIZE,
  ListLens,    \* frequencies in the argument of one -f
  MessageLens, \* lengths of the argument of -m
  MaxLoops,    \* bound: the largest argument of -n
  MaxPasses    \* bound: passes are counted up to this

ASSUME PsplayAssumption ==
  /\ {MaxOpts, MAX_FREQ_SIZE, FRAME_MAX_PAYLOAD_SIZE, MaxLoops, MaxPasses} \subseteq Nat
  /\ MAX_FREQ_SIZE >= 2 /\ MaxPasses > MaxLoops
  /\ ListLens \subseteq Nat /\ MessageLens \subseteq Nat

VARIABLES
  mode, n_freqs, message_len, use_dbpsk, loop_count, m_exp,  \* locals of main
  asked,   \* the argument of the last -n, 0 if there was none (history)
  live,    \* what has been set up and not been taken down
  symbol,  \* the symbol sent last
  i,       \* symbols sent in this pass
  passes,  \* passes made (history)
  opts,    \* options read
  pc

options == <<mode, n_freqs, message_len, use_dbpsk, asked>>
work    == <<symbol, i, passes>>

vars == <<options, loop_count, m_exp, live, work, opts, pc>>

MODE_ALTERNATING_SYMBOLS == 0
MODE_MESSAGE   == 1
MODE_CHIRP     == 2
MODE_AUDIOFILE == 3

Symbolic == mode \in {MODE_ALTERNATING_SYMBOLS, MODE_MESSAGE}
NoSymbol == -1

Init == /\ mode = MODE_ALTERNATING_SYMBOLS /\ n_freqs = 0 /\ message_len = 0
        /\ use_dbpsk = FALSE /\ loop_count = 0 /\ asked = 0 /\ m_exp = 0
        /\ live = {"message"} /\ symbol = NoSymbol /\ i = 0 /\ passes = 0
        /\ opts = 0 /\ pc = "options"

At(p) == pc = p

Goto(p) == pc' = p

(* exit(EXIT_FAILURE) or abort(): the program is over, as it stands.       *)
Exit == /\ Goto("exited")
        /\ UNCHANGED <<options, loop_count, m_exp, live, work, opts>>
-----------------------------------------------------------------------------
(* The options                                                             *)
Option == At("options") /\ opts < MaxOpts /\ opts' = opts + 1

(* -a, -c, -p, -n                                                          *)
Simple ==
  /\ Option
  /\ \/ /\ mode' \in {MODE_ALTERNATING_SYMBOLS, MODE_CHIRP}
        /\ UNCHANGED <<use_dbpsk, loop_count, asked>>
     \/ use_dbpsk' = TRUE /\ UNCHANGED <<mode, loop_count, asked>>
     \/ /\ loop_count' \in -2 .. MaxLoops /\ asked' = loop_count'
        /\ UNCHANGED <<mode, use_dbpsk>>
  /\ UNCHANGED <<n_freqs, message_len, m_exp, live, work, pc>>

(* -h, an option there is not, a number that cannot be parsed, or a file   *)
(* that cannot be opened or is not mono                                    *)
Refused == At("options") /\ opts < MaxOpts /\ Exit

MinOf(a, b) == IF a < b THEN a ELSE b

(* -f appends the frequencies of its list, as long as there is room.       *)
Frequencies ==
  /\ Option
  /\ \E n \in ListLens : n_freqs' = MinOf(n_freqs + n, MAX_FREQ_SIZE)
  /\ UNCHANGED <<mode, message_len, use_dbpsk, loop_count, asked, m_exp, live, work, pc>>

(* -m replaces what there is of a message.                                 *)
Message ==
  \E n \in MessageLens :
    \/ n > FRAME_MAX_PAYLOAD_SIZE /\ At("options") /\ opts < MaxOpts /\ Exit
    \/ /\ n <= FRAME_MAX_PAYLOAD_SIZE /\ Option
       /\ mode' = MODE_MESSAGE /\ message_len' = n
       /\ UNCHANGED <<n_freqs, use_dbpsk, loop_count, asked, m_exp, live, work, pc>>

(* -s appends what read() gives, piece by piece ...                        *)
Stdin ==
  /\ Option
  /\ mode' = MODE_MESSAGE
  /\ Goto("stdin")
  /\ UNCHANGED <<n_freqs, message_len, use_dbpsk, loop_count, asked, m_exp, live, work>>

(* Fault variant of ReadStdin: every read may fill the whole buffer.       *)
ReadStdinWhole ==
  /\ At("stdin")
  /\ \/ /\ message_len < FRAME_MAX_PAYLOAD_SIZE
        /\ \E bytes_read \in 1 .. FRAME_MAX_PAYLOAD_SIZE : message_len' = message_len + bytes_read
        /\ UNCHANGED pc
     \/ Goto("options") /\ UNCHANGED message_len
  /\ UNCHANGED <<mode, n_freqs, use_dbpsk, loop_count, asked, m_exp, live, work, opts>>

(* ... until it is full, the input ends, or a read fails.                  *)
ReadStdin ==
  /\ At("stdin")
  /\ \/ /\ message_len < FRAME_MAX_PAYLOAD_SIZE
        /\ \E bytes_read \in 1 .. FRAME_MAX_PAYLOAD_SIZE - message_len :
             message_len' = message_len + bytes_read
        /\ UNCHANGED <<mode, n_freqs, use_dbpsk, loop_count, asked, m_exp, live, work, opts, pc>>
     \/ /\ Goto("options")
        /\ UNCHANGED <<options, loop_count, m_exp, live, work, opts>>
     \/ message_len < FRAME_MAX_PAYLOAD_SIZE /\ Exit

(* -i opens the file at once.  Another -i would open one more, and another *)
(* mode leaves it open.                                                    *)
AudioFile ==
  /\ Option
  /\ mode' = MODE_AUDIOFILE /\ live' = live \cup {"sndfile"}
  /\ UNCHANGED <<n_freqs, message_len, use_dbpsk, loop_count, asked, m_exp, work, pc>>

(* -n 0, and no -f, leave it to the program.                               *)
Defaults ==
  /\ At("options")
  /\ loop_count' = IF loop_count # 0 THEN loop_count
                   ELSE IF mode = MODE_ALTERNATING_SYMBOLS THEN -1 ELSE 1
  /\ n_freqs' = IF n_freqs > 0 THEN n_freqs ELSE IF use_dbpsk THEN 1 ELSE 2
  /\ Goto("setup")
  /\ UNCHANGED <<mode, message_len, use_dbpsk, asked, m_exp, live, work, opts>>
-----------------------------------------------------------------------------
(* What the mode needs                                                     *)
(* The operators &, >> in a loop and 1 << of C, on what an array can hold. *)
Sizes == 0 .. MAX_FREQ_SIZE

And[x \in Sizes] ==
  [y \in Sizes |-> IF x = 0 THEN 0
                   ELSE 2 * And[x \div 2][y \div 2] + (x % 2) * (y % 2)]

log2_int[x \in Sizes] == IF x \div 2 = 0 THEN 0 ELSE log2_int[x \div 2] + 1

Bit[k \in Sizes] == IF k = 0 THEN 1 ELSE 2 * Bit[k - 1]

(* Fault variant of IS_POT: any number.                                    *)
AnyNumber(x) == x # 0

IS_POT(x) == x # 0 /\ And[x][x - 1] = 0

Modulator == IF use_dbpsk THEN "dbpsk" ELSE "fsk"

AcceptFrequencies == IF use_dbpsk THEN n_freqs = 1 ELSE IS_POT(n_freqs) /\ n_freqs >= 2

(* cpu_spinner_init, whose result nobody looks at, and the modulator or    *)
(* the tone generator.  The modulators ask for 1 << m_exp tones.           *)
Setup ==
  /\ At("setup")
  /\ \/ /\ Symbolic /\ AcceptFrequencies
        /\ m_exp' = IF use_dbpsk THEN 1 ELSE log2_int[n_freqs]
        /\ live' = live \cup {"spinner", Modulator}
        /\ Goto(IF mode = MODE_MESSAGE THEN "frame" ELSE "alternate")
     \/ /\ Symbolic /\ ~AcceptFrequencies
        /\ live' = live \cup {"spinner"} /\ UNCHANGED m_exp
        /\ Goto("exited")
     \/ /\ mode = MODE_CHIRP
        /\ live' = live \cup {"spinner", "tone_gen"} /\ UNCHANGED m_exp
        /\ Goto("play")
     \/ /\ mode = MODE_AUDIOFILE
        /\ live' = live \cup {"spinner", "ppbuf", "bbplayer"} /\ UNCHANGED m_exp
        /\ Goto("play")
  /\ UNCHANGED <<options, loop_count, work, opts>>

(* framer_init, bitstream_init and framer_frame, which may refuse.         *)
FrameMessage ==
  /\ At("frame")
  /\ \/ /\ live' = live \cup {"framer", "bitstream"}
        /\ Goto("play")
        /\ UNCHANGED <<options, loop_count, m_exp, work, opts>>
     \/ Exit
-----------------------------------------------------------------------------
(* The passes                                                              *)
Count == passes' = MinOf(passes + 1, MaxPasses)

(* Symbols of a round of MODE_ALTERNATING_SYMBOLS.                         *)
Symbols == IF use_dbpsk THEN 2 ELSE n_freqs

(* while (loop_count == -1 || loop_count-- > 0)                            *)
Alternate ==
  /\ At("alternate")
  /\ loop_count' = IF loop_count = -1 THEN -1 ELSE loop_count - 1
  /\ Goto(IF loop_count = -1 \/ loop_count > 0 THEN "symbols" ELSE "teardown")
  /\ UNCHANGED <<options, m_exp, live, work, opts>>

SendAlternating ==
  /\ At("symbols")
  /\ symbol' = i
  /\ IF i + 1 < Symbols THEN i' = i + 1 /\ UNCHANGED <<passes, pc>>
                        ELSE i' = 0 /\ Count /\ Goto("alternate")
  /\ UNCHANGED <<options, loop_count, m_exp, live, opts>>

(* A pass of the other modes.  The modulators read symbols of m_exp bits   *)
(* from the frame (Bitstream), any number of them.                         *)
SendSequence ==
  /\ At("play") /\ mode = MODE_MESSAGE
  /\ \/ symbol' \in 0 .. Bit[m_exp] - 1 /\ UNCHANGED <<passes, pc>>
     \/ Count /\ Goto("next") /\ UNCHANGED symbol
  /\ UNCHANGED <<options, loop_count, m_exp, live, i, opts>>

(* play_chirp comes to its end (Chirp).                                    *)
PlayChirp ==
  /\ At("play") /\ mode = MODE_CHIRP
  /\ Count /\ Goto("next")
  /\ UNCHANGED <<options, loop_count, m_exp, live, symbol, i, opts>>

(* A pass of the file ends with bitbang_player_stop, which may never       *)
(* return, or may forget to stop the player, after which what the next     *)
(* pass or ppbuf_destroy does has no meaning (BitbangPlayer).  Either way  *)
(* nothing more is said of the program.                                    *)
PlayFile ==
  /\ At("play") /\ mode = MODE_AUDIOFILE
  /\ \/ Count /\ Goto("next")
     \/ Goto("stuck") /\ UNCHANGED passes
  /\ UNCHANGED <<options, loop_count, m_exp, live, symbol, i, opts>>

(* Fault variant of NextPass: the test of the alternating loop, which      *)
(* comes before a pass and not after it.                                   *)
NextPassOneMore ==
  /\ At("next")
  /\ loop_count' = IF loop_count = -1 THEN -1 ELSE loop_count - 1
  /\ Goto(IF loop_count = -1 \/ loop_count > 0 THEN "play" ELSE "teardown")
  /\ UNCHANGED <<options, m_exp, live, work, opts>>

(* if (loop_count != -1 && --loop_count <= 0) break;                       *)
NextPass ==
  /\ At("next")
  /\ loop_count' = IF loop_count = -1 THEN -1 ELSE loop_count - 1
  /\ Goto(IF loop_count # -1 /\ loop_count - 1 <= 0 THEN "teardown" ELSE "play")
  /\ UNCHANGED <<options, m_exp, live, work, opts>>

(* Fault variant of Teardown: only a message's modulator is destroyed.     *)
TeardownMessageOnly ==
  /\ At("teardown")
  /\ live' = live \ ({"message", "spinner", "tone_gen", "framer", "bitstream", "ppbuf", "bbplayer"}
                     \cup (IF mode = MODE_MESSAGE THEN {Modulator} ELSE {})
                     \cup (IF mode = MODE_AUDIOFILE THEN {"sndfile"} ELSE {}))
  /\ Goto("returned")
  /\ UNCHANGED <<options, loop_count, m_exp, work, opts>>

(* What each mode takes down after its loop, and then main for all.        *)
Teardown ==
  /\ At("teardown")
  /\ live' = live \ ((CASE mode = MODE_MESSAGE   -> {"bitstream", "framer", Modulator}
                        [] mode = MODE_AUDIOFILE -> {"ppbuf", "bbplayer", "sndfile"}
                        [] mode = MODE_CHIRP     -> {"tone_gen"}
                        [] OTHER                 -> {Modulator})
                     \cup {"message", "spinner"})
  /\ Goto("returned")
  /\ UNCHANGED <<options, loop_count, m_exp, work, opts>>

Options == \/ Simple \/ Refused \/ Frequencies \/ Message \/ Stdin \/ ReadStdin \/ AudioFile
           \/ Defaults

Run == \/ Setup \/ FrameMessage \/ Alternate \/ SendAlternating \/ SendSequence \/ PlayChirp
       \/ PlayFile \/ NextPass \/ Teardown

Next == Options \/ Run

Spec == Init /\ [][Next]_vars

(* main runs; a frame is finite, so that a pass that sends it comes to its *)
(* end.  Nothing makes a pass of a file end.                               *)
FairSpec == Spec /\ WF_vars(Run) /\ SF_vars(SendSequence /\ pc' = "next")
-----------------------------------------------------------------------------
(* Whatever options come in whatever order: neither the array of the       *)
(* message nor that of the frequencies is overrun, and as many frequencies *)
(* are set as the modulator will read.                                     *)
WithinArrays ==
  /\ message_len <= FRAME_MAX_PAYLOAD_SIZE /\ n_freqs <= MAX_FREQ_SIZE
  /\ "fsk" \in live => Bit[m_exp] <= n_freqs

(* No symbol is sent that has no tone.                                     *)
EverySymbolHasTone == symbol # NoSymbol => symbol < Bit[m_exp]

(* What is used has been set up, for the mode and the modulator that the   *)
(* last options chose, and main takes down what it set up.  Only the file  *)
(* of an -i that another mode followed is left.                            *)
Lifecycle ==
  /\ At("alternate") \/ At("symbols") \/ At("frame") => {"spinner", Modulator} \subseteq live
  /\ At("play") /\ mode = MODE_MESSAGE =>
       {"spinner", Modulator, "framer", "bitstream"} \subseteq live
  /\ At("play") /\ mode = MODE_AUDIOFILE =>
       {"spinner", "ppbuf", "bbplayer", "sndfile"} \subseteq live
  /\ At("returned") => live \subseteq {"sndfile"} /\ (live # {} => mode # MODE_AUDIOFILE)

(* For ever: -n -1, and by default the alternating symbols.                *)
Forever == asked = -1 \/ (asked = 0 /\ mode = MODE_ALTERNATING_SYMBOLS)

(* Otherwise the program makes as many passes as it was asked to, one by   *)
(* default, and returns, unless it found something wrong at the beginning  *)
(* or a pass of a file did not end.                                        *)
RunsAsAsked ==
  At("setup") /\ ~Forever ~>
    \/ At("exited")
    \/ At("stuck") /\ mode = MODE_AUDIOFILE
    \/ At("returned") /\ (asked >= 1 => passes = asked) /\ (asked = 0 => passes = 1)
-----------------------------------------------------------------------------
(* The claim below is false of the code.                                   *)

(* "-n --loop-count <n>  loop count [default=1]"                           *)
OnePassByDefault == asked = 0 => passes <= 1
=============================================================================
