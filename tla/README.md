# A verification project for psplay

psplay makes a computer's power supply sing: it switches CPU cores between
spinning and sleeping at audio rates, either to transmit symbols (FSK, DBPSK),
to sweep a chirp, or to play a sound file. This directory holds TLA+ models of
its concurrent core, of the way a message takes (framer, line code, bit stream,
modulators), of the chirp's clock and of the program around them, the TLC
configurations that check them, and TLAPS proofs of their main properties.

All line numbers refer to the C sources (`psplay.c`, `ftimer.c`, ...). Which
lines a definition stands for is recorded in `PROJECT.json` under `map`.

## 1. The system

| component | state | operations | talks to |
|---|---|---|---|
| fast timer, `ftimer.c` | `pausing`, `paused`, `exiting`, `outstanding_ticks`, three mutexes, three condition variables, a timerfd, a worker thread | create, pause, unpause, wait, exit, destroy, the worker loop | calls its owner's callback on the worker thread |
| ping-pong buffer, `ping_pong_buf.c` | two slots, their states, a read and a write index, one mutex, one condition variable | begin/done for reader and writer, two availability queries | the main thread writes, the player's callback reads |
| bitbang player, `bitbang_player.c` | `state`, `buf`, `pos`, `state_mutex` | play, stop, the tick callback | owns a fast timer, reads the ping-pong buffer, drives the spinner |
| CPU spinner, `cpu_spinner.c` | the mask `active_cores`, a `shutdown_req` per worker, a mutex, a condition variable, one thread per core | init, spin(mask), destroy, the worker loop | called by one timer callback at a time, or by the main thread |
| multi-tone generator, `multi_tone_gen.c` | one timer per frequency, `freq_idx`, `status` under `status_mutex` | init, switch_frequency, switch_phase, destroy, the callback `toggle` | owns fast timers, drives the spinner |
| FSK and DBPSK modulators, `fsk.c`, `dbpsk.c` | a tone generator, a symbol clock (a fast timer) | start, send_symbol, send_sequence, stop | pull symbols from the bit stream |
| bit stream, `bitstream.c` | `data`, `cap`, `len`, `pos_read`, `pos_write` | write, write_n, write_str, read, seek | filled by the framer, read by the modulators |
| framer and line code, `framer.c`, `x8b10b.c` | the stream's length so far, the running disparity | frame, encode | append to the bit stream |
| simple tone generator and chirp, `simple_tone_gen.c`, `utils.h` | `status`, the last deadline, a timer for each tone | start, step, play, the callback | owns a fast timer, reads the clock, sleeps, drives the spinner |
| time arithmetic, `utils.h` | none | step, difference, conversion | used by the chirp and for periods |
| command line and modes, `psplay.c` | mode, frequencies, message, loop count, what has been set up | options, defaults, setup, passes, teardown | everything above |
| CPU kernels, quirks | none | straight-line code | |

Threads: the main thread (option parsing, then one of the mode loops), one
worker per fast timer at real-time priority, one worker per core. They share
memory under mutexes, and at several places without one; those places are what
this project is about.

What is hard:

* **condition variables** that serve several predicates
  (`ppbuf->cond`, signalled, not broadcast), or whose predicate is written
  without the mutex (`active_cores` on a falling edge, `shutdown_req`);
* **time of check against time of use**: `ppbuf_read_available` followed by a
  `begin` that must not sleep; `state` read twice by `bitbang_player_stop` without
  its mutex; the index flips after the mutex was released;
* **a pause as a barrier**: `paused` left over from the pause before, an unpause
  the worker has not noticed yet;
* **shutdown**: the worker that returns with `control_mutex` locked, a timer
  destroyed while blocks are queued, a timer unpaused in order to be destroyed;
* **bursts**: a read of the timerfd returns several expirations, and the
  callback then runs several times in a row;
* **numbers**: the tick counter's overflow, shifts by the width of the mask,
  copies of bits across octets, lengths that are announced and then written,
  seconds and nanoseconds, tables of code groups and their disparity;
* **sequences of options** that each change what the one before set.

What makes each component correct, in a sentence: the buffer is a FIFO channel
of whole blocks; pausing a timer stops its callback; the player plays the
file's samples in order and never sleeps in its callback; a core that is
switched on spins and one that is switched off sleeps; one tone at a time
toggles the output; a frame is as long as announced and a receiver can
synchronize on it and decode it; a pass sends every bit of the frame; the tones
of a chirp keep to its clock; the program makes the passes it was asked for with
what it has set up.

## 2. The modules

```
 BlockChannel <--implements-- PingPongBuf --+
                                            +--> BitbangPlayer (composes both)
 PausableTimer <--implements-- FTimer ------+
       ^
       +--- one instance per tone --- ToneGen          CpuSpinner
       +--- one instance ------------ Chirp --> Timespec

 X8b10b <-- Framer --+
                     +--> MCMessage (both in one run)
        Bitstream ---+            Psplay (options, setup, passes, teardown)
```

`X --implements--> Y`: Y is instantiated in X with a refinement mapping and
checked as a property of X. A `...Proofs` module EXTENDS its component and
TLAPS. In all modules a critical section that touches only data of its own
mutex is one step; where a thread holds a mutex over several steps, who holds it
is state. `pthread_cond_wait` may return without a signal in every module that
has one. Definitions called "Fault variant" are plausible mistakes in the code,
one or more for each property; none of them is part of a specification. Each
shows that its property would notice the mistake: put in place of the definition
it varies, it makes TLC report a violation.

### PingPongBuf, BlockChannel
`PingPongBuf` has the slots, their states, the two indices and where each of the
two threads is. `Begin` is one round of the loop in `wait_for_state_becomes`,
`Done` the critical section of `set_state` with its `pthread_cond_signal`,
`Flip` the unlocked index change that follows. The slots' contents are accessed
by `WriteBlock` and `ReadBlock`, steps of their own outside the mutex.
`BlockChannel` is what that promises: a queue of at most two blocks, first in,
first out, and a reader that gets what is there. The mapping has one subtle
place: between `set_state` and the flip the reader's index still names the slot
it gave back, which the writer may have filled again.

### FTimer, PausableTimer
`FTimer` is the worker loop of `ftimer_run` step by step, the kernel's count of
expirations, and one client that makes any sequence of calls. `control_mutex` is
held by the worker over several steps (`control_locked`) and *never released* on
the exit path. `outstanding_ticks` is a signed integer that wraps.
`PausableTimer` is the timer without locks and condition variables: its worker
is ready, parked, reading, calling or ended, and looks at `pausing` and `exiting`
between two turns only. The mapping (`WorkerIs`, `CallbacksLeft`) reads the
abstract worker's state off the concrete program counter.

### BitbangPlayer
Composes `PingPongBuf` (writer: main thread, reader: tick callback) and `FTimer`
(client: main thread, callback: `tick_cb_func`) and adds `state`, `state_mutex`,
`buf`, `pos` and the loop of psplay's audio mode, with `sf_read_double`'s short
read. A sample is its position in all there is to play, so that a wrong order,
a loss and a stale sample can be told apart; `reached` remembers the latest one
played. The spinner is reduced to "the sample it renders".

`buf`, which no line of the code initializes, begins as NULL or as `Garbage`, a word
that is neither NULL nor a slot; `stray` remembers which. `bitbang_player_stop` is
its two reads of `state` (`Stop` for line 90, `StopPlaying` and `ForgetStop` for line
93), the setting of STOPPING and the destruction of the timer. If the callback stalls
between the two reads, `ForgetStop` returns and leaves the timer running. What the
main thread does next, a play over that timer (`PlayOverTimer`) or `ppbuf_destroy`
under its callback (`Finish`), has no meaning in C: `mpc` becomes "undefined", and no
thread takes another step.

### CpuSpinner
Workers step by step (lock, test, sleep, unlock, spin), `cpu_spinner_spin` with
its locked rising edge and its bare falling edge, creation with failure, and
shutdown. It assumes one caller of `cpu_spinner_spin` at a time; for the tone
generator this is `OneSpinnerCaller`, proved, for the chirp it follows from
`OneTimer`, and in the player only the tick callback calls it.

### ToneGen
A generator with `NTones` frequencies, each timer a `PausableTimer`, and the
modulator's thread: start, switch tone, switch phase, stop, start again. `toggle`
is two steps, because a phase switch could fall between the new level and the
call of the spinner. A turn of an FSK timer makes up for all missed expirations,
one of a DBPSK timer for none (`FTIMER_COMPENSATE_MISSES`).

### Bitstream
`bitwise_copy` with its two loops on octets of `OctetBits` bits, write,
write_str, read and seek, and the loops that use them: the framer appends, then
in each pass a modulator seeks to 0 and reads `m_exp` bits at a time until
nothing is left. It is checked against a reference that knows bits only
(`Bits`). Memory is a function from the positions of bits, and bit `p` belongs to
octet `p \div OctetBits`; `Store` is the code's store of one octet, which keeps the
bits below the position, and clears those above what it writes. `Round` is a turn of
the inner loop, or of the outer one when `u.reg` is empty; `u.reg` never holds more
than the bits of one octet. `Copy` and `WriteStr` are recursive functions, so that
they can be proved about.

### X8b10b, Framer
`X8b10b` holds the encoder's four tables, octet for octet, and `x8b10b_enc`, which
is an operator of the octet, the control bit and the running disparity; `Group` is
the ten bits that `bitstream_write_8b10b` puts into the stream for it. `Framer` is
`framer_frame`: the computed length, the checks in the code's order, and one step
for each symbol of the preamble and each code group. Of the stream it keeps the
number of bits and the last ten of them. A message is a number of octets, each of
which is chosen when it is written; so are the parity octets, which
Reed-Solomon coding (libcorrect) would give. A raw payload is one step. The length
is computed in a `size_t` (`SIZE_MAX`): with `-q -1` it wraps to a small number, passes
the E2BIG check, and the preamble's own write fails.

`MCMessage` puts the framer and the stream into one run, each with the other one as
it begins: they share no variable.

### Timespec, Chirp
`Timespec` has the operators of `utils.h` on seconds and nanoseconds, with the
length of a second a constant. `Chirp` is `play_chirp`: each tone computes its
deadline from the one before it, reads the clock, creates a timer (a
`PausableTimer`), sleeps what is left, and destroys the timer. The clock goes on
between any two of these steps.

### Psplay
`main`, with the options in any order and number. It shows how the modes share
`n_freqs`, `m_exp`, `use_dbpsk` and `loop_count`, and which components exist when
(`live`). What happens during a pass is a row of symbols, or one step; the other
modules are about that. A pass of an audio file (`PlayFile`) may also end in "stuck":
its stop may never return (`player_hang`), or be forgotten (`BitbangPlayer`), after
which nothing is known of the program.

## 3. The runs

| run | module | what it asks | result |
|---|---|---|---|
| `ppbuf` | PingPongBuf | slots never shared, answers of `*_available` stay true, no lost wakeup and no common sleep, a sleeping writer proceeds, FIFO channel | holds |
| `ftimer` | FTimer | pause is a barrier; no lost wakeup; pause, wait, destroy return; implements PausableTimer with its fairness | holds |
| `player` | BitbangPlayer | the callback uses only slots it was given, never sleeps, samples in order over two passes, a stop that was set stays, the main thread proceeds | holds |
| `spinner` | CpuSpinner | no lost wakeup, on means spinning, off means asleep, shutdown ends | holds |
| `tonegen` | ToneGen | one tone at a time, silent before the timers are destroyed, toggles not torn, switching and stopping return, timers are PausableTimers | holds |
| `message` | MCMessage | the frame is as long as announced; no direct current; every code group can be told from every other; the comma is in the delimiter and nowhere else; the stream's positions are in bounds, writes append exactly what they are given, every pass sends the whole stream | holds |
| `chirp` | Chirp | each tone is told to last until its own deadline, none is cut off, one timer at a time, the chirp ends | holds |
| `psplay` | Psplay | message and frequency arrays not overrun, every symbol has a tone, what is used is set up and is taken down, as many passes as asked unless a pass of a file never ends | holds |
| `player_hang` | BitbangPlayer | stop returns | violated |
| `tone_stop` | ToneGen | no generator, no spinning core | violated |
| `frame_fits` | Framer | a frame that does not fit is refused | violated |
| `loop_default` | Psplay | one pass by default | violated |

### What the violated runs show
1. `player_hang`: if the callback gets to STOPPED before the main thread
   destroys the timer, it calls `ftimer_exit` itself; the worker returns with
   `control_mutex` locked, and the main thread's `ftimer_destroy` waits for that
   mutex forever.
2. `tone_stop`: `ftimer_exit` unpauses a timer in one critical section and sets
   `exiting` in the next. In between the worker can leave its pause, read the
   expirations that piled up while it was paused, and toggle the spinner on after
   the generator has turned it off. It stays on during psplay's loop delay.
3. `frame_fits`: the length that the E2BIG check uses does not count the start
   frame delimiter (framer.c:69-84). With 16 frequencies and the default parity
   and preamble a message of 212 octets makes a frame of 2630 bits, the check sees
   2620, and the payload's write fails: the program aborts where psplay.c:307 would
   have said "Could not encode message".
4. `loop_default`: psplay.c:214 says "loop count [default=1]", but in the default mode
   no `-n` means for ever (psplay.c:230): `psplay` without options begins a second
   round of its alternating symbols, and goes on.

### Other divergences
Seen while modelling. No document, comment or test of the repository says otherwise,
so that no run of its own refutes anything; the first two are in the behaviours of
`player`, and the properties say how far they go.
* `bitbang_player_stop` can forget to stop: the callback goes from PLAYING to STALLED
  after line 90 and before line 93, and the function returns at line 97. The next
  `bitbang_player_play` creates a timer over the one that is running, or, after the
  last pass, `ppbuf_destroy` frees what its callback reads. In `player`, `ForgetStop`,
  `PlayOverTimer` and the undefined end of `Finish` are all reached. `StopIsSticky`
  says that nothing else lets a stop be forgotten.
* `bitbang_player_init` and `bitbang_player_play` do not set `buf`, and the player
  is on `main`'s stack. If the word there is not NULL, the first tick gives back a
  slot it never had and the reader runs one slot ahead from then on, so that the
  order of samples is lost: `SamplesInOrder` speaks of runs where it was NULL. The
  other properties hold all the same, but that `PlaysHeldSlot` excepts this one slot.
* With `-q -1` the length of the frame wraps in a `size_t` and passes the E2BIG check;
  the preamble's write then aborts the program where it would have refused the frame.
* After a short read (`sf_read_double`) the whole block is handed over and played,
  with what the slot held before behind the file's last sample; SamplesInOrder
  says how far this goes.
* `bitbang_player_stop` destroys the timer right after it has set STOPPING, so
  that the STOPPING -> STOPPED path of the callback, which would let the buffer
  drain, is usually not reached and the end of the file is not heard.
* `active_cores` keeps the last sample's level after a stop, and the next play sets
  STALLED without idling the cores.

### Bounds, and why they are enough
* `ppbuf`: two block values (equal or different blocks in the two slots and the
  reader's copy). Nothing is counted: the state space is complete.
* `ftimer`: `MaxExp = 2` gives a turn with a second callback and an expiration
  during a turn. `IntMax = 2` lets `outstanding_ticks` overflow within a few
  ticks. `CompensateMisses = FALSE` is the longer loop; the proofs cover both.
* `player`: blocks of two samples (a first and a last one), a file of three
  blocks (one more than there are slots), the last of which is short, and two
  passes (what a pass leaves to the next). `buf` begins as NULL and as `Garbage`.
  `player_hang` uses the shortest file that shows the effect.
* `spinner`: three cores, so that a request may switch on none, some or all of
  them, and a creation may fail with none, one or several workers to shut down;
  a mask of four bits, wider than the cores.
* `tonegen`: two tones, one to switch from and one to switch to; also the same
  tone again. `MaxExp = 2` as above. The number of symbols and of restarts is not
  bounded.
* `message`, the stream: octets of three bits instead of eight. `bitwise_copy` uses the
  octet's width only for positions `/` and `%`; three bits give a first, a middle
  and a last position. Seven bits of capacity are two octets and a part of a
  third; writes and symbols of up to four bits are longer than an octet and
  straddle a boundary from any position.
* `message`, the frames: all octets in every place, so that each pair of neighbouring code
  groups occurs at both disparities. A run of equal bits, or a comma across a
  boundary, concerns two groups, and the disparity is all that one group hands to
  the next: three octets of header and two of payload meet every case. The
  capacity of 62 bits accepts some frames, refuses some, and accepts some that fit
  only without the delimiter; with `SIZE_MAX` at 4095 the longest preamble makes the
  length wrap. `frame_fits` has the program's own numbers.
* `chirp`: seconds of three nanoseconds and durations below and above a second give
  a carry, a borrow and a deadline that is past; three tones let one be late and
  the next make up for it. Beyond `MaxNow` the clock goes on only under a sleep.
* `psplay`: two options can fill or overrun an array and two more change the mode
  and the modulator; `MAX_FREQ_SIZE` is 4 (powers of two and others up to it), a
  message has at most three octets; passes are counted up to one more than asked.
  `loop_default` gives no option at all.

### Fairness
A thread that can run does: weak fairness for the timer's worker, the tick
callback, the spinner's workers (each has its own core) and for a client inside
a call. The timerfd ticks (weak fairness of `Tick`). Callbacks return. Strong
fairness is used for acquiring a mutex that others take again and again: the
client's `control_mutex` in `ftimer_exit`, which competes with a worker that
takes it once per period and then sleeps in `read()` without it; the player's
`state_mutex`, likewise; the spinner's mutex. And for a signalled `ftimer_wait`
when the counter is positive: it must run before the counter has gone once round
the values of an int, 2^31 ticks away. In Chirp the clock goes on. In Psplay a
pass over a frame comes to its end (strong fairness: the symbols of a frame are
not counted there, but Bitstream's SentIsStored says that the frame is what is
sent, and it is finite). A pass of an audio file need not end there. Nothing is assumed
about whether a client makes another
call, whether the writer has another block, whether a symbol comes, whether
another chirp begins, or whether the user goes on with the options.
`WriterProceeds` of PingPongBuf needs the reader to keep asking; the tick
callback does as long as its timer exists, and in `player` it follows from the
threads' own fairness.

Deadlock is checked wherever the program is meant to go on forever. It is not in
`player` and `player_hang` (the program ends after its passes), `spinner` (it ends
after destroy), `psplay` and `loop_default` (it returns, or a pass never ends) and `chirp` (past the clock's bound nothing
is left to do).

## 4. The proofs

All proofs are for every value of the constants, from the assumptions named in
the modules: `NoBlockAssumption` (memory before the first write is not a block),
`TimerAssumption`, `CoresAssumption`, `TonesAssumption` (bounds are positive
naturals), `FramerAssumption` (capacity, lengths and parities are naturals, the
preamble's length is a `size_t`), `SizeAssumption` (a stream and a frame without its
preamble are far shorter than a `size_t` can say),
`GigaAssumption` and `ChirpAssumption` (a second has nanoseconds, a duration is a
valid time), `PlayerAssumption` (lengths and bounds are positive naturals, a slot is
no null pointer), `StreamAssumption` (octets, capacities, writes and symbols have
bits), `PsplayAssumption` (`MAX_FREQ_SIZE` and the other bounds are naturals, and
what the limits in the headers must satisfy). TLC evaluates them in every run.

Every argument has the same shape: an inductive invariant `IInv` that contains
the invariant to be proved, shown to hold initially (`InitIInv`) and to be
preserved by each action (`StepIInv`, one step per action), and one temporal
step; where one property needs more, a second invariant rests on the first. Each of
them was checked with TLC before it was proved.

* **PingPongBufProofs.** `ReadyWhenHeld`: a thread that holds a slot, or was told
  it is available, finds it in the state it wants. `NoLostWakeup`.
  `Alternation`: the two indices, corrected for a flip that is due, tie the two
  slots' states together; without it a slot could be ACTIVE out of turn and the
  signal could reach the wrong sleeper. `UsedIsWritten`. Results: `TypeCorrect`,
  `SlotsAreExclusive`, `AvailabilityIsStable`, `NoWakeupIsLost`, `NoDeadlock`,
  `HeldBlocksAreStable`, and `ImplementsChannel` (every step is a step of
  BlockChannel or a stutter).
* **FTimerProofs.** `LockHeld`: when control_mutex is held, and by whom.
  `PausedIsParked`: `paused` is true exactly inside the paused block, which is what
  makes a stale `paused` from the pause before harmless: the client reads it only
  after setting `pausing`, and then the worker does not get out. `PauseHolds`.
  `NoTimer` and `InTurn` serve the refinement. Results: `TypeCorrect`,
  `PausesQuiesce`, `NoWakeupIsLost`, `ImplementsPausable`.
* **BitbangPlayerProofs.** `BufIsHeld`: wherever the callback is, `buf` is NULL and
  the block counts as played, or `buf` is the slot the callback holds in the
  ping-pong buffer; only before the first tick may it be anything else (`StrayStart`),
  and then the block counts as played too, so that it is not read through. That
  outlives a stop, which may cut a block off: the next play only sets `pos`, and the
  slot is given back on the first tick. `AtStart` and `NoTimer`: a play finds no
  callback running, or, after a forgotten stop, leads to "undefined", so that `pos`
  does not change under one. `ReadyWhenHeld`, as in PingPongBufProofs. The type of
  `sample` needs this too: it is read through `buf`. `StateInv`: from play to stop the
  player is STALLED or PLAYING and has a timer, so that a stop which finds neither
  twice was overtaken by a stall.
  For the order of samples there is a second invariant, `OrderInv`. `Alternation` is
  PingPongBufProofs' account of the two slots; `Queue` says which block of the file a
  slot holds, counted from the reader's position: the slot whose turn it is holds the
  block that is due, the other one the block after it, up to the last one handed
  over. `MainPhase` ties the block in the writer's hands to the place in the file,
  over the end of a pass and a short read. `Progress`: every sample before the one
  that is due was played, except that a stop may have cut off the rest of the block
  that ended its pass. `Ordered` limits all this to behaviours where `buf` began as
  NULL and that still have a meaning. The other results need neither. Results: `TypeCorrect`, `PlaysWhatItHolds`,
  `CallbackNeverSleeps`, `StopsAreSticky`, `PlaysInOrder`.
* **CpuSpinnerProofs.** `MutexHeld`: at most one worker is in the section, and
  the mutex is locked while it is. `CreateOrder`, `ShutdownOrder`: which workers
  exist and which have been told to stop, given where the loops are; needed
  because `core - 1` and `core + 1` must stay cores. Results: `TypeCorrect`,
  `NoWakeupIsLost`.
* **ToneGenProofs.** `OthersQuiet`: any timer but the current one is gone, or
  asked to pause and not past the test. `AllQuiet` while the thread is between
  the pause and the next unpause. `GoneEnded`: timers outside the created range
  have ended. `OwnerCalls`: status_mutex is held only by a callback. Results:
  `TypeCorrect`, `TonesExclude`, `SpinnerCallersExclude`, `SilentAtDestroy`,
  `TogglesAreAtomic`, `TimersArePausable`.
* **MessageProofs**, about Framer and Bitstream.
  *Lengths.* `Position` says where the stream ends at each unit of each part; a group
  is ten bits, whatever the tables hold. Once a preamble is in the stream, the length
  cannot have wrapped (`NoWrap`). Result: `FrameLengthIsAnnounced`, for every
  capacity, message, parity, preamble and number of tones.
  *Code groups.* The lemmas go through the tables once (`SixBalanced`, `FourBalanced`:
  a code has as many ones as zeros, or two more of what lacks; `SixBack`, `FourBack`:
  the code tells the index), and then follow the bits of a code through
  `x8b10b_enc` and `rev10b` into the stream (`GroupIs`). `Distinct`: two octets that
  have a group in common are equal. The invariant `Line` says that the stream's
  disparity is the encoder's `rd`, and that the last ten bits are the group of what
  was encoded last. Results: `NoDirectCurrent`, `GroupsDecodable`.
  *Synchronization.* Five equal bits or a comma can also come about where two groups
  meet, so the proof needs both of them. `SixLike` and `FourLike` keep what the codes of
  a disparity have in common: by how much they are out of balance, which few patterns
  the tables leave out, and when D.x.A7 takes the place of D.x.P7
  (`DataShape`, `DelimiterShape`, from the tables). What a group may do behind another
  (`Inside`, `GroupAfterGroup`) and behind a preamble (`GroupAfterPreamble`,
  `DelimiterAfterPreamble`) follows from that alone, by arithmetic on bits. The
  invariant `Follows` says what the next group comes behind: a group's end with the
  disparity `rd`, or, with `rd = -1`, a preamble without two ones in a row
  (`PreambleSparse`). Result: `FramesSynchronize`, for every preamble, number of tones
  and message.
  *Bits.* `CopyIsExact`: for all memories, offsets and lengths, `bitwise_copy` puts the
  bits where they belong, keeps those before them, and keeps or clears those behind
  them. The loop's invariant is `Moved`; the measure `Left`, two for each bit
  still in src and one for each in `u.reg`, goes down in each round (`Consumes`,
  `Fetches`), so that the rounds suffice (`CopyRuns`). Induction is over the *set* of
  numbers for which a formula holds (`Induction`, from well-foundedness), which needs
  no operator parameter. The invariant of the specification is `StreamInv`: the
  positions are in bounds, and what was sent so far is the stream up to `pos_read`
  (`SentSoFar`). Results: `CopyIsExact`, `PositionsInBounds`, `WritesAppend`,
  `EveryPassSendsTheStream`, for octets, capacities and symbols of every size.
* **ChirpProofs.** First the arithmetic (`NanosecondsConvert`, `StepAdds`,
  `DiffSaturates`): each operator against its meaning on numbers of nanoseconds.
  Then `OnTime`: at each step of a tone the clock, plus what is still to be slept,
  reaches the tone's deadline; `InTurn` ties the timer's worker to the main thread.
  Results: `TonesAreNotCutOff`, `TimersExclude`, `DelaysDoNotAddUp`.
* **PsplayProofs.** First what IS_POT and log2_int compute, by induction over
  halving: `PowersOfTwo`, if `x & (x - 1)` is 0 then `1 << log2_int(x)` is `x`. Then
  `LiveInv`: which components exist at each place of `main`, in each mode. `ToneInv`:
  `n_freqs`, `m_exp` and the modulator fit together once the options are read, in
  whatever order they came. `LoopInv` and `PassInv`: the loop count against the passes
  made so far. Results: `ArraysNotOverrun`, `SymbolsHaveTones`, `SetUpAndTakenDown`,
  `ReturnsAsAsked`.

The chain of refinements: ToneGen's timers are PausableTimers
(`TimersArePausable`), and a PausableTimer is what `ftimer.c` implements
(`ImplementsPausable`). ToneGen's owner waits for "parked" where the code waits
for `paused`; that this is right is `PausesQuiesce`. And `OneSpinnerCaller`
discharges for the tone generator what CpuSpinner takes for granted.

### Checked, but not proved
* Liveness, in every module, and the fairness part of the two refinements: TLAPS
  reasons neither about ENABLED nor about liveness under fairness.
* Everything else that a passing run checks is also a theorem.

## 5. What is not modelled

* The non-Linux branch of `ftimer_run` and timers without `FTIMER_RUN_ASYNC`,
  which nothing uses; failures of allocation, of `pthread_*_init` and of the
  affinity calls; what the program does after a `cpu_spinner_init` whose failure
  it does not notice.
* How loud a sample is (gain, rounding, number of cores), frequencies and what a
  burst of toggles sounds like.
* `timespec_cmp` and the conversions from and to `struct timeval`: no line of the
  Linux build uses them.
* CPU kernels (arithmetic that only draws power) and quirks (writes a file in
  sysfs). Neither has a state that a property could be about.
* Reed-Solomon coding, the sound file library, the kernel's timerfd and the clock
  are external; they are modelled by what the code uses of them.
* Options that set a number: the gain, the baud rate, the loop delay, the parity
  ratio, the preamble length and the frame's flags are open in the modules that use
  them, and are not followed from the command line.

Hazards no property covers are in `PROJECT.json` under `hazards`, each with the
reason.

## 6. Plan

Done: the concurrent core (PingPongBuf, FTimer, BitbangPlayer, CpuSpinner,
ToneGen), the message's way (Framer, X8b10b, Bitstream), the chirp with its time
arithmetic, the program around them (Psplay), the abstract specifications, and
the theorems above.

Left:
1. A client of FTimer whose callback exits its own timer, as the player's does, so
   that the player's timer is an instance of FTimer's specification.
2. Variants: `StopSpinning` in a build that reads `shutdown_req` once; the bound of
   64 timers against 128 frequencies.
