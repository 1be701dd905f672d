# A verification of ReSampler in TLA+

ReSampler is a command-line sample-rate converter. This directory holds TLA+ modules of its own
logic, the TLC configurations that check them on small instances, and proofs that the TLA+ proof
system checks for all values of the constants. Paths without a directory are those of the
repository's `src/`. The numeric design of the filters, the file formats of libsndfile and the
FFT are outside it.

## 1. The system

| Component | State | Operations | Modelled in |
|---|---|---|---|
| Thread pool, `ctpl/ctpl_stl.h` | queue of functors, threads and their flags, mutex, condition variable, `isDone`, `isStop`, `nWaiting` | `push`, `pop`, `clear_queue`, `resize`, `stop`, destructor, the threads' loop | `TaskPool`, `ThreadPool` |
| FIR filter, `FIRFilter.h` | double-length ring `signal`, `currentIndex`, `lastPut`, shifted kernels | `put`, `putZero`, `get`, `lazyGet`, `reset` | `DelayLine`, `FIRFilter` |
| Resampling stage, `srconvert.h` | the decimation index `m`, a filter | `convert` (five functions), `reset` | `ResamplingStage` |
| Converter, `srconvert.h` | stages, intermediate buffers, gain, group delay | constructor, `convert`, `reset` | `Converter` |
| Planning, `fraction.h` | none (a search) | `getConversionStages` and what it calls | `Fraction` |
| Block loop of `convert()`, `ReSampler.cpp` 730-880 | block and channel buffers, offset, progress, peak, one task per channel | read, process, collect, write, end | `SerialPass`, `BlockLoop` |
| Passes of `convert()`, `ReSampler.cpp` 599-992 | gain, peak, attempts, temporary file, output file | open, convert, test, rewrite, decide | `Convert` |
| Ditherer, `ditherer.h` | random numbers, noise filters, error history, auto-blanking, gain | `dither`, `adjustGain`, `reset` | `Ditherer` |
| Effects, `effect*.h`, `fadeeffect.h`, `stereoimager.h` | buffers, fade position and gain | `process` | `EffectChain`, in `BlockLoop` |
| DSD readers, `dsf.h`, `dff.h` | place in the file, buffered block, cursors | open, `read`, `seek` | `SampleStream`, `DsfFile`, `DffFile`, `InputFile` |
| I/Q reader, `iqdemodulator.h` | place in the file, phase history | open, `read`, `seek` | `IQFile`, `InputFile` |
| MPX decoder, `mpxdecode.h` | delay line, filters, pilot gain, peak and presence | `decode` | `MpxDecoder` |
| CSV, `csv.h` | fields and lines | `write` | only as a kind of output that may not be open and that throws, in `Convert` |
| Options, `conversioninfo.cpp` | the options | reading a command line, writing one | `CommandLine` |
| `runCommand`, `ReSampler.cpp` 1434-1619 | the options, the formats | information, format of the output, dispatch | `Program` |

How they interact. `convert()` makes one `Converter` per channel. In each pass it makes a thread
pool with a thread per channel, and for each block of the input pushes one task per channel; a
task runs its channel's converter over its buffer and interleaves the result into the block's
output, which `convert()` writes when all futures are ready. The buffers, the block's size and
the gain are captured by reference, so the futures are the only synchronisation. A converter
hands the output of each stage to the next through an intermediate buffer; a stage puts samples
and stuffed zeros into its filter and takes an output every `M`-th time. When the peak of a pass
is over the limit `convert()` reduces the gain and repeats, from the temporary file if there is
one and from the input, rewound, if not. What it reads is a libsndfile file or one of the readers;
of these, `IQFile` feeds wideband FM to an MPX decoder. `runCommand` makes the options of the words
of the command line, chooses the format of the output, calls `convert()` and turns its result into
the exit status. The stages of a converter can be printed as command lines of their own.

What is hard in it: wake-ups and the end of the pool (any order of several threads), buffers
shared without a lock, positions carried over from block to block (so that the cutting of the
input into blocks must not show), sizes rounded up in one place and used in another, a
repetition that must start with nothing left of the pass before, and decisions about formats and
options that are made in several places with fall-backs in each. Nothing is persisted, and there
is no network, so there are neither restarts nor lost messages.

What makes each part correct:

- the pool: each functor is run once by one thread or dropped, none is left queued with all
  threads asleep, futures become ready, the destructor returns, after all of them;
- the filter: the ring is a delay line, and the vector loads stay inside it;
- the stage and the converter: how many outputs a stream makes, and which samples meet which taps,
  depend on the stream only; what is made fits its buffer;
- planning: the stages multiply up to the ratio, keep the band, and a plan is always found;
- the readers: the samples come in the order of play for any sizes of reads, to the end that the
  header announces, and again after a rewind (of the DSF reader this is true of files with one of the
  two bit orders only, see section 3);
- the MPX decoder: mono and side signal are mixed without a shift in time, and the search for the
  pilot comes to an end that is final;
- the ditherer: silence is blanked in time and never a sound, the noise has the level of the gain, and
  a repetition is dithered as the first pass was;
- the block loop: the file is what one thread would write, without the delay, long enough;
- the passes: no history in a repetition, which replaces the conversion before in the output (true
  where libsndfile can go back in it), not clipping, not quieter than needed, and an end;
- the program: the order of the options does not matter, success means that the output was written
  as it was asked for (as far as the code looks at that), and a printed stage means that stage.

## 2. The modules

`X.tla` models a component, `MC_X.tla` gives its constants for TLC where a configuration cannot,
`XProofs.tla` holds its theorems (those about MpxDecoder are in `InputFileProofs.tla`). `map` in `PROJECT.json` names the lines of every definition.

**ThreadPool** has one step for each access to what the threads share: the queue has a lock of its
own (`TakeHead`), the pool's mutex is held from `LockAndWait` through the predicate of `cv.wait`
(`TestPopSome`, `TestPopNone`, `TestDone`, `TestFlagExit`) to `Sleep` or `LeaveWait`. A sleeping
thread wakes by `NotifyOne`, `NotifyAll` or `SpuriousWake` and takes the mutex again (`Relock`).
The client is one thread, as the header asks, and its calls are steps too: a push is seen in the
queue before it notifies; `stop` raises its flag before it takes the mutex. `Ops` says which
methods the client uses. It implements **TaskPool**: tasks start in the order of submission, run
at most once, and the pool closes when nothing is left; a client that shrinks the pool gives up
the tasks of the threads it detaches (`loose`), and the destructor does not wait for those,
though the comment at `ctpl_stl.h:78` says that it does. ReSampler never shrinks a pool.

**FIRFilter** is the ring, with what `get()` computes as the set of pairs <<tap, sample>> it adds
up. The kernel of phase n is the one before, moved up by one, of `length - 1` elements
(`kernelphases`). It implements **DelayLine** through `Window`. The window starts at the slot that
will be written next, so tap 0 meets the oldest sample and tap i > 0 the one put i - 1 puts ago.

**ResamplingStage** instantiates FIRFilter and runs the five convert functions one sample at a time.
Samples are numbered, so `last`, the products of the last output, says which of the stream met
which tap.

**Fraction** is `fraction.h` as operators; the search's loop is `attempts`, and no candidate at all,
where the code would read the last element of an empty vector, is the empty sequence.
**Converter** is the cascade over the plans of Fraction, with the counts and the decimation indices
of ResamplingStage in place of samples: ResamplingStage's `OutputCount` is what justifies that.
The low-pass parameters are in 22nds of the band so that the code's 20/22, 21/22 and widths are
integers.

**DsfFile** and **DffFile** are the DSD readers, with a file as what its headers and chunks say, and
its length. Opening a DSDIFF file takes a step for each chunk (`Chunk`, `Properties`, `Property`,
`SoundData`), of which the code reads as many bytes as it knows and not as many as the header says,
so that the two can differ. `Read` is a whole call: its loop runs over `ReadSample`, which fetches a
block when the cursor is at the end of the last one. A sample is the place of its byte in the file
and its bit. Which bit of a byte is played first is in the DSF file (`bitOrder`) and, independently, in
the reader's table (`reversed`), which is made before the header is read and so may be either; the
stream (`Sample`) is that of the file's bit order. The reader has six buffers for the channels and does not look whether
they are enough; files that keep to the format have no more channels (`DsfLayout`). **IQFile** reads a libsndfile file of two channels. A sample of AM or of a sideband is its
frame; the differentiator of narrowband FM is a ring of phases, and a sample of it is the frames in the
ring, newest first, because the coefficients add up to zero and only differences count; wideband FM
delivers two samples for each, one per channel. **InputFile** is a DSF, DSDIFF or I/Q file, as
`runCommand` chooses, and implements **SampleStream**, a DSF file where the table has its bit order
(`PlaysInOrder`): the stream is computed from the layout of the file alone, the position from what was fetched and what is still buffered. A seek does not clear the ring, so the first samples of FM after a rewind,
as many as the differentiator is long, are mixed with what came before; they are all that `Settled`
leaves out of the comparison.

**MpxDecoder** extends FIRFilter, whose variables are the side signal's filter here, with the delay
line of the mono signal and the search for the pilot. The code multiplies the pilot's gain by a rate
up and by another one down, and compares levels; the model adds to logarithmic levels. What the
filters and the oscillator compute is left out, so the pilot's level may be any in each sample, and
the two products at the end (mono plus and minus side) are the samples that they are made of.

**Ditherer** is the ditherer of one channel over the passes of convert. A random number is known by its
place after the seed and a quantisation error by its pass and sample, so what of an earlier pass gets
into a sample can be told. Levels are integers. `Repeat` is what `convert()` does to it between
passes.

**BlockLoop** instantiates TaskPool (not ThreadPool, whose inner steps it need not see), and runs
one pass. A frame holds, for each channel, which frame of the converted stream was put there; a task
that meets another block's input than its converter expects puts `Garbled`. It implements
**SerialPass**, in which a pass is one thread's work. **EffectChain** is what lies between the block
and the file: the chain that `convert()` sets up, each effect with its own buffer, and the fade with
its place and gain. The unit of the gain makes both fades' steps integers; where the code's product
of rates stops short of unity by a rounding error, its fade in takes a frame more.

**CommandLine** has the words of a command line as model strings, each option found by itself in all
of them, with the conflicts and limits in the order of the code. A number is an integer in units of
1 / `Scale`, which is a multiple of 110 so that the filters' 10/11 and 21/22 are. Of what `std::stof`
throws at a word that is no number, the code catches one kind: a word that is not a number at all leaves the
parameter as it was, and one that is too large (`TooLarge`) ends the program (`NumberThrows`). **Program**
extends it and Convert: `runCommand()` from the words to the exit status. Its steps are the parts of
that function that can end it. The format of the output is chosen in two places (`RequestedBitFormat`,
`NewExtension`), with `determineBestBitFormat` behind both; the tables of formats are constants. A
look-up that finds nothing is what the code makes of it: an exception, or the memory behind the map,
which is a word that is no format or a fault. `Dispatch` hands `Job` to Convert's variables, and
`RunConvert` is Convert's `Next`, with the one choice that it leaves open, whether the output can be
opened, tied to whether libsndfile can write that format. `KindOfOutput` says whether libsndfile can go
back in it. The gain that `--gain` asks for counts with its absolute value (`Size`), since the peak of what it is multiplied into does.

**Convert** makes a pass one step and is about the two loops around it. A file is the list of the
peaks of the conversions written to it, peaks and gains are integers, rounded up in products and
down in adjustments. The code's `clippingTrim` is what the rounding down stands for. Options,
signal, effect and initial gain are chosen in `Init`, for the proofs about the passes by themselves;
in the runs they come from the command line (`Dispatch`). That a temporary file cannot be made is a
choice of `Open`, that the output cannot be opened is `OpenFails`. `Rewound` is what a rewrite from the
temporary file finds in the output: nothing, if libsndfile could go back in it; all that was written
before, if it could not (`"unseekable"`: for flac, GSM and some kinds of ADPCM `seek` fails and
`ReSampler.cpp:930` does not look, for ogg it does nothing) and in a csv file. Writes may fall short. How much libsndfile wrote
is not asked for, so a conversion in the output may be `Partial` and the temporary file may be cut
(`tmpCut`), after which the peak is that of what is left. A csv file that could not be opened (`csvErr`)
takes nothing and says nothing; one that was opened throws when a write fails, out of `convert`
(`CsvThrows`), or from its destructor, which ends the program (`CsvCloseThrows`). Dither is a choice of peak in
each pass; the code re-seeds it, so this allows more than happens.

## 3. What the runs check

| Run | Question and result |
|---|---|
| `ThreadPool_ReSampler` | Push and destroy, as `convert()` does: every call returns, the destructor waits for all functors and leaves no thread behind, and the pool implements TaskPool with its liveness. |
| `ThreadPool_API` | Every method in any order: one owner per functor, the mutex and `n_idle` right, nothing stranded, TaskPool implemented. |
| `MpxDecoder_Stereo` | The filter's ring, in the decoder, is a delay line; vector loads in bounds; the vector loop computes the scalar products without those of the last taps, as many as the phase; the mono sample is the one that the side filter's middle tap meets; whether there is a pilot is decided in the end and once. |
| `ResamplingStage_Blocks` | All functions and all cuttings: number of outputs, decimation index and the products of each output are those of the uncut stream, also after a reset. |
| `Converter_Common` | All pairs of thirteen rates but one, `--maxStages` 1 to 10, all filters it builds in, the program's own buffer size: stages are found, no more than asked for, and keep the band; buffers large enough, length and blocks right, both assertions hold. |
| `Converter_Unusual` | *Violated:* from 66150 to 32000 Hz the second stage makes 116510 samples into a buffer of 116509. |
| `InputFile_Reads` | Some five hundred DSF, DSDIFF and I/Q files, the DSF files of both bit orders with either table: the readers implement SampleStream (the DSF reader where the table has the bit order of the file), end where the header says, and never take something else for a chunk's header. |
| `BlockLoop_Threads` | Three channels, with threads and without: buffers are touched by tasks only while the loop waits, a pass implements SerialPass and ends, and without a delay the fades in and out are in their places in the file, whatever the blocks. |
| `BlockLoop_Effects` | *Violated:* with effects, the first block written starts with the frame of the group delay. |
| `Ditherer_Blanking` | All kinds of profile, sound and silence in any order, repetitions at any point: blanking sets in when it should and not before, a sound is dithered at the level of the gain, and nothing of a pass is left in the next. |
| `Program_Runs` | 840 command lines, from the words to the exit, with outputs that libsndfile can go back in, that it cannot, and csv, and writes that are cut short or throw: the order of the options does not matter; success means an output in the format asked for, written once, or once for each rewrite where it is never rewound, and whole if it is csv; every repetition starts fresh; what was written whole and last does not clip while attempts are left and is as loud as allowed; the pilot of wideband FM is filtered out; the stages' command lines are read as those stages; and the program exits. |
| `Program_BitFormat` | *Violated:* a 24-bit wav file becomes a 16-bit flac file, because the input's bit format is never tried. |

Deadlock is not checked where a system really stops: a pool after its destructor, a pass that is
done, an input file that was refused, a program that has exited, a stream or a cascade at the bound
of its length.

**Bounds.** The pool has one or two threads, up to three where it may be resized, and three
functors. Three functors are enough for a queue of two behind one that runs, for any order of two
notifications, and for a functor pushed while another thread is between its test and its sleep; two
threads for one that runs while the other sleeps or is told to finish; one spurious wake-up, since
each is independent of the others. The ring has 5 slots at a vector width of 4, so all phases occur
and the padding is neither zero nor a whole vector; a sound and silence are the samples, which tell
apart any two places of a history. The pilot is silent, too weak for the maximum gain or just not,
stable at once, or too loud, and may change from any to any in each sample; the rates have the
proportion of the program's. `ResamplingStage` is fed 12 samples: for each
`M` up to 5 two whole periods or more, in blocks of 0 to 3, with all `L` up to 3 that have no divisor
in common with `M`, as the planning leaves them. `Converter` has three blocks of the full
size, one less, and one; each changes the indices differently. The block loop has up to three blocks
and the tail, with first blocks of fewer frames than the delay left out, and fades of up to 4
frames, within a block, across blocks, longer than the file, and too short to be made. The effects
and a group delay meet only in `BlockLoop_Effects`. `MaxAttempts` is the code's 3, what is left of a cut temporary file is silence or a peak below the
limit (`CutPeaks`), and the signals
and gains are chosen below, at, just above and far above the limit, with products that round and
that do not. The command lines are sets of options that interact: those of the passes in all
combinations, and so for csv and for flac, which libsndfile cannot go back in; a number that is too large after
options that are read and after one that is not; all pairs of six inputs and four outputs (extensions that differ, agree,
are in capitals or unknown; DSD, large and missing files) with each kind of `-b`; all orders of five
options, one of which lacks its number; raw input with good and bad words after any option;
wideband FM, AM and the default at seven rates with each filter; and the options that the stages
print, combined. `MCLinesAssumption` has TLC check that these lines satisfy the hypotheses of the
theorems about lines (`PlainWords`, `Readable`, `Grammatical`, `Repeatable`; only `Printable`, of section 4, is beyond
a finite table of numbers). Sub-formats and extensions that the tables treat alike have one member each.

The DSD files have blocks of 2 bytes and channel, up to 3 channels of the six there are buffers for, and up to two
blocks, so that reads of 2, 7 and 48 samples end within a byte, a frame and a block, on their edges,
and beyond the end of the file. Chunks have even lengths (the reader does not skip the byte that
pads an odd one), and the only place that is sought is the start, as in `convert()`. The I/Q files
have 0, 5 and 21 frames, so that either differentiator (10 and 19 taps) is filled or not, and
`MaxSeeks` is 2: with a pass before the last rewind and one before that, the ring has phases of
three passes at any index, and further ones only mix it in another way. The ditherer gets 8 samples
a pass and a threshold of 2 instead of 30000, with a decay that reaches the cut-off in three, and up
to 4 passes, one more than convert makes.

**Fairness.** The pool: the operating system runs each thread that can run, and the client's call
that has begun goes on. Nothing makes the client call, and nothing makes a spurious wake-up
happen. The block loop: the main thread is scheduled, and the pool starts and finishes what it was
given, which is what `ThreadPool_ReSampler` checks of it. The MPX decoder: `IQFile::read` decodes
frame after frame (that the pilot is decided on needs a file that is long enough). `Program` is
sequential and runs until it exits; its passes are bounded by the attempts.

**What the violated runs say**, with the lines quoted in `PROJECT.json`:

1. `srconvert.h:383`: an intermediate buffer is the ceiling of BUFFERSIZE times the ratio up to its
   stage, but the stages before have rounded up, too. For the common rates it is enough.
2. `ReSampler.cpp:850`: the effect is given the first `outputSampleCount` samples of the block,
   though those to be written start at `outStartOffset`, and the offset is added to its result.
3. `ReSampler.cpp:178`: what is tried for the input's bit format is the major format of the output
   alone, without a sub-format, and no major format is valid so; the default is taken instead.

Smaller things that the models show and no run is spent on.

*Filters and streams.* Kernels are shifted by a copy of
`length - 1` elements (`FIRFilter.h:96`), so at an index that is not aligned the products of up to
`numVecElements - 1` last taps are missing, which `VectorDropsTail` states exactly and which the small
taps at the end of a windowed filter hide; a group delay longer than the first
block's output is trimmed only in part (`ReSampler.cpp:738`, `:865`); with `--progress-updates 0`
one update is sent, after the tail (`:735`, `:868`); a peak raised by the effects without a
temporary file is not seen (`:821`); `lazyGet` leaves out tap 0's product with the oldest sample,
which `get()` adds up (`FIRFilter.h:328`); an output is one sample of the filter's rate later than
the delay that is trimmed says (`FIRFilter.h:242`, `srconvert.h:274`).

*Passes.* "output file may need to be overwriten on subsequent passes" (`ReSampler.cpp:674`), but of
the seek that would do it nobody asks whether it succeeded (`:930`), and in files of some formats that it writes
libsndfile cannot go back: flac, GSM 6.10 and some kinds of ADPCM (`sf_seek` fails), and ogg (it does nothing). A csv output is not rewound at
all (`:929`). So a second rewrite from the temporary file is appended to the first, which clipped, and the output
holds the input twice or more: with flac and dither, or an input that clips, this is what happens unless
`--noTempFile` is given. `ConversionsInOutput` and `SuccessMeansDone` say exactly how many conversions there
are in each case (`NeverRewound`, `TimesWritten`). How much of a write was written is not asked either, of the
temporary file (`:856`) or of the output (`:861`, `:952`), nor is the csv writer's error flag (`csv.h:91`):
a full disk, or a csv file that could not be opened, ends in success. Of an output with a part missing,
`WithinLimit` and `LoudAsAllowed` say nothing (`WrittenWhole`), because the peak that decides may be that of
what could not be written. A silent file with `-n` divides by its peak, zero (`ReSampler.cpp:600`). For a 53-bit output the
ditherer's step is a shift by more than the width of an int (`ditherer.h:126`).

*Readers.* The DSF reader makes its table of
samples before it has read the order of the bits (`dsf.h:123`), so that one of the two orders that its comments
describe (`:197`, `:402`) is played with each byte reversed: which one depends on what the memory of
the header happened to hold. `ImplementsSampleStream` is true only of the others (`PlaysInOrder`). It does not look whether
its six buffers suffice for the channels (`:282`, `:365`), and it delivers the padding of the last
group as samples (`dsf.h:385`); the DSDIFF reader goes on to the sound data after an error in the
properties, from wherever that was (`dff.h:486`); the modulation types DSB, CW and NONE are accepted and
read as FM, for which nothing was set up (`iqdemodulator.h:66`, `:105`, `:266`); a second pass over
wideband FM keeps the pilot that the first one found, and so is stereo from its first sample on.

*Options.* A number that is too large for a float (`--gain 1e99`) is an exception of a kind that is not caught
(`conversioninfo.cpp:41`), and ends the program. `--raw-input` takes all words after it, those of other options included
(`conversioninfo.cpp:68`), and a word there that is no number is an exception nobody catches, so it
has to be the last, though `README.md:192` says any order; `OptionsInAnyOrder` is stated for it so.
The default of an extension in capitals, an unknown one with DSD input, or one without an entry is
read through the end of a map (`ReSampler.cpp:167`, `:182`), and an unknown format of raw input is
an exception outside the `try` (`:131`); `SuccessMeansDone` speaks of formats only where the
extension is known (`KnownExtension`). `-b 8` with an unknown extension takes the last major format
of libsndfile's list (`:239`). Wideband FM at an output rate of 30001 to 30999 Hz gives the
converter a cut-off of more than 100 per cent (`:1562`), and up to 31031 Hz one above the 99.9 per
cent that `--lpf-cutoff` is limited to, so that a stage printed for it is read with another filter
(`Repeatable` leaves these rates out); at rates up to 30000 Hz, where the
converter's filter is all that stops the pilot, `--lpf-cutoff` can make it too wide to do so. The printed stages lack `--raw-input`,
`--demodulateIQ`, `--noDelayTrim`, `--gain` and `-b`. A word of hyphens alone makes `sanitize`
step before its start (`conversioninfo.cpp:20`), and without `--demodulateIQ` the modulation type is
not initialised (`:266`).

Every property of a passing run has a mutant: an operator beside the definition it changes, marked
`Mutant`, with a bug the code might have (a notification without the lock, a buffer size rounded
down, an index not carried over, a file not rewound). With it the run must fail.

## 4. What is proved

For all values of the constants that satisfy the modules' assumptions and, where one is named, the
hypothesis of the theorem. Of the properties the passing runs check, the ones that no theorem states are
listed at the end.

**ThreadPoolProofs** (any finite set of workers, any client unless said otherwise): `WaitIsExclusive`,
`EveryFunctorHasOneOwner`, `NoThreadOutlivesThePool`, `NoWakeUpIsLost`, `DestructorWaitsForAll`,
`PoolKeepsItsPromise`. None of them is inductive. `WaitInv` is `Exclusion` (the mutex is held exactly by
the thread in the predicate) and the count of those between the lock and the end of the wait, which
`n_idle` follows. In `OwnerInv`, `HoldsToRun` ties a functor to the place of the thread that has it,
`Started` and `Joining` the pool's vector to the threads that run and to the call that is joining
them. `WakeInv` carries the argument about lost notifications, and counts: while a thread sleeps, the
queue is no longer than the number of threads that have a look at it to come (`Lookers`), and one
more if a push has yet to notify; and a thread that has seen the queue empty and is about to sleep
(`SeenEmpty`) can be wrong only if such a notification is still due. Each look takes a functor or finds
the queue empty, so the count holds whichever threads are told to exit; that there is one such look
would not be inductive. A push's lock around `notify_one` is what makes the second part true: it
cannot fall between the test and the sleep.
`NoThreadOutlivesThePool` needs that the client never makes the pool smaller, since the destructor
does not join the threads that a `resize` detaches; `DestructorWaitsForAll` that it only pushes and
destroys, on a pool of at least one thread, as `convert()` does (`UsedInv`: then nothing is ever
dropped, and a thread exits only after the queue is empty for good).
`PoolKeepsItsPromise` is the refinement of TaskPool without its fairness, step by step, for the two
uses of TaskPool: a client that may abandon tasks (`Abandons`), and one that only pushes and destroys.

**FIRFilterProofs** (any length and vector width): `RingInvariant`, `ReadsInBounds`,
`RingIsDelayLine`, `ShiftedKernelsDropTail`. `IInv` is the types and `UpperHalf`: up to the index the upper half is still
the copy of the lower one, so what a window reads above `Length` is what was written. Each put
then shifts `Window` by one, and a reset clears it. What the shifted kernels contain (`PhaseIsShift`) is
an induction over the recursive table `kernelphases`, for which see below.

**ResamplingStageProofs** (any pairs L, M, any blocks): `OutputCountHolds`, `BlockOutputHolds`,
`OutputsKnowNoBlocks`. `StageInv` adds `BlockStart`, that the outputs of a block follow from the index it began with, and
`LoopStart`, that a block ends between two input samples. One lemma (`FunctionsAdvance`) brings
the four functions under one step, `Advance`. `StreamInv` says that the filter's window is the newest
part of the stream with its stuffed zeros, and that `lastPut` leads to the newest sample of the
input, from which `lazyGet` steps by L. `OutputsKnowNoBlocks` is for scalar kernels (those of a
vector build drop taps with the phase, as `ShiftedKernelsDropTail` states) and for filters longer than
L, without which `lazyGet`'s one step back around the ring would not reach it; the filters that the converter designs
are longer by far.

**BlockLoopProofs** (any channels, ratio, blocks, files, delays and effects, over the abstract pool):
`BuffersStayOurs`, `PassIsSerial`, `DelayTrimmed`, `FadesStayInPlace`. In `LoopInv`, `OnePlace` says that a task is queued once and is queued, running or
finished; `TasksOfBlock` that those alive are of the current block, pushed and not yet collected, so
that after the last `get` there are none; `Sizes` that a channel's block makes no more output
than a full first block, whatever it has consumed before (`BlockMakes`, on ceilings of quotients).
`StreamInv` follows the input (`ReadInv`), each channel's converter (`ChannelsInv`: fresh until its task
has run, then what it made is in the buffer) and what was written (`FileInv`). `PassIsSerial` is the
refinement of SerialPass without its fairness. It and `DelayTrimmed` assume `SettingsSuit`: no effects on a stream with a delay, which
`BlockLoop_Effects` refutes; a delay that is over in the first block, and whose silence fits one
block, without which only part of it is trimmed (section 3). `FadesStayInPlace` assumes that there
is no delay where there are fades, for the same reason; the gain of a fade that is being made is a
recursion over the frames since it began, for which `FadeAt` gives a closed form, and `FadeInv` says
that the state of the chain is the form's value at the length of the file.

**DithererProofs** (any filter length, thresholds, decay, gains, numbers of samples and passes):
`RepetitionRepeats`, `NoSoundIsBlanked`, `SilenceIsBlanked`. `PassInv` says that the state after n samples of a pass
follows from n and the pass: how many numbers were drawn, which errors are in the filter. `LevelInv`
is the level without auto-blanking. `BlankInv` ties the counter to the distance from the last sound,
and the level to what the decay leaves of it after as many samples; the recursive function `Decayed`
has first to be shown to exist (`DecayIsGeometric`).

**InputFileProofs**, the readers (any files that keep to their formats, any modulation, any sizes of blocks and
of reads): `FileInvariant`, `ReadersAreStreams` (the DSF reader where its table has the bit order of the file: its
invariant is about `DsfHeard`, the file by the reader's own table, which `DsfInOrder` shows to be the stream of the file
if the orders agree), `EndIsWhereAnnounced`, `ReaderKeepsStep`. `DsfLayout`
and `DffLayout` say what it is to keep to a format: a chunk is as long as its header says, without a
padding byte, the properties come before the sound data and lie in their own chunk, the file is cut short
after the headers if at all. `FileInv` has a part for each reader. In `DsfInv` and `DffInv` the reader
is at a place: so many groups or blocks fetched, so much of the last one left, a bit and a
channel; its fields are functions of that place (`DsfReader`, `DffState`), and so is the number of the
sample that comes next. One turn of the loop goes to the next place and puts out that sample
(`DsfTurn`, `DffTurn`); where the buffer is used up, it fetches, finds the end, or finds that the
file is cut short. The loop of a read is a recursive function over its turns, which has first to be shown to exist
(`DsfTurnsExist`), and what it has delivered after i turns is an induction (`DsfReads`). `DffWalk`
is the way through the chunks: the reader is at the header of chunk k, inside the properties just
when k is one of them, with as many bytes left as the rest of them takes. In `IQInv` the
differentiator's ring holds the newest frames of this pass from its index on, and anything
before; so a sample is the stream's one once the ring is filled by this pass (`HistoryGoesOn`, `FrameSettles`).
With these every step is one of SampleStream or a stutter. None of it says that a file is read to its
end, or that a reader which cannot open a file says so: the first depends on the caller, the second is
the guard of `Open`.

The same module, for the MPX decoder (any odd filter length, any levels, bounds and rates, the decrease no
wider than the stable range): `MpxInvariant`, `PresenceIsFinal`, `SideFilterIsDelayLine`, `MonoIsAligned`. `MpxInv`
takes `IInv` from FIRFilterProofs and adds `SameHistory`, the delay line is the lower half of the
side filter's ring and has its index, from which the middle tap's sample follows; and `PilotInv`: with a
pilot the peak is above the lower bound, and stays there since it only rises or is lowered from
above the upper one, and the gain is below its maximum; without one the gain is at the maximum, and
nothing lowers it there.

**ConverterProofs** (any sample rates, limits on the stages, sizes of blocks and numbers of blocks):
`SearchAlwaysSucceeds`, `BandAlwaysSurvives`, `CascadeKnowsNoBlocks`, `DurationIsKept`,
`OneStageFits`, `AssertionsAlwaysHold`. The first half is about what `fraction.h` returns: Euclid's loop ends with a divisor of
both rates (`RatioOfRates`); the primes multiply to the number (`PrimesMultiply`), and so do the
groups, however they are cut, ordered and padded (`SideMultiplies`); so every candidate converts by
the whole ratio and keeps the band (`CandidatesConvert`), the last of the ordered candidates
is one of them (`LexLargestExists`), and an attempt with one stage has a candidate; the presets
are worked out one by one. `PlanOK` says this of the plan, which no step changes. The second half is
`CascadeInv`: after each stage, `made` times M is what was made before it times L, and what the
index still owes. `DurationIsKept` follows by induction over the stages (`ExcessBounded`):
what is rounded up at each is at most one sample of the slower side, because
the band survives (`QuotientInBand`); for plans that left it the bound would not
hold. `OutputsFit` is proved for a single stage, whatever was converted before; `Converter_Unusual` shows a cascade for which it is
false. `AssertionsAlwaysHold` needs the rates between the stages: the rate after a stage is the input
rate times the numerators over the denominators so far, which is a whole number, so none of the integer divisions by which
the constructor goes from stage to stage rounds (`RatesExact`). What is lost is the hertz
of an odd rate that is halved; that the transition is wider than this is the hypothesis `WideEnough`,
which is true of all rates from 24 Hz on, whatever the filter (`WideEnoughFrom24Hz`).

**ProgramProofs** has three parts. The passes of convert (any signals, gains, limits, dither): `TypeCorrect`, `EveryPassStartsFresh`;
`OutputConversionsCounted`, for outputs that can be rewound and those that cannot; `RepetitionAvoidsClipping` with
two attempts or more; `RepetitionStaysLoud`, both for an output whose last conversion was written whole. The last two rest on `AdjustedGain` and `AdjustedNotFar`, inequalities on integer quotients, and
on three invariants: `LimitInv`, after one adjustment the gain suits what a repetition reads (the
input, or the temporary file); `LastInv`, the peak that decides is that of what was last
written, and convert gives up only when the attempts are used up; and `LoudInv`, without dither and effects
the gain that is about to be used makes of it what was asked for or what the limit allows. `RepetitionStaysLoud` assumes `FineEnough`, that
a unit of gain changes a peak by no more than a unit, as it does with the code's floating point gain.

The program (any command lines, files and tables of formats that keep to `FormatAssumption`:
no bit format has the name of none, `8` is one, defaults are bit formats; and to
`CommandLineAssumption`: `Scale` has the factors it needs, and the word that stands for a value not given is no number): `ProgramInvariant`,
`ProgramStartsFresh`, `ProgramConversionsCounted`, `SuccessIsEarned`, `PilotIsStopped`, and the two below. In `ProgramInv`, `CallInv` says that
convert's variables wait until it is called, `RunInv` is the invariant of the passes as
above, with the lemmas of that part, and `WholeInv`, that no conversion in a csv file lacks a part
unless its stream threw or the temporary file was cut. `FormatInv` follows the choice of the format through its two places: what `-b`
asked for is kept until the format is settled, unless it was no bit format and was replaced by one
that is; from then on the format is one for the extension and for what was asked (`GoodFormat`).
`OutputInv` is that convert is past its opening only with an output that libsndfile can write.
`PilotIsStopped` is arithmetic on the cut-offs of the filters, carried from the words to the call of
convert by `RadioInv`. `FilterSuits` leaves out the two kinds of command line for which it is false: the rates 30001
to 30999, and a filter of the user's own at rates up to 30000 (section 3).

The words of the program: `OptionsCommute` and `StagesAreReadAgain`. Both are about lines of option groups
(`Grammatical`: an option and its parameters, each option at most once, `--raw-input` at the end); that
numbers and names of modulations are not taken for options is `PlainWords`. `Consists(words, set)` says what the
readers of options see of a line: each group stands in it as a whole, with an option or the end after it, and no option
is anywhere else. It does not mention the order of the groups. Adding a group at the end keeps it (`OneGroupMore`), so it holds of a line in any order and
of the line in the order of `LineOf` (`LineConsists`, `FlatConsists`), and two lines that consist of the same
groups are read as the same job (`AnyOrder`). `FlattenSeq` and the fold of `LineOf` are
recursive in the library, and are first shown to be functions that satisfy their equations, by induction over the
length or over finite sets.

`StagesAreReadAgain` applies this to the line that `toCmdLineArgs` makes, which is a line of groups too (`StageConsists`),
and so is read as what was printed into each group. It assumes of the words that numbers and
options are read as they are spelt (`Readable`), that every number can be printed as a word that is read as that number
(`Printable`), and of the lines that a converted file gets a name of its own and that the filter for the music of
wideband FM can be asked for (`Repeatable`, section 3). The code prints and reads a number as decimals of a float,
which is exact for rates below 2^24; for the rest `Printable` is an idealisation, like the integers. TLC's run has a finite table of
numbers, which is not `Printable`, and looks up the words that its stages need. The invariant, `DescribableInv`, is that from the reading
of the words to the call of `convert()` the job has names that are no options, a
filter between the limits of the options, and a rate that is not zero; `Job`, which replaces the filter for wideband
FM, keeps it because of the limits that `MusicIsRead` works out for the rates from 31032 to 96000 Hz.

**Induction.** The library's induction rules cannot be instantiated here, but a set of naturals has a
least member, and `LeastNatural` and `InductiveSet` (from well-founded
induction in its set form) put that to use: the set of the numbers for which a statement is true
holds 0 and with n also n + 1. For the recursive functions of Fraction and Converter, over pairs and
sequences, `RecursionExists` takes the place of the library's recursion theorem: a functional that looks
only at arguments with a smaller measure has a fixed point. It is stated for sets (`Recursion`), not for
operators, and proved by induction over the measure. Fraction's recursive functions take one argument, a pair,
and are defined where the recursion ends.

Left to TLC, and why:

- everything about liveness (the futures, the calls' return, the ends of a pass, of the program and of the
  search for the pilot) and so the fair parts of the refinements of TaskPool and SerialPass: liveness
  is beyond this prover;
- `OutputsFit` for cascades, which is true of the common rates and not of all of them;
- that the best of the candidates is best: only that it is one of them is proved.

## 5. The plan

Order so far: the pool and what it promises; the filter and the stage; the planning and the cascade;
the block loop over the pool; the passes; the readers; the ditherer; the effects; the MPX decoder;
the command line and the program around the passes. What follows:

1. Convert's set-up: the peak search and the rewind before the first pass, an empty and a silent
   input; Ditherer composed with Convert's repetitions.
2. The group delay as the sum over the stages, joined to BlockLoop's trimming.

Not modelled, of the parts above: the csv writer (it writes fields and lines in order, from one place,
with no state that another part depends on; the rest of it is the formatting of numbers), the
listings, the test sweep (`--generate`), metadata, and options that only change what is printed or how
libsndfile encodes.

Not planned, and why: the design of filters, noise shapers and demodulators (numerical analysis, no
state to explore); formatting and parsing of numbers and names; the vendored FFTW and libsndfile;
the sources of both that `android/` carries for that build; `osspecific.h`, `alignedmalloc.h`,
`raiitimer.h`, `factorial.h` (no behaviour of their own).
