----------------------------- MODULE CommandLine -----------------------------
(***************************************************************************)
(* conversioninfo.cpp: the options of a conversion, read from the words of *)
(* a command line (fromCmdLineArgs) and written as one (toCmdLineArgs).    *)
(*                                                                         *)
(* Words are compared as they are after sanitize().  A number is an        *)
(* integer, in units of 1 / Scale.  Options on whose value nothing in      *)
(* these modules depends (what is printed, how libsndfile encodes, how     *)
(* long a fade is) are read in the same ways and left out.                 *)
(***************************************************************************)
EXTENDS Integers, Sequences, SequencesExt

CONSTANTS
  Scale,
  Number,      \* what std::stof makes of the words it accepts
  TooLarge,    \* the words that are numbers, but too large for it
  Hyphenated,  \* the words with a hyphen in them
  Spelling,    \* sanitize() of the words that it changes
  Converted    \* a file name with "(converted)" before its extension

None == "none"  \* no word, and an empty string

\* The limits of the low-pass filter are multiples of a unit; no word is no number.
ASSUME CommandLineAssumption ==
  /\ Scale \in Nat \ {0} /\ Scale % 110 = 0
  /\ \A word \in DOMAIN Number : Number[word] \in Int
  /\ None \notin DOMAIN Number
  /\ TooLarge \cap (DOMAIN Number \cup {None}) = {}

NoFormat == [major |-> None, sub |-> None]  \* 0 as a format of libsndfile: the input's

sanitize(word) == IF word \in DOMAIN Spelling THEN Spelling[word] ELSE word

\* An option counts where it is found first; 0 when it is not.
PlaceOf(args, option) == SelectInSeq(args, LAMBDA word : sanitize(word) = option)

Found(args, option) == PlaceOf(args, option) # 0

\* The word after an option.
WordAfter(args, option) ==
  LET k == PlaceOf(args, option) IN IF k \in 1 .. Len(args) - 1 THEN args[k + 1] ELSE None

\* Mutant: the first number after an option, wherever it is.
NumberAnywhere(args, option, default) ==
  LET k == PlaceOf(args, option)
      numbers == SelectSeq(SubSeq(args, k + 1, Len(args)), LAMBDA word : word \in DOMAIN Number)
  IN IF k # 0 /\ numbers # <<>> THEN Number[Head(numbers)] ELSE default

\* A word that is not a number leaves the parameter as it was (one that is too large: see
\* NumberThrows).
NumberOf(args, option, default) ==
  LET word == WordAfter(args, option) IN IF word \in DOMAIN Number THEN Number[word] ELSE default

IntOf(args, option, default) == NumberOf(args, option, default * Scale) \div Scale

TextOf(args, option, default) ==
  LET word == WordAfter(args, option) IN IF word = None THEN default ELSE word

\* "until we hit a hyphen or the end of args": words with a hyphen are passed over, and
\* those after them are taken, too.
WordsOf(args, option) ==
  LET k == PlaceOf(args, option)
  IN IF k = 0 THEN <<>>
     ELSE SelectSeq(SubSeq(args, k + 1, Len(args)), LAMBDA word : word \notin Hyphenated)

\* The options with a number that are read here; the transition only after the cutoff.
NumericOptions(args) ==
  {"-r", "--gain", "-n", "--dither", "--ns", "--maxStages", "--stereoWidth", "--fade-in",
   "--fade-out", "--lpf-cutoff"}
    \cup IF Found(args, "--lpf-cutoff") THEN {"--lpf-transition"} ELSE {}

\* Of what std::stof throws only std::invalid_argument is caught.
NumberThrows(args) == \E option \in NumericOptions(args) : WordAfter(args, option) \in TooLarge

\* std::stoi of a word that is no number throws, and nothing catches it.
RawInputThrows(args) ==
  LET words == WordsOf(args, "--raw-input")
  IN /\ Len(words) >= 2
     /\ \/ words[1] \notin DOMAIN Number
        \/ Len(words) >= 3 /\ words[3] \notin DOMAIN Number

NoRawInput == [rate |-> 0, format |-> None, channels |-> 0]

rawInputOf(args) ==
  LET words == WordsOf(args, "--raw-input")
  IN IF Len(words) < 2 THEN NoRawInput
     ELSE [rate |-> Number[words[1]] \div Scale, format |-> words[2],
           channels |-> IF Len(words) >= 3 THEN Number[words[3]] \div Scale ELSE 1]

Limited(value, least, most) ==
  IF value < least THEN least ELSE IF value > most THEN most ELSE value

\* The profiles of ditherer.h that are named here.
flat == 0
flat_f == 2
standard == 6
end == 16

getDefaultNoiseShape(sampleRate) == IF sampleRate <= 48000 THEN standard ELSE flat_f

ditherProfileIDOf(args, rate) ==
  LET asked == IF Found(args, "--flat-tpdf") THEN flat
               ELSE IntOf(args, "--ns", getDefaultNoiseShape(rate))
  IN IF asked >= end THEN getDefaultNoiseShape(rate) ELSE IF asked < 0 THEN 0 ELSE asked

ModulationTypes == {"NONE", "NFM", "AM", "LSB", "USB", "WFM", "DSB", "CW"}

modulationOf(args) ==
  LET word == TextOf(args, "--demodulateIQ", None)
  IN IF word \in ModulationTypes THEN word ELSE "NFM"

\* The filter is the steep one where it is also asked to be relaxed, and a custom one
\* before both; what is not said of a custom one is taken from them.
lpfOf(args) ==
  LET relaxed == Found(args, "--relaxedLPF")
      steep == Found(args, "--steepLPF")
      late == (100 * Scale * 21) \div 22
      named == IF relaxed \/ steep THEN late ELSE (100 * Scale * 10) \div 11
      width == (100 * Scale - named) * IF relaxed /\ ~steep THEN 2 ELSE 1
      cutoff == NumberOf(args, "--lpf-cutoff", named)
      custom == Found(args, "--lpf-cutoff")
  IN [mode |-> CASE custom -> "custom" [] ~custom /\ steep -> "steep"
                 [] ~custom /\ ~steep /\ relaxed -> "relaxed" [] OTHER -> "normal",
      cutoff |-> Limited(cutoff, Scale, (999 * Scale) \div 10),
      transition |->
        Limited(IF ~custom THEN width
                ELSE IF Found(args, "--lpf-transition") THEN NumberOf(args, "--lpf-transition", width)
                ELSE 100 * Scale - cutoff,
                Scale \div 10, 400 * Scale)]

Positive(value, default) == IF value <= 0 THEN default ELSE value

fromCmdLineArgs(args) ==
  LET input == TextOf(args, "-i", None)
      output == TextOf(args, "-o", None)
      rate == IntOf(args, "-r", 0)
      single == Found(args, "--singleStage") /\ ~Found(args, "--multiStage")
      demodulate == Found(args, "--demodulateIQ")
  IN [inputFilename |-> input,
      outputFilename |-> IF output = None /\ input # None THEN Converted[input] ELSE output,
      outputSampleRate |-> rate,
      outBitFormat |-> TextOf(args, "-b", None),
      outputFormat |-> NoFormat,
      gain |-> NumberOf(args, "--gain", Scale),
      limit |-> IF Found(args, "-n") THEN Positive(NumberOf(args, "-n", Scale), Scale) ELSE Scale,
      bNormalize |-> Found(args, "-n"),
      bUseDoublePrecision |-> Found(args, "--doubleprecision") \/ demodulate,
      disableClippingProtection |-> Found(args, "--noClippingProtection"),
      bDither |-> Found(args, "--dither"),
      ditherAmount |-> LET amount == NumberOf(args, "--dither", Scale)
                       IN IF Found(args, "--dither") THEN Positive(amount, Scale) ELSE amount,
      ditherProfileID |-> ditherProfileIDOf(args, rate),
      bDelayTrim |-> ~Found(args, "--noDelayTrim"),
      bMinPhase |-> Found(args, "--minphase"),
      bMultiThreaded |-> Found(args, "--mt"),
      bRf64 |-> Found(args, "--rf64"),
      maxStages |-> Limited(IntOf(args, "--maxStages", 3), 1, 10),
      bSingleStage |-> single, bMultiStage |-> ~single,
      bShowStages |-> Found(args, "--showStages"),
      bDemodulateIQ |-> demodulate,
      IQModulationType |-> IF demodulate THEN modulationOf(args) ELSE "NONE",
      bAdjustStereoWidth |-> Found(args, "--stereoWidth"),
      bFade |-> Found(args, "--fade-in") \/ Found(args, "--fade-out"),
      bTmpFile |-> ~Found(args, "--noTempFile"),
      lpf |-> lpfOf(args),
      rawInput |-> rawInputOf(args),
      bBadParams |-> input = output \/ rate = 0]  \* the same, or both missing

to_string(value) == CHOOSE word \in DOMAIN Number : Number[word] = value

\* Mutant: the width of the transition is left out.
ArgsWithoutTransition(ci) ==
  <<"-i", ci.inputFilename>> \o <<"-o", ci.outputFilename>>
    \o <<"-r", to_string(ci.outputSampleRate * Scale)>>
    \o (IF ci.bUseDoublePrecision THEN <<"--doubleprecision">> ELSE <<>>)
    \o (IF ci.bNormalize THEN <<"-n", to_string(ci.limit)>> ELSE <<>>)
    \o (IF ci.bMinPhase THEN <<"--minphase">> ELSE <<>>)
    \o (IF ci.lpf.mode = "custom" THEN <<"--lpf-cutoff", to_string(ci.lpf.cutoff)>> ELSE <<>>)
    \o (IF ci.maxStages = 1 THEN <<"--maxStages", to_string(Scale)>> ELSE <<>>)

toCmdLineArgs(ci) ==
  <<"-i", ci.inputFilename>> \o <<"-o", ci.outputFilename>>
    \o <<"-r", to_string(ci.outputSampleRate * Scale)>>
    \o (IF ci.bUseDoublePrecision THEN <<"--doubleprecision">> ELSE <<>>)
    \o (IF ci.bNormalize THEN <<"-n", to_string(ci.limit)>> ELSE <<>>)
    \o (IF ci.bMinPhase THEN <<"--minphase">> ELSE <<>>)
    \o (IF ci.lpf.mode = "custom"
          THEN <<"--lpf-cutoff", to_string(ci.lpf.cutoff)>>
                 \o <<"--lpf-transition", to_string(ci.lpf.transition)>>
          ELSE <<>>)
    \o (IF ci.maxStages = 1 THEN <<"--maxStages", to_string(Scale)>> ELSE <<>>)
===============================================================================
