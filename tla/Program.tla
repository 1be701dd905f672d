------------------------------- MODULE Program -------------------------------
(***************************************************************************)
(* runCommand() in ReSampler.cpp: the words of a command line (CommandLine)*)
(* become a job, the format of its output is chosen, the converter for its *)
(* input is called, whose passes are those of Convert, and the program     *)
(* exits.                                                                  *)
(*                                                                         *)
(* A format is a major format and a sub-format, each by its name in        *)
(* ReSampler.h.  The words come in groups, an option and its parameters.   *)
(***************************************************************************)
EXTENDS CommandLine, Convert

CONSTANTS
  Lines,        \* the command lines, as sequences of groups of words
  Extension,    \* the extension of a file's name
  Contents,     \* the formats of the files that libsndfile can open
  LargeFiles,   \* those whose conversion is too long for a wav file
  Major,        \* libsndfile's major formats by extension, in capitals, too
  LastMajor,    \* the last one that it lists
  subFormats,   \* the sub-formats by the name of the bit format
  defaultSubFormats,
  Accepts,      \* pairs of a major format and a sub-format that it can have
  Unseekable    \* those that libsndfile writes forwards only

Fault == "fault"  \* no bit format: the look-up of one ends the program

\* What the tables of ReSampler.h keep to.
ASSUME FormatAssumption ==
  /\ {None, Fault} \cap DOMAIN subFormats = {}
  /\ "8" \in DOMAIN subFormats /\ subFormats["8"] = "u8"
  /\ \A ext \in DOMAIN Major : Major[ext] # None
  /\ \A ext \in DOMAIN defaultSubFormats : defaultSubFormats[ext] \in DOMAIN subFormats

VARIABLES
  groups,
  ci,
  step,    \* "global", "arguments", "format", "extension", "dispatch", "run", "exit"
  status   \* "success", "failure", "terminated": killed by an exception or a fault

programVars == <<groups, ci, step, status, vars>>

args == FlattenSeq(groups)
inFileExt == Extension[ci.inputFilename]
outFileExt == Extension[ci.outputFilename]
dsd == inFileExt \in {"dsf", "dff"}

ProgramInit ==
  /\ groups \in Lines
  /\ ci = fromCmdLineArgs(<<>>)
  /\ step = "global" /\ status = None
  /\ bTmpFile = FALSE /\ bDither = FALSE /\ disableClippingProtection = FALSE
  /\ outputKind = None /\ effect = 100 /\ signal = 0 /\ initialGain = 0
  /\ pc = "not called"
  /\ gain = 0 /\ peakOutputSample = 0 /\ clippingProtectionAttempts = 0
  /\ converters = "fresh" /\ ditherers = "fresh"
  /\ tmpFile = NoFile /\ tmpCut = FALSE /\ csvErr = FALSE /\ outFile = <<>>

Exit(result) == step' = "exit" /\ status' = result
GoOn(next) == step' = next /\ UNCHANGED status
-------------------------------------------------------------------------------
GlobalOptions == {"--help", "-h", "--version", "--compiler", "--sndfile-version",
                  "--listsubformats", "--showDitherProfiles", "--generate"}

AsksForInformation == \E option \in GlobalOptions : Found(args, option)

ParseGlobalOptions ==
  /\ step = "global"
  /\ IF AsksForInformation THEN Exit("success") ELSE GoOn("arguments")
  /\ UNCHANGED <<groups, ci, vars>>

FromCmdLineArgs ==
  /\ step = "arguments"
  /\ IF RawInputThrows(args) \/ NumberThrows(args) THEN Exit("terminated") /\ UNCHANGED ci
     ELSE /\ ci' = fromCmdLineArgs(args)
          /\ IF ci'.bBadParams THEN Exit("failure")
             ELSE GoOn(IF Extension[ci'.outputFilename] = "csv" THEN "dispatch" ELSE "format")
  /\ UNCHANGED <<groups, vars>>
-------------------------------------------------------------------------------
\* Of a special 8 bits, these have the unsigned ones.
Unsigned8 == {"mat", "rf64", "voc", "w64", "wav"}

\* 8 bits of an unknown extension are those of the last major format that was tried.
determineOutputFormat(bitFormat) ==
  LET major == IF outFileExt \in DOMAIN Major THEN Major[outFileExt] ELSE LastMajor
  IN IF bitFormat = "8" THEN [major |-> major, sub |-> IF outFileExt \in Unsigned8 THEN "u8" ELSE "s8"]
     ELSE IF outFileExt \in DOMAIN Major /\ bitFormat \in DOMAIN subFormats
       THEN [major |-> major, sub |-> subFormats[bitFormat]]
     ELSE NoFormat

\* What a look-up of no default makes of the memory behind the map: a word, or a fault.
DefaultBitFormat ==
  IF outFileExt \in DOMAIN defaultSubFormats THEN {defaultSubFormats[outFileExt]}
                                              ELSE {"garbage", Fault}

\* The first name of a sub-format, in the order of the map.
BitFormatOf(sub) == IF sub = "u8" THEN "8" ELSE sub

\* "1. Try to use infile's format": but what is tried is the major format of the output
\* without a sub-format, which libsndfile never accepts.  So the default is taken whenever
\* the extension is known.  An unknown format of raw input is an exception.
determineBestBitFormat ==
  IF dsd THEN DefaultBitFormat
  ELSE IF ci.rawInput # NoRawInput /\ ci.rawInput.format \notin DOMAIN subFormats THEN {Fault}
  ELSE IF ci.rawInput = NoRawInput /\ ci.inputFilename \notin DOMAIN Contents THEN {None}
  ELSE IF outFileExt \in DOMAIN Major THEN DefaultBitFormat
  ELSE {BitFormatOf(IF ci.rawInput # NoRawInput THEN subFormats[ci.rawInput.format]
                                                  ELSE Contents[ci.inputFilename].sub)}

\* A bit format that gives a format is kept as the one that was asked for.
Takes(bitFormat) ==
  LET format == determineOutputFormat(bitFormat)
  IN ci' = IF format # NoFormat
             THEN [ci EXCEPT !.outputFormat = format, !.outBitFormat = bitFormat]
             ELSE [ci EXCEPT !.outputFormat = NoFormat]

\* The format with the best bit format, unless there is none to be had.
TakesBest(next) ==
  \E bitFormat \in determineBestBitFormat :
    IF bitFormat = Fault THEN Exit("terminated") /\ UNCHANGED ci
                         ELSE Takes(bitFormat) /\ GoOn(next)

\* Mutant: a bit format is looked at only with a new extension.
AskedOfNewExtension ==
  /\ step = "format"
  /\ GoOn("extension") /\ UNCHANGED ci
  /\ UNCHANGED <<groups, vars>>

\* "new output bit format requested"
RequestedBitFormat ==
  /\ step = "format"
  /\ IF ci.outBitFormat = None THEN GoOn("extension") /\ UNCHANGED ci
     ELSE IF determineOutputFormat(ci.outBitFormat) # NoFormat
       THEN Takes(ci.outBitFormat) /\ GoOn("extension")
     ELSE TakesBest("extension")
  /\ UNCHANGED <<groups, vars>>

\* "file extensions differ, determine new output format"
NewExtension ==
  /\ step = "extension"
  /\ IF outFileExt = inFileExt THEN GoOn("dispatch") /\ UNCHANGED ci
     ELSE IF ci.outBitFormat = None THEN TakesBest("dispatch")
     ELSE Takes(ci.outBitFormat) /\ GoOn("dispatch")
  /\ UNCHANGED <<groups, vars>>

inputFileFormat ==
  IF dsd THEN [major |-> inFileExt, sub |-> None]
  ELSE IF ci.rawInput # NoRawInput
    THEN [major |-> "raw", sub |-> IF ci.rawInput.format \in DOMAIN subFormats
                                    THEN subFormats[ci.rawInput.format] ELSE "16"]
  ELSE Contents[ci.inputFilename]

\* "if the outputFormat is zero, it means No change to file format"; large wav files and
\* those that are asked to be are rf64.
outputFileFormat ==
  LET format == IF ci.outputFormat = NoFormat THEN inputFileFormat ELSE ci.outputFormat
  IN IF format.major = "wav" /\ (ci.bRf64 \/ ci.inputFilename \in LargeFiles)
       THEN [format EXCEPT !.major = "rf64"] ELSE format

Writable == <<outputFileFormat.major, outputFileFormat.sub>> \in Accepts

\* What the passes of convert() can do with the output.
KindOfOutput ==
  IF outFileExt = "csv" THEN "csv"
  ELSE IF <<outputFileFormat.major, outputFileFormat.sub>> \in Unseekable THEN "unseekable"
  ELSE "sndfile"
-------------------------------------------------------------------------------
\* The decoder's low-pass filter: where it starts, and how wide its transition is.
lpfT == 15500
lpfW == 3500

PercentOfNyquist(frequency) == (100 * Scale * frequency * 2) \div ci.outputSampleRate

\* Mutant: the converter's filter is left as it was asked for.
UnfilteredJob ==
  IF ~ci.bDemodulateIQ \/ dsd THEN ci
  ELSE IF ci.IQModulationType # "WFM" THEN [ci EXCEPT !.bNormalize = TRUE]
  ELSE IF ci.outputSampleRate <= 96000 THEN [ci EXCEPT !.IQModulationType = "WFM_NO_LOWPASS"]
  ELSE ci

\* Demodulated inputs are normalised, but for wideband FM: with it, one low-pass filter,
\* the converter's or the decoder's, has to remove what is above the music.
Job ==
  IF ~ci.bDemodulateIQ \/ dsd THEN ci
  ELSE IF ci.IQModulationType # "WFM" THEN [ci EXCEPT !.bNormalize = TRUE]
  ELSE IF ci.outputSampleRate <= 30000 THEN [ci EXCEPT !.IQModulationType = "WFM_NO_LOWPASS"]
  ELSE IF ci.outputSampleRate <= 96000
    THEN [ci EXCEPT !.IQModulationType = "WFM_NO_LOWPASS",
                    !.lpf.cutoff = PercentOfNyquist(lpfT),
                    !.lpf.transition = PercentOfNyquist(lpfW)]
  ELSE ci

\* libsndfile opens no file that is not there, and takes any for a raw one.
InputOpens == dsd \/ ci.rawInput # NoRawInput \/ ci.inputFilename \in DOMAIN Contents

\* What a gain does to a peak does not depend on its sign.
Size(number) == IF number < 0 THEN -number ELSE number

\* convert() is called.  With -n the gain follows from the peak of the input.
Dispatch ==
  /\ step = "dispatch" /\ InputOpens
  /\ ci' = Job
  /\ bTmpFile' = ci.bTmpFile /\ bDither' = ci.bDither
  /\ disableClippingProtection' = ci.disableClippingProtection
  /\ outputKind' = KindOfOutput
  /\ effect' \in IF ci.bAdjustStereoWidth \/ ci.bFade THEN Effects ELSE {100}
  /\ signal' \in Signals
  /\ initialGain' \in IF Job.bNormalize THEN Gains ELSE {(Size(ci.gain) * Unity) \div Scale}
  /\ gain' = initialGain'
  /\ pc' = "open"
  /\ GoOn("run")
  /\ UNCHANGED <<groups, peakOutputSample, clippingProtectionAttempts, converters, ditherers,
                 files>>

\* convert() cannot open the input.
InputRefused ==
  /\ step = "dispatch"
  /\ Exit("failure")
  /\ UNCHANGED <<groups, ci, vars>>

\* A step of convert(); a file that libsndfile cannot write cannot be opened.
RunConvert ==
  /\ step = "run"
  /\ Next
  /\ pc = "open" /\ outputKind # "csv" /\ ~Writable => pc' = "failed"
  /\ UNCHANGED <<groups, ci, step, status>>

\* An exception is caught, where it is not one from a destructor.
Return ==
  /\ step = "run" /\ pc \in {"returned", "failed", "thrown", "killed"}
  /\ Exit(CASE pc = "returned" -> "success"
            [] pc \in {"failed", "thrown"} -> "failure"
            [] pc = "killed" -> "terminated")
  /\ UNCHANGED <<groups, ci, vars>>

ProgramNext ==
  \/ ParseGlobalOptions \/ FromCmdLineArgs \/ RequestedBitFormat \/ NewExtension
  \/ Dispatch \/ InputRefused \/ RunConvert \/ Return

ProgramSpec == ProgramInit /\ [][ProgramNext]_programVars

\* A program runs until it exits.
FairProgram == ProgramSpec /\ WF_programVars(ProgramNext)
-------------------------------------------------------------------------------
(***************************************************************************)
(* Properties.                                                             *)
(***************************************************************************)
IsRawInput(group) == sanitize(Head(group)) = "--raw-input"

\* A line of the groups of a set, in the order of a choice.
LineOf(set) == FoldSet(LAMBDA group, line : line \o group, <<>>, set)

\* "command-line options can be supplied in any order" (README.md), as long as
\* --raw-input, which takes all words that follow, is the last: a job does not depend on
\* the order of the options it was given with.
OptionsInAnyOrder ==
  step = "format" =>
    LET raw == {group \in Range(groups) : IsRawInput(group)}
    IN ci = fromCmdLineArgs(LineOf(Range(groups) \ raw) \o LineOf(raw))

\* What a command line is, as far as these modules read one: the options, and groups of
\* an option and its parameters, of which a text is always given.
Options == GlobalOptions \cup
  {"-i", "-o", "-r", "-b", "--gain", "-n", "--doubleprecision", "--noClippingProtection",
   "--dither", "--ns", "--flat-tpdf", "--noDelayTrim", "--minphase", "--mt", "--rf64",
   "--maxStages", "--singleStage", "--multiStage", "--showStages", "--demodulateIQ",
   "--stereoWidth", "--fade-in", "--fade-out", "--noTempFile", "--relaxedLPF", "--steepLPF",
   "--lpf-cutoff", "--lpf-transition", "--raw-input"}

optionOf(group) == sanitize(group[1])

OptionGroups ==
  {group \in Seq(STRING) :
     /\ Len(group) # 0
     /\ optionOf(group) \in Options
     /\ \A k \in 2 .. Len(group) : sanitize(group[k]) \notin Options
     /\ optionOf(group) \in {"-i", "-o", "-b"} => Len(group) >= 2}

\* The groups of a line: each option once, and --raw-input at the end.
Grammatical(line) ==
  /\ line \in Seq(OptionGroups)
  /\ \A i, j \in 1 .. Len(line) : optionOf(line[i]) = optionOf(line[j]) => i = j
  /\ \A i \in 1 .. Len(line) : optionOf(line[i]) = "--raw-input" => i = Len(line)

\* Numbers and the names of modulations are not taken for options, nor is an empty word.
PlainWords ==
  \A word \in DOMAIN Number \cup ModulationTypes \cup {None} : sanitize(word) \notin Options

\* What can be the name of a file on a command line.
PlainFiles == {word \in STRING : sanitize(word) \notin Options}

\* The options are spelt as they are above.
Readable ==
  /\ Options \cup DOMAIN Number \cup {None} \subseteq STRING
  /\ \A option \in Options : sanitize(option) = option

\* Every number is printed as a word that is read as the same number.
Printable == \A value \in Int : \E word \in DOMAIN Number : Number[word] = value

\* The music of wideband FM ends at a cutoff that can be asked for: no filter is made for it,
\* or one that ends below 99.9 % of half the rate.
MusicFits(rate) == rate <= 30000 \/ rate > 31031

\* What a line has to be for its stages to be printed: a converted file has a name of its
\* own, and where the filter is made for the music of wideband FM its cutoff is one that
\* can be asked for.
Repeatable(line) ==
  LET words == FlattenSeq(line)
      input == TextOf(words, "-i", None)
  IN /\ input # None /\ TextOf(words, "-o", None) = None
          => Converted[input] \in PlainFiles \ {input, None}
     /\ Found(words, "--demodulateIQ") /\ modulationOf(words) = "WFM"
          => MusicFits(IntOf(words, "-r", 0))

asked == TextOf(args, "-b", None)

\* An extension that libsndfile knows, with a default unless the bit format is given: what
\* the look-up finds otherwise (DefaultBitFormat) may be no format, and the input's stays.
KnownExtension ==
  /\ outFileExt \in DOMAIN Major
  /\ outFileExt \in DOMAIN defaultSubFormats \/ asked \in DOMAIN subFormats

MajorOfExtension ==
  {Major[outFileExt]} \cup IF Major[outFileExt] = "wav" THEN {"rf64"} ELSE {}

SubAsked == {subFormats[asked]} \cup IF asked = "8" THEN {"s8"} ELSE {}

\* Success means that the job was done as far as the code asks: unless the program was only
\* asked for information, the output was written as often as ConversionsInOutput says, a csv
\* file that could be opened as a whole if the temporary file is one; libsndfile can write
\* it; it has the format that a new extension names, and the bit format that was asked for.
\* It does not mean that a csv file could be opened, nor that libsndfile wrote all of a
\* file: nobody asks.
SuccessMeansDone ==
  step = "exit" /\ status = "success" /\ ~AsksForInformation =>
    /\ ~csvErr => Len(outFile) = IF NeverRewound THEN TimesWritten ELSE 1
    /\ outputKind = "csv" /\ ~tmpCut => Partial \notin Range(outFile)
    /\ outputKind # "csv" =>
         /\ Writable
         /\ KnownExtension =>
              /\ outFileExt # inFileExt => outputFileFormat.major \in MajorOfExtension
              /\ asked \in DOMAIN subFormats => outputFileFormat.sub \in SubAsked

\* A job that demodulates wideband FM stops the stereo pilot (19 kHz) with the decoder's
\* filter or with the converter's, and the converter's is one that can be made.
PilotIsRemoved ==
  step = "run" /\ ci.bDemodulateIQ /\ ~dsd =>
    LET Hertz(percent) == (percent * (ci.outputSampleRate \div 50)) \div (4 * Scale)
    IN /\ ci.lpf.cutoff <= 100 * Scale
       /\ \/ ci.IQModulationType # "WFM_NO_LOWPASS"
          \/ Hertz(ci.lpf.cutoff + ci.lpf.transition) <= lpfT + lpfW

\* A stage as initMultistage prints it, for one of the rates and bands it may have.
StageOf(rate, lpf) ==
  [ci EXCEPT !.outputSampleRate = rate, !.maxStages = 1,
             !.lpf = [mode |-> "custom", cutoff |-> lpf[1], transition |-> lpf[2]]]

\* What a stage does to the samples.
Filtering(job) ==
  <<job.inputFilename, job.outputFilename, job.outputSampleRate, job.bMinPhase,
    job.bUseDoublePrecision, job.maxStages, job.lpf, job.bMultiStage, job.limit>>

\* Bands for the stages, in percent: those of the last stage, and any other with both.
StageBands == {<<ci.lpf.cutoff, ci.lpf.transition>>, <<50 * Scale, 95 * Scale>>}

\* "Command lines to do this conversion in discreet steps": the line that is printed for a
\* stage is read as a job with the rate, the band, the phase and the precision of the
\* stage.
StagesInDiscreteSteps ==
  step = "run" /\ pc = "open" /\ ci.bShowStages /\ ci.bMultiStage =>
    \A rate \in {ci.outputSampleRate, 88200}, lpf \in StageBands :
      LET stage == StageOf(rate, lpf)
          again == fromCmdLineArgs(toCmdLineArgs(stage))
      IN ~again.bBadParams /\ Filtering(again) = Filtering(stage)

\* "Try to use infile's format": with no bit format asked for, an output that can have the
\* input's has it.
InputBitFormatKept ==
  step = "run" /\ outputKind # "csv" /\ Found(args, "-b") = FALSE /\ ~dsd
    /\ <<outputFileFormat.major, inputFileFormat.sub>> \in Accepts
    => outputFileFormat.sub = inputFileFormat.sub

\* The program exits, whatever the words.
Exits == <>(step = "exit")
===============================================================================
