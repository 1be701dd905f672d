----------------------------- MODULE MC_Program -----------------------------
EXTENDS Program

\* Files by name, with their extensions.
Named == {
  <<"none", "">>, <<"in24.wav", "wav">>, <<"in16.flac", "flac">>, <<"in16.xyz", "xyz">>,
  <<"in.dsf", "dsf">>, <<"in.raw", "raw">>, <<"iq.wav", "wav">>, <<"long.wav", "wav">>,
  <<"missing.wav", "wav">>, <<"in24(converted).wav", "wav">>, <<"out.wav", "wav">>,
  <<"OUT.WAV", "WAV">>, <<"out.flac", "flac">>, <<"out.xyz", "xyz">>, <<"out.csv", "csv">>}
MCExtension == [file \in {n[1] : n \in Named} |-> (CHOOSE n \in Named : n[1] = file)[2]]
MCConverted == [file \in DOMAIN MCExtension |-> "in24(converted).wav"]

F(major, sub) == [major |-> major, sub |-> sub]
MCContents == "in24.wav" :> F("wav", "24") @@ "in16.flac" :> F("flac", "16") @@
              "in16.xyz" :> F("wav", "16") @@ "iq.wav" :> F("wav", "16") @@
              "long.wav" :> F("wav", "16")
MCMajor == "wav" :> "wav" @@ "WAV" :> "wav" @@ "flac" :> "flac" @@ "raw" :> "raw"
MCsubFormats == [b \in {"16", "24", "64f", "u8"} |-> b] @@ "8" :> "u8"
MCdefaultSubFormats == "wav" :> "16" @@ "flac" :> "16" @@ "raw" :> "16"
MCAccepts == ({"wav", "rf64", "raw"} \X {"16", "24", "64f", "u8"}) \cup
             ({"flac"} \X {"16", "24", "s8"})
MCUnseekable == {"flac"} \X {"16", "24", "s8"}

\* In units of 1 / 220.
MCNumber ==
  "0.5" :> 110 @@ "1" :> 220 @@ "2" :> 440 @@ "2.3" :> 506 @@ "50" :> 11000 @@
  "95" :> 20900 @@ "5" :> 1100 @@ "90.909091" :> 20000 @@ "9.090909" :> 2000 @@
  "95.454545" :> 21000 @@ "4.545455" :> 1000 @@ "0" :> 0 @@ "16" :> 3520 @@
  "22050" :> 22050 * 220 @@ "30000" :> 30000 * 220 @@ "32000" :> 32000 * 220 @@
  "44100" :> 44100 * 220 @@ "48000" :> 48000 * 220 @@ "88200" :> 88200 * 220 @@
  "96000" :> 96000 * 220 @@ "192000" :> 192000 * 220
MCSpelling == "--rawInput" :> "--raw-input" @@ "--single-stage" :> "--singleStage" @@
              "--flatTPDF" :> "--flat-tpdf"

Job3(in, out, rate) == <<<<"-i", in>>, <<"-o", out>>, <<"-r", rate>>>>
With(line, choices) == {FoldSet(LAMBDA g, l : l \o <<g>>, line, S) : S \in SUBSET choices}
Plain == Job3("in24.wav", "out.wav", "44100")

Passes == With(Plain, {<<"--noTempFile">>, <<"--dither">>, <<"--noClippingProtection">>, <<"-n">>,
                       <<"--stereoWidth", "2">>}) \cup
          {Plain \o <<<<"--gain", g>>>> \o t : g \in {"0.5", "2.3"}, t \in {<<>>, <<<<"--noTempFile">>>>}}
Csv == With(Job3("in24.wav", "out.csv", "44100"),
            {<<"--noTempFile">>, <<"--noClippingProtection">>, <<"--dither">>})
Flac == With(Job3("in24.wav", "out.flac", "44100"),
             {<<"--noTempFile">>, <<"--noClippingProtection">>, <<"--dither">>, <<"--fade-in">>})
Formats == {Job3(in, out, "48000") \o b :
              in \in {"in24.wav", "in16.flac", "in16.xyz", "in.dsf", "missing.wav", "long.wav"},
              out \in {"out.wav", "OUT.WAV", "out.flac", "out.xyz"},
              b \in {<<>>} \cup {<<<<"-b", w>>>> : w \in {"8", "24", "64f", "12"}}}
Ordered == UNION {SetToSeqs({<<"-i", "in24.wav">>, <<"-o", "out.wav">>, <<"-r", "96000">>} \cup two) :
                    two \in {{<<"--dither">>, <<"-n">>}, {<<"--gain">>, <<"--maxStages", "1">>},
                            {<<"--lpf-cutoff", "95">>, <<"--lpf-transition">>}}}
Raw == {p \o <<w>> : p \in SetToSeqs({<<"-i", "in.raw">>, <<"-o", "out.wav">>, <<"-r", "44100">>, <<"--singleStage">>}),
                     w \in {<<"--rawInput", "48000", "16", "2">>, <<"--raw-input", "48000", "odd">>,
                            <<"--raw-input", "16">>, <<"--raw-input", "fast", "16">>}}
Radio == {Job3("iq.wav", "out.wav", r) \o <<<<"--demodulateIQ">> \o m>> \o f :
            r \in {"22050", "30000", "32000", "44100", "48000", "96000", "192000"},
            m \in {<<>>, <<"WFM">>, <<"AM">>},
            f \in {<<>>, <<<<"--steepLPF">>>>, <<<<"--relaxedLPF">>>>}}
Stages == With(Job3("in24.wav", "out.wav", "96000") \o <<<<"--showStages">>>>,
               {<<"-n">>, <<"--minphase">>, <<"--doubleprecision">>, <<"--single-stage">>, <<"--relaxedLPF">>,
                <<"--lpf-cutoff", "95">>, <<"--lpf-transition", "5">>})
Large == {Plain \o <<<<option, "1e99">>>> : option \in {"--gain", "--dither", "--lpf-transition"}} \cup
           {Job3("in24.wav", "out.wav", "1e99"),
            Plain \o <<<<"--lpf-transition", "1e99">>, <<"--lpf-cutoff", "95">>>>}
Others == {<<>>, <<<<"--version">>>>, <<<<"-o", "out.wav">>>>, <<<<"-i", "in24.wav">>>>,
           <<<<"-i", "in24.wav">>, <<"-r", "44100">>>>, Job3("in24.wav", "in24.wav", "44100"),
           Plain \o <<<<"--help">>>>, Plain \o <<<<"--flatTPDF">>, <<"--ns", "16">>>>}

MCLines == Passes \cup Csv \cup Flac \cup Large \cup Formats \cup Ordered \cup Raw \cup Radio \cup Stages \cup Others
\* What the theorems about the order of options and about the stages ask of the lines.
ASSUME MCLinesAssumption ==
  PlainWords /\ Readable /\ \A line \in MCLines : Grammatical(line) /\ Repeatable(line)

MCHyphenated == {"-i", "-o", "-r", "--singleStage"}  \* those that --raw-input meets
=============================================================================
