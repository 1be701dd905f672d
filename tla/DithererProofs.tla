---------------------------- MODULE DithererProofs ----------------------------
(***************************************************************************)
(* Theorems about the ditherer: for any lengths of filter, levels, gains   *)
(* and passes, a repetition has the random numbers and the errors of a     *)
(* first pass, a sound is dithered at the level of the gain, and silence   *)
(* is blanked when there has been enough of it and not before.             *)
(***************************************************************************)
EXTENDS Ditherer, WellFoundedInduction, TLAPS

OptionsOK ==
  /\ bAutoBlankingEnabled \in BOOLEAN
  /\ generator \in {"flat", "sloped", "rpdf", "legacy"}
  /\ shaper \in {"none", "passThrough", "fir"}

\* The state of a pass after n samples follows from n and the number of the pass: the
\* generator has gone on by as many numbers, and the last errors are those of the pass.
NoiseInv ==
  /\ drawn = IF generator = "flat" THEN 2 * Len(heard) ELSE Len(heard)
  /\ oldRandom = IF generator \in {"sloped", "legacy"} THEN Len(heard) ELSE 0
  /\ f \subseteq {pass}

FeedbackInv ==
  /\ Z1 = IF Len(heard) = 0 THEN None ELSE <<pass, Len(heard)>>
  /\ FIRHistory = [k \in 1 .. FIRLength |->
                     IF shaper = "fir" /\ k < Len(heard) THEN <<pass, Len(heard) - k>> ELSE None]

PassInv ==
  /\ OptionsOK
  /\ pass \in Nat /\ heard \in Seq({"sound", "silence"})
  /\ NoiseInv
  /\ FeedbackInv

\* Without auto-blanking the level is always the full one.
LevelInv ==
  ~bAutoBlankingEnabled => ditherScaleFactor = maxDitherScaleFactor /\ masterVolume = 1
-------------------------------------------------------------------------------
LEMMA PassInit == Init => PassInv /\ RepetitionIsTheSame
<1> SUFFICES ASSUME Init PROVE PassInv /\ RepetitionIsTheSame
  OBVIOUS
<1>1. OptionsOK
  BY DEF Init, OptionsOK, profiles
<1>2. heard = <<>> /\ Len(heard) = 0 /\ pass \in Nat
  BY DEF Init
<1>3. NoiseInv
  BY <1>1, <1>2 DEF Init, NoiseInv, OptionsOK
<1>4. FeedbackInv
  <2>1. \A k \in 1 .. FIRLength : ~(k < Len(heard))
    BY <1>2, DithererAssumption
  <2> QED
    BY <1>2, <2>1 DEF Init, FeedbackInv
<1>5. RepetitionIsTheSame
  BY DEF Init, RepetitionIsTheSame
<1> QED
  BY <1>1, <1>2, <1>3, <1>4, <1>5 DEF PassInv

\* One sample more: what it is made of, and what is kept for the next.
LEMMA PassDither ==
  ASSUME PassInv, NEW sample \in {"sound", "silence"}, dither(sample)
  PROVE  PassInv' /\ RepetitionIsTheSame'
<1> DEFINE n == Len(heard)
<1>1. n \in Nat /\ heard' \in Seq({"sound", "silence"}) /\ Len(heard') = n + 1
  BY DEF PassInv, dither
<1>2. OptionsOK' /\ pass' = pass /\ pass \in Nat /\ generator' = generator /\ shaper' = shaper
  BY DEF PassInv, OptionsOK, dither, options
<1>3. NoiseInv'
  <2>1. drawn' = IF generator = "flat" THEN 2 * (n + 1) ELSE n + 1
    BY <1>1 DEF PassInv, NoiseInv, dither, noiseGenerator
  <2>2. oldRandom' = IF generator \in {"sloped", "legacy"} THEN n + 1 ELSE 0
    BY <1>1, <2>1 DEF PassInv, NoiseInv, dither, noiseGenerator
  <2>3. f' \subseteq {pass}
    BY DEF PassInv, NoiseInv, dither, noiseGenerator
  <2> QED
    BY <1>1, <1>2, <2>1, <2>2, <2>3 DEF NoiseInv
<1>4. Z1' = <<pass, n + 1>>
  BY <1>1 DEF dither
<1>5. FIRHistory' = [k \in 1 .. FIRLength |->
                       IF shaper = "fir" /\ k < n + 1 THEN <<pass, n + 1 - k>> ELSE None]
  <2>1. CASE shaper = "fir"
    <3>1. FIRHistory' = [k \in 1 .. FIRLength |-> IF k = 1 THEN Z1 ELSE FIRHistory[k - 1]]
      BY <2>1 DEF dither, noiseShapingFilter
    <3>2. ASSUME NEW k \in 1 .. FIRLength
          PROVE  (IF k = 1 THEN Z1 ELSE FIRHistory[k - 1])
                   = IF k < n + 1 THEN <<pass, n + 1 - k>> ELSE None
      <4>1. CASE k = 1
        BY <1>1, <4>1 DEF PassInv, FeedbackInv
      <4>2. CASE k # 1
        <5>1. k \in Nat /\ FIRLength \in Nat /\ k - 1 \in 1 .. FIRLength
          BY <4>2, DithererAssumption
        <5>2. FIRHistory[k - 1] = IF k - 1 < n THEN <<pass, n - (k - 1)>> ELSE None
          BY <2>1, <5>1 DEF PassInv, FeedbackInv
        <5>3. (k - 1 < n) = (k < n + 1) /\ n - (k - 1) = n + 1 - k
          BY <1>1, <5>1
        <5> QED
          BY <4>2, <5>2, <5>3
      <4> QED
        BY <4>1, <4>2
    <3> QED
      BY <2>1, <3>1, <3>2
  <2>2. CASE shaper # "fir"
    BY <2>2 DEF dither, noiseShapingFilter, PassInv, FeedbackInv
  <2> QED
    BY <2>1, <2>2
<1>6. FeedbackInv'
  BY <1>1, <1>2, <1>4, <1>5 DEF FeedbackInv
<1>7. RepetitionIsTheSame'
  <2>1. /\ out'.numbers = Numbers /\ out'.filters = f' /\ out'.errors = Errors
    BY DEF dither
  <2>2. Len(heard') = n + 1 /\ Len(heard') - 1 = n /\ Len(heard') \in Nat
    BY <1>1
  <2>3. Numbers = CASE generator' = "flat" -> <<2 * Len(heard'), 2 * Len(heard') - 1>>
                    [] generator' = "rpdf" -> <<Len(heard')>>
                    [] OTHER               -> <<Len(heard'), Len(heard') - 1>>
    <3>1. CASE generator = "flat"
      <4>1. Numbers = <<drawn + 2, drawn + 1>> /\ drawn = 2 * n
        BY <3>1 DEF Numbers, PassInv, NoiseInv
      <4>2. drawn + 2 = 2 * Len(heard') /\ drawn + 1 = 2 * Len(heard') - 1
        BY <1>1, <2>2, <4>1
      <4>3. Numbers = <<2 * Len(heard'), 2 * Len(heard') - 1>>
        BY <4>1, <4>2
      <4>4. generator' = "flat"
        BY <1>2, <3>1
      <4> QED
        BY <4>3, <4>4
    <3>2. CASE generator = "rpdf"
      <4>1. Numbers = <<drawn + 1>> /\ drawn = n
        BY <3>2 DEF Numbers, PassInv, NoiseInv
      <4>2. Numbers = <<Len(heard')>>
        BY <2>2, <4>1
      <4>3. generator' = "rpdf"
        BY <1>2, <3>2
      <4> QED
        BY <4>2, <4>3
    <3>3. CASE generator \in {"sloped", "legacy"}
      <4>1. Numbers = <<drawn + 1, oldRandom>> /\ drawn = n /\ oldRandom = n
        BY <3>3 DEF Numbers, PassInv, NoiseInv
      <4>2. Numbers = <<Len(heard'), Len(heard') - 1>>
        BY <2>2, <4>1
      <4>3. generator' # "flat" /\ generator' # "rpdf"
        BY <1>2, <3>3
      <4> QED
        BY <4>2, <4>3
    <3> QED
      BY <3>1, <3>2, <3>3 DEF PassInv, OptionsOK
  <2>4. \A k \in DOMAIN Errors :
           Errors[k] = IF k < Len(heard') THEN <<pass', Len(heard') - k>> ELSE None
    <3>1. CASE shaper = "none"
      BY <3>1 DEF Errors
    <3>2. CASE shaper = "passThrough"
      <4>1. Errors = <<Z1>>
        BY <3>2 DEF Errors
      <4>2. Z1 = IF 1 < Len(heard') THEN <<pass', Len(heard') - 1>> ELSE None
        BY <1>1, <1>2, <2>2 DEF PassInv, FeedbackInv
      <4> QED
        BY <4>1, <4>2
    <3>3. CASE shaper = "fir"
      <4>1. Errors = FIRHistory'
        BY <3>3 DEF Errors
      <4> QED
        BY <1>2, <1>5, <2>2, <3>3, <4>1
    <3> QED
      BY <3>1, <3>2, <3>3 DEF PassInv, OptionsOK
  <2>5. f' \subseteq {pass'}
    BY <1>3 DEF NoiseInv
  <2> HIDE DEF n
  <2> QED
    BY <2>1, <2>3, <2>4, <2>5, Zenon DEF RepetitionIsTheSame
<1> QED
  BY <1>1, <1>2, <1>3, <1>6, <1>7 DEF PassInv

\* A repetition: everything is as it was before the first sample.
LEMMA PassRepeat ==
  ASSUME PassInv, NEW factor \in Adjustments, Repeat(factor)
  PROVE  PassInv' /\ RepetitionIsTheSame'
<1>1. OptionsOK' /\ generator' = generator /\ shaper' = shaper
  BY DEF PassInv, OptionsOK, Repeat, options
<1>2. pass' \in Nat /\ heard' = <<>> /\ Len(heard') = 0 /\ heard' \in Seq({"sound", "silence"})
  BY DEF PassInv, Repeat
<1>3. NoiseInv'
  BY <1>1, <1>2 DEF NoiseInv, PassInv, OptionsOK, Repeat, reset
<1>4. FeedbackInv'
  <2>1. \A k \in 1 .. FIRLength : ~(k < Len(heard'))
    BY <1>2, DithererAssumption
  <2> QED
    BY <1>2, <2>1 DEF Repeat, reset, FeedbackInv
<1>5. RepetitionIsTheSame'
  BY DEF Repeat, RepetitionIsTheSame
<1> QED
  BY <1>1, <1>2, <1>3, <1>4, <1>5 DEF PassInv

LEMMA PassStutter ==
  ASSUME PassInv, RepetitionIsTheSame, UNCHANGED vars
  PROVE  PassInv' /\ RepetitionIsTheSame'
BY DEF vars, options, level, noise, feedback, PassInv, OptionsOK, NoiseInv, FeedbackInv,
       RepetitionIsTheSame

\* A sample of a repetition is dithered with the random numbers, the filtered noise and
\* the errors that the same sample of a first pass has (reset, between two passes).
THEOREM RepetitionRepeats == Spec => []RepetitionIsTheSame
<1>1. Init => PassInv /\ RepetitionIsTheSame
  BY PassInit
<1>2. PassInv /\ RepetitionIsTheSame /\ [Next]_vars => (PassInv /\ RepetitionIsTheSame)'
  BY PassDither, PassRepeat, PassStutter DEF Next
<1> QED
  BY <1>1, <1>2, PTL DEF Spec
-------------------------------------------------------------------------------
LEMMA LevelInit == Init => LevelInv /\ SoundIsDithered
BY DEF Init, LevelInv, SoundIsDithered, InitialScale

LEMMA LevelDither ==
  ASSUME PassInv, LevelInv, NEW sample \in {"sound", "silence"}, dither(sample)
  PROVE  LevelInv' /\ SoundIsDithered'
<1>1. /\ maxDitherScaleFactor' = maxDitherScaleFactor
      /\ bAutoBlankingEnabled' = bAutoBlankingEnabled
  BY DEF dither, options
<1>2. Last(heard') = sample
  <2>1. heard \in Seq({"sound", "silence"}) /\ heard' = Append(heard, sample)
    BY DEF PassInv, dither
  <2> QED
    BY <2>1 DEF Last
<1>3. ~bAutoBlankingEnabled =>
        ditherScaleFactor' = maxDitherScaleFactor /\ masterVolume' = 1
  BY DEF LevelInv, dither, AutoBlank, level
<1>4. bAutoBlankingEnabled /\ sample = "sound" =>
        ditherScaleFactor' = maxDitherScaleFactor /\ masterVolume' = 1
  BY DEF dither, AutoBlank
<1>5. out'.scale = ditherScaleFactor' /\ out'.volume = masterVolume'
  BY DEF dither
<1> QED
  BY <1>1, <1>2, <1>3, <1>4, <1>5 DEF LevelInv, SoundIsDithered

LEMMA LevelRepeat ==
  ASSUME NEW factor \in Adjustments, Repeat(factor)
  PROVE  LevelInv' /\ SoundIsDithered'
BY DEF Repeat, reset, InitialScale, options, LevelInv, SoundIsDithered

\* A sound is dithered at the level of the gain of its pass and is not muted, whatever
\* silence came before it; without auto-blanking so is every sample.
THEOREM NoSoundIsBlanked == Spec => []SoundIsDithered
<1> DEFINE Inv == PassInv /\ RepetitionIsTheSame /\ LevelInv /\ SoundIsDithered
<1>1. Init => Inv
  BY PassInit, LevelInit
<1>2. Inv /\ [Next]_vars => Inv'
  <2> SUFFICES ASSUME Inv, [Next]_vars PROVE Inv'
    OBVIOUS
  <2>1. CASE \E sample \in {"sound", "silence"} : dither(sample)
    BY <2>1, PassDither, LevelDither
  <2>2. CASE \E factor \in Adjustments : Repeat(factor)
    BY <2>2, PassRepeat, LevelRepeat
  <2>3. CASE UNCHANGED vars
    <3>1. LevelInv' /\ SoundIsDithered'
      BY <2>3 DEF vars, options, level, LevelInv, SoundIsDithered
    <3> QED
      BY <2>3, <3>1, PassStutter
  <2> QED
    BY <2>1, <2>2, <2>3 DEF Next
<1>3. Inv => SoundIsDithered
  OBVIOUS
<1> QED
  BY <1>1, <1>2, <1>3, PTL DEF Spec
-------------------------------------------------------------------------------
(***************************************************************************)
(* Auto-blanking.  Decayed is a recursive function: that it exists, and    *)
(* so that it goes down by one factor a sample, is shown by an induction   *)
(* over sets of numbers.                                                   *)
(***************************************************************************)
LEMMA LeastNatural ==
  ASSUME NEW T \in SUBSET Nat, T # {}
  PROVE  \E n \in T : \A k \in T : n <= k
<1> DEFINE R == OpToRel(<, Nat)
<1>1. \A x, y \in Nat : <<x, y>> \in R <=> x < y
  BY Zenon DEF OpToRel
<1>2. IsWellFoundedOn(R, Nat)
  BY Zenon, NatLessThanWellFounded
<1> HIDE DEF R
<1>3. PICK x \in T : \A y \in T : ~(<<y, x>> \in R)
  BY <1>2, WFMin
<1>4. \A y \in T : x \in Nat /\ y \in Nat /\ ~(y < x)
  BY <1>1, <1>3
<1> QED
  BY <1>3, <1>4

LEMMA InductiveSet ==
  ASSUME NEW S, 0 \in S, \A n \in Nat : n \in S => n + 1 \in S
  PROVE  Nat \subseteq S
<1> SUFFICES ASSUME Nat \ S # {} PROVE FALSE
  OBVIOUS
<1>1. PICK n \in Nat \ S : \A k \in Nat \ S : n <= k
  BY LeastNatural
<1>2. n - 1 \in Nat /\ n - 1 \notin Nat \ S
  BY <1>1
<1> QED
  BY <1>1, <1>2

\* What is left of a level, and its decay over any number of samples.
Part(level0) == (level0 * autoBlankDecayFactor) \div 100
DecayOf(max, n, g) == IF n = 0 THEN max ELSE Part(g[n - 1])
Prefix(max, k, g) == g = [n \in 0 .. k |-> DecayOf(max, n, g)]

LEMMA PartOfLevel ==
  ASSUME NEW a \in Nat
  PROVE  /\ Part(a) \in Nat /\ Part(a) <= a
         /\ \A b \in Nat : b <= a => Part(b) <= Part(a)
<1>1. autoBlankDecayFactor \in 1 .. 99
  BY DithererAssumption
<1>2. a * autoBlankDecayFactor \in Nat /\ a * autoBlankDecayFactor <= a * 100
  BY <1>1
<1>3. ASSUME NEW b \in Nat, b <= a
      PROVE  b * autoBlankDecayFactor \in Nat /\ b * autoBlankDecayFactor <= a * autoBlankDecayFactor
  BY <1>1, <1>3
<1> DEFINE whole == a * autoBlankDecayFactor
<1>4. ASSUME NEW b \in Nat, b <= a PROVE Part(b) <= Part(a)
  <2> DEFINE part == b * autoBlankDecayFactor
  <2>1. whole \in Nat /\ part \in Nat /\ part <= whole
    BY <1>2, <1>3, <1>4
  <2> HIDE DEF whole, part
  <2>2. part \div 100 <= whole \div 100
    BY <2>1
  <2> QED
    BY <2>2 DEF Part, whole, part
<1>5. whole \in Nat /\ whole <= a * 100
  BY <1>2
<1> HIDE DEF whole
<1>6. whole \div 100 \in Nat /\ whole \div 100 <= a
  BY <1>5
<1> QED
  BY <1>4, <1>6 DEF Part, whole

\* A level decays in one way only.
LEMMA PrefixesAgree ==
  ASSUME NEW max, NEW j \in Nat, NEW k \in Nat, j <= k,
         NEW g, NEW h, Prefix(max, j, g), Prefix(max, k, h)
  PROVE  \A n \in 0 .. j : g[n] = h[n]
<1> DEFINE S == {n \in Nat : n <= j => g[n] = h[n]}
<1>1. \A n \in 0 .. j : g[n] = DecayOf(max, n, g) /\ h[n] = DecayOf(max, n, h)
  <2> SUFFICES ASSUME NEW n \in 0 .. j
               PROVE  g[n] = DecayOf(max, n, g) /\ h[n] = DecayOf(max, n, h)
    OBVIOUS
  <2>1. n \in 0 .. k
    OBVIOUS
  <2>2. /\ g = [m \in 0 .. j |-> DecayOf(max, m, g)]
        /\ h = [m \in 0 .. k |-> DecayOf(max, m, h)]
    BY DEF Prefix
  <2> DEFINE E(e, m) == DecayOf(max, m, e)
  <2> HIDE DEF E
  <2>3. /\ g = [m \in 0 .. j |-> E(g, m)]
        /\ h = [m \in 0 .. k |-> E(h, m)]
    BY <2>2 DEF E
  <2>4. g[n] = E(g, n) /\ h[n] = E(h, n)
    BY <2>1, <2>3
  <2> QED
    BY <2>4 DEF E
<1>2. 0 \in S
  BY <1>1 DEF DecayOf
<1>3. ASSUME NEW n \in Nat, n \in S PROVE n + 1 \in S
  <2> SUFFICES ASSUME n + 1 <= j PROVE g[n + 1] = h[n + 1]
    OBVIOUS
  <2>1. g[n] = h[n] /\ n + 1 \in 0 .. j /\ n + 1 # 0 /\ (n + 1) - 1 = n
    BY <1>3
  <2>2. g[n + 1] = Part(g[n]) /\ h[n + 1] = Part(h[n])
    BY <1>1, <2>1 DEF DecayOf
  <2> QED
    BY <2>1, <2>2
<1> HIDE DEF S
<1>4. Nat \subseteq S
  BY <1>2, <1>3, InductiveSet
<1> QED
  BY <1>4 DEF S

LEMMA PrefixesExist ==
  ASSUME NEW max
  PROVE  \A k \in Nat : \E g : Prefix(max, k, g)
<1> DEFINE S == {k \in Nat : \E g : Prefix(max, k, g)}
<1>1. 0 \in S
  <2> DEFINE g == [n \in 0 .. 0 |-> max]
  <2>1. \A n \in 0 .. 0 : DecayOf(max, n, g) = max
    BY DEF DecayOf
  <2>2. Prefix(max, 0, g)
    BY <2>1 DEF Prefix
  <2> QED
    BY <2>2
<1>2. ASSUME NEW k \in Nat, k \in S PROVE k + 1 \in S
  <2>1. PICK g : Prefix(max, k, g)
    BY <1>2
  <2> DEFINE h == [n \in 0 .. k + 1 |-> IF n = k + 1 THEN Part(g[k]) ELSE g[n]]
  <2>2. ASSUME NEW n \in 0 .. k + 1 PROVE h[n] = DecayOf(max, n, h)
    <3>1. CASE n = k + 1
      <4>1. n # 0 /\ n - 1 = k /\ k \in 0 .. k + 1 /\ k # k + 1
        BY <3>1
      <4>2. h[n] = Part(g[k]) /\ h[k] = g[k]
        BY <3>1, <4>1
      <4> HIDE DEF h
      <4> QED
        BY <4>1, <4>2 DEF DecayOf
    <3>2. CASE n # k + 1
      <4>1. n \in 0 .. k
        BY <3>2
      <4>2. h[n] = g[n]
        BY <3>2
      <4>3. g[n] = DecayOf(max, n, g)
        BY <2>1, <4>1 DEF Prefix
      <4>4. n # 0 => h[n - 1] = g[n - 1]
        BY <4>1
      <4> HIDE DEF h
      <4> QED
        BY <4>2, <4>3, <4>4 DEF DecayOf
    <3> QED
      BY <3>1, <3>2
  <2>3. Prefix(max, k + 1, h)
    <3>1. h = [n \in 0 .. k + 1 |-> h[n]]
      OBVIOUS
    <3> HIDE DEF h
    <3>2. [n \in 0 .. k + 1 |-> h[n]] = [n \in 0 .. k + 1 |-> DecayOf(max, n, h)]
      BY <2>2
    <3> QED
      BY <3>1, <3>2 DEF Prefix
  <2> HIDE DEF h
  <2> QED
    BY <2>3
<1> HIDE DEF S
<1>3. Nat \subseteq S
  BY <1>1, <1>2, InductiveSet
<1> QED
  BY <1>3 DEF S

\* The level that is left decays by one factor from each sample to the next.
LEMMA DecayIsGeometric ==
  /\ Decayed[0] = maxDitherScaleFactor
  /\ \A n \in Nat : Decayed[n + 1] = Part(Decayed[n])
<1> DEFINE max == maxDitherScaleFactor
           Body(g) == [n \in Nat |-> DecayOf(max, n, g)]
           pre(k) == CHOOSE g : Prefix(max, k, g)
           whole == [n \in Nat |-> pre(n)[n]]
<1>1. \A k \in Nat : Prefix(max, k, pre(k))
  BY PrefixesExist
<1> HIDE DEF pre
<1>2. ASSUME NEW n \in Nat PROVE whole[n] = DecayOf(max, n, whole)
  <2>1. Prefix(max, n, pre(n)) /\ n \in 0 .. n
    BY <1>1
  <2>2. pre(n)[n] = DecayOf(max, n, pre(n))
    BY <2>1 DEF Prefix
  <2>3. whole[n] = pre(n)[n]
    OBVIOUS
  <2>4. n # 0 => pre(n)[n - 1] = whole[n - 1]
    <3> SUFFICES ASSUME n # 0 PROVE pre(n)[n - 1] = whole[n - 1]
      OBVIOUS
    <3>1. n - 1 \in Nat /\ n - 1 <= n /\ n - 1 \in 0 .. n - 1
      OBVIOUS
    <3>2. Prefix(max, n - 1, pre(n - 1))
      BY <1>1, <3>1
    <3>3. pre(n - 1)[n - 1] = pre(n)[n - 1]
      BY <2>1, <3>1, <3>2, PrefixesAgree
    <3>4. whole[n - 1] = pre(n - 1)[n - 1]
      BY <3>1
    <3> QED
      BY <3>3, <3>4
  <2> HIDE DEF whole
  <2> QED
    BY <2>2, <2>3, <2>4 DEF DecayOf
<1>3. whole = Body(whole)
  <2>1. whole = [n \in Nat |-> whole[n]]
    OBVIOUS
  <2> HIDE DEF whole
  <2> QED
    BY <1>2, <2>1
<1>4. Decayed = Body(Decayed)
  <2>1. Decayed = CHOOSE g : g = Body(g)
    BY DEF Decayed, DecayOf, Part
  <2> HIDE DEF Body, whole
  <2> QED
    BY <1>3, <2>1
<1>5. ASSUME NEW n \in Nat PROVE Decayed[n] = DecayOf(max, n, Decayed)
  BY <1>4
<1>6. Decayed[0] = max
  BY <1>5 DEF DecayOf
<1>7. ASSUME NEW n \in Nat PROVE Decayed[n + 1] = Part(Decayed[n])
  <2>1. n + 1 \in Nat /\ n + 1 # 0 /\ (n + 1) - 1 = n
    OBVIOUS
  <2> QED
    BY <1>5, <2>1 DEF DecayOf
<1> QED
  BY <1>6, <1>7

\* The last sound of a pass; its silent samples are those after it.
Sounds == {i \in 1 .. Len(heard) : heard[i] = "sound"}
LastSound == IF Sounds # {} THEN Max(Sounds) ELSE 0

\* The samples counted are the silent run; the level is at most what that many samples
\* leave of it, and where that is less than the cutoff the output has been muted.
BlankInv ==
  /\ gain \in Nat /\ maxDitherScaleFactor \in Nat /\ ditherScaleFactor \in Nat
  /\ ditherScaleFactor <= maxDitherScaleFactor
  /\ zeroCount \in Nat
  /\ bAutoBlankingEnabled =>
       /\ LastSound \in 0 .. Len(heard) /\ zeroCount = Len(heard) - LastSound
       /\ masterVolume = 0 => zeroCount > autoBlankTimeThreshold /\ ditherScaleFactor = 0
       /\ \A n \in 1 .. zeroCount - autoBlankTimeThreshold :
            /\ ditherScaleFactor <= Decayed[n]
            /\ Decayed[n] < autoBlankDecayCutoff => masterVolume = 0
       /\ out # None => out.scale = ditherScaleFactor /\ out.volume = masterVolume

LEMMA RunIs == SilentRun = Len(heard) - LastSound
BY DEF SilentRun, SelectLastInSeq, LastSound, Sounds

LEMMA DecayedIsNat ==
  ASSUME maxDitherScaleFactor \in Nat
  PROVE  \A n \in Nat : Decayed[n] \in Nat
<1> DEFINE S == {n \in Nat : Decayed[n] \in Nat}
<1>1. 0 \in S
  BY DecayIsGeometric
<1>2. ASSUME NEW n \in Nat, n \in S PROVE n + 1 \in S
  BY <1>2, DecayIsGeometric, PartOfLevel
<1> HIDE DEF S
<1>3. Nat \subseteq S
  BY <1>1, <1>2, InductiveSet
<1> QED
  BY <1>3 DEF S

LEMMA BlankingIsJust ==
  ASSUME PassInv, BlankInv
  PROVE  BlankingFollowsSilence
<1> SUFFICES ASSUME out # None, bAutoBlankingEnabled
             PROVE  /\ out.volume = 0 => SilentRun > autoBlankTimeThreshold /\ out.scale = 0
                    /\ \A n \in 1 .. MaxSamples :
                         SilentRun >= autoBlankTimeThreshold + n =>
                           /\ out.scale <= Decayed[n]
                           /\ Decayed[n] < autoBlankDecayCutoff => out.volume = 0
  BY DEF BlankingFollowsSilence
<1>1. SilentRun = zeroCount /\ zeroCount \in Nat
  BY RunIs DEF BlankInv
<1>2. out.scale = ditherScaleFactor /\ out.volume = masterVolume
  BY DEF BlankInv
<1>3. ASSUME NEW n \in 1 .. MaxSamples, SilentRun >= autoBlankTimeThreshold + n
      PROVE  /\ out.scale <= Decayed[n]
             /\ Decayed[n] < autoBlankDecayCutoff => out.volume = 0
  <2>1. n \in 1 .. zeroCount - autoBlankTimeThreshold
    BY <1>1, <1>3, DithererAssumption
  <2> QED
    BY <1>2, <2>1 DEF BlankInv
<1> QED
  BY <1>1, <1>2, <1>3 DEF BlankInv

LEMMA BlankInit == Init => BlankInv
<1> SUFFICES ASSUME Init PROVE BlankInv
  OBVIOUS
<1>1. heard = <<>> /\ Len(heard) = 0 /\ zeroCount = 0 /\ masterVolume = 1 /\ out = None /\ gain = 100
  BY DEF Init
<1>2. maxDitherScaleFactor = FullScale /\ ditherScaleFactor \in {0, FullScale}
  BY DEF Init, InitialScale
<1>3. Sounds = {} /\ LastSound = 0
  BY <1>1 DEF Sounds, LastSound
<1>4. 1 .. zeroCount - autoBlankTimeThreshold = {}
  BY <1>1, DithererAssumption
<1> QED
  BY <1>1, <1>2, <1>3, <1>4, DithererAssumption DEF BlankInv

\* A repetition is as silent as a new ditherer.
LEMMA BlankRepeat ==
  ASSUME BlankInv, NEW factor \in Adjustments, Repeat(factor)
  PROVE  BlankInv'
<1>1. /\ heard' = <<>> /\ Len(heard') = 0 /\ zeroCount' = 0 /\ masterVolume' = 1 /\ out' = None
      /\ bAutoBlankingEnabled' = bAutoBlankingEnabled
  BY DEF Repeat, reset, options
<1>2. gain' \in Nat /\ maxDitherScaleFactor' \in Nat
  <2>1. gain * factor \in Nat /\ gain' = (gain * factor) \div 100
    BY DithererAssumption DEF BlankInv, Repeat, adjustGain
  <2>2. gain' \in Nat
    <3> DEFINE product == gain * factor
    <3>1. product \in Nat /\ gain' = product \div 100
      BY <2>1
    <3> HIDE DEF product
    <3> QED
      BY <3>1
  <2> DEFINE full == FullScale * gain'
  <2>3. full \in Nat /\ maxDitherScaleFactor' = full \div 100
    BY <2>2, DithererAssumption DEF Repeat, adjustGain
  <2> HIDE DEF full
  <2> QED
    BY <2>2, <2>3
<1>3. ditherScaleFactor' \in {0, maxDitherScaleFactor'}
  BY DEF Repeat, reset, InitialScale
<1>4. Sounds' = {} /\ LastSound' = 0
  BY <1>1 DEF Sounds, LastSound
<1>5. 1 .. zeroCount' - autoBlankTimeThreshold = {}
  BY <1>1, DithererAssumption
<1>6. ditherScaleFactor' \in Nat /\ ditherScaleFactor' <= maxDitherScaleFactor'
  BY <1>2, <1>3
<1> QED
  BY <1>1, <1>2, <1>4, <1>5, <1>6 DEF BlankInv

\* The last sound, after one sample more.
LEMMA SampleHeard ==
  ASSUME PassInv, NEW sample \in {"sound", "silence"}, heard' = Append(heard, sample),
         LastSound \in 0 .. Len(heard)
  PROVE  /\ Len(heard') = Len(heard) + 1 /\ Len(heard) \in Nat
         /\ sample = "sound" => LastSound' = Len(heard')
         /\ sample = "silence" => LastSound' = LastSound
<1> DEFINE n == Len(heard)
<1>1. /\ n \in Nat /\ Len(heard') = n + 1 /\ heard'[n + 1] = sample
      /\ \A i \in 1 .. n : heard'[i] = heard[i]
  BY DEF PassInv
<1>2. CASE sample = "sound"
  <2>1. n + 1 \in Sounds' /\ \A i \in Sounds' : i \in Int /\ n + 1 >= i
    BY <1>1, <1>2 DEF Sounds
  <2>2. Max(Sounds') \in Sounds' /\ \A i \in Sounds' : Max(Sounds') >= i
    BY <2>1 DEF Max
  <2>3. Max(Sounds') = n + 1
    BY <1>1, <2>1, <2>2
  <2>4. LastSound' = n + 1
    BY <2>1, <2>3 DEF LastSound
  <2> QED
    BY <1>1, <1>2, <2>4
<1>3. CASE sample = "silence"
  <2>1. ASSUME NEW i PROVE i \in Sounds' <=> i \in Sounds
    BY <1>1, <1>3 DEF Sounds
  <2>2. Sounds' = Sounds
    BY <2>1
  <2>3. LastSound' = LastSound
    BY <2>2 DEF LastSound
  <2> QED
    BY <1>1, <1>3, <2>3
<1> QED
  BY <1>2, <1>3

\* A silent sample: after the threshold the level loses one more factor, as the bound does.
LEMMA BlankSilence ==
  ASSUME BlankInv, bAutoBlankingEnabled,
         AutoBlank("silence"), UNCHANGED <<bAutoBlankingEnabled, maxDitherScaleFactor>>
  PROVE  /\ zeroCount' = zeroCount + 1
         /\ ditherScaleFactor' \in Nat /\ ditherScaleFactor' <= maxDitherScaleFactor'
         /\ masterVolume' = 0 => zeroCount' > autoBlankTimeThreshold /\ ditherScaleFactor' = 0
         /\ \A n \in 1 .. zeroCount' - autoBlankTimeThreshold :
              /\ ditherScaleFactor' <= Decayed[n]
              /\ Decayed[n] < autoBlankDecayCutoff => masterVolume' = 0
<1> DEFINE decayed == Part(ditherScaleFactor)
           over == zeroCount' - autoBlankTimeThreshold
<1>1. /\ zeroCount' = zeroCount + 1 /\ zeroCount \in Nat /\ autoBlankTimeThreshold \in Nat
      /\ autoBlankDecayCutoff \in Nat \ {0}
      /\ maxDitherScaleFactor' = maxDitherScaleFactor /\ maxDitherScaleFactor \in Nat
      /\ ditherScaleFactor \in Nat /\ ditherScaleFactor <= maxDitherScaleFactor
  BY DithererAssumption DEF BlankInv, AutoBlank
<1>2. CASE zeroCount' <= autoBlankTimeThreshold
  <2>1. UNCHANGED <<ditherScaleFactor, masterVolume>>
    BY <1>2 DEF AutoBlank
  <2>2. 1 .. over = {} /\ masterVolume # 0
    BY <1>1, <1>2 DEF BlankInv
  <2> QED
    BY <1>1, <2>1, <2>2
<1>3. CASE ~(zeroCount' <= autoBlankTimeThreshold)
  <2>1. decayed \in Nat /\ decayed <= ditherScaleFactor
    BY <1>1, PartOfLevel
  <2>2. /\ decayed < autoBlankDecayCutoff => ditherScaleFactor' = 0 /\ masterVolume' = 0
        /\ ~(decayed < autoBlankDecayCutoff) =>
             ditherScaleFactor' = decayed /\ masterVolume' = masterVolume
    BY <1>3 DEF AutoBlank, Part
  <2>3. over \in Nat \ {0} /\ over - 1 \in Nat /\ over - 1 = zeroCount - autoBlankTimeThreshold
    BY <1>1, <1>3
  <2>4. \A n \in Nat : Decayed[n] \in Nat
    BY <1>1, DecayedIsNat
  \* What was muted stays so: nothing is left to decay.
  <2>5. masterVolume = 0 => ditherScaleFactor = 0
    BY DEF BlankInv
  <2>6. masterVolume = 0 => decayed < autoBlankDecayCutoff
    BY <1>1, <2>1, <2>5
  <2>7. decayed <= Decayed[over]
    <3>1. ditherScaleFactor <= Decayed[over - 1]
      <4>1. CASE over = 1
        <5>1. over - 1 = 0
          BY <4>1
        <5> QED
          BY <1>1, <5>1, DecayIsGeometric
      <4>2. CASE over # 1
        <5>1. over - 1 \in 1 .. zeroCount - autoBlankTimeThreshold
          BY <2>3, <4>2
        <5> QED
          BY <5>1 DEF BlankInv
      <4> QED
        BY <4>1, <4>2
    <3>2. Part(ditherScaleFactor) <= Part(Decayed[over - 1])
      BY <1>1, <2>3, <2>4, <3>1, PartOfLevel
    <3>3. Part(Decayed[over - 1]) = Decayed[(over - 1) + 1] /\ (over - 1) + 1 = over
      BY <2>3, DecayIsGeometric
    <3> QED
      BY <3>2, <3>3
  <2> HIDE DEF decayed, over
  <2>8. ditherScaleFactor' \in Nat /\ ditherScaleFactor' <= decayed
    BY <2>1, <2>2
  <2>9. ASSUME NEW n \in 1 .. over
        PROVE  /\ ditherScaleFactor' <= Decayed[n]
               /\ Decayed[n] < autoBlankDecayCutoff => masterVolume' = 0
    <3>1. n \in Nat /\ Decayed[n] \in Nat
      BY <2>3, <2>4
    <3>2. CASE n = over
      BY <1>1, <2>1, <2>2, <2>7, <2>8, <3>1, <3>2
    <3>3. CASE n # over
      <4>1. n \in 1 .. zeroCount - autoBlankTimeThreshold
        BY <2>3, <3>3
      <4>2. /\ ditherScaleFactor <= Decayed[n]
            /\ Decayed[n] < autoBlankDecayCutoff => masterVolume = 0
        BY <4>1 DEF BlankInv
      <4> QED
        BY <1>1, <2>1, <2>2, <2>8, <3>1, <4>2
    <3> QED
      BY <3>2, <3>3
  <2>10. masterVolume' = 0 => ditherScaleFactor' = 0
    BY <2>2, <2>6
  <2>11. /\ zeroCount' > autoBlankTimeThreshold
         /\ ditherScaleFactor' <= maxDitherScaleFactor'
    BY <1>1, <1>3, <2>1, <2>8
  <2> QED
    BY <1>1, <2>8, <2>9, <2>10, <2>11 DEF over
<1> QED
  BY <1>2, <1>3

LEMMA BlankDither ==
  ASSUME PassInv, BlankInv, LevelInv, NEW sample \in {"sound", "silence"}, dither(sample)
  PROVE  BlankInv'
<1>1. /\ heard' = Append(heard, sample) /\ AutoBlank(sample)
      /\ UNCHANGED <<bAutoBlankingEnabled, gain, maxDitherScaleFactor>>
      /\ out'.scale = ditherScaleFactor' /\ out'.volume = masterVolume'
  BY DEF dither, options
<1>2. gain' \in Nat /\ maxDitherScaleFactor' \in Nat
  BY <1>1 DEF BlankInv
<1>3. CASE ~bAutoBlankingEnabled
  <2>1. UNCHANGED level
    BY <1>1, <1>3 DEF AutoBlank
  <2> QED
    BY <1>1, <1>2, <1>3, <2>1 DEF level, BlankInv
<1>4. CASE bAutoBlankingEnabled
  <2>1. LastSound \in 0 .. Len(heard) /\ zeroCount = Len(heard) - LastSound /\ zeroCount \in Nat
    BY <1>4 DEF BlankInv
  <2>2. CASE sample = "sound"
    <3>1. ditherScaleFactor' = maxDitherScaleFactor /\ masterVolume' = 1 /\ zeroCount' = 0
      BY <1>1, <1>4, <2>2 DEF AutoBlank
    <3>2. LastSound' \in 0 .. Len(heard') /\ Len(heard') - LastSound' = 0
      BY <1>1, <2>1, <2>2, SampleHeard
    <3>3. 1 .. zeroCount' - autoBlankTimeThreshold = {}
      BY <3>1, DithererAssumption
    <3>4. ditherScaleFactor' <= maxDitherScaleFactor' /\ ditherScaleFactor' \in Nat
      BY <1>1, <1>2, <3>1
    <3> QED
      BY <1>1, <1>2, <3>1, <3>2, <3>3, <3>4 DEF BlankInv
  <2>3. CASE sample = "silence"
    <3>1. LastSound' \in 0 .. Len(heard') /\ zeroCount + 1 = Len(heard') - LastSound'
      <4>1. Len(heard') = Len(heard) + 1 /\ Len(heard) \in Nat /\ LastSound' = LastSound
        BY <1>1, <2>1, <2>3, SampleHeard
      <4> QED
        BY <2>1, <4>1
    <3>2. /\ zeroCount' = zeroCount + 1
          /\ ditherScaleFactor' \in Nat /\ ditherScaleFactor' <= maxDitherScaleFactor'
          /\ masterVolume' = 0 => zeroCount' > autoBlankTimeThreshold /\ ditherScaleFactor' = 0
          /\ \A n \in 1 .. zeroCount' - autoBlankTimeThreshold :
               /\ ditherScaleFactor' <= Decayed[n]
               /\ Decayed[n] < autoBlankDecayCutoff => masterVolume' = 0
      BY <1>1, <1>4, <2>3, BlankSilence
    <3>3. Decayed' = Decayed
      BY <1>1 DEF Decayed
    <3>4. zeroCount' \in Nat
      BY <2>1, <3>2
    <3> QED
      BY <1>1, <1>2, <3>1, <3>2, <3>3, <3>4 DEF BlankInv
  <2> QED
    BY <2>2, <2>3
<1> QED
  BY <1>3, <1>4

\* The output is muted only after the threshold's silence, it is when the noise has had
\* time to decay to the cutoff, and the noise decays as fast as it should: for any
\* threshold, factor, cutoff, gains and numbers of samples and passes.
THEOREM SilenceIsBlanked == Spec => []BlankingFollowsSilence
<1> DEFINE Inv == PassInv /\ RepetitionIsTheSame /\ LevelInv /\ SoundIsDithered /\ BlankInv
<1>1. Init => Inv
  BY PassInit, LevelInit, BlankInit
<1>2. Inv /\ [Next]_vars => Inv'
  <2> SUFFICES ASSUME Inv, [Next]_vars PROVE Inv'
    OBVIOUS
  <2>1. CASE \E sample \in {"sound", "silence"} : dither(sample)
    BY <2>1, PassDither, LevelDither, BlankDither
  <2>2. CASE \E factor \in Adjustments : Repeat(factor)
    BY <2>2, PassRepeat, LevelRepeat, BlankRepeat
  <2>3. CASE UNCHANGED vars
    <3>1. LevelInv' /\ SoundIsDithered'
      BY <2>3 DEF vars, options, level, LevelInv, SoundIsDithered
    <3>2. BlankInv'
      <4>1. UNCHANGED <<gain, maxDitherScaleFactor, ditherScaleFactor, zeroCount, masterVolume,
                        bAutoBlankingEnabled, heard, out>>
        BY <2>3 DEF vars, options, level
      <4>2. Decayed' = Decayed
        BY <4>1 DEF Decayed
      <4>3. LastSound' = LastSound
        BY <4>1 DEF LastSound, Sounds
      <4> QED
        BY <4>1, <4>2, <4>3 DEF BlankInv
    <3> QED
      BY <2>3, <3>1, <3>2, PassStutter
  <2> QED
    BY <2>1, <2>2, <2>3 DEF Next
<1>3. Inv => BlankingFollowsSilence
  BY BlankingIsJust
<1> QED
  BY <1>1, <1>2, <1>3, PTL DEF Spec
===============================================================================
