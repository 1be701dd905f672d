------------------------------- MODULE Fraction -------------------------------
(***************************************************************************)
(* The pure functions of fraction.h: the conversion ratio of two sample    *)
(* rates, and the stages of a multi-stage converter.  The ratio of a stage *)
(* and the running product that the code keeps in doubles are compared as  *)
(* rationals.                                                              *)
(***************************************************************************)
EXTENDS Integers, Sequences, FiniteSets, SequencesExt, FiniteSetsExt

Frac(n, d) == [numerator |-> n, denominator |-> d]

\* Euclid's loop.
gcd(a, b) ==
  LET euclid[p \in Nat \X Nat] == IF p[2] = 0 THEN p[1] ELSE euclid[<<p[2], p[1] % p[2]>>]
  IN euclid[<<a, b>>]

getFractionFromSamplerates(inputRate, outputRate) ==
  Frac(outputRate \div gcd(inputRate, outputRate),
       inputRate \div gcd(inputRate, outputRate))

\* The primes of n in ascending order; <<1>> for n = 1.
factorize(n) ==
  LET from[p \in (Nat \ {0}) \X (Nat \ {0, 1})] ==
        LET rest == p[1]
            factor == p[2]
        IN IF factor * factor > n THEN <<rest>>
           ELSE IF rest % factor = 0 THEN <<factor>> \o from[<<rest \div factor, factor>>]
           ELSE IF rest = 1 THEN <<>>
           ELSE from[<<rest, factor + 1>>]
  IN from[<<n, 2>>]

Product(s) ==
  LET upTo[k \in 0 .. Len(s)] == IF k = 0 THEN 1 ELSE s[k] * upTo[k - 1]
  IN upTo[Len(s)]

\* x goes after all that are not above it.
Inserted(x, s) == InsertAt(s, Cardinality({i \in DOMAIN s : s[i] <= x}) + 1, x)

Ascending(s) ==
  LET upTo[k \in 0 .. Len(s)] == IF k = 0 THEN <<>> ELSE Inserted(s[k], upTo[k - 1])
  IN upTo[Len(s)]

\* The primes cut into maxFactors runs of neighbours, each multiplied out.
getnFactors(primes, maxFactors) ==
  LET groups[p \in Seq(Nat) \X (Nat \ {0})] ==
        LET ps == p[1]
            k  == p[2]
        IN IF k = 1 THEN {<<Product(ps)>>}
           ELSE UNION {{Append(g, Product(SubSeq(ps, 1, j))) :
                          g \in groups[<<SubSeq(ps, j + 1, Len(ps)), k - 1>>]} :
                        j \in 1 .. Len(ps) - k - 1}
  IN {Ascending(g) : g \in groups[<<primes, maxFactors>>]}

PadFront(primes, n) == [k \in 1 .. n - Len(primes) |-> 1] \o primes

Numerators(s)   == [k \in DOMAIN s |-> s[k].numerator]
Denominators(s) == [k \in DOMAIN s |-> s[k].denominator]
First(s, k)     == SubSeq(s, 1, k)

\* Mutant: the running ratio is not checked.
BadRatioNever(group, ratio) == FALSE

\* The running ratio falls below the smaller of 1 and the whole ratio.
BadRatio(group, ratio) ==
  \E k \in 1 .. Len(group) - 1 :
    LET n == Product(Numerators(First(group, k)))
        d == Product(Denominators(First(group, k)))
    IN n < d /\ n * ratio.denominator < d * ratio.numerator

StageCount(num, den, stagesAllowed) ==
  Max({1, Min({stagesAllowed, Max({Len(num), Len(den)})})})

getConversionStageCandidates(ratio, stagesAllowed) ==
  LET num == factorize(ratio.numerator)
      den == factorize(ratio.denominator)
      numStages == StageCount(num, den, stagesAllowed)
      groupsOf(primes) ==
        getnFactors(IF Len(primes) < numStages THEN PadFront(primes, numStages)
                                               ELSE primes, numStages)
      pair(n, d) == [k \in 1 .. numStages |-> Frac(n[k], d[k])]
  IN {g \in {pair(n, d) : n \in groupsOf(num), d \in groupsOf(den)} :
        ~BadRatio(g, ratio)}

\* The order of std::set<std::vector<int>>.
LexLess(s, t) ==
  \E k \in DOMAIN s : s[k] < t[k] /\ First(s, k - 1) = First(t, k - 1)

LexLargest(S) == CHOOSE s \in S : \A t \in S \ {s} : LexLess(t, s)

\* The last candidate of the two nested loops over the ordered groups.
Best(candidates) ==
  LET n == LexLargest({Numerators(g) : g \in candidates})
      d == LexLargest({Denominators(h) : h \in {g \in candidates : Numerators(g) = n}})
  IN CHOOSE g \in candidates : Numerators(g) = n /\ Denominators(g) = d

Stage(n, d) == <<Frac(n, d)>>

presetList ==
  {<<Frac(5, 147),   Stage(1, 3) \o Stage(1, 7) \o Stage(5, 7)>>,
   <<Frac(147, 40),  Stage(3, 2) \o Stage(7, 2) \o Stage(7, 10)>>,
   <<Frac(147, 80),  Stage(3, 2) \o Stage(7, 4) \o Stage(7, 10)>>,
   <<Frac(147, 160), Stage(3, 2) \o Stage(7, 8) \o Stage(7, 10)>>,
   <<Frac(147, 320), Stage(3, 5) \o Stage(7, 8) \o Stage(7, 8)>>,
   <<Frac(147, 640), Stage(3, 5) \o Stage(7, 8) \o Stage(7, 16)>>,
   <<Frac(4, 1),     Stage(4, 1)>>}

Preset(ratio) == {p[2] : p \in {q \in presetList : q[1] = ratio}}

\* Mutant: the attempt with one stage is not made.
attemptsAboveOne(ratio, maxStages) ==
  LET from[n \in 1 .. maxStages] ==
        IF n = 1 THEN <<>>
        ELSE LET solutions == getConversionStageCandidates(ratio, n)
             IN IF solutions = {} THEN from[n - 1] ELSE Best(solutions)
  IN from[maxStages]

\* The do-while loop: an attempt with fewer stages for as long as there is no candidate;
\* empty where the line after it would read the last of no candidates.
attempts(ratio, maxStages) ==
  LET from[n \in 0 .. maxStages] ==
        IF n = 0 THEN <<>>
        ELSE LET solutions == getConversionStageCandidates(ratio, n)
             IN IF solutions = {} THEN from[n - 1] ELSE Best(solutions)
  IN from[maxStages]

getConversionStages(ratio, maxStages) ==
  IF maxStages <= 1 THEN <<ratio>>
  ELSE IF Preset(ratio) # {} THEN CHOOSE p \in Preset(ratio) : TRUE
  ELSE attempts(ratio, maxStages)
===============================================================================
