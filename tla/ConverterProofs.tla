--------------------------- MODULE ConverterProofs ---------------------------
(***************************************************************************)
(* Theorems about the converter, for all sample rates, limits on the       *)
(* number of stages and sizes of blocks: the search for the stages ends    *)
(* with stages that convert by the whole ratio and keep the band, and the  *)
(* cascade makes the same number of samples however its input is cut, as   *)
(* many as the ratio asks for.                                             *)
(*                                                                         *)
(* What fraction.h computes is defined by recursive functions; what they   *)
(* return is proved here by an existence theorem for such functions and by *)
(* induction over sets of numbers.                                         *)
(***************************************************************************)
EXTENDS Converter, SequenceTheorems, FiniteSetTheorems, WellFoundedInduction, TLAPS

\* A set of natural numbers has a least one.
LEMMA LeastNatural ==
  ASSUME NEW T \in SUBSET Nat, T # {}
  PROVE  \E n \in T : \A k \in T : n <= k
<1> DEFINE R == OpToRel(<, Nat)
<1>1. \A x, y \in Nat : <<x, y>> \in R <=> x < y
  BY Zenon DEF OpToRel
<1>2. IsWellFoundedOn(R, Nat)
  BY Zenon, NatLessThanWellFounded
<1> HIDE DEF R
<1>3. PICK x \in T : \A y \in T : ~(<<y, x>> \in R)
  BY <1>2, WFMin
<1>4. \A y \in T : x \in Nat /\ y \in Nat /\ ~(y < x)
  BY <1>1, <1>3
<1> QED
  BY <1>3, <1>4

\* Induction, for a set.
LEMMA InductiveSet ==
  ASSUME NEW S, 0 \in S, \A n \in Nat : n \in S => n + 1 \in S
  PROVE  Nat \subseteq S
<1> SUFFICES ASSUME Nat \ S # {} PROVE FALSE
  OBVIOUS
<1>1. PICK n \in Nat \ S : \A k \in Nat \ S : n <= k
  BY LeastNatural
<1>2. n - 1 \in Nat /\ n - 1 \notin Nat \ S
  BY <1>1
<1> QED
  BY <1>1, <1>2

\* G looks only at smaller arguments, so it has a fixed point.
Descends(D, C, mu, G) ==
  \A x \in D, f \in [D -> C], g \in [D -> C] :
    (\A y \in D : mu[y] < mu[x] => f[y] = g[y]) => G[f][x] = G[g][x]

Recursion(D, C, mu, G) ==
  C # {} /\ mu \in [D -> Nat] /\ G \in [[D -> C] -> [D -> C]] /\ Descends(D, C, mu, G)

FixedBelow(D, mu, G, f, n) == \A x \in D : mu[x] < n => G[f][x] = f[x]

\* Two functions that are fixed below n are the same there.
LEMMA FixedAgree ==
  ASSUME NEW D, NEW C, NEW mu \in [D -> Nat], NEW G, Descends(D, C, mu, G),
         NEW f \in [D -> C], NEW g \in [D -> C], NEW m0 \in Nat, NEW n0 \in Nat, m0 <= n0,
         FixedBelow(D, mu, G, f, m0), FixedBelow(D, mu, G, g, n0)
  PROVE  \A x \in D : mu[x] < m0 => f[x] = g[x]
<1> DEFINE S == {k \in Nat : \A x \in D : mu[x] < k /\ mu[x] < m0 => f[x] = g[x]}
<1>1. 0 \in S
  OBVIOUS
<1>2. ASSUME NEW k \in Nat, k \in S PROVE k + 1 \in S
  <2> SUFFICES ASSUME NEW x \in D, mu[x] < k + 1, mu[x] < m0 PROVE f[x] = g[x]
    OBVIOUS
  <2>1. \A y \in D : mu[y] < mu[x] => f[y] = g[y]
    BY <1>2
  <2>2. G[f][x] = G[g][x]
    BY <2>1 DEF Descends
  <2> QED
    BY <2>2 DEF FixedBelow
<1> HIDE DEF S
<1>3. Nat \subseteq S
  BY <1>1, <1>2, InductiveSet
<1> QED
  BY <1>3 DEF S

\* A recursive function exists: a CHOOSE of a fixed point finds one.
LEMMA RecursionExists ==
  ASSUME NEW D, NEW C, NEW mu, NEW G, Recursion(D, C, mu, G)
  PROVE  \E f \in [D -> C] : f = G[f]
<1>0. C # {} /\ mu \in [D -> Nat] /\ G \in [[D -> C] -> [D -> C]] /\ Descends(D, C, mu, G)
  BY DEF Recursion
<1> DEFINE S == {n \in Nat : \E f \in [D -> C] : FixedBelow(D, mu, G, f, n)}
<1>1. 0 \in S
  <2>1. PICK c \in C : TRUE
    BY <1>0
  <2> DEFINE f == [x \in D |-> c]
  <2>2. f \in [D -> C]
    OBVIOUS
  <2> HIDE DEF f
  <2>3. FixedBelow(D, mu, G, f, 0)
    BY <1>0 DEF FixedBelow
  <2> QED
    BY <2>2, <2>3
<1>2. ASSUME NEW n \in Nat, n \in S PROVE n + 1 \in S
  <2>1. PICK f \in [D -> C] : FixedBelow(D, mu, G, f, n)
    BY <1>2
  <2> DEFINE g == G[f]
  <2>2. g \in [D -> C]
    BY <1>0
  <2>3. ASSUME NEW x \in D, mu[x] < n + 1 PROVE G[g][x] = g[x]
    <3>1. \A y \in D : mu[y] < mu[x] => g[y] = f[y]
      BY <1>0, <2>1, <2>3 DEF FixedBelow
    <3>2. G[g][x] = G[f][x]
      BY <1>0, <2>2, <3>1 DEF Descends
    <3> QED
      BY <3>2
  <2> HIDE DEF g
  <2> QED
    BY <2>2, <2>3 DEF FixedBelow
<1> HIDE DEF S
<1>3. Nat \subseteq S
  BY <1>1, <1>2, InductiveSet
<1> DEFINE upTo(n) == CHOOSE f \in [D -> C] : FixedBelow(D, mu, G, f, n)
           whole == [x \in D |-> upTo(mu[x] + 1)[x]]
<1>4. \A n \in Nat : upTo(n) \in [D -> C] /\ FixedBelow(D, mu, G, upTo(n), n)
  BY <1>3 DEF S
<1> HIDE DEF upTo
<1>5. \A x \in D : mu[x] + 1 \in Nat
  BY <1>0
<1>6. whole \in [D -> C]
  BY <1>4, <1>5
<1>7. ASSUME NEW x \in D PROVE G[whole][x] = whole[x]
  <2> DEFINE f == upTo(mu[x] + 1)
  <2>1. f \in [D -> C] /\ FixedBelow(D, mu, G, f, mu[x] + 1)
    BY <1>4, <1>5
  <2>2. ASSUME NEW y \in D, mu[y] < mu[x] PROVE whole[y] = f[y]
    <3>1. upTo(mu[y] + 1) \in [D -> C] /\ FixedBelow(D, mu, G, upTo(mu[y] + 1), mu[y] + 1)
      BY <1>4, <1>5
    <3> HIDE DEF f
    <3>2. mu[y] + 1 \in Nat /\ mu[x] + 1 \in Nat /\ mu[y] + 1 <= mu[x] + 1 /\ mu[y] < mu[y] + 1
      BY <1>0, <2>2
    <3>3. \A z \in D : mu[z] < mu[y] + 1 => upTo(mu[y] + 1)[z] = f[z]
      BY <1>0, <2>1, <3>1, <3>2, FixedAgree
    <3> QED
      BY <3>2, <3>3
  <2>3. whole[x] = f[x]
    OBVIOUS
  <2> HIDE DEF whole, f
  <2>4. G[whole][x] = G[f][x]
    BY <1>0, <1>6, <2>1, <2>2 DEF Descends
  <2>5. G[f][x] = f[x]
    BY <1>0, <2>1 DEF FixedBelow
  <2> QED
    BY <2>3, <2>4, <2>5
<1> HIDE DEF whole
<1>8. G[whole] \in [D -> C]
  BY <1>0, <1>6
<1>9. whole = G[whole]
  BY <1>6, <1>7, <1>8
<1> QED
  BY <1>6, <1>9

\* The running product of a sequence.
Products(s, f) ==
  /\ f \in [0 .. Len(s) -> Nat]
  /\ f[0] = 1
  /\ \A k \in 1 .. Len(s) : f[k] = s[k] * f[k - 1]

\* Products of natural numbers.
LEMMA TimesNat == \A a, b \in Nat : a * b \in Nat /\ (a # 0 /\ b # 0 => a * b # 0)
OBVIOUS

\* The running products of a sequence exist, and Product is the last.
LEMMA ProductsExist ==
  ASSUME NEW s \in Seq(Nat)
  PROVE  \E f : Products(s, f) /\ Product(s) = f[Len(s)]
<1> DEFINE D == 0 .. Len(s)
           Body(f) == [k \in D |-> IF k = 0 THEN 1 ELSE s[k] * f[k - 1]]
           upTo == CHOOSE f : f = Body(f)
           mu == [k \in D |-> k]
           G == [f \in [D -> Nat] |-> Body(f)]
<1>1. Product(s) = upTo[Len(s)]
  BY DEF Product
<1>2. Len(s) \in Nat /\ \A k \in D : k # 0 => k - 1 \in D /\ s[k] \in Nat
  OBVIOUS
<1>3. G \in [[D -> Nat] -> [D -> Nat]]
  <2>1. ASSUME NEW f \in [D -> Nat] PROVE Body(f) \in [D -> Nat]
    <3>1. \A k \in D : (IF k = 0 THEN 1 ELSE s[k] * f[k - 1]) \in Nat
      BY <1>2, TimesNat
    <3> QED
      BY <3>1
  <2> QED
    BY <2>1
<1>4. Descends(D, Nat, mu, G)
  <2> SUFFICES ASSUME NEW x \in D, NEW f \in [D -> Nat], NEW g \in [D -> Nat],
                      \A y \in D : mu[y] < mu[x] => f[y] = g[y]
               PROVE  Body(f)[x] = Body(g)[x]
    BY Zenon DEF Descends
  <2>1. x # 0 => x - 1 \in D /\ mu[x - 1] < mu[x]
    BY <1>2
  <2> QED
    BY <2>1
<1>5. Recursion(D, Nat, mu, G)
  <2>1. mu \in [D -> Nat] /\ Nat # {}
    BY <1>2
  <2> HIDE DEF G, D, mu
  <2> QED
    BY <1>3, <1>4, <2>1 DEF Recursion
<1>6. \E f \in [D -> Nat] : f = G[f]
  <2> HIDE DEF G, D, mu
  <2> QED
    BY <1>5, RecursionExists
<1>7. PICK f \in [D -> Nat] : f = Body(f)
  <2>1. PICK f \in [D -> Nat] : f = G[f]
    BY <1>6
  <2>2. G[f] = Body(f)
    OBVIOUS
  <2> QED
    BY <2>1, <2>2
<1>8. upTo = Body(upTo)
  <2> HIDE DEF Body
  <2> QED
    BY <1>7
<1> HIDE DEF upTo
<1>9. /\ upTo = [k \in D |-> upTo[k]] /\ upTo[0] = 1
      /\ \A k \in 1 .. Len(s) : upTo[k] = s[k] * upTo[k - 1]
  <2>1. \A k \in D : upTo[k] = IF k = 0 THEN 1 ELSE s[k] * upTo[k - 1]
    BY <1>8
  <2>2. upTo = [k \in D |-> upTo[k]]
    <3> DEFINE e(k) == IF k = 0 THEN 1 ELSE s[k] * upTo[k - 1]
    <3>1. upTo = [k \in D |-> e(k)]
      BY <1>8
    <3> HIDE DEF e
    <3> QED
      BY <3>1
  <2>3. 0 \in D /\ \A k \in 1 .. Len(s) : k \in D /\ k # 0
    BY <1>2
  <2> QED
    BY <2>1, <2>2, <2>3
<1> DEFINE S == {n \in Nat : n \in D => upTo[n] \in Nat}
<1>10. 0 \in S
  BY <1>9
<1>11. ASSUME NEW n \in Nat, n \in S PROVE n + 1 \in S
  <2> SUFFICES ASSUME n + 1 \in D PROVE upTo[n + 1] \in Nat
    OBVIOUS
  <2>1. n \in D /\ n + 1 \in 1 .. Len(s) /\ (n + 1) - 1 = n
    BY <1>2
  <2>2. upTo[n] \in Nat /\ s[n + 1] \in Nat
    BY <1>2, <1>11, <2>1
  <2>3. upTo[n + 1] = s[n + 1] * upTo[(n + 1) - 1]
    BY <1>9, <2>1, Zenon
  <2> QED
    BY <2>1, <2>2, <2>3, TimesNat
<1> HIDE DEF S
<1>12. Nat \subseteq S
  BY <1>10, <1>11, InductiveSet
<1>13. upTo \in [D -> Nat]
  <2>1. \A k \in D : upTo[k] \in Nat
    BY <1>2, <1>12 DEF S
  <2> QED
    BY <1>9, <2>1
<1> QED
  BY <1>1, <1>9, <1>13 DEF Products

\* They depend on nothing but the sequence.
LEMMA ProductsAgree ==
  ASSUME NEW s \in Seq(Nat), NEW t \in Seq(Nat), NEW f, NEW g, Products(s, f), Products(t, g),
         NEW n \in Nat, n <= Len(s), n <= Len(t), \A k \in 1 .. n : s[k] = t[k]
  PROVE  \A k \in 0 .. n : f[k] = g[k]
<1> DEFINE S == {k \in Nat : k <= n => f[k] = g[k]}
<1>1. 0 \in S
  BY DEF Products
<1>2. ASSUME NEW k \in Nat, k \in S PROVE k + 1 \in S
  <2> SUFFICES ASSUME k + 1 <= n PROVE f[k + 1] = g[k + 1]
    OBVIOUS
  <2>1. k + 1 \in 1 .. Len(s) /\ k + 1 \in 1 .. Len(t) /\ (k + 1) - 1 = k /\ k + 1 \in 1 .. n
    OBVIOUS
  <2>2. f[k + 1] = s[k + 1] * f[k] /\ g[k + 1] = t[k + 1] * g[k]
    BY <2>1 DEF Products
  <2> QED
    BY <1>2, <2>1, <2>2
<1> HIDE DEF S
<1>3. Nat \subseteq S
  BY <1>1, <1>2, InductiveSet
<1> QED
  BY <1>3 DEF S

\* The product of the first k, for all k at once.
LEMMA ProductsOfFirst ==
  ASSUME NEW s \in Seq(Nat)
  PROVE  \E f : /\ Products(s, f) /\ Product(s) = f[Len(s)]
                /\ \A k \in 0 .. Len(s) : Product(First(s, k)) = f[k]
<1>1. PICK f : Products(s, f) /\ Product(s) = f[Len(s)]
  BY ProductsExist
<1>2. ASSUME NEW k \in 0 .. Len(s) PROVE Product(First(s, k)) = f[k]
  <2>1. /\ First(s, k) \in Seq(Nat) /\ Len(First(s, k)) = k
        /\ \A i \in 1 .. k : First(s, k)[i] = s[i]
    BY DEF First
  <2>2. PICK g : Products(First(s, k), g) /\ Product(First(s, k)) = g[Len(First(s, k))]
    BY <2>1, ProductsExist
  <2>3. \A i \in 0 .. k : f[i] = g[i]
    BY <1>1, <2>1, <2>2, ProductsAgree
  <2> QED
    BY <2>1, <2>2, <2>3
<1> QED
  BY <1>1, <1>2

\* The product of the first k is the k-th times that of the ones before.
LEMMA ProductOfFirst ==
  ASSUME NEW s \in Seq(Nat)
  PROVE  /\ Product(s) \in Nat /\ Product(s) = Product(First(s, Len(s)))
         /\ Product(First(s, 0)) = 1
         /\ \A k \in 0 .. Len(s) : Product(First(s, k)) \in Nat
         /\ \A k \in 1 .. Len(s) : Product(First(s, k)) = s[k] * Product(First(s, k - 1))
<1>1. PICK f : /\ Products(s, f) /\ Product(s) = f[Len(s)]
               /\ \A k \in 0 .. Len(s) : Product(First(s, k)) = f[k]
  BY ProductsOfFirst
<1>2. Len(s) \in Nat /\ 0 \in 0 .. Len(s) /\ Len(s) \in 0 .. Len(s)
  OBVIOUS
<1>3. \A k \in 1 .. Len(s) : k \in 0 .. Len(s) /\ k - 1 \in 0 .. Len(s)
  BY <1>2
<1> QED
  BY <1>1, <1>2, <1>3 DEF Products

\* Nothing multiplies to 1.
LEMMA ProductEmpty == Product(<<>>) = 1
<1>1. <<>> \in Seq(Nat) /\ Len(<<>>) = 0 /\ First(<<>>, 0) = <<>>
  BY DEF First
<1> QED
  BY <1>1, ProductOfFirst

\* One number more multiplies the product.
LEMMA ProductAppend ==
  ASSUME NEW s \in Seq(Nat), NEW x \in Nat
  PROVE  Product(Append(s, x)) = x * Product(s)
<1> DEFINE t == Append(s, x)
<1>1. t \in Seq(Nat) /\ Len(t) = Len(s) + 1 /\ t[Len(t)] = x /\ Len(s) \in Nat
  OBVIOUS
<1>2. First(t, Len(t) - 1) = s
  BY <1>1 DEF First
<1>3. Len(t) \in 1 .. Len(t)
  BY <1>1
<1> HIDE DEF t
<1>4. Product(t) = x * Product(s)
  BY <1>1, <1>2, <1>3, ProductOfFirst
<1> QED
  BY <1>4 DEF t

\* Appending to the second of two sequences is appending to both.
LEMMA ConcatAppend ==
  ASSUME NEW s \in Seq(Nat), NEW u \in Seq(Nat), NEW x \in Nat
  PROVE  Append(s \o u, x) = s \o Append(u, x) /\ s \o u \in Seq(Nat)
<1>1. s \o u \in Seq(Nat) /\ Append(u, x) \in Seq(Nat) /\ s \o Append(u, x) \in Seq(Nat)
      /\ Append(s \o u, x) \in Seq(Nat)
  OBVIOUS
<1>2. Len(Append(s \o u, x)) = Len(s \o Append(u, x))
  OBVIOUS
<1>3. \A i \in 1 .. Len(Append(s \o u, x)) : Append(s \o u, x)[i] = (s \o Append(u, x))[i]
  OBVIOUS
<1> QED
  BY <1>1, <1>2, <1>3, SeqEqual

\* A sequence is the two parts it is cut into.
LEMMA SeqCut ==
  ASSUME NEW s \in Seq(Nat), NEW j \in 0 .. Len(s)
  PROVE  /\ SubSeq(s, 1, j) \in Seq(Nat) /\ SubSeq(s, j + 1, Len(s)) \in Seq(Nat)
         /\ s = SubSeq(s, 1, j) \o SubSeq(s, j + 1, Len(s))
<1>1. SubSeq(s, 1, j) \in Seq(Nat) /\ SubSeq(s, j + 1, Len(s)) \in Seq(Nat)
  OBVIOUS
<1>2. /\ 1 \in 1 .. Len(s) + 1 /\ j \in 1 - 1 .. Len(s) /\ Len(s) \in j .. Len(s)
  OBVIOUS
<1>3. SubSeq(s, 1, j) \o SubSeq(s, j + 1, Len(s)) = SubSeq(s, 1, Len(s))
  BY <1>2, ConcatAdjacentSubSeq
<1>4. SubSeq(s, 1, Len(s)) = s
  BY SubSeqFull
<1> QED
  BY <1>1, <1>3, <1>4

\* The product of two sequences in a row is that of their products.
LEMMA ProductConcat ==
  ASSUME NEW s \in Seq(Nat), NEW t \in Seq(Nat)
  PROVE  Product(s \o t) = Product(s) * Product(t)
<1> DEFINE S == {k \in Nat : k <= Len(t) => Product(s \o First(t, k)) = Product(s) * Product(First(t, k))}
<1>0. Product(s) \in Nat /\ Len(t) \in Nat
  BY ProductOfFirst
<1>1. 0 \in S
  <2>1. First(t, 0) = <<>>
    BY DEF First
  <2>2. s \o <<>> = s
    BY ConcatEmptySeq
  <2>3. Product(s) = Product(s) * 1
    BY <1>0
  <2> QED
    BY <2>1, <2>2, <2>3, ProductEmpty, Zenon
<1>2. ASSUME NEW k \in Nat, k \in S PROVE k + 1 \in S
  <2> SUFFICES ASSUME k + 1 <= Len(t)
               PROVE  Product(s \o First(t, k + 1)) = Product(s) * Product(First(t, k + 1))
    OBVIOUS
  <2> DEFINE u == First(t, k)
             x == t[k + 1]
  <2>1. u \in Seq(Nat) /\ x \in Nat /\ First(t, k + 1) = Append(u, x)
    BY DEF First
  <2>2. s \o First(t, k + 1) = Append(s \o u, x) /\ s \o u \in Seq(Nat)
    <3> HIDE DEF u, x
    <3>1. Append(s \o u, x) = s \o Append(u, x) /\ s \o u \in Seq(Nat)
      BY <2>1, ConcatAppend
    <3> QED
      BY <2>1, <3>1
  <2>3. Product(s \o u) = Product(s) * Product(u)
    BY <1>2
  <2> HIDE DEF u, x
  <2>4. /\ Product(s \o First(t, k + 1)) = x * (Product(s) * Product(u))
        /\ Product(First(t, k + 1)) = x * Product(u) /\ Product(u) \in Nat
    <3>1. Product(Append(s \o u, x)) = x * Product(s \o u)
      BY ONLY <2>1, <2>2, ProductAppend
    <3>2. Product(Append(u, x)) = x * Product(u)
      BY ONLY <2>1, ProductAppend
    <3>3. Product(u) \in Nat
      BY ONLY <2>1, ProductOfFirst
    <3> QED
      BY ONLY <2>1, <2>2, <2>3, <3>1, <3>2, <3>3
  <2>5. \A a, b, c \in Nat : c * (a * b) = a * (c * b)
    OBVIOUS
  <2> QED
    BY <1>0, <2>1, <2>4, <2>5
<1> HIDE DEF S
<1>3. Nat \subseteq S
  BY <1>1, <1>2, InductiveSet
<1>4. First(t, Len(t)) = t
  BY DEF First
<1> QED
  BY <1>0, <1>3, <1>4 DEF S

Positive == Nat \ {0}

\* A product of positive numbers is positive, and not less than any of them.
LEMMA ProductPositive ==
  ASSUME NEW s \in Seq(Positive)
  PROVE  /\ Product(s) \in Positive
         /\ \A k \in 1 .. Len(s) : s[k] <= Product(s)
<1> USE DEF Positive
<1>0. s \in Seq(Nat) /\ Len(s) \in Nat /\ \A k \in 1 .. Len(s) : s[k] \in Positive
  OBVIOUS
<1> DEFINE S == {k \in Nat : k <= Len(s) =>
                   /\ Product(First(s, k)) \in Positive
                   /\ \A i \in 1 .. k : s[i] <= Product(First(s, k))}
<1>1. 0 \in S
  BY <1>0, ProductOfFirst
<1>2. ASSUME NEW k \in Nat, k \in S PROVE k + 1 \in S
  <2> SUFFICES ASSUME k + 1 <= Len(s)
               PROVE  /\ Product(First(s, k + 1)) \in Positive
                      /\ \A i \in 1 .. k + 1 : s[i] <= Product(First(s, k + 1))
    OBVIOUS
  <2>1. k + 1 \in 1 .. Len(s) /\ (k + 1) - 1 = k
    BY <1>0
  <2>2. Product(First(s, k + 1)) = s[k + 1] * Product(First(s, k))
    BY <1>0, <2>1, ProductOfFirst
  <2>3. /\ s[k + 1] \in Positive /\ Product(First(s, k)) \in Positive
        /\ \A i \in 1 .. k : s[i] <= Product(First(s, k))
    BY <1>0, <1>2, <2>1
  <2>4. \A a, b \in Positive : a * b \in Positive /\ a <= a * b /\ b <= a * b
    OBVIOUS
  <2>5. ASSUME NEW i \in 1 .. k + 1 PROVE s[i] <= Product(First(s, k + 1))
    <3>1. CASE i = k + 1
      BY <2>2, <2>3, <2>4, <3>1
    <3>2. CASE i # k + 1
      <4>1. i \in 1 .. k /\ s[i] <= Product(First(s, k)) /\ s[i] \in Nat
        BY <1>0, <2>1, <2>3, <3>2
      <4>2. Product(First(s, k)) <= Product(First(s, k + 1)) /\ Product(First(s, k + 1)) \in Nat
        BY <2>2, <2>3, <2>4
      <4> QED
        BY <2>3, <4>1, <4>2
    <3> QED
      BY <3>1, <3>2
  <2> QED
    BY <2>2, <2>3, <2>4, <2>5
<1> HIDE DEF S
<1>3. Nat \subseteq S
  BY <1>1, <1>2, InductiveSet
<1>4. First(s, Len(s)) = s
  BY DEF First
<1> QED
  BY <1>0, <1>3, <1>4 DEF S
-------------------------------------------------------------------------------
(***************************************************************************)
(* Euclid's loop.                                                          *)
(***************************************************************************)
EuclidBody(e) ==
  [p \in Nat \X Nat |-> IF p[2] = 0 THEN p[1] ELSE e[<<p[2], p[1] % p[2]>>]]

Euclid == CHOOSE e : e = EuclidBody(e)

\* Division with a remainder.
LEMMA DivMod ==
  ASSUME NEW a \in Nat, NEW b \in Nat \ {0}
  PROVE  /\ a \div b \in Nat /\ a % b \in 0 .. b - 1
         /\ a = b * (a \div b) + (a % b)
<1>1. a \div b \in Nat
  OBVIOUS
<1>2. a % b \in 0 .. b - 1
  OBVIOUS
<1>3. a = b * (a \div b) + (a % b)
  OBVIOUS
<1> QED
  BY <1>1, <1>2, <1>3

\* The loop ends: the second number becomes less in every step.
LEMMA EuclidExists == Euclid = EuclidBody(Euclid)
<1> DEFINE D == Nat \X Nat
           mu == [p \in D |-> p[2]]
           G == [f \in [D -> Nat] |-> EuclidBody(f)]
<1>1. ASSUME NEW p \in D, p[2] # 0
      PROVE  <<p[2], p[1] % p[2]>> \in D /\ p[1] % p[2] < p[2]
  <2>1. p[1] \in Nat /\ p[2] \in Nat \ {0}
    BY <1>1
  <2>2. p[1] % p[2] \in 0 .. p[2] - 1
    BY <2>1, DivMod
  <2> QED
    BY <2>1, <2>2
<1>2. ASSUME NEW f \in [D -> Nat] PROVE EuclidBody(f) \in [D -> Nat]
  <2>1. \A p \in D : (IF p[2] = 0 THEN p[1] ELSE f[<<p[2], p[1] % p[2]>>]) \in Nat
    BY <1>1
  <2> QED
    BY <2>1 DEF EuclidBody
<1>3. Descends(D, Nat, mu, G)
  <2> SUFFICES ASSUME NEW x \in D, NEW f \in [D -> Nat], NEW g \in [D -> Nat],
                      \A y \in D : mu[y] < mu[x] => f[y] = g[y]
               PROVE  EuclidBody(f)[x] = EuclidBody(g)[x]
    <3>1. \A f \in [D -> Nat] : G[f] = EuclidBody(f)
      OBVIOUS
    <3> HIDE DEF G, D, mu
    <3> QED
      BY <3>1 DEF Descends
  <2>1. CASE x[2] = 0
    BY <2>1 DEF EuclidBody
  <2>2. CASE x[2] # 0
    <3> DEFINE y == <<x[2], x[1] % x[2]>>
    <3>1. y \in D /\ mu[y] < mu[x]
      BY <1>1, <2>2
    <3>2. f[y] = g[y]
      BY <3>1
    <3>3. EuclidBody(f)[x] = f[y] /\ EuclidBody(g)[x] = g[y]
      BY <2>2, Zenon DEF EuclidBody
    <3> QED
      BY <3>2, <3>3
  <2> QED
    BY <2>1, <2>2
<1>4. Recursion(D, Nat, mu, G)
  <2>1. mu \in [D -> Nat] /\ Nat # {} /\ G \in [[D -> Nat] -> [D -> Nat]]
    BY <1>2
  <2> QED
    BY <1>3, <2>1 DEF Recursion
<1>5. PICK f \in [D -> Nat] : f = G[f]
  <2> HIDE DEF G, D, mu
  <2> QED
    BY <1>4, RecursionExists
<1>6. f = EuclidBody(f)
  BY <1>5
<1> QED
  BY <1>6 DEF Euclid

\* A step of the loop.
LEMMA GcdStep ==
  ASSUME NEW a \in Nat, NEW b \in Nat
  PROVE  gcd(a, b) = IF b = 0 THEN a ELSE gcd(b, a % b)
<1>1. \A c, d \in Nat : gcd(c, d) = Euclid[<<c, d>>]
  BY DEF gcd, Euclid, EuclidBody
<1>2. Euclid[<<a, b>>] = IF b = 0 THEN a ELSE Euclid[<<b, a % b>>]
  <2>1. EuclidBody(Euclid)[<<a, b>>] = IF b = 0 THEN a ELSE Euclid[<<b, a % b>>]
    BY DEF EuclidBody
  <2> QED
    BY <2>1, EuclidExists
<1>3. b # 0 => a % b \in Nat
  BY DivMod DEF Positive
<1> QED
  BY <1>1, <1>2, <1>3

DividesBoth(g, a, b) == \E c, d \in Nat : a = g * c /\ b = g * d

\* What the loop ends with divides both numbers.
LEMMA GcdDivides ==
  \A b, a \in Nat : a # 0 \/ b # 0 => gcd(a, b) \in Positive /\ DividesBoth(gcd(a, b), a, b)
<1> DEFINE Good(a, b) == a # 0 \/ b # 0 => gcd(a, b) \in Positive /\ DividesBoth(gcd(a, b), a, b)
           S == {n \in Nat : \A b \in 0 .. n, a \in Nat : Good(a, b)}
<1>1. ASSUME NEW a \in Nat PROVE Good(a, 0)
  <2>1. gcd(a, 0) = a /\ a = a * 1 /\ 0 = a * 0
    BY GcdStep
  <2> QED
    BY <2>1 DEF DividesBoth, Positive
<1>2. ASSUME NEW a \in Nat, NEW b \in Positive, Good(b, a % b) PROVE Good(a, b)
  <2> DEFINE r == a % b
             q == a \div b
             g == gcd(b, r)
  <2>1. q \in Nat /\ r \in 0 .. b - 1 /\ a = b * q + r
    BY DivMod DEF Positive
  <2>2. gcd(a, b) = g
    BY GcdStep DEF Positive
  <2>3. g \in Positive /\ DividesBoth(g, b, r)
    BY <1>2 DEF Positive
  <2>4. PICK c, d \in Nat : b = g * c /\ r = g * d
    BY <2>3 DEF DividesBoth
  <2> HIDE DEF g, q, r
  <2>5. \A x, y, z, w \in Nat : (x * y) * z + x * w = x * (y * z + w)
    OBVIOUS
  <2>6. a = g * (c * q + d) /\ c * q + d \in Nat
    <3>1. g \in Nat /\ c * q \in Nat
      BY <2>1, <2>3, TimesNat DEF Positive
    <3>2. a = (g * c) * q + g * d
      BY <2>1, <2>4
    <3> QED
      BY <2>1, <2>4, <2>5, <3>1, <3>2
  <2> QED
    BY <2>2, <2>3, <2>4, <2>6 DEF DividesBoth
<1> HIDE DEF Good
<1>3. 0 \in S
  BY <1>1
<1>4. ASSUME NEW n \in Nat, n \in S PROVE n + 1 \in S
  <2>1. ASSUME NEW b \in 0 .. n + 1, NEW a \in Nat PROVE Good(a, b)
    <3>1. CASE b \in 0 .. n
      BY <1>4, <3>1
    <3>2. CASE b = n + 1
      <4>1. b \in Positive /\ a % b \in 0 .. n
        BY <3>2, DivMod DEF Positive
      <4>2. Good(b, a % b)
        BY <1>4, <4>1 DEF Positive
      <4> QED
        BY <1>2, <4>1, <4>2
    <3> QED
      BY <3>1, <3>2
  <2> QED
    BY <2>1
<1> HIDE DEF S
<1>5. Nat \subseteq S
  BY <1>3, <1>4, InductiveSet
<1>6. \A b, a \in Nat : Good(a, b)
  BY <1>5 DEF S
<1> QED
  BY <1>6 DEF Good

\* The ratio of two rates is one of positive numbers, it is that of the rates, and both
\* rates are the same multiple of its sides.
LEMMA RatioOfRates ==
  ASSUME NEW in \in Positive, NEW out \in Positive
  PROVE  LET r == getFractionFromSamplerates(in, out)
         IN /\ r.numerator \in Positive /\ r.denominator \in Positive
            /\ in * r.numerator = out * r.denominator
            /\ \E g \in Positive : in = g * r.denominator
<1> DEFINE g == gcd(in, out)
<1>1. g \in Positive /\ DividesBoth(g, in, out)
  BY GcdDivides DEF Positive
<1>2. PICK c, d \in Nat : in = g * c /\ out = g * d
  BY <1>1 DEF DividesBoth
<1> HIDE DEF g
<1>3. c \in Positive /\ d \in Positive
  BY <1>1, <1>2 DEF Positive
<1>4. \A x \in Nat : (g * x) \div g = x
  BY <1>1 DEF Positive
<1>5. in \div g = c /\ out \div g = d
  BY <1>2, <1>4
<1>6. in * d = out * c
  <2>1. \A x, y, z \in Nat : (x * y) * z = (x * z) * y
    OBVIOUS
  <2> QED
    BY <1>1, <1>2, <2>1 DEF Positive
<1> QED
  BY <1>1, <1>2, <1>3, <1>5, <1>6 DEF getFractionFromSamplerates, Frac, g
-------------------------------------------------------------------------------
(***************************************************************************)
(* The prime factors: of whatever is left of n a factor is taken out, or   *)
(* the next one is tried.                                                  *)
(***************************************************************************)
Trials == (Nat \ {0}) \X (Nat \ {0, 1})

FactorBody(n, f) ==
  [p \in Trials |->
     IF p[2] * p[2] > n THEN <<p[1]>>
     ELSE IF p[1] % p[2] = 0 THEN <<p[2]>> \o f[<<p[1] \div p[2], p[2]>>]
     ELSE IF p[1] = 1 THEN <<>>
     ELSE f[<<p[1], p[2] + 1>>]]

factors(n) == CHOOSE f : f = FactorBody(n, f)

\* What goes down from each trial to the next.
TrialsLeft(n, p) == p[1] + (IF p[2] <= n THEN n - p[2] + 1 ELSE 0)

\* Every trial leaves fewer trials.
LEMMA TrialsEnd ==
  ASSUME NEW n \in Nat, NEW p \in Trials, ~(p[2] * p[2] > n)
  PROVE  /\ TrialsLeft(n, p) \in Nat
         /\ p[1] % p[2] = 0 =>
              /\ <<p[1] \div p[2], p[2]>> \in Trials
              /\ p[2] * (p[1] \div p[2]) = p[1]
              /\ TrialsLeft(n, <<p[1] \div p[2], p[2]>>) < TrialsLeft(n, p)
         /\ <<p[1], p[2] + 1>> \in Trials
         /\ TrialsLeft(n, <<p[1], p[2] + 1>>) < TrialsLeft(n, p)
<1> DEFINE rest == p[1]
           factor == p[2]
           q == rest \div factor
<1>1. rest \in Nat \ {0} /\ factor \in Nat \ {0, 1}
  BY DEF Trials
<1> HIDE DEF rest, factor
<1>2. factor <= n
  <2>1. factor <= factor * factor /\ factor * factor \in Nat
    BY <1>1
  <2>2. ~(factor * factor > n)
    BY DEF factor
  <2> QED
    BY <1>1, <2>1, <2>2
<1>3. ASSUME rest % factor = 0
      PROVE  q \in Nat \ {0} /\ factor * q = rest /\ q < rest
  <2>1. q \in Nat /\ rest = factor * q + (rest % factor)
    BY <1>1, DivMod
  <2> HIDE DEF q
  <2>2. factor * q = rest
    BY <1>1, <1>3, <2>1
  <2>3. q # 0
    BY <1>1, <2>2
  <2>4. q + q <= factor * q
    BY <1>1, <2>1
  <2> QED
    BY <1>1, <2>1, <2>2, <2>3, <2>4
<1> HIDE DEF q
<1>4. TrialsLeft(n, p) = rest + (n - factor + 1)
  BY <1>2 DEF TrialsLeft, rest, factor
<1>5. ASSUME rest % factor = 0
      PROVE  TrialsLeft(n, <<q, factor>>) < TrialsLeft(n, p) /\ <<q, factor>> \in Trials
  <2>1. TrialsLeft(n, <<q, factor>>) = q + (n - factor + 1)
    BY <1>2 DEF TrialsLeft
  <2> QED
    BY <1>1, <1>2, <1>3, <1>4, <1>5, <2>1 DEF Trials
<1>6. <<rest, factor + 1>> \in Trials /\ TrialsLeft(n, <<rest, factor + 1>>) < TrialsLeft(n, p)
  <2>1. TrialsLeft(n, <<rest, factor + 1>>) =
          rest + (IF factor + 1 <= n THEN n - (factor + 1) + 1 ELSE 0)
    BY DEF TrialsLeft
  <2> QED
    BY <1>1, <1>2, <1>4, <2>1 DEF Trials
<1>7. TrialsLeft(n, p) \in Nat
  BY <1>1, <1>2, <1>4
<1> QED
  BY <1>3, <1>5, <1>6, <1>7 DEF rest, factor, q

\* The trials end.
LEMMA FactorsExist ==
  ASSUME NEW n \in Nat
  PROVE  factors(n) = FactorBody(n, factors(n))
<1> DEFINE C == Seq(Nat)
           mu == [p \in Trials |-> TrialsLeft(n, p)]
           G == [f \in [Trials -> C] |-> FactorBody(n, f)]
<1>1. ASSUME NEW f \in [Trials -> C] PROVE FactorBody(n, f) \in [Trials -> C]
  <2> DEFINE e(p) == IF p[2] * p[2] > n THEN <<p[1]>>
                     ELSE IF p[1] % p[2] = 0 THEN <<p[2]>> \o f[<<p[1] \div p[2], p[2]>>]
                     ELSE IF p[1] = 1 THEN <<>>
                     ELSE f[<<p[1], p[2] + 1>>]
  <2>1. ASSUME NEW p \in Trials PROVE e(p) \in C
    <3>1. p[1] \in Nat /\ p[2] \in Nat
      BY DEF Trials
    <3>2. CASE p[2] * p[2] > n
      BY <3>1, <3>2
    <3>3. CASE ~(p[2] * p[2] > n) /\ p[1] % p[2] = 0
      <4>1. <<p[1] \div p[2], p[2]>> \in Trials
        BY <3>3, TrialsEnd
      <4>2. f[<<p[1] \div p[2], p[2]>>] \in C /\ <<p[2]>> \in C
        BY <3>1, <4>1
      <4> QED
        BY <3>3, <4>2
    <3>4. CASE ~(p[2] * p[2] > n) /\ p[1] % p[2] # 0
      <4>1. <<p[1], p[2] + 1>> \in Trials
        BY <3>4, TrialsEnd
      <4>2. f[<<p[1], p[2] + 1>>] \in C /\ <<>> \in C
        BY <4>1
      <4> QED
        BY <3>4, <4>2
    <3> QED
      BY <3>2, <3>3, <3>4
  <2>2. FactorBody(n, f) = [p \in Trials |-> e(p)]
    BY DEF FactorBody
  <2> HIDE DEF e
  <2> QED
    BY <2>1, <2>2
<1>2. Descends(Trials, C, mu, G)
  <2> SUFFICES ASSUME NEW p \in Trials, NEW f \in [Trials -> C], NEW g \in [Trials -> C],
                      \A y \in Trials : mu[y] < mu[p] => f[y] = g[y]
               PROVE  FactorBody(n, f)[p] = FactorBody(n, g)[p]
    <3>1. \A f \in [Trials -> C] : G[f] = FactorBody(n, f)
      OBVIOUS
    <3> HIDE DEF G, mu, C
    <3> QED
      BY <3>1 DEF Descends
  <2>1. ASSUME NEW y \in Trials, TrialsLeft(n, y) < TrialsLeft(n, p) PROVE f[y] = g[y]
    BY <2>1
  <2>2. CASE p[2] * p[2] > n
    BY <2>2 DEF FactorBody
  <2>3. CASE ~(p[2] * p[2] > n)
    <3>1. p[1] % p[2] = 0 => f[<<p[1] \div p[2], p[2]>>] = g[<<p[1] \div p[2], p[2]>>]
      BY <2>1, <2>3, TrialsEnd
    <3>2. f[<<p[1], p[2] + 1>>] = g[<<p[1], p[2] + 1>>]
      BY <2>1, <2>3, TrialsEnd
    <3> QED
      BY <3>1, <3>2, Zenon DEF FactorBody
  <2> QED
    BY <2>2, <2>3
<1>3. Recursion(Trials, C, mu, G)
  <2>1. \A p \in Trials : TrialsLeft(n, p) \in Nat
    BY DEF TrialsLeft, Trials
  <2>2. mu \in [Trials -> Nat]
    BY <2>1
  <2>3. <<>> \in C
    OBVIOUS
  <2>4. G \in [[Trials -> C] -> [Trials -> C]]
    BY <1>1
  <2> HIDE DEF C, mu, G
  <2> QED
    BY <1>2, <2>2, <2>3, <2>4 DEF Recursion
<1>4. PICK f \in [Trials -> C] : f = G[f]
  <2> HIDE DEF G, C, mu
  <2> QED
    BY <1>3, RecursionExists
<1>5. f = FactorBody(n, f)
  BY <1>4
<1> QED
  BY <1>5 DEF factors

\* The factors from any trial on multiply to what is left of n.
LEMMA FactorsMultiply ==
  ASSUME NEW n \in Nat
  PROVE  \A p \in Trials : /\ factors(n)[p] \in Seq(Positive)
                           /\ Product(factors(n)[p]) = p[1]
<1> DEFINE Good(p) == factors(n)[p] \in Seq(Positive) /\ Product(factors(n)[p]) = p[1]
           S == {k \in Nat : \A p \in Trials : TrialsLeft(n, p) < k => Good(p)}
<1>1. \A p \in Trials : TrialsLeft(n, p) \in Nat
  BY DEF TrialsLeft, Trials
<1>2. 0 \in S
  BY <1>1
<1>3. ASSUME NEW k \in Nat, k \in S PROVE k + 1 \in S
  <2> SUFFICES ASSUME NEW p \in Trials, TrialsLeft(n, p) < k + 1 PROVE Good(p)
    OBVIOUS
  <2>1. ASSUME NEW y \in Trials, TrialsLeft(n, y) < TrialsLeft(n, p) PROVE Good(y)
    BY <1>1, <1>3, <2>1
  <2>2. factors(n)[p] =
          IF p[2] * p[2] > n THEN <<p[1]>>
          ELSE IF p[1] % p[2] = 0 THEN <<p[2]>> \o factors(n)[<<p[1] \div p[2], p[2]>>]
          ELSE IF p[1] = 1 THEN <<>>
          ELSE factors(n)[<<p[1], p[2] + 1>>]
    <3> DEFINE f == factors(n)
    <3>1. FactorBody(n, f)[p] =
            IF p[2] * p[2] > n THEN <<p[1]>>
            ELSE IF p[1] % p[2] = 0 THEN <<p[2]>> \o f[<<p[1] \div p[2], p[2]>>]
            ELSE IF p[1] = 1 THEN <<>>
            ELSE f[<<p[1], p[2] + 1>>]
      BY DEF FactorBody
    <3>2. f = FactorBody(n, f)
      BY FactorsExist
    <3> HIDE DEF f
    <3>3. f[p] = FactorBody(n, f)[p]
      BY <3>2
    <3> QED
      BY <3>1, <3>3 DEF f
  <2>3. p[1] \in Positive /\ p[2] \in Positive
    BY DEF Trials, Positive
  <2>4. \A x \in Positive : <<x>> \in Seq(Positive) /\ <<x>> \in Seq(Nat) /\ Product(<<x>>) = x
    <3> SUFFICES ASSUME NEW x \in Positive
                 PROVE  <<x>> \in Seq(Positive) /\ <<x>> \in Seq(Nat) /\ Product(<<x>>) = x
      OBVIOUS
    <3>1. <<x>> \in Seq(Positive) /\ <<x>> \in Seq(Nat) /\ Append(<<>>, x) = <<x>>
          /\ <<>> \in Seq(Nat) /\ x \in Nat
      BY DEF Positive
    <3>2. Product(Append(<<>>, x)) = x * Product(<<>>)
      BY <3>1, ProductAppend
    <3> QED
      BY <3>1, <3>2, ProductEmpty
  <2>5. CASE p[2] * p[2] > n
    BY <2>2, <2>3, <2>4, <2>5
  <2>6. CASE ~(p[2] * p[2] > n) /\ p[1] % p[2] = 0
    <3> DEFINE y == <<p[1] \div p[2], p[2]>>
               t == factors(n)[y]
    <3>1. y \in Trials /\ p[2] * y[1] = p[1] /\ Good(y)
      BY <2>1, <2>6, TrialsEnd
    <3>2. factors(n)[p] = <<p[2]>> \o t
      BY <2>2, <2>6
    <3>3. t \in Seq(Positive) /\ Product(t) = y[1]
      BY <3>1
    <3> HIDE DEF t, y
    <3>4. t \in Seq(Nat) /\ <<p[2]>> \o t \in Seq(Positive)
      BY <2>3, <2>4, <3>3 DEF Positive
    <3>5. Product(<<p[2]>> \o t) = p[2] * Product(t)
      <4>1. <<p[2]>> \in Seq(Nat) /\ Product(<<p[2]>>) = p[2]
        BY <2>3, <2>4
      <4>2. Product(<<p[2]>> \o t) = Product(<<p[2]>>) * Product(t)
        BY <3>4, <4>1, ProductConcat
      <4> QED
        BY <4>1, <4>2
    <3> QED
      BY <3>1, <3>2, <3>3, <3>4, <3>5
  <2>7. CASE ~(p[2] * p[2] > n) /\ p[1] % p[2] # 0 /\ p[1] = 1
    BY <2>2, <2>7, ProductEmpty
  <2>8. CASE ~(p[2] * p[2] > n) /\ p[1] % p[2] # 0 /\ p[1] # 1
    <3>1. <<p[1], p[2] + 1>> \in Trials /\ Good(<<p[1], p[2] + 1>>)
      BY <2>1, <2>8, TrialsEnd
    <3> QED
      BY <2>2, <2>8, <3>1
  <2> QED
    BY <2>5, <2>6, <2>7, <2>8
<1> HIDE DEF Good
<1> HIDE DEF S
<1>4. Nat \subseteq S
  BY <1>2, <1>3, InductiveSet
<1>5. ASSUME NEW p \in Trials PROVE Good(p)
  <2>1. TrialsLeft(n, p) + 1 \in S
    BY <1>1, <1>4
  <2> QED
    BY <1>1, <2>1 DEF S
<1> QED
  BY <1>5 DEF Good

\* What factorize returns multiplies to n.
LEMMA PrimesMultiply ==
  ASSUME NEW n \in Positive
  PROVE  factorize(n) \in Seq(Positive) /\ Product(factorize(n)) = n
<1>1. factorize(n) = factors(n)[<<n, 2>>]
  BY DEF factorize, factors, FactorBody, Trials
<1>2. <<n, 2>> \in Trials /\ n \in Nat
  BY DEF Trials, Positive
<1> QED
  BY <1>1, <1>2, FactorsMultiply
-------------------------------------------------------------------------------
(***************************************************************************)
(* Groups of primes, multiplied out and put in order.                      *)
(***************************************************************************)
Cuts == Seq(Nat) \X (Nat \ {0})

\* The groups that begin with the product of the first j, given those of the rest.
CutAfter(p, j, f) ==
  {Append(g, Product(SubSeq(p[1], 1, j))) :
     g \in f[<<SubSeq(p[1], j + 1, Len(p[1])), p[2] - 1>>]}

GroupsBody(f) ==
  [p \in Cuts |-> IF p[2] = 1 THEN {<<Product(p[1])>>}
                  ELSE UNION {CutAfter(p, j, f) : j \in 1 .. Len(p[1]) - p[2] - 1}]

groups == CHOOSE f : f = GroupsBody(f)

\* The groups of getnFactors, by name.
LEMMA GroupsAre ==
  ASSUME NEW primes, NEW k
  PROVE  getnFactors(primes, k) = {Ascending(g) : g \in groups[<<primes, k>>]}
BY DEF getnFactors, groups, GroupsBody, CutAfter, Cuts

\* After a cut there is one group less to make.
LEMMA CutIsSmaller ==
  ASSUME NEW p \in Cuts, p[2] # 1, NEW j \in 1 .. Len(p[1]) - p[2] - 1
  PROVE  /\ <<SubSeq(p[1], j + 1, Len(p[1])), p[2] - 1>> \in Cuts
         /\ j \in 0 .. Len(p[1])
         /\ Product(SubSeq(p[1], 1, j)) \in Nat
<1> DEFINE ps == p[1]
           k == p[2]
<1>1. ps \in Seq(Nat) /\ k \in Nat \ {0, 1}
  BY DEF Cuts
<1>2. j \in 0 .. Len(ps)
  BY <1>1
<1>3. SubSeq(ps, 1, j) \in Seq(Nat) /\ SubSeq(ps, j + 1, Len(ps)) \in Seq(Nat)
  BY <1>1, <1>2, SeqCut
<1>4. k - 1 \in Nat \ {0}
  BY <1>1
<1>5. Product(SubSeq(ps, 1, j)) \in Nat
  BY <1>3, ProductOfFirst
<1> QED
  BY <1>2, <1>3, <1>4, <1>5 DEF Cuts

\* The cutting ends.
LEMMA GroupsExist == groups = GroupsBody(groups)
<1> DEFINE C == SUBSET Seq(Nat)
           mu == [p \in Cuts |-> p[2]]
           G == [f \in [Cuts -> C] |-> GroupsBody(f)]
           e(f, p) == IF p[2] = 1 THEN {<<Product(p[1])>>}
                      ELSE UNION {CutAfter(p, j, f) : j \in 1 .. Len(p[1]) - p[2] - 1}
<1>1. ASSUME NEW f \in [Cuts -> C] PROVE GroupsBody(f) \in [Cuts -> C]
  <2>1. ASSUME NEW p \in Cuts PROVE e(f, p) \in C
    <3>1. CASE p[2] = 1
      <4>1. Product(p[1]) \in Nat
        BY ProductOfFirst DEF Cuts
      <4> QED
        BY <3>1, <4>1
    <3>2. CASE p[2] # 1
      <4>1. ASSUME NEW j \in 1 .. Len(p[1]) - p[2] - 1, NEW x \in CutAfter(p, j, f)
            PROVE  x \in Seq(Nat)
        <5> DEFINE y == <<SubSeq(p[1], j + 1, Len(p[1])), p[2] - 1>>
                   a == Product(SubSeq(p[1], 1, j))
        <5>1. y \in Cuts /\ a \in Nat
          BY <3>2, CutIsSmaller
        <5>2. \A g \in f[y] : g \in Seq(Nat)
          BY <5>1
        <5>3. x \in {Append(g, a) : g \in f[y]}
          BY DEF CutAfter
        <5> HIDE DEF y, a
        <5>4. PICK g \in f[y] : x = Append(g, a)
          BY ONLY <5>3
        <5>5. g \in Seq(Nat) /\ a \in Nat
          BY ONLY <5>1, <5>2
        <5> QED
          BY ONLY <5>4, <5>5
      <4>2. e(f, p) = UNION {CutAfter(p, j, f) : j \in 1 .. Len(p[1]) - p[2] - 1}
        BY <3>2
      <4> HIDE DEF e
      <4>3. ASSUME NEW x \in e(f, p) PROVE x \in Seq(Nat)
        <5>1. \E j \in 1 .. Len(p[1]) - p[2] - 1 : x \in CutAfter(p, j, f)
          BY <4>2
        <5> QED
          BY <4>1, <5>1
      <4> QED
        BY <4>3
    <3> QED
      BY <3>1, <3>2
  <2>2. GroupsBody(f) = [p \in Cuts |-> e(f, p)]
    BY DEF GroupsBody
  <2> HIDE DEF e
  <2> QED
    BY <2>1, <2>2
<1>2. Descends(Cuts, C, mu, G)
  <2> SUFFICES ASSUME NEW p \in Cuts, NEW f \in [Cuts -> C], NEW g \in [Cuts -> C],
                      \A y \in Cuts : mu[y] < mu[p] => f[y] = g[y]
               PROVE  GroupsBody(f)[p] = GroupsBody(g)[p]
    <3>1. \A f \in [Cuts -> C] : G[f] = GroupsBody(f)
      OBVIOUS
    <3> HIDE DEF G, mu, C
    <3> QED
      BY <3>1 DEF Descends
  <2>1. \A h : GroupsBody(h)[p] = e(h, p)
    BY DEF GroupsBody
  <2>2. CASE p[2] = 1
    <3>1. e(f, p) = {<<Product(p[1])>>} /\ e(g, p) = {<<Product(p[1])>>}
      BY <2>2
    <3> HIDE DEF e
    <3> QED
      BY <2>1, <3>1
  <2>3. CASE p[2] # 1
    <3>1. ASSUME NEW j \in 1 .. Len(p[1]) - p[2] - 1 PROVE CutAfter(p, j, f) = CutAfter(p, j, g)
      <4> DEFINE y == <<SubSeq(p[1], j + 1, Len(p[1])), p[2] - 1>>
      <4>1. y \in Cuts /\ p[2] \in Nat
        BY <2>3, CutIsSmaller DEF Cuts
      <4>2. mu[y] < mu[p]
        BY <4>1
      <4>3. f[y] = g[y]
        BY <4>1, <4>2
      <4> HIDE DEF y
      <4> QED
        BY <4>3 DEF CutAfter, y
    <3>2. {CutAfter(p, j, f) : j \in 1 .. Len(p[1]) - p[2] - 1} =
            {CutAfter(p, j, g) : j \in 1 .. Len(p[1]) - p[2] - 1}
      BY <3>1
    <3> QED
      BY <2>1, <2>3, <3>2
  <2> QED
    BY <2>2, <2>3
<1>3. Recursion(Cuts, C, mu, G)
  <2>1. \A p \in Cuts : p[2] \in Nat
    BY DEF Cuts
  <2>2. mu \in [Cuts -> Nat]
    BY <2>1
  <2>3. {} \in C
    OBVIOUS
  <2>4. G \in [[Cuts -> C] -> [Cuts -> C]]
    BY <1>1
  <2> HIDE DEF C, mu, G
  <2> QED
    BY <1>2, <2>2, <2>3, <2>4 DEF Recursion
<1>4. PICK f \in [Cuts -> C] : f = G[f]
  <2> HIDE DEF G, C, mu
  <2> QED
    BY <1>3, RecursionExists
<1>5. f = GroupsBody(f)
  BY <1>4
<1> QED
  BY <1>5 DEF groups

\* The groups of a sequence, from those of what is left after the first cut.
LEMMA GroupsStep ==
  ASSUME NEW p \in Cuts
  PROVE  groups[p] = IF p[2] = 1 THEN {<<Product(p[1])>>}
                     ELSE UNION {CutAfter(p, j, groups) : j \in 1 .. Len(p[1]) - p[2] - 1}
<1> DEFINE f == groups
<1>1. GroupsBody(f)[p] = IF p[2] = 1 THEN {<<Product(p[1])>>}
                         ELSE UNION {CutAfter(p, j, f) : j \in 1 .. Len(p[1]) - p[2] - 1}
  BY DEF GroupsBody
<1>2. f = GroupsBody(f)
  BY GroupsExist
<1> HIDE DEF f
<1>3. f[p] = GroupsBody(f)[p]
  BY <1>2
<1> QED
  BY <1>1, <1>3 DEF f

\* A sequence of one number multiplies to it.
LEMMA SingletonProduct ==
  ASSUME NEW x \in Positive
  PROVE  <<x>> \in Seq(Positive) /\ <<x>> \in Seq(Nat) /\ Len(<<x>>) = 1 /\ Product(<<x>>) = x
<1>1. <<x>> \in Seq(Positive) /\ <<x>> \in Seq(Nat) /\ Append(<<>>, x) = <<x>>
      /\ <<>> \in Seq(Nat) /\ x \in Nat
  BY DEF Positive
<1>2. Product(Append(<<>>, x)) = x * Product(<<>>)
  BY <1>1, ProductAppend
<1> QED
  BY <1>1, <1>2, ProductEmpty

\* Parts of a sequence of positive numbers are such sequences.
LEMMA PositiveSeq ==
  ASSUME NEW s \in Seq(Positive)
  PROVE  s \in Seq(Nat) /\ Product(s) \in Positive
         /\ \A j \in 0 .. Len(s) : /\ SubSeq(s, 1, j) \in Seq(Positive)
                                   /\ SubSeq(s, j + 1, Len(s)) \in Seq(Positive)
BY ProductPositive DEF Positive

\* However the primes are cut, the groups multiply to the same number.
LEMMA GroupsMultiply ==
  ASSUME NEW ps \in Seq(Positive), NEW k \in Positive
  PROVE  /\ k = 1 => groups[<<ps, k>>] = {<<Product(ps)>>}
         /\ \A g \in groups[<<ps, k>>] :
              g \in Seq(Positive) /\ Len(g) = k /\ Product(g) = Product(ps)
<1> DEFINE Good(s, i, g) == g \in Seq(Positive) /\ Len(g) = i /\ Product(g) = Product(s)
           S == {i \in Nat : i # 0 => \A s \in Seq(Positive) : \A g \in groups[<<s, i>>] : Good(s, i, g)}
<1>1. ASSUME NEW s \in Seq(Positive), NEW i \in Positive PROVE <<s, i>> \in Cuts
  BY <1>1, PositiveSeq DEF Cuts, Positive
<1>2. ASSUME NEW s \in Seq(Positive) PROVE groups[<<s, 1>>] = {<<Product(s)>>}
  <2>1. <<s, 1>> \in Cuts
    BY <1>1 DEF Positive
  <2> QED
    BY <2>1, GroupsStep
<1>3. 0 \in S
  OBVIOUS
<1>4. ASSUME NEW i \in Nat, i \in S PROVE i + 1 \in S
  <2> SUFFICES ASSUME NEW s \in Seq(Positive), NEW g \in groups[<<s, i + 1>>]
               PROVE  Good(s, i + 1, g)
    OBVIOUS
  <2>1. CASE i = 0
    <3>1. g = <<Product(s)>> /\ Product(s) \in Positive
      BY <1>2, <2>1, PositiveSeq
    <3> QED
      BY <2>1, <3>1, SingletonProduct
  <2>2. CASE i # 0
    <3> DEFINE p == <<s, i + 1>>
    <3>1. p \in Cuts /\ p[1] = s /\ p[2] = i + 1 /\ p[2] # 1
      BY <1>1, <2>2 DEF Positive
    <3>2. g \in UNION {CutAfter(p, j, groups) : j \in 1 .. Len(p[1]) - p[2] - 1}
      BY <3>1, GroupsStep
    <3>3. PICK j \in 1 .. Len(p[1]) - p[2] - 1 : g \in CutAfter(p, j, groups)
      BY <3>2
    <3> DEFINE u == SubSeq(s, 1, j)
               v == SubSeq(s, j + 1, Len(s))
    <3>4. j \in 0 .. Len(s)
      BY <3>1, <3>3, CutIsSmaller
    <3>5. u \in Seq(Positive) /\ v \in Seq(Positive) /\ s = u \o v
      BY <3>4, PositiveSeq, SeqCut
    <3>6. PICK h \in groups[<<v, i>>] : g = Append(h, Product(u))
      <4>1. p[2] - 1 = i
        BY <3>1
      <4> HIDE DEF p
      <4> QED
        BY <3>1, <3>3, <4>1 DEF CutAfter
    <3> HIDE DEF u, v, p
    <3>7. Good(v, i, h)
      BY <1>4, <2>2, <3>5, <3>6
    <3>8. /\ u \in Seq(Nat) /\ v \in Seq(Nat) /\ Product(u) \in Positive
          /\ Product(v) \in Nat /\ h \in Seq(Nat)
      BY <3>5, <3>7, PositiveSeq DEF Positive
    <3>9. Product(s) = Product(u) * Product(v)
      BY <3>5, <3>8, ProductConcat
    <3>10. Product(g) = Product(u) * Product(h)
      BY <3>6, <3>8, ProductAppend DEF Positive
    <3>11. g \in Seq(Positive) /\ Len(g) = i + 1
      BY <3>6, <3>7, <3>8
    <3> QED
      BY <3>7, <3>9, <3>10, <3>11
  <2> QED
    BY <2>1, <2>2
<1> HIDE DEF S
<1>5. Nat \subseteq S
  BY <1>3, <1>4, InductiveSet
<1>6. ASSUME NEW g \in groups[<<ps, k>>] PROVE Good(ps, k, g)
  BY <1>5 DEF S, Positive
<1> QED
  BY <1>2, <1>6

\* A number put among others multiplies what they multiply to.
LEMMA InsertedKeeps ==
  ASSUME NEW s \in Seq(Nat), NEW x \in Nat
  PROVE  /\ Inserted(x, s) \in Seq(Nat)
         /\ s \in Seq(Positive) /\ x \in Positive => Inserted(x, s) \in Seq(Positive)
         /\ Len(Inserted(x, s)) = Len(s) + 1
         /\ Product(Inserted(x, s)) = x * Product(s)
<1> DEFINE below == {i \in DOMAIN s : s[i] <= x}
           j == Cardinality(below)
           u == SubSeq(s, 1, j)
           v == SubSeq(s, j + 1, Len(s))
<1>1. j \in 0 .. Len(s)
  <2>1. Len(s) \in Nat /\ below \subseteq 1 .. Len(s)
    OBVIOUS
  <2>2. IsFiniteSet(1 .. Len(s)) /\ Cardinality(1 .. Len(s)) = Len(s)
    <3>1. \A n \in Nat : IsFiniteSet(1 .. n) /\ Cardinality(1 .. n) = n
      BY FS_Interval
    <3> QED
      BY <2>1, <3>1
  <2> HIDE DEF below
  <2>3. IsFiniteSet(below) /\ Cardinality(below) <= Len(s)
    BY <2>1, <2>2, FS_Subset
  <2>4. Cardinality(below) \in Nat
    BY <2>3, FS_CardinalityType
  <2> QED
    BY <2>1, <2>3, <2>4
<1>2. Inserted(x, s) = (u \o <<x>>) \o v
  <2>1. Inserted(x, s) = (SubSeq(s, 1, (j + 1) - 1) \o <<x>>) \o SubSeq(s, j + 1, Len(s))
    BY DEF Inserted, InsertAt
  <2> HIDE DEF j
  <2>2. (j + 1) - 1 = j
    BY <1>1
  <2> QED
    BY <2>1, <2>2
<1> HIDE DEF j
<1>3. u \in Seq(Nat) /\ v \in Seq(Nat) /\ s = u \o v /\ Len(s) = Len(u) + Len(v)
  <2>1. u \in Seq(Nat) /\ v \in Seq(Nat) /\ s = u \o v
    BY <1>1, SeqCut
  <2> HIDE DEF u, v
  <2> QED
    BY <2>1
<1>4. s \in Seq(Positive) => u \in Seq(Positive) /\ v \in Seq(Positive)
  BY <1>1, PositiveSeq
<1> HIDE DEF u, v
<1>5. <<x>> \in Seq(Nat) /\ u \o <<x>> = Append(u, x) /\ u \o <<x>> \in Seq(Nat)
      /\ Len(u \o <<x>>) = Len(u) + 1 /\ (x \in Positive => <<x>> \in Seq(Positive))
  BY <1>3
<1> DEFINE w == u \o <<x>>
<1>6. Product(w) = x * Product(u)
  BY <1>3, <1>5, ProductAppend
<1>7. s \in Seq(Positive) /\ x \in Positive => w \in Seq(Positive)
  BY <1>4, <1>5
<1>8. w \in Seq(Nat) /\ Len(w) = Len(u) + 1
  BY <1>5
<1> HIDE DEF w
<1>9. Product(w \o v) = Product(w) * Product(v) /\ Product(s) = Product(u) * Product(v)
  BY <1>3, <1>8, ProductConcat
<1>10. Product(u) \in Nat /\ Product(v) \in Nat
  BY <1>3, ProductOfFirst
<1>11. Product(w \o v) = x * Product(s)
  <2>1. \A a, b \in Nat : (x * a) * b = x * (a * b)
    OBVIOUS
  <2> QED
    BY <1>6, <1>9, <1>10, <2>1
<1>12. w \o v \in Seq(Nat) /\ Len(w \o v) = Len(s) + 1
  <2>1. w \o v \in Seq(Nat) /\ Len(w \o v) = Len(w) + Len(v)
    BY <1>3, <1>8, ConcatProperties
  <2>2. Len(u) \in Nat /\ Len(v) \in Nat
    BY <1>3
  <2>3. Len(w) = Len(u) + 1 /\ Len(s) = Len(u) + Len(v)
    BY <1>3, <1>8
  <2> QED
    BY <2>1, <2>2, <2>3
<1>13. s \in Seq(Positive) /\ x \in Positive => w \o v \in Seq(Positive)
  BY <1>4, <1>7
<1> QED
  BY <1>2, <1>11, <1>12, <1>13 DEF w

InOrder(s, f) == [k \in 0 .. Len(s) |-> IF k = 0 THEN <<>> ELSE Inserted(s[k], f[k - 1])]

\* Putting numbers in order changes neither how many they are nor their product.
LEMMA AscendingKeeps ==
  ASSUME NEW s \in Seq(Positive)
  PROVE  Ascending(s) \in Seq(Positive) /\ Len(Ascending(s)) = Len(s)
         /\ Product(Ascending(s)) = Product(s)
<1> DEFINE D == 0 .. Len(s)
           C == Seq(Nat)
           mu == [k \in D |-> k]
           G == [f \in [D -> C] |-> InOrder(s, f)]
           upTo == CHOOSE f : f = InOrder(s, f)
<1>1. Ascending(s) = upTo[Len(s)]
  BY DEF Ascending, InOrder
<1>2. /\ s \in Seq(Nat) /\ Len(s) \in Nat
      /\ \A k \in D : k # 0 => k - 1 \in D /\ s[k] \in Positive /\ s[k] \in Nat
  BY DEF Positive
<1>3. ASSUME NEW f \in [D -> C] PROVE InOrder(s, f) \in [D -> C]
  <2> DEFINE e(k) == IF k = 0 THEN <<>> ELSE Inserted(s[k], f[k - 1])
  <2>1. ASSUME NEW k \in D PROVE e(k) \in C
    <3>1. CASE k = 0
      BY <3>1
    <3>2. CASE k # 0
      <4>1. f[k - 1] \in Seq(Nat) /\ s[k] \in Nat
        BY <1>2, <3>2
      <4> QED
        BY <3>2, <4>1, InsertedKeeps
    <3> QED
      BY <3>1, <3>2
  <2>2. InOrder(s, f) = [k \in D |-> e(k)]
    BY DEF InOrder
  <2> HIDE DEF e, D
  <2> QED
    BY <2>1, <2>2
<1>4. Descends(D, C, mu, G)
  <2> SUFFICES ASSUME NEW x \in D, NEW f \in [D -> C], NEW g \in [D -> C],
                      \A y \in D : mu[y] < mu[x] => f[y] = g[y]
               PROVE  InOrder(s, f)[x] = InOrder(s, g)[x]
    <3>1. \A f \in [D -> C] : G[f] = InOrder(s, f)
      OBVIOUS
    <3> HIDE DEF G, D, C, mu
    <3> QED
      BY <3>1 DEF Descends
  <2>1. CASE x = 0
    BY <2>1 DEF InOrder
  <2>2. CASE x # 0
    <3>1. x - 1 \in D /\ mu[x - 1] < mu[x]
      BY <1>2, <2>2
    <3>2. f[x - 1] = g[x - 1]
      BY <3>1
    <3>3. \A h : InOrder(s, h)[x] = Inserted(s[x], h[x - 1])
      BY <2>2 DEF InOrder
    <3> QED
      BY <3>2, <3>3
  <2> QED
    BY <2>1, <2>2
<1>5. Recursion(D, C, mu, G)
  <2>1. mu \in [D -> Nat] /\ <<>> \in C /\ G \in [[D -> C] -> [D -> C]]
    BY <1>2, <1>3
  <2> HIDE DEF D, C, mu, G
  <2> QED
    BY <1>4, <2>1 DEF Recursion
<1>6. PICK f \in [D -> C] : f = G[f]
  <2> HIDE DEF G, C, D, mu
  <2> QED
    BY <1>5, RecursionExists
<1>7. f = InOrder(s, f)
  BY <1>6
<1>8. upTo = InOrder(s, upTo)
  BY <1>7
<1> HIDE DEF upTo
<1>9. \A k \in D : upTo[k] = IF k = 0 THEN <<>> ELSE Inserted(s[k], upTo[k - 1])
  <2>1. \A k \in D : InOrder(s, upTo)[k] = IF k = 0 THEN <<>> ELSE Inserted(s[k], upTo[k - 1])
    BY DEF InOrder
  <2> QED
    BY <1>8, <2>1
<1> DEFINE Good(k) == /\ upTo[k] \in Seq(Positive) /\ Len(upTo[k]) = k
                      /\ Product(upTo[k]) = Product(First(s, k))
           S == {n \in Nat : n <= Len(s) => Good(n)}
<1>10. 0 \in S
  <2>1. upTo[0] = <<>> /\ First(s, 0) = <<>>
    BY <1>2, <1>9 DEF First
  <2>2. <<>> \in Seq(Positive) /\ Len(<<>>) = 0
    OBVIOUS
  <2>3. upTo[0] \in Seq(Positive)
    BY <2>1, <2>2
  <2>4. Len(upTo[0]) = 0
    BY <2>1, <2>2
  <2>5. Product(upTo[0]) = Product(First(s, 0))
    BY <2>1
  <2>6. Good(0)
    BY <2>3, <2>4, <2>5
  <2> HIDE DEF Good
  <2> QED
    BY <2>6
<1>11. ASSUME NEW n \in Nat, n \in S PROVE n + 1 \in S
  <2> SUFFICES ASSUME n + 1 <= Len(s) PROVE Good(n + 1)
    OBVIOUS
  <2> DEFINE t == upTo[n]
             x == s[n + 1]
  <2>1. n + 1 \in D /\ n + 1 # 0 /\ (n + 1) - 1 = n /\ n <= Len(s) /\ n + 1 \in 1 .. Len(s)
    BY <1>2
  <2>2. Good(n)
    BY <1>11, <2>1
  <2>3. upTo[n + 1] = Inserted(x, t)
    BY <1>9, <2>1
  <2>4. x \in Positive /\ x \in Nat /\ t \in Seq(Positive) /\ t \in Seq(Nat)
    BY <1>2, <2>1, <2>2 DEF Positive
  <2>5. Product(First(s, n + 1)) = x * Product(First(s, n))
    BY <1>2, <2>1, ProductOfFirst
  <2>6. Len(t) = n /\ Product(t) = Product(First(s, n))
    BY <2>2
  <2> HIDE DEF t, x
  <2>7. /\ Inserted(x, t) \in Seq(Positive) /\ Len(Inserted(x, t)) = Len(t) + 1
        /\ Product(Inserted(x, t)) = x * Product(t)
    BY <2>4, InsertedKeeps
  <2> QED
    BY <2>3, <2>5, <2>6, <2>7
<1> HIDE DEF Good
<1> HIDE DEF S
<1>12. Nat \subseteq S
  BY <1>10, <1>11, InductiveSet
<1>13. Good(Len(s)) /\ First(s, Len(s)) = s
  BY <1>2, <1>12 DEF S, First
<1> QED
  BY <1>1, <1>13 DEF Good

\* The groups of the code: as many as asked for, and together what was grouped.
LEMMA nFactorsMultiply ==
  ASSUME NEW ps \in Seq(Positive), NEW k \in Positive
  PROVE  /\ k = 1 => getnFactors(ps, k) # {}
         /\ \A g \in getnFactors(ps, k) :
              g \in Seq(Positive) /\ Len(g) = k /\ Product(g) = Product(ps)
<1>1. getnFactors(ps, k) = {Ascending(g) : g \in groups[<<ps, k>>]}
  BY GroupsAre
<1>2. k = 1 => groups[<<ps, k>>] # {}
  BY GroupsMultiply
<1>3. ASSUME NEW g \in groups[<<ps, k>>]
      PROVE  Ascending(g) \in Seq(Positive) /\ Len(Ascending(g)) = k
             /\ Product(Ascending(g)) = Product(ps)
  <2>1. g \in Seq(Positive) /\ Len(g) = k /\ Product(g) = Product(ps)
    BY GroupsMultiply
  <2> QED
    BY <2>1, AscendingKeeps
<1> QED
  BY <1>1, <1>2, <1>3

Ones(k) == [i \in 1 .. k |-> 1]

\* Ones in front do not change the product.
LEMMA PadFrontKeeps ==
  ASSUME NEW ps \in Seq(Positive), NEW n \in Nat, Len(ps) < n
  PROVE  PadFront(ps, n) \in Seq(Positive) /\ Product(PadFront(ps, n)) = Product(ps)
<1> DEFINE S == {k \in Nat : Product(Ones(k)) = 1}
<1>1. \A k \in Nat : Ones(k) \in Seq(Positive) /\ Ones(k) \in Seq(Nat) /\ Len(Ones(k)) = k
  BY DEF Positive, Ones
<1>2. 0 \in S
  <2>1. Ones(0) \in Seq(Nat) /\ Len(Ones(0)) = 0
    BY <1>1
  <2>2. Ones(0) = <<>>
    BY <2>1
  <2>3. Product(Ones(0)) = 1
    BY <2>2, ProductEmpty
  <2>4. 0 \in Nat
    OBVIOUS
  <2> QED
    BY <2>3, <2>4, Zenon
<1>3. ASSUME NEW k \in Nat, k \in S PROVE k + 1 \in S
  <2>1. Ones(k + 1) = Append(Ones(k), 1)
    BY DEF Ones
  <2>2. Ones(k) \in Seq(Nat)
    BY <1>1
  <2>3. Product(Ones(k + 1)) = 1 * Product(Ones(k))
    BY <2>1, <2>2, ProductAppend
  <2> QED
    BY <1>3, <2>3
<1> HIDE DEF S
<1>4. Nat \subseteq S
  BY <1>2, <1>3, InductiveSet
<1> DEFINE k == n - Len(ps)
<1>5. k \in Nat /\ PadFront(ps, n) = Ones(k) \o ps
  BY DEF PadFront, Ones
<1>6. Ones(k) \in Seq(Positive) /\ Ones(k) \in Seq(Nat)
  BY <1>1, <1>5
<1>7. Product(Ones(k)) = 1
  BY <1>4, <1>5 DEF S
<1>8. ps \in Seq(Nat) /\ Product(ps) \in Nat
  BY PositiveSeq DEF Positive
<1> HIDE DEF k
<1>9. Product(Ones(k) \o ps) = Product(Ones(k)) * Product(ps)
  BY <1>6, <1>8, ProductConcat
<1>10. Ones(k) \o ps \in Seq(Positive)
  BY <1>6
<1> QED
  BY <1>5, <1>7, <1>8, <1>9, <1>10
-------------------------------------------------------------------------------
(***************************************************************************)
(* The candidates, and the search for the best of them.                    *)
(***************************************************************************)
Ratios == [numerator : Positive, denominator : Positive]

\* The stages ss convert by r together, and none but the last leaves the band.
Converts(ss, r) ==
  /\ ss \in Seq(Ratios) /\ Len(ss) # 0
  /\ Product(Numerators(ss)) = r.numerator /\ Product(Denominators(ss)) = r.denominator
  /\ ~BadRatio(ss, r)

\* The greater of two numbers.
LEMMA TwoMax == \A a, b \in Nat : Max({a, b}) = IF a >= b THEN a ELSE b
<1> SUFFICES ASSUME NEW a \in Nat, NEW b \in Nat
             PROVE  Max({a, b}) = IF a >= b THEN a ELSE b
  OBVIOUS
<1> DEFINE x == IF a >= b THEN a ELSE b
<1>1. x \in {a, b} /\ \A y \in {a, b} : x >= y
  OBVIOUS
<1>2. \A z \in {a, b} : (\A y \in {a, b} : z >= y) => z = x
  OBVIOUS
<1> HIDE DEF x
<1> QED
  BY <1>1, <1>2 DEF Max

\* The lesser of two numbers.
LEMMA TwoMin == \A a, b \in Nat : Min({a, b}) = IF a <= b THEN a ELSE b
<1> SUFFICES ASSUME NEW a \in Nat, NEW b \in Nat
             PROVE  Min({a, b}) = IF a <= b THEN a ELSE b
  OBVIOUS
<1> DEFINE x == IF a <= b THEN a ELSE b
<1>1. x \in {a, b} /\ \A y \in {a, b} : x <= y
  OBVIOUS
<1>2. \A z \in {a, b} : (\A y \in {a, b} : z <= y) => z = x
  OBVIOUS
<1> HIDE DEF x
<1> QED
  BY <1>1, <1>2 DEF Min

\* There is at least one stage, and no more than allowed.
LEMMA StageCountBounded ==
  ASSUME NEW num \in Seq(Nat), NEW den \in Seq(Nat), NEW a \in Positive
  PROVE  StageCount(num, den, a) \in 1 .. a
<1>1. Len(num) \in Nat /\ Len(den) \in Nat /\ a \in Nat /\ a >= 1
  BY DEF Positive
<1> DEFINE b == Max({Len(num), Len(den)})
           c == Min({a, b})
<1>2. b \in Nat
  BY <1>1, TwoMax
<1> HIDE DEF b
<1>3. StageCount(num, den, a) = Max({1, c})
  BY DEF StageCount, b
<1>4. c \in Nat /\ c <= a
  <2>1. a \in Nat
    BY <1>1
  <2>2. c = IF a <= b THEN a ELSE b
    BY ONLY <1>2, <2>1, TwoMin
  <2> HIDE DEF c
  <2> QED
    BY ONLY <1>2, <2>1, <2>2
<1> HIDE DEF c
<1>5. Max({1, c}) = IF 1 >= c THEN 1 ELSE c
  <2>1. 1 \in Nat
    OBVIOUS
  <2> QED
    BY ONLY <1>4, <2>1, TwoMax
<1> QED
  BY <1>1, <1>3, <1>4, <1>5

\* The groups that are made of one side of the ratio, padded with ones or not.
LEMMA SideMultiplies ==
  ASSUME NEW n \in Positive, NEW k \in Positive
  PROVE  LET ps == factorize(n)
             gs == getnFactors(IF Len(ps) < k THEN PadFront(ps, k) ELSE ps, k)
         IN /\ k = 1 => gs # {}
            /\ \A g \in gs : g \in Seq(Positive) /\ Len(g) = k /\ Product(g) = n
<1> DEFINE ps == factorize(n)
           qs == IF Len(ps) < k THEN PadFront(ps, k) ELSE ps
<1>1. ps \in Seq(Positive) /\ Product(ps) = n /\ k \in Nat
  BY PrimesMultiply DEF Positive
<1> HIDE DEF ps
<1>2. qs \in Seq(Positive) /\ Product(qs) = n
  BY <1>1, PadFrontKeeps
<1> HIDE DEF qs
<1>3. /\ k = 1 => getnFactors(qs, k) # {}
      /\ \A g \in getnFactors(qs, k) : g \in Seq(Positive) /\ Len(g) = k /\ Product(g) = n
  BY <1>2, nFactorsMultiply
<1> QED
  BY <1>3 DEF qs, ps

Paired(n, d, k) == [i \in 1 .. k |-> Frac(n[i], d[i])]

\* The sides of paired numerators and denominators.
LEMMA PairedSides ==
  ASSUME NEW k \in Positive, NEW n \in Seq(Positive), NEW d \in Seq(Positive),
         Len(n) = k, Len(d) = k
  PROVE  /\ Paired(n, d, k) \in Seq(Ratios) /\ Len(Paired(n, d, k)) = k
         /\ Numerators(Paired(n, d, k)) = n /\ Denominators(Paired(n, d, k)) = d
<1>1. \A i \in 1 .. k : n[i] \in Positive /\ d[i] \in Positive
  OBVIOUS
<1>2. k \in Nat /\ DOMAIN Paired(n, d, k) = 1 .. k
  BY DEF Paired, Positive
<1>3. \A i \in 1 .. k : Paired(n, d, k)[i] = Frac(n[i], d[i]) /\ Frac(n[i], d[i]) \in Ratios
  BY <1>1 DEF Paired, Frac, Ratios
<1>4. Paired(n, d, k) \in Seq(Ratios) /\ Len(Paired(n, d, k)) = k
  <2>1. Paired(n, d, k) \in [1 .. k -> Ratios]
    BY <1>3 DEF Paired
  <2> QED
    BY <1>2, <2>1
<1>5. \A i \in 1 .. k : Paired(n, d, k)[i].numerator = n[i] /\ Paired(n, d, k)[i].denominator = d[i]
  <2>1. \A x, y : Frac(x, y).numerator = x /\ Frac(x, y).denominator = y
    BY DEF Frac
  <2>2. \A i \in 1 .. k : Paired(n, d, k)[i] = Frac(n[i], d[i])
    BY <1>3
  <2> QED
    BY <2>1, <2>2
<1> DEFINE p == Paired(n, d, k)
<1> HIDE DEF p
<1>6. Numerators(p) = [i \in 1 .. k |-> n[i]]
  BY <1>2, <1>5 DEF Numerators, p
<1>7. Denominators(p) = [i \in 1 .. k |-> d[i]]
  BY <1>2, <1>5 DEF Denominators, p
<1>8. n = [i \in 1 .. k |-> n[i]] /\ d = [i \in 1 .. k |-> d[i]]
  OBVIOUS
<1> QED
  BY <1>4, <1>6, <1>7, <1>8 DEF p

\* Whatever the search tries converts by the whole ratio and keeps the band, in no more
\* stages than allowed; a single stage always does.
LEMMA CandidatesConvert ==
  ASSUME NEW r \in Ratios, NEW a \in Positive
  PROVE  /\ a = 1 => getConversionStageCandidates(r, a) # {}
         /\ \E k \in 1 .. a : \A g \in getConversionStageCandidates(r, a) :
              /\ Len(g) = k /\ Converts(g, r)
              /\ Numerators(g) \in Seq(Positive) /\ Denominators(g) \in Seq(Positive)
              /\ Product(Numerators(g)) = r.numerator
              /\ Product(Denominators(g)) = r.denominator
<1> DEFINE num == factorize(r.numerator)
           den == factorize(r.denominator)
           k == StageCount(num, den, a)
           gn == getnFactors(IF Len(num) < k THEN PadFront(num, k) ELSE num, k)
           gd == getnFactors(IF Len(den) < k THEN PadFront(den, k) ELSE den, k)
           pairs == {Paired(n, d, k) : n \in gn, d \in gd}
<1>1. r.numerator \in Positive /\ r.denominator \in Positive
  BY DEF Ratios
<1>2. getConversionStageCandidates(r, a) = {g \in pairs : ~BadRatio(g, r)}
  BY DEF getConversionStageCandidates, Paired
<1>3. k \in 1 .. a /\ k \in Positive
  <2>1. num \in Seq(Positive) /\ den \in Seq(Positive)
    BY <1>1, PrimesMultiply
  <2>2. num \in Seq(Nat) /\ den \in Seq(Nat) /\ a \in Nat
    BY <2>1, PositiveSeq DEF Positive
  <2> HIDE DEF num, den
  <2>3. k \in 1 .. a
    BY <2>2, StageCountBounded
  <2> QED
    BY <2>2, <2>3 DEF Positive
<1> HIDE DEF k
<1>4. /\ k = 1 => gn # {}
      /\ \A g \in gn : g \in Seq(Positive) /\ Len(g) = k /\ Product(g) = r.numerator
  BY <1>1, <1>3, SideMultiplies
<1>5. /\ k = 1 => gd # {}
      /\ \A g \in gd : g \in Seq(Positive) /\ Len(g) = k /\ Product(g) = r.denominator
  BY <1>1, <1>3, SideMultiplies
<1> HIDE DEF gn, gd
<1>6. ASSUME NEW n \in gn, NEW d \in gd
      PROVE  LET g == Paired(n, d, k)
             IN /\ g \in Seq(Ratios) /\ Len(g) = k
                /\ Numerators(g) \in Seq(Positive) /\ Denominators(g) \in Seq(Positive)
                /\ Product(Numerators(g)) = r.numerator
                /\ Product(Denominators(g)) = r.denominator
  <2>1. n \in Seq(Positive) /\ Len(n) = k /\ d \in Seq(Positive) /\ Len(d) = k
        /\ Product(n) = r.numerator /\ Product(d) = r.denominator
    BY <1>4, <1>5
  <2> QED
    BY <1>3, <2>1, PairedSides
<1>7. ASSUME NEW g \in getConversionStageCandidates(r, a)
      PROVE  /\ Len(g) = k /\ Converts(g, r)
             /\ Numerators(g) \in Seq(Positive) /\ Denominators(g) \in Seq(Positive)
             /\ Product(Numerators(g)) = r.numerator
             /\ Product(Denominators(g)) = r.denominator
  <2>1. PICK n \in gn, d \in gd : g = Paired(n, d, k)
    BY <1>2
  <2>2. /\ g \in Seq(Ratios) /\ Len(g) = k
        /\ Numerators(g) \in Seq(Positive) /\ Denominators(g) \in Seq(Positive)
        /\ Product(Numerators(g)) = r.numerator
        /\ Product(Denominators(g)) = r.denominator
    BY <1>6, <2>1
  <2>3. k # 0
    BY <1>3 DEF Positive
  <2>4. ~BadRatio(g, r)
    BY <1>2
  <2> QED
    BY <2>2, <2>3, <2>4 DEF Converts
<1>8. ASSUME a = 1 PROVE getConversionStageCandidates(r, a) # {}
  <2>1. k = 1
    BY <1>3, <1>8
  <2>2. PICK n \in gn, d \in gd : TRUE
    BY <1>4, <1>5, <2>1
  <2> DEFINE g == Paired(n, d, k)
  <2>3. Len(g) = 1
    BY <1>6, <2>1
  <2>4. ~BadRatio(g, r)
    BY <2>3 DEF BadRatio
  <2>5. g \in pairs
    BY <2>2
  <2> QED
    BY <1>2, <2>4, <2>5
<1> QED
  BY <1>3, <1>7, <1>8

\* s is ahead of t, or the same, as far as the k-th place.
Ahead(t, s, k) ==
  \/ \A i \in 1 .. k : t[i] = s[i]
  \/ \E i \in 1 .. k : t[i] < s[i] /\ \A j \in 1 .. i - 1 : t[j] = s[j]

\* A set of sequences of the same length, with entries no greater than c.
Comparable(T, n, c) ==
  T # {} /\ \A s \in T : s \in Seq(Nat) /\ Len(s) = n /\ \A k \in 1 .. n : s[k] <= c

\* One of the sequences is largest in the k-th place.
LEMMA LargestEntry ==
  ASSUME NEW T, T # {}, NEW k, NEW c \in Nat, \A s \in T : s[k] \in Nat /\ s[k] <= c
  PROVE  \E s \in T : \A t \in T : t[k] <= s[k]
<1> DEFINE U == {c - s[k] : s \in T}
<1>1. U \in SUBSET Nat /\ U # {}
  BY DEF U
<1>2. PICK u \in U : \A v \in U : u <= v
  <2> HIDE DEF U
  <2> QED
    BY <1>1, LeastNatural
<1>3. PICK s \in T : u = c - s[k]
  BY <1>2
<1>4. ASSUME NEW t \in T PROVE t[k] <= s[k]
  <2>1. u <= c - t[k]
    BY <1>2
  <2>2. s[k] \in Nat /\ t[k] \in Nat
    OBVIOUS
  <2> QED
    BY <1>3, <2>1, <2>2
<1> QED
  BY <1>3, <1>4

\* However many places are compared, one of the sequences is ahead of the others.
LEMMA OneIsAhead ==
  ASSUME NEW n \in Nat, NEW c \in Nat, NEW T, Comparable(T, n, c)
  PROVE  \E s \in T : \A t \in T : Ahead(t, s, n)
<1> DEFINE S == {k \in Nat : k <= n => \E s \in T : \A t \in T : Ahead(t, s, k)}
<1>0. T # {} /\ \A s \in T : s \in Seq(Nat) /\ Len(s) = n /\ \A k \in 1 .. n : s[k] <= c
  BY DEF Comparable
<1>1. 0 \in S
  BY <1>0 DEF Ahead
<1>2. ASSUME NEW k \in Nat, k \in S PROVE k + 1 \in S
  <2> SUFFICES ASSUME k + 1 <= n PROVE \E s \in T : \A t \in T : Ahead(t, s, k + 1)
    OBVIOUS
  <2>1. PICK s \in T : \A t \in T : Ahead(t, s, k)
    BY <1>2
  <2> DEFINE U == {t \in T : \A i \in 1 .. k : t[i] = s[i]}
  <2>2. s \in U /\ \A t \in T : t[k + 1] \in Nat /\ t[k + 1] <= c
    BY <1>0
  <2>3. PICK u \in U : \A t \in U : t[k + 1] <= u[k + 1]
    <3>1. U # {} /\ \A t \in U : t[k + 1] \in Nat /\ t[k + 1] <= c
      BY <2>2
    <3> HIDE DEF U
    <3> QED
      BY <3>1, LargestEntry
  <2>4. ASSUME NEW t \in T PROVE Ahead(t, u, k + 1)
    <3>1. \A i \in 1 .. k : u[i] = s[i]
      OBVIOUS
    <3>2. CASE t \in U
      <4>1. t[k + 1] <= u[k + 1] /\ t[k + 1] \in Nat /\ u[k + 1] \in Nat
        BY <2>2, <2>3, <3>2
      <4>2. \A i \in 1 .. k : t[i] = u[i]
        BY <3>1, <3>2
      <4>3. CASE t[k + 1] = u[k + 1]
        BY <4>2, <4>3 DEF Ahead
      <4>4. CASE t[k + 1] < u[k + 1]
        BY <4>2, <4>4 DEF Ahead
      <4> QED
        BY <4>1, <4>3, <4>4
    <3>3. CASE t \notin U
      <4>1. PICK i \in 1 .. k : t[i] < s[i] /\ \A j \in 1 .. i - 1 : t[j] = s[j]
        BY <2>1, <3>3 DEF Ahead
      <4>2. t[i] < u[i] /\ i \in 1 .. k + 1
        BY <3>1, <4>1
      <4>3. \A j \in 1 .. i - 1 : t[j] = u[j]
        BY <3>1, <4>1
      <4> QED
        BY <4>2, <4>3 DEF Ahead
    <3> QED
      BY <3>2, <3>3
  <2> QED
    BY <2>4
<1> HIDE DEF S
<1>3. Nat \subseteq S
  BY <1>1, <1>2, InductiveSet
<1> QED
  BY <1>3 DEF S

\* So the ordered set of the code has a last element.
LEMMA LexLargestExists ==
  ASSUME NEW n \in Nat, NEW c \in Nat, NEW T, Comparable(T, n, c)
  PROVE  LexLargest(T) \in T
<1>1. T # {} /\ \A s \in T : s \in Seq(Nat) /\ Len(s) = n
  BY DEF Comparable
<1>2. PICK s \in T : \A t \in T : Ahead(t, s, n)
  BY OneIsAhead
<1>3. ASSUME NEW t \in T \ {s} PROVE LexLess(t, s)
  <2>1. s \in Seq(Nat) /\ t \in Seq(Nat) /\ Len(s) = n /\ Len(t) = n /\ t # s
    BY <1>1
  <2>2. PICK i \in 1 .. n : t[i] < s[i] /\ \A j \in 1 .. i - 1 : t[j] = s[j]
    <3>1. ~(\A i \in 1 .. n : t[i] = s[i])
      BY <2>1
    <3> QED
      BY <1>2, <3>1 DEF Ahead
  <2>3. First(t, i - 1) = [j \in 1 .. i - 1 |-> t[j]] /\ First(s, i - 1) = [j \in 1 .. i - 1 |-> s[j]]
    BY <2>1 DEF First
  <2>4. First(t, i - 1) = First(s, i - 1)
    BY <2>2, <2>3
  <2>5. i \in DOMAIN t
    BY <2>1
  <2> QED
    BY <2>2, <2>4, <2>5 DEF LexLess
<1> QED
  BY <1>3 DEF LexLargest

\* The best of some candidates is one of them.
LEMMA BestIsCandidate ==
  ASSUME NEW r \in Ratios, NEW a \in Positive, getConversionStageCandidates(r, a) # {}
  PROVE  Best(getConversionStageCandidates(r, a)) \in getConversionStageCandidates(r, a)
<1> DEFINE cs == getConversionStageCandidates(r, a)
<1>1. PICK k \in 1 .. a : \A g \in cs :
              /\ Len(g) = k /\ Converts(g, r)
              /\ Numerators(g) \in Seq(Positive) /\ Denominators(g) \in Seq(Positive)
              /\ Product(Numerators(g)) = r.numerator
              /\ Product(Denominators(g)) = r.denominator
  BY CandidatesConvert
<1>0. cs # {} /\ r.numerator \in Nat /\ r.denominator \in Nat /\ k \in Nat
  BY DEF Ratios, Positive
<1> HIDE DEF cs
<1>2. \A g \in cs : Len(Numerators(g)) = k /\ Len(Denominators(g)) = k
  <2> SUFFICES ASSUME NEW g \in cs PROVE Len(Numerators(g)) = k /\ Len(Denominators(g)) = k
    OBVIOUS
  <2>1. g \in Seq(Ratios) /\ Len(g) = k /\ Numerators(g) \in Seq(Positive) /\ Denominators(g) \in Seq(Positive)
    BY <1>1 DEF Converts
  <2>2. DOMAIN g = 1 .. k
    BY <2>1
  <2>3. DOMAIN Numerators(g) = 1 .. k /\ DOMAIN Denominators(g) = 1 .. k
    BY <2>2 DEF Numerators, Denominators
  <2> QED
    BY <1>0, <2>1, <2>3
<1>3. \A s \in Seq(Positive) : \A c : Product(s) = c /\ Len(s) = k =>
        s \in Seq(Nat) /\ \A i \in 1 .. k : s[i] <= c
  BY ProductPositive, PositiveSeq
<1> DEFINE ns == {Numerators(g) : g \in cs}
           n == LexLargest(ns)
           hs == {g \in cs : Numerators(g) = n}
           ds == {Denominators(h) : h \in hs}
           d == LexLargest(ds)
<1>4. Comparable(ns, k, r.numerator)
  BY <1>0, <1>1, <1>2, <1>3 DEF Comparable
<1>5. n \in ns
  <2> HIDE DEF ns
  <2> QED
    BY <1>0, <1>4, LexLargestExists
<1> HIDE DEF n
<1>6. Comparable(ds, k, r.denominator)
  <2>1. ds # {}
    BY <1>5
  <2>2. \A s \in ds : s \in Seq(Nat) /\ Len(s) = k /\ \A i \in 1 .. k : s[i] <= r.denominator
    BY <1>1, <1>2, <1>3
  <2> HIDE DEF ds
  <2> QED
    BY <2>1, <2>2 DEF Comparable
<1>7. d \in ds
  <2> HIDE DEF ds
  <2> QED
    BY <1>0, <1>6, LexLargestExists
<1> HIDE DEF d
<1>8. \E g \in cs : Numerators(g) = n /\ Denominators(g) = d
  BY <1>7
<1>9. Best(cs) = CHOOSE g \in cs : Numerators(g) = n /\ Denominators(g) = d
  BY DEF Best, n, d
<1> QED
  BY <1>8, <1>9 DEF cs

\* The numerators and denominators of the first k stages.
LEMMA SidesOfFirst ==
  ASSUME NEW ss \in Seq(Ratios)
  PROVE  /\ Numerators(ss) \in Seq(Positive) /\ Len(Numerators(ss)) = Len(ss)
         /\ Denominators(ss) \in Seq(Positive) /\ Len(Denominators(ss)) = Len(ss)
         /\ \A k \in 1 .. Len(ss) : /\ Numerators(ss)[k] = ss[k].numerator
                                    /\ Denominators(ss)[k] = ss[k].denominator
         /\ \A k \in 0 .. Len(ss) : /\ Numerators(First(ss, k)) = First(Numerators(ss), k)
                                    /\ Denominators(First(ss, k)) = First(Denominators(ss), k)
<1>1. \A k \in 1 .. Len(ss) : ss[k] \in Ratios /\ ss[k].numerator \in Positive
                                /\ ss[k].denominator \in Positive
  <2>1. \A k \in 1 .. Len(ss) : ss[k] \in Ratios
    OBVIOUS
  <2>2. \A r \in Ratios : r.numerator \in Positive /\ r.denominator \in Positive
    BY DEF Ratios
  <2> QED
    BY <2>1, <2>2
<1>2. DOMAIN ss = 1 .. Len(ss) /\ Len(ss) \in Nat
  OBVIOUS
<1>3. Numerators(ss) = [k \in 1 .. Len(ss) |-> ss[k].numerator]
  BY <1>2 DEF Numerators
<1>4. Denominators(ss) = [k \in 1 .. Len(ss) |-> ss[k].denominator]
  BY <1>2 DEF Denominators
<1>5. Numerators(ss) \in Seq(Positive) /\ Len(Numerators(ss)) = Len(ss)
  BY <1>1, <1>2, <1>3
<1>6. Denominators(ss) \in Seq(Positive) /\ Len(Denominators(ss)) = Len(ss)
  BY <1>1, <1>2, <1>4
<1>7. ASSUME NEW k \in 0 .. Len(ss)
      PROVE  /\ Numerators(First(ss, k)) = First(Numerators(ss), k)
             /\ Denominators(First(ss, k)) = First(Denominators(ss), k)
  <2> DEFINE t == First(ss, k)
  <2>1. t = [i \in 1 .. k |-> ss[i]]
    BY <1>2 DEF First
  <2> HIDE DEF t
  <2>2. DOMAIN t = 1 .. k /\ \A i \in 1 .. k : t[i] = ss[i] /\ i \in 1 .. Len(ss)
    BY <1>2, <2>1
  <2>3. Numerators(t) = [i \in 1 .. k |-> ss[i].numerator]
    BY <2>2 DEF Numerators
  <2>4. Denominators(t) = [i \in 1 .. k |-> ss[i].denominator]
    BY <2>2 DEF Denominators
  <2>5. First(Numerators(ss), k) = [i \in 1 .. k |-> ss[i].numerator]
    <3>1. First(Numerators(ss), k) = [i \in 1 .. k |-> Numerators(ss)[i]]
      BY <1>2, <1>5 DEF First
    <3>2. \A i \in 1 .. k : Numerators(ss)[i] = ss[i].numerator
      BY <1>3, <2>2
    <3> QED
      BY <3>1, <3>2
  <2>6. First(Denominators(ss), k) = [i \in 1 .. k |-> ss[i].denominator]
    <3>1. First(Denominators(ss), k) = [i \in 1 .. k |-> Denominators(ss)[i]]
      BY <1>2, <1>6 DEF First
    <3>2. \A i \in 1 .. k : Denominators(ss)[i] = ss[i].denominator
      BY <1>4, <2>2
    <3> QED
      BY <3>1, <3>2
  <2> QED
    BY <2>3, <2>4, <2>5, <2>6 DEF t
<1>8. \A k \in 1 .. Len(ss) : /\ Numerators(ss)[k] = ss[k].numerator
                              /\ Denominators(ss)[k] = ss[k].denominator
  <2>1. \A k \in 1 .. Len(ss) : Numerators(ss)[k] = ss[k].numerator
    BY <1>3
  <2>2. \A k \in 1 .. Len(ss) : Denominators(ss)[k] = ss[k].denominator
    BY <1>4
  <2> QED
    BY <2>1, <2>2
<1> QED
  BY <1>5, <1>6, <1>7, <1>8

\* The running products of the numerators and denominators, stage by stage.
LEMMA RunningProducts ==
  ASSUME NEW ss \in Seq(Ratios)
  PROVE  LET P(k) == Product(Numerators(First(ss, k)))
             Q(k) == Product(Denominators(First(ss, k)))
         IN /\ P(0) = 1 /\ Q(0) = 1
            /\ P(Len(ss)) = Product(Numerators(ss)) /\ Q(Len(ss)) = Product(Denominators(ss))
            /\ \A k \in 0 .. Len(ss) : P(k) \in Positive /\ Q(k) \in Positive
            /\ \A k \in 1 .. Len(ss) : /\ P(k) = ss[k].numerator * P(k - 1)
                                       /\ Q(k) = ss[k].denominator * Q(k - 1)
<1> DEFINE n == Numerators(ss)
           d == Denominators(ss)
<1>1. /\ n \in Seq(Positive) /\ Len(n) = Len(ss) /\ d \in Seq(Positive) /\ Len(d) = Len(ss)
      /\ \A k \in 1 .. Len(ss) : n[k] = ss[k].numerator /\ d[k] = ss[k].denominator
      /\ \A k \in 0 .. Len(ss) : /\ Numerators(First(ss, k)) = First(n, k)
                                 /\ Denominators(First(ss, k)) = First(d, k)
  BY SidesOfFirst
<1>2. Len(ss) \in Nat
  OBVIOUS
<1> HIDE DEF n, d
<1>3. \A s \in Seq(Positive) :
         /\ Product(s) = Product(First(s, Len(s))) /\ Product(First(s, 0)) = 1
         /\ \A k \in 0 .. Len(s) : Product(First(s, k)) \in Positive
         /\ \A k \in 1 .. Len(s) : Product(First(s, k)) = s[k] * Product(First(s, k - 1))
  <2> SUFFICES ASSUME NEW s \in Seq(Positive)
               PROVE  /\ Product(s) = Product(First(s, Len(s))) /\ Product(First(s, 0)) = 1
                      /\ \A k \in 0 .. Len(s) : Product(First(s, k)) \in Positive
                      /\ \A k \in 1 .. Len(s) : Product(First(s, k)) = s[k] * Product(First(s, k - 1))
    OBVIOUS
  <2>1. s \in Seq(Nat) /\ \A k \in 0 .. Len(s) : First(s, k) \in Seq(Positive)
    BY PositiveSeq DEF First
  <2>2. \A k \in 0 .. Len(s) : Product(First(s, k)) \in Positive
    BY <2>1, ProductPositive
  <2> QED
    BY <2>1, <2>2, ProductOfFirst
<1>4. \A k \in 1 .. Len(ss) : k - 1 \in 0 .. Len(ss) /\ k \in 0 .. Len(ss)
  BY <1>2
<1>5. 0 \in 0 .. Len(ss) /\ Len(ss) \in 0 .. Len(ss)
  BY <1>2
<1>6. /\ Product(n) = Product(First(n, Len(ss))) /\ Product(First(n, 0)) = 1
      /\ \A k \in 0 .. Len(ss) : Product(First(n, k)) \in Positive
      /\ \A k \in 1 .. Len(ss) : Product(First(n, k)) = n[k] * Product(First(n, k - 1))
  BY <1>1, <1>3
<1>7. /\ Product(d) = Product(First(d, Len(ss))) /\ Product(First(d, 0)) = 1
      /\ \A k \in 0 .. Len(ss) : Product(First(d, k)) \in Positive
      /\ \A k \in 1 .. Len(ss) : Product(First(d, k)) = d[k] * Product(First(d, k - 1))
  BY <1>1, <1>3
<1> QED
  BY <1>1, <1>4, <1>5, <1>6, <1>7 DEF n, d

\* The whole ratio is a stage that will do.
LEMMA OneStage ==
  ASSUME NEW r \in Ratios
  PROVE  Converts(<<r>>, r) /\ Len(<<r>>) = 1
<1> DEFINE s == <<r>>
<1>1. s \in Seq(Ratios) /\ Len(s) = 1 /\ s[1] = r
  OBVIOUS
<1> HIDE DEF s
<1>2. /\ Product(Numerators(s)) = r.numerator * 1
      /\ Product(Denominators(s)) = r.denominator * 1
  BY <1>1, RunningProducts
<1>3. r.numerator \in Nat /\ r.denominator \in Nat
  BY DEF Ratios, Positive
<1>4. ~BadRatio(s, r)
  BY <1>1 DEF BadRatio
<1>5. Product(Numerators(s)) = r.numerator /\ Product(Denominators(s)) = r.denominator
  BY <1>2, <1>3
<1> QED
  BY <1>1, <1>4, <1>5 DEF Converts, s

Three(a, b, c, d, e, f) == Stage(a, b) \o Stage(c, d) \o Stage(e, f)

\* The stages multiply to r, and neither the first nor the first two leave the band.
KeepBand(a, b, c, d, e, f, r) ==
  /\ a \in Positive /\ b \in Positive /\ c \in Positive
  /\ d \in Positive /\ e \in Positive /\ f \in Positive
  /\ a * c * e = r.numerator /\ b * d * f = r.denominator
  /\ a >= b \/ a * r.denominator >= b * r.numerator
  /\ a * c >= b * d \/ (a * c) * r.denominator >= (b * d) * r.numerator

\* Three stages that keep to KeepBand will do.
LEMMA ThreeStages ==
  ASSUME NEW a, NEW b, NEW c, NEW d, NEW e, NEW f, NEW r \in Ratios,
         KeepBand(a, b, c, d, e, f, r)
  PROVE  Converts(Three(a, b, c, d, e, f), r)
<1> USE DEF KeepBand
<1> DEFINE s == Three(a, b, c, d, e, f)
<1>1. Frac(a, b) \in Ratios /\ Frac(c, d) \in Ratios /\ Frac(e, f) \in Ratios
  BY DEF Frac, Ratios
<1>2. \A x, y : Frac(x, y).numerator = x /\ Frac(x, y).denominator = y
  BY DEF Frac
<1>3. s \in Seq(Ratios) /\ Len(s) = 3 /\ s[1] = Frac(a, b) /\ s[2] = Frac(c, d) /\ s[3] = Frac(e, f)
  BY <1>1 DEF Three, Stage
<1> HIDE DEF s
<1> DEFINE P(k) == Product(Numerators(First(s, k)))
           Q(k) == Product(Denominators(First(s, k)))
<1>4. /\ P(0) = 1 /\ Q(0) = 1
      /\ P(3) = Product(Numerators(s)) /\ Q(3) = Product(Denominators(s))
      /\ \A k \in 1 .. 3 : P(k) = s[k].numerator * P(k - 1) /\ Q(k) = s[k].denominator * Q(k - 1)
  BY <1>3, RunningProducts
<1>5. P(1) = a * P(0) /\ P(2) = c * P(1) /\ P(3) = e * P(2)
  BY <1>2, <1>3, <1>4
<1>6. Q(1) = b * Q(0) /\ Q(2) = d * Q(1) /\ Q(3) = f * Q(2)
  BY <1>2, <1>3, <1>4
<1>7. P(1) = a /\ P(2) = a * c /\ P(3) = a * c * e
  BY <1>4, <1>5 DEF Positive
<1>8. Q(1) = b /\ Q(2) = b * d /\ Q(3) = b * d * f
  BY <1>4, <1>6 DEF Positive
<1>9. ~BadRatio(s, r)
  <2> SUFFICES ASSUME NEW k \in 1 .. Len(s) - 1,
                      P(k) < Q(k) /\ P(k) * r.denominator < Q(k) * r.numerator
               PROVE  FALSE
    BY DEF BadRatio
  <2>1. /\ r.denominator \in Nat /\ r.numerator \in Nat /\ a \in Nat /\ b \in Nat
        /\ a * c \in Nat /\ b * d \in Nat
    BY DEF Ratios, Positive
  <2>2. /\ a * r.denominator \in Nat /\ b * r.numerator \in Nat
        /\ (a * c) * r.denominator \in Nat /\ (b * d) * r.numerator \in Nat
    BY <2>1, TimesNat
  <2>3. k = 1 \/ k = 2
    BY <1>3
  <2>4. CASE k = 1
    <3> DEFINE x == a * r.denominator
               y == b * r.numerator
    <3>1. P(1) < Q(1) /\ P(1) * r.denominator < Q(1) * r.numerator
      BY <2>4
    <3>2. a < b /\ x < y
      BY <1>7, <1>8, <3>1
    <3>3. x \in Nat /\ y \in Nat /\ (a >= b \/ x >= y)
      BY <2>2
    <3> HIDE DEF x, y, P, Q
    <3> QED
      BY <2>1, <3>2, <3>3
  <2>5. CASE k = 2
    <3> DEFINE x == a * c
               y == b * d
    <3>1. P(2) < Q(2) /\ P(2) * r.denominator < Q(2) * r.numerator
      BY <2>5
    <3>2. P(2) = x /\ Q(2) = y
      BY <1>7, <1>8
    <3>3. x \in Nat /\ y \in Nat /\ x * r.denominator \in Nat /\ y * r.numerator \in Nat
      BY <2>1, <2>2
    <3>4. x >= y \/ x * r.denominator >= y * r.numerator
      OBVIOUS
    <3> HIDE DEF x, y, P, Q
    <3>5. x < y /\ x * r.denominator < y * r.numerator
      BY <3>1, <3>2
    <3> QED
      BY <3>3, <3>4, <3>5
  <2> QED
    BY <2>3, <2>4, <2>5
<1>10. Product(Numerators(s)) = r.numerator /\ Product(Denominators(s)) = r.denominator
  BY <1>4, <1>7, <1>8
<1> QED
  BY <1>3, <1>9, <1>10 DEF Converts, s

\* The numbers the presets are made of.
LEMMA SmallNumbersPositive == 1 .. 640 \subseteq Positive
BY DEF Positive

\* Every preset converts by the ratio it is for.
LEMMA PresetsConvert == \A r \in Ratios : \A p \in Preset(r) : Converts(p, r)
<1> SUFFICES ASSUME NEW r \in Ratios, NEW q \in presetList, q[1] = r
             PROVE  Converts(q[2], r)
  BY DEF Preset
<1>0. \A x, y : Frac(x, y).numerator = x /\ Frac(x, y).denominator = y
  BY DEF Frac
<1>1. CASE q = <<Frac(5, 147), Stage(1, 3) \o Stage(1, 7) \o Stage(5, 7)>>
  <2>1. r.numerator = 5 /\ r.denominator = 147 /\ q[2] = Three(1, 3, 1, 7, 5, 7)
    BY <1>0, <1>1 DEF Three
  <2>2. KeepBand(1, 3, 1, 7, 5, 7, r)
    BY <2>1, SmallNumbersPositive DEF KeepBand
  <2> QED
    BY <2>1, <2>2, ThreeStages
<1>2. CASE q = <<Frac(147, 40), Stage(3, 2) \o Stage(7, 2) \o Stage(7, 10)>>
  <2>1. r.numerator = 147 /\ r.denominator = 40 /\ q[2] = Three(3, 2, 7, 2, 7, 10)
    BY <1>0, <1>2 DEF Three
  <2>2. KeepBand(3, 2, 7, 2, 7, 10, r)
    BY <2>1, SmallNumbersPositive DEF KeepBand
  <2> QED
    BY <2>1, <2>2, ThreeStages
<1>3. CASE q = <<Frac(147, 80), Stage(3, 2) \o Stage(7, 4) \o Stage(7, 10)>>
  <2>1. r.numerator = 147 /\ r.denominator = 80 /\ q[2] = Three(3, 2, 7, 4, 7, 10)
    BY <1>0, <1>3 DEF Three
  <2>2. KeepBand(3, 2, 7, 4, 7, 10, r)
    BY <2>1, SmallNumbersPositive DEF KeepBand
  <2> QED
    BY <2>1, <2>2, ThreeStages
<1>4. CASE q = <<Frac(147, 160), Stage(3, 2) \o Stage(7, 8) \o Stage(7, 10)>>
  <2>1. r.numerator = 147 /\ r.denominator = 160 /\ q[2] = Three(3, 2, 7, 8, 7, 10)
    BY <1>0, <1>4 DEF Three
  <2>2. KeepBand(3, 2, 7, 8, 7, 10, r)
    BY <2>1, SmallNumbersPositive DEF KeepBand
  <2> QED
    BY <2>1, <2>2, ThreeStages
<1>5. CASE q = <<Frac(147, 320), Stage(3, 5) \o Stage(7, 8) \o Stage(7, 8)>>
  <2>1. r.numerator = 147 /\ r.denominator = 320 /\ q[2] = Three(3, 5, 7, 8, 7, 8)
    BY <1>0, <1>5 DEF Three
  <2>2. KeepBand(3, 5, 7, 8, 7, 8, r)
    BY <2>1, SmallNumbersPositive DEF KeepBand
  <2> QED
    BY <2>1, <2>2, ThreeStages
<1>6. CASE q = <<Frac(147, 640), Stage(3, 5) \o Stage(7, 8) \o Stage(7, 16)>>
  <2>1. r.numerator = 147 /\ r.denominator = 640 /\ q[2] = Three(3, 5, 7, 8, 7, 16)
    BY <1>0, <1>6 DEF Three
  <2>2. KeepBand(3, 5, 7, 8, 7, 16, r)
    BY <2>1, SmallNumbersPositive DEF KeepBand
  <2> QED
    BY <2>1, <2>2, ThreeStages
<1>7. CASE q = <<Frac(4, 1), Stage(4, 1)>>
  <2>1. q[2] = <<r>>
    BY <1>7 DEF Stage
  <2> QED
    BY <2>1, OneStage
<1>8. \/ q = <<Frac(5, 147), Stage(1, 3) \o Stage(1, 7) \o Stage(5, 7)>>
      \/ q = <<Frac(147, 40), Stage(3, 2) \o Stage(7, 2) \o Stage(7, 10)>>
      \/ q = <<Frac(147, 80), Stage(3, 2) \o Stage(7, 4) \o Stage(7, 10)>>
      \/ q = <<Frac(147, 160), Stage(3, 2) \o Stage(7, 8) \o Stage(7, 10)>>
      \/ q = <<Frac(147, 320), Stage(3, 5) \o Stage(7, 8) \o Stage(7, 8)>>
      \/ q = <<Frac(147, 640), Stage(3, 5) \o Stage(7, 8) \o Stage(7, 16)>>
      \/ q = <<Frac(4, 1), Stage(4, 1)>>
  BY Zenon DEF presetList
<1> QED
  BY <1>1, <1>2, <1>3, <1>4, <1>5, <1>6, <1>7, <1>8, Zenon

Tried(r, n, f) ==
  [k \in 0 .. n |->
     IF k = 0 THEN <<>>
     ELSE LET solutions == getConversionStageCandidates(r, k)
          IN IF solutions = {} THEN f[k - 1] ELSE Best(solutions)]

\* The search with fewer and fewer stages ends with stages that convert by the ratio.
LEMMA AttemptsConvert ==
  ASSUME NEW r \in Ratios, NEW n \in Positive
  PROVE  Converts(attempts(r, n), r) /\ Len(attempts(r, n)) <= n
<1> DEFINE D == 0 .. n
           C == Seq(Ratios)
           mu == [k \in D |-> k]
           G == [f \in [D -> C] |-> Tried(r, n, f)]
           from == CHOOSE f : f = Tried(r, n, f)
           try(k) == getConversionStageCandidates(r, k)
           e(k, f) == IF k = 0 THEN <<>> ELSE IF try(k) = {} THEN f[k - 1] ELSE Best(try(k))
<1>0. n \in Nat /\ n # 0
  BY DEF Positive
<1>1. attempts(r, n) = from[n]
  BY DEF attempts, Tried
<1>2. \A f : Tried(r, n, f) = [k \in D |-> e(k, f)]
  BY DEF Tried
<1>3. ASSUME NEW k \in Positive, try(k) # {}
      PROVE  Converts(Best(try(k)), r) /\ Len(Best(try(k))) <= k /\ Best(try(k)) \in C
  <2>1. Best(try(k)) \in try(k)
    BY <1>3, BestIsCandidate
  <2>2. PICK j \in 1 .. k : \A g \in try(k) : Len(g) = j /\ Converts(g, r)
    BY CandidatesConvert
  <2>3. Len(Best(try(k))) = j /\ Converts(Best(try(k)), r)
    BY <2>1, <2>2
  <2> QED
    BY <2>2, <2>3 DEF Converts, Positive
<1>4. try(1) # {}
  BY CandidatesConvert DEF Positive
<1> HIDE DEF try
<1>5. \A k \in D : k # 0 => k \in Positive /\ k - 1 \in D
  BY <1>0 DEF Positive
<1>6. ASSUME NEW f \in [D -> C] PROVE Tried(r, n, f) \in [D -> C]
  <2>1. ASSUME NEW k \in D PROVE e(k, f) \in C
    <3>1. CASE k = 0
      BY <3>1
    <3>2. CASE k # 0
      <4>1. f[k - 1] \in C
        BY <1>5, <3>2
      <4> QED
        BY <1>3, <1>5, <3>2, <4>1
    <3> QED
      BY <3>1, <3>2
  <2> HIDE DEF e, D, C
  <2> QED
    BY <1>2, <2>1
<1>7. Descends(D, C, mu, G)
  <2> SUFFICES ASSUME NEW x \in D, NEW f \in [D -> C], NEW g \in [D -> C],
                      \A y \in D : mu[y] < mu[x] => f[y] = g[y]
               PROVE  Tried(r, n, f)[x] = Tried(r, n, g)[x]
    <3>1. \A f \in [D -> C] : G[f] = Tried(r, n, f)
      OBVIOUS
    <3> HIDE DEF G, D, C, mu
    <3> QED
      BY <3>1 DEF Descends
  <2>1. Tried(r, n, f)[x] = e(x, f) /\ Tried(r, n, g)[x] = e(x, g)
    <3> HIDE DEF e, D
    <3> QED
      BY <1>2
  <2>2. CASE x = 0
    BY <2>1, <2>2
  <2>3. CASE x # 0
    <3>1. x - 1 \in D /\ mu[x - 1] < mu[x]
      BY <1>5, <2>3
    <3>2. f[x - 1] = g[x - 1]
      BY <3>1
    <3> QED
      BY <2>1, <2>3, <3>2
  <2> QED
    BY <2>2, <2>3
<1>8. Recursion(D, C, mu, G)
  <2>1. mu \in [D -> Nat] /\ <<>> \in C /\ G \in [[D -> C] -> [D -> C]]
    BY <1>0, <1>6
  <2> HIDE DEF D, C, mu, G
  <2> QED
    BY <1>7, <2>1 DEF Recursion
<1>9. PICK f \in [D -> C] : f = G[f]
  <2> HIDE DEF G, C, D, mu
  <2> QED
    BY <1>8, RecursionExists
<1>10. f = Tried(r, n, f)
  BY <1>9
<1>11. from = Tried(r, n, from)
  BY <1>10
<1> HIDE DEF from
<1>12. \A k \in D : from[k] = e(k, from)
  <2> HIDE DEF e, D
  <2> QED
    BY <1>2, <1>11
<1> DEFINE S == {k \in Nat : k + 1 <= n => Converts(from[k + 1], r) /\ Len(from[k + 1]) <= k + 1}
<1>13. 0 \in S
  <2>1. 1 \in D /\ 1 \in Positive
    BY <1>0 DEF Positive
  <2>2. from[1] = Best(try(1))
    BY <1>4, <1>12, <2>1
  <2>3. Converts(from[1], r) /\ Len(from[1]) <= 1
    BY <1>3, <1>4, <2>1, <2>2
  <2> QED
    BY <2>3
<1>14. ASSUME NEW k \in Nat, k \in S PROVE k + 1 \in S
  <2> DEFINE j == k + 2
  <2> SUFFICES ASSUME j <= n PROVE Converts(from[j], r) /\ Len(from[j]) <= j
    OBVIOUS
  <2>1. j \in D /\ j # 0 /\ j - 1 = k + 1 /\ k + 1 <= n /\ j \in Positive /\ k + 1 \in Nat
    BY <1>0 DEF Positive
  <2>2. Converts(from[k + 1], r) /\ Len(from[k + 1]) <= k + 1 /\ Len(from[k + 1]) \in Nat
    BY <1>14, <2>1 DEF Converts
  <2> HIDE DEF j
  <2>3. CASE try(j) = {}
    <3>1. from[j] = from[k + 1]
      BY <1>12, <2>1, <2>3
    <3> QED
      BY <2>1, <2>2, <3>1 DEF j
  <2>4. CASE try(j) # {}
    <3>1. from[j] = Best(try(j))
      BY <1>12, <2>1, <2>4
    <3> QED
      BY <1>3, <2>1, <2>4, <3>1
  <2> QED
    BY <2>3, <2>4
<1> HIDE DEF S
<1>15. Nat \subseteq S
  BY <1>13, <1>14, InductiveSet
<1>16. n - 1 \in Nat /\ (n - 1) + 1 = n /\ n <= n
  BY <1>0
<1>17. Converts(from[n], r) /\ Len(from[n]) <= n
  <2>1. n - 1 \in S
    BY <1>15, <1>16
  <2> QED
    BY <1>16, <2>1 DEF S
<1> QED
  BY <1>1, <1>17

\* The stages that initMultistage is given convert by the ratio.
LEMMA StagesConvert ==
  ASSUME NEW r \in Ratios, NEW n \in 1 .. 10
  PROVE  /\ Converts(getConversionStages(r, n), r)
         /\ Preset(r) = {} => Len(getConversionStages(r, n)) <= n
<1>1. CASE n <= 1
  <2>1. n = 1 /\ getConversionStages(r, n) = <<r>>
    BY <1>1 DEF getConversionStages
  <2>2. Converts(<<r>>, r) /\ Len(<<r>>) = 1
    BY OneStage
  <2> DEFINE s == <<r>>
  <2> HIDE DEF s
  <2>3. getConversionStages(r, n) = s /\ Converts(s, r) /\ Len(s) = 1 /\ n = 1
    BY <2>1, <2>2 DEF s
  <2> QED
    BY <2>3
<1>2. CASE ~(n <= 1) /\ Preset(r) # {}
  <2>1. getConversionStages(r, n) = CHOOSE p \in Preset(r) : TRUE
    BY <1>2 DEF getConversionStages
  <2>2. PICK p \in Preset(r) : TRUE
    BY <1>2
  <2>3. (CHOOSE q \in Preset(r) : TRUE) \in Preset(r)
    BY <2>2, Zenon
  <2>4. Converts(getConversionStages(r, n), r)
    BY <2>1, <2>3, PresetsConvert
  <2> QED
    BY <1>2, <2>4
<1>3. CASE ~(n <= 1) /\ Preset(r) = {}
  <2>1. getConversionStages(r, n) = attempts(r, n) /\ n \in Positive
    BY <1>3 DEF getConversionStages, Positive
  <2> QED
    BY <2>1, AttemptsConvert
<1> QED
  BY <1>1, <1>2, <1>3
-------------------------------------------------------------------------------
(***************************************************************************)
(* The plan of the stages, which is made once.                             *)
(***************************************************************************)
PlanOK ==
  /\ ci.inputRate \in Positive /\ ci.outputRate \in Positive
  /\ Converts(fractions, ratio)
  /\ isMultistage /\ Preset(ratio) = {} => numStages <= ci.maxStages

\* The ratio of two sample rates has positive sides.
LEMMA RatioPositive ==
  ASSUME ci.inputRate \in Positive, ci.outputRate \in Positive
  PROVE  ratio \in Ratios
<1> DEFINE r == getFractionFromSamplerates(ci.inputRate, ci.outputRate)
<1>1. r.numerator \in Positive /\ r.denominator \in Positive
  BY RatioOfRates
<1>2. \E a, b : r = Frac(a, b)
  BY DEF getFractionFromSamplerates
<1>3. PICK a, b : r = Frac(a, b)
  BY <1>2
<1>4. \A x, y : Frac(x, y).numerator = x /\ Frac(x, y).denominator = y
  BY DEF Frac
<1>5. a \in Positive /\ b \in Positive
  BY <1>1, <1>3, <1>4
<1>6. \A x, y \in Positive : Frac(x, y) \in Ratios
  BY DEF Frac, Ratios
<1> QED
  BY <1>3, <1>5, <1>6 DEF ratio

\* The constructor makes such a plan.
LEMMA PlanInit == Init => PlanOK
<1> SUFFICES ASSUME Init PROVE PlanOK
  OBVIOUS
<1>1. PICK p \in RatePairs : ci.inputRate = p[1] /\ ci.outputRate = p[2]
  BY DEF Init
<1>2. ci.inputRate \in Positive /\ ci.outputRate \in Positive
  BY <1>1, ConverterAssumption DEF Positive
<1>3. ci.maxStages \in 1 .. 10
  BY ConverterAssumption DEF Init
<1>4. ratio \in Ratios
  BY <1>2, RatioPositive
<1>5. fractions = IF isMultistage THEN getConversionStages(ratio, ci.maxStages) ELSE <<ratio>>
  BY DEF Init
<1>6. CASE isMultistage
  BY <1>2, <1>3, <1>4, <1>5, <1>6, StagesConvert DEF PlanOK, numStages
<1>7. CASE ~isMultistage
  BY <1>2, <1>4, <1>5, <1>7, OneStage DEF PlanOK, numStages
<1> QED
  BY <1>6, <1>7

\* No step changes the plan.
LEMMA PlanRests == [Next]_vars => UNCHANGED plan
BY DEF Next, Convert, reset, vars

\* A plan that is not changed stays good.
LEMMA PlanStep == PlanOK /\ UNCHANGED plan => PlanOK'
<1> SUFFICES ASSUME PlanOK, UNCHANGED plan PROVE PlanOK'
  OBVIOUS
<1>1. ci' = ci /\ fractions' = fractions
  BY DEF plan
<1>2. ratio' = ratio /\ isMultistage' = isMultistage /\ numStages' = numStages
  BY <1>1 DEF ratio, isMultistage, isBypassMode, numStages
<1> QED
  BY <1>1, <1>2 DEF PlanOK

\* So the plan is good at all times.
LEMMA PlanInvariant == Spec => []PlanOK
<1>1. Init => PlanOK
  BY PlanInit
<1>2. PlanOK /\ [Next]_vars => PlanOK'
  BY PlanRests, PlanStep
<1> QED
  BY <1>1, <1>2, PTL DEF Spec

\* For every pair of sample rates and every limit on the number of stages, the search
\* ends with stages, no more than asked for: the last element of an empty vector is
\* never read in getConversionStages.
THEOREM SearchAlwaysSucceeds == Spec => []SearchSucceeds
<1>1. PlanOK => SearchSucceeds
  <2> SUFFICES ASSUME PlanOK PROVE SearchSucceeds
    OBVIOUS
  <2>1. fractions # <<>>
    BY DEF PlanOK, Converts
  <2> QED
    BY <2>1 DEF PlanOK, SearchSucceeds
<1> QED
  BY <1>1, PlanInvariant, PTL

\* For every pair of sample rates, no stage but the last brings the rate below both the
\* input's and the output's.
THEOREM BandAlwaysSurvives == Spec => []BandSurvives
<1>1. PlanOK => BandSurvives
  <2> SUFFICES ASSUME PlanOK, NEW k \in 1 .. numStages - 1
               PROVE  LET n == Product(Numerators(First(fractions, k)))
                          d == Product(Denominators(First(fractions, k)))
                      IN n >= d \/ n * ratio.denominator >= d * ratio.numerator
    BY DEF BandSurvives
  <2> DEFINE n == Product(Numerators(First(fractions, k)))
             d == Product(Denominators(First(fractions, k)))
  <2>1. ratio \in Ratios /\ fractions \in Seq(Ratios) /\ ~BadRatio(fractions, ratio)
    BY RatioPositive DEF PlanOK, Converts
  <2>2. k \in 0 .. Len(fractions) /\ k \in 1 .. Len(fractions) - 1
    BY <2>1 DEF numStages
  <2>3. n \in Positive /\ d \in Positive
    BY <2>1, <2>2, RunningProducts
  <2>4. ~(n < d /\ n * ratio.denominator < d * ratio.numerator)
    BY <2>1, <2>2 DEF BadRatio
  <2>5. ratio.denominator \in Nat /\ ratio.numerator \in Nat
    BY <2>1 DEF Ratios, Positive
  <2> HIDE DEF n, d
  <2>6. n * ratio.denominator \in Nat /\ d * ratio.numerator \in Nat /\ n \in Nat /\ d \in Nat
    BY <2>3, <2>5, TimesNat DEF Positive
  <2>7. n >= d \/ n * ratio.denominator >= d * ratio.numerator
    BY <2>4, <2>6
  <2> QED
    BY <2>7 DEF n, d
<1> QED
  BY <1>1, PlanInvariant, PTL
-------------------------------------------------------------------------------
(***************************************************************************)
(* The samples after each stage.                                           *)
(***************************************************************************)
\* What the index owes until it comes round.
Owed(p, d) == IF p = 0 THEN 0 ELSE d - p

StageEven(k) ==
  /\ m[k] \in 0 .. M(k) - 1
  /\ made[k] * M(k) = made[k - 1] * L(k) + Owed(m[k], M(k))

CascadeInv ==
  /\ PlanOK
  /\ m = [k \in 1 .. numStages |-> m[k]]
  /\ made \in [0 .. numStages -> Nat]
  /\ \A k \in 1 .. numStages : StageEven(k)

\* Arithmetic of products, spelled out for the prover.
LEMMA Distributes ==
  ASSUME NEW a \in Int, NEW b \in Int, NEW d \in Int
  PROVE  /\ a * d \in Int /\ (a + b) * d = a * d + b * d /\ (a - b) * d = a * d - b * d
         /\ a * d = d * a
OBVIOUS

\* A factor keeps the order.
LEMMA TimesMonotone ==
  ASSUME NEW a \in Int, NEW b \in Int, NEW d \in Nat, a <= b
  PROVE  a * d <= b * d
<1>1. (b - a) \in Nat
  OBVIOUS
<1>2. (b - a) * d \in Nat
  BY <1>1, TimesNat
<1>3. (b - a) * d = b * d - a * d /\ a * d \in Int /\ b * d \in Int
  BY Distributes
<1> QED
  BY <1>2, <1>3

\* There is only one multiple of d in d numbers in a row.
LEMMA OneMultiple ==
  ASSUME NEW a \in Int, NEW b \in Int, NEW d \in Positive, NEW x \in Int,
         x <= a * d, a * d < x + d, x <= b * d, b * d < x + d
  PROVE  a = b
<1>0. d \in Nat /\ d \in Int /\ a * d \in Int /\ b * d \in Int
  BY Distributes DEF Positive
<1>1. ASSUME NEW y \in Int, NEW z \in Int, y < z, x <= y * d, z * d < x + d PROVE FALSE
  <2>1. (y + 1) * d <= z * d
    BY <1>0, <1>1, TimesMonotone
  <2>2. (y + 1) * d = y * d + 1 * d /\ y * d \in Int /\ z * d \in Int
    BY <1>0, Distributes
  <2> QED
    BY <1>0, <1>1, <2>1, <2>2
<1> QED
  BY <1>1

\* Division with a remainder, the quotient first.
LEMMA IntDivMod ==
  ASSUME NEW a \in Nat, NEW d \in Positive
  PROVE  /\ a \div d \in Nat /\ a % d \in 0 .. d - 1
         /\ a = (a \div d) * d + (a % d)
<1>1. a \div d \in Nat /\ a % d \in 0 .. d - 1 /\ a = d * (a \div d) + (a % d)
  BY DivMod DEF Positive
<1>2. d * (a \div d) = (a \div d) * d
  BY <1>1, Distributes DEF Positive
<1> QED
  BY <1>1, <1>2

\* Rounding up: the only multiple in reach.
LEMMA CeilDivOf ==
  ASSUME NEW x \in Int, NEW d \in Positive, x + d - 1 >= 0
  PROVE  /\ CeilDiv(x, d) \in Nat
         /\ x <= CeilDiv(x, d) * d /\ CeilDiv(x, d) * d < x + d
<1> DEFINE y == x + d - 1
           q == y \div d
<1>1. y \in Nat /\ d \in Nat /\ d >= 1
  BY DEF Positive
<1>2. CeilDiv(x, d) = q
  BY DEF CeilDiv
<1>3. q \in Nat /\ y % d \in 0 .. d - 1 /\ y = q * d + (y % d)
  <2> HIDE DEF y
  <2> QED
    BY <1>1, IntDivMod
<1>4. q * d \in Int
  BY <1>1, <1>3, Distributes
<1>5. y = x + d - 1
  OBVIOUS
<1> HIDE DEF q, y
<1> QED
  BY <1>1, <1>2, <1>3, <1>4, <1>5

\* n more samples, through a stage that multiplies by a and divides by d: the index and
\* the outputs stay in step.
LEMMA OneBlock ==
  ASSUME NEW p, NEW n \in Nat, NEW a \in Positive, NEW d \in Positive, p \in 0 .. d - 1
  PROVE  LET q == CeilDiv(n * a - Owed(p, d), d)
             r == (p + n * a) % d
         IN /\ q \in Nat /\ r \in 0 .. d - 1
            /\ q * d = n * a + Owed(r, d) - Owed(p, d)
<1> DEFINE y == n * a
           x == y - Owed(p, d)
           q == CeilDiv(x, d)
           z == p + y
           t == z \div d
           r == z % d
           s == t + (IF r = 0 THEN 0 ELSE 1) - (IF p = 0 THEN 0 ELSE 1)
<1>1. d \in Nat /\ d >= 1 /\ p \in Nat /\ p < d
  BY DEF Positive
<1>2. y \in Nat
  BY TimesNat DEF Positive
<1> HIDE DEF y
<1>3. x \in Int /\ x + d - 1 >= 0 /\ z \in Nat
  BY <1>1, <1>2 DEF Owed
<1>4. q \in Nat /\ x <= q * d /\ q * d < x + d
  <2> HIDE DEF x
  <2> QED
    BY <1>3, CeilDivOf
<1>5. t \in Nat /\ r \in 0 .. d - 1 /\ z = t * d + r
  <2> HIDE DEF z
  <2> QED
    BY <1>3, IntDivMod
<1> HIDE DEF t, r, q
<1>6. s \in Int /\ t * d \in Int
  BY <1>1, <1>5, Distributes
<1>7. s * d = x + Owed(r, d)
  <2>1. (t + 1) * d = t * d + d /\ (t - 1) * d = t * d - d
    BY <1>1, <1>5, Distributes
  <2>2. CASE r = 0 /\ p = 0
    <3>1. s = t
      BY <1>5, <2>2
    <3> QED
      BY <1>2, <1>5, <1>6, <2>2, <3>1 DEF Owed
  <2>3. CASE r # 0 /\ p # 0
    <3>1. s = t
      BY <1>5, <2>3
    <3>2. x = y - (d - p) /\ Owed(r, d) = d - r /\ z = p + y
      BY <2>3 DEF Owed
    <3> HIDE DEF x, z, s
    <3> QED
      BY <1>1, <1>2, <1>5, <1>6, <3>1, <3>2
  <2>4. CASE r = 0 /\ p # 0
    <3>1. s = t - 1
      BY <1>5, <2>4
    <3>2. x = y - (d - p) /\ Owed(r, d) = 0 /\ z = p + y
      BY <2>4 DEF Owed
    <3> HIDE DEF x, z, s
    <3> QED
      BY <1>1, <1>2, <1>5, <1>6, <2>1, <2>4, <3>1, <3>2
  <2>5. CASE r # 0 /\ p = 0
    <3>1. s = t + 1
      BY <1>5, <2>5
    <3>2. x = y - 0 /\ Owed(r, d) = d - r /\ z = p + y
      BY <2>5 DEF Owed
    <3> HIDE DEF x, z, s
    <3> QED
      BY <1>1, <1>2, <1>5, <1>6, <2>1, <2>5, <3>1, <3>2
  <2> QED
    BY <2>2, <2>3, <2>4, <2>5
<1>8. Owed(r, d) \in 0 .. d - 1
  BY <1>1, <1>5 DEF Owed
<1> HIDE DEF s, x
<1>9. x <= s * d /\ s * d < x + d
  BY <1>1, <1>3, <1>7, <1>8
<1>10. s = q
  BY <1>3, <1>4, <1>6, <1>9, OneMultiple
<1>11. q * d = y + Owed(r, d) - Owed(p, d)
  <2>1. x = y - Owed(p, d) /\ Owed(p, d) \in Int
    BY <1>1 DEF x, Owed
  <2> QED
    BY <1>2, <1>7, <1>8, <1>10, <2>1
<1> QED
  BY <1>4, <1>5, <1>11 DEF q, r, x, y

\* The factors of the stages are positive.
LEMMA StageFactors ==
  ASSUME PlanOK
  PROVE  /\ numStages \in Positive /\ ratio \in Ratios
         /\ overSamplingFactor \in Positive
         /\ \A k \in 1 .. numStages :
              /\ fractions[k].numerator \in Positive /\ fractions[k].denominator \in Positive
              /\ L(k) \in Positive /\ M(k) \in Positive
<1>1. fractions \in Seq(Ratios) /\ Len(fractions) # 0 /\ ratio \in Ratios
  BY RatioPositive DEF PlanOK, Converts
<1>2. overSamplingFactor \in Positive
  BY DEF overSamplingFactor, Positive
<1>3. \A r \in Ratios : r.numerator \in Positive /\ r.denominator \in Positive
  BY DEF Ratios
<1>4. \A k \in 1 .. numStages : fractions[k] \in Ratios
  BY <1>1 DEF numStages
<1>5. \A a, b \in Positive : a * b \in Positive
  BY TimesNat DEF Positive
<1>6. \A k \in 1 .. numStages :
        fractions[k].numerator \in Positive /\ fractions[k].denominator \in Positive
  BY <1>3, <1>4
<1>7. \A k \in 1 .. numStages : L(k) \in Positive /\ M(k) \in Positive
  BY <1>2, <1>5, <1>6 DEF L, M
<1>8. numStages \in Positive
  BY <1>1 DEF numStages, Positive
<1> QED
  BY <1>1, <1>2, <1>6, <1>7, <1>8

Sizes(n, f) == [k \in 0 .. numStages |-> IF k = 0 THEN n ELSE Outputs(k, f[k - 1])]

\* What each stage makes of a block is a number of samples, and keeps the stage in step.
LEMMA SizesExist ==
  ASSUME CascadeInv, NEW n \in Nat
  PROVE  LET size == CHOOSE f : f = Sizes(n, f)
         IN /\ size \in [0 .. numStages -> Nat] /\ size[0] = n
            /\ \A k \in 1 .. numStages : size[k] = Outputs(k, size[k - 1])
<1> DEFINE D == 0 .. numStages
           mu == [k \in D |-> k]
           G == [f \in [D -> Nat] |-> Sizes(n, f)]
           e(k, f) == IF k = 0 THEN n ELSE Outputs(k, f[k - 1])
           size == CHOOSE f : f = Sizes(n, f)
<1>0. PlanOK /\ \A k \in 1 .. numStages : m[k] \in 0 .. M(k) - 1
  BY DEF CascadeInv, StageEven
<1>1. numStages \in Nat /\ \A k \in D : k # 0 => k - 1 \in D /\ k \in 1 .. numStages
  BY <1>0, StageFactors DEF Positive
<1>2. \A f : Sizes(n, f) = [k \in D |-> e(k, f)]
  BY DEF Sizes
<1>3. ASSUME NEW k \in 1 .. numStages, NEW c \in Nat PROVE Outputs(k, c) \in Nat
  <2>1. L(k) \in Positive /\ M(k) \in Positive /\ m[k] \in 0 .. M(k) - 1
    BY <1>0, StageFactors
  <2>2. Outputs(k, c) = CeilDiv(c * L(k) - Owed(m[k], M(k)), M(k))
    BY DEF Outputs, Owed
  <2> QED
    BY <2>1, <2>2, OneBlock
<1>4. ASSUME NEW f \in [D -> Nat] PROVE Sizes(n, f) \in [D -> Nat]
  <2>1. \A k \in D : e(k, f) \in Nat
    BY <1>1, <1>3
  <2> HIDE DEF e, D
  <2> QED
    BY <1>2, <2>1
<1>5. Descends(D, Nat, mu, G)
  <2> SUFFICES ASSUME NEW x \in D, NEW f \in [D -> Nat], NEW g \in [D -> Nat],
                      \A y \in D : mu[y] < mu[x] => f[y] = g[y]
               PROVE  Sizes(n, f)[x] = Sizes(n, g)[x]
    <3>1. \A f \in [D -> Nat] : G[f] = Sizes(n, f)
      OBVIOUS
    <3> HIDE DEF G, D, mu
    <3> QED
      BY <3>1 DEF Descends
  <2>1. Sizes(n, f)[x] = e(x, f) /\ Sizes(n, g)[x] = e(x, g)
    <3> HIDE DEF e, D
    <3> QED
      BY <1>2
  <2>2. CASE x = 0
    BY <2>1, <2>2
  <2>3. CASE x # 0
    <3>1. x - 1 \in D /\ mu[x - 1] < mu[x]
      BY <1>1, <2>3
    <3>2. f[x - 1] = g[x - 1]
      BY <3>1
    <3> QED
      BY <2>1, <2>3, <3>2
  <2> QED
    BY <2>2, <2>3
<1>6. Recursion(D, Nat, mu, G)
  <2>1. mu \in [D -> Nat] /\ Nat # {} /\ G \in [[D -> Nat] -> [D -> Nat]]
    BY <1>1, <1>4
  <2> HIDE DEF D, mu, G
  <2> QED
    BY <1>5, <2>1 DEF Recursion
<1>7. PICK f \in [D -> Nat] : f = G[f]
  <2> HIDE DEF G, D, mu
  <2> QED
    BY <1>6, RecursionExists
<1>8. f = Sizes(n, f)
  BY <1>7
<1>9. size = Sizes(n, size)
  BY <1>8
<1> HIDE DEF size
<1>10. \A k \in D : size[k] = e(k, size)
  <2> HIDE DEF e, D
  <2> QED
    BY <1>2, <1>9
<1> DEFINE S == {k \in Nat : k <= numStages => size[k] \in Nat}
<1>11. 0 \in S
  BY <1>1, <1>10
<1>12. ASSUME NEW k \in Nat, k \in S PROVE k + 1 \in S
  <2> SUFFICES ASSUME k + 1 <= numStages PROVE size[k + 1] \in Nat
    OBVIOUS
  <2>1. k + 1 \in D /\ k + 1 \in 1 .. numStages /\ (k + 1) - 1 = k /\ k + 1 # 0 /\ size[k] \in Nat
    BY <1>1, <1>12
  <2>2. size[k + 1] = Outputs(k + 1, size[k])
    BY <1>10, <2>1
  <2> QED
    BY <1>3, <2>1, <2>2
<1> HIDE DEF S
<1>13. Nat \subseteq S
  BY <1>11, <1>12, InductiveSet
<1>14. \A k \in D : size[k] \in Nat
  <2>1. \A k \in D : k \in Nat /\ k <= numStages
    BY <1>1
  <2> QED
    BY <1>13, <2>1 DEF S
<1>15. size \in [D -> Nat]
  <2>1. size = [k \in D |-> e(k, size)]
    BY <1>2, <1>9
  <2> HIDE DEF e, D
  <2> QED
    BY <1>10, <1>14, <2>1
<1>16. size[0] = n
  BY <1>1, <1>10
<1>17. \A k \in 1 .. numStages : size[k] = Outputs(k, size[k - 1])
  BY <1>1, <1>10
<1> QED
  BY <1>15, <1>16, <1>17 DEF size

\* While the plan rests, so do the factors.
LEMMA FactorsRest ==
  ASSUME UNCHANGED plan
  PROVE  /\ numStages' = numStages /\ ratio' = ratio
         /\ \A k \in 1 .. numStages : L(k)' = L(k) /\ M(k)' = M(k)
<1>1. ci' = ci /\ fractions' = fractions
  BY DEF plan
<1> QED
  BY <1>1 DEF numStages, ratio, L, M, overSamplingFactor, isMultistage, isBypassMode

\* A block, whatever its size, keeps every stage in step.
LEMMA CascadeConverts ==
  ASSUME CascadeInv, NEW n \in BlockSizes, Convert(n)
  PROVE  CascadeInv'
<1> DEFINE size == CHOOSE f : f = Sizes(n, f)
<1>0. n \in Nat
  BY ConverterAssumption
<1>1. /\ size \in [0 .. numStages -> Nat] /\ size[0] = n
      /\ \A k \in 1 .. numStages : size[k] = Outputs(k, size[k - 1])
  BY <1>0, SizesExist
<1>2. /\ made' = [k \in 0 .. numStages |-> made[k] + size[k]]
      /\ m' = [k \in 1 .. numStages |-> (m[k] + size[k - 1] * L(k)) % M(k)]
      /\ UNCHANGED plan
  BY DEF Convert, Sizes
<1> HIDE DEF size
<1>3. /\ PlanOK /\ made \in [0 .. numStages -> Nat]
      /\ \A k \in 1 .. numStages : StageEven(k)
  BY DEF CascadeInv
<1>4. /\ numStages' = numStages
      /\ \A k \in 1 .. numStages : L(k)' = L(k) /\ M(k)' = M(k)
  BY <1>2, FactorsRest
<1>5. numStages \in Nat
  BY <1>3, StageFactors DEF Positive
<1>6. ASSUME NEW k \in 1 .. numStages PROVE StageEven(k)'
  <2> DEFINE j == k - 1
  <2>1. j \in 0 .. numStages /\ k \in 0 .. numStages
    BY <1>5
  <2>2. /\ made[k] \in Nat /\ made[j] \in Nat /\ size[k] \in Nat /\ size[j] \in Nat
        /\ made'[k] = made[k] + size[k] /\ made'[j] = made[j] + size[j]
        /\ m'[k] = (m[k] + size[j] * L(k)) % M(k)
        /\ size[k] = CeilDiv(size[j] * L(k) - Owed(m[k], M(k)), M(k))
    BY <1>1, <1>2, <1>3, <2>1 DEF Outputs, Owed
  <2>3. L(k) \in Positive /\ M(k) \in Positive
    BY <1>3, StageFactors
  <2>4. m[k] \in 0 .. M(k) - 1 /\ made[k] * M(k) = made[j] * L(k) + Owed(m[k], M(k))
    BY <1>3 DEF StageEven
  <2>5. /\ m'[k] \in 0 .. M(k) - 1
        /\ size[k] * M(k) = size[j] * L(k) + Owed(m'[k], M(k)) - Owed(m[k], M(k))
    <3>1. \A p, s, x, d : s \in Nat /\ x \in Positive /\ d \in Positive /\ p \in 0 .. d - 1 =>
            /\ (p + s * x) % d \in 0 .. d - 1
            /\ CeilDiv(s * x - Owed(p, d), d) * d = s * x + Owed((p + s * x) % d, d) - Owed(p, d)
      BY OneBlock
    <3> QED
      BY <2>2, <2>3, <2>4, <3>1
  <2> DEFINE a == made[k] * M(k)
             b == size[k] * M(k)
             c == made[j] * L(k)
             d == size[j] * L(k)
             u == Owed(m[k], M(k))
             v == Owed(m'[k], M(k))
  <2>6. /\ made'[k] * M(k) = a + b /\ made'[j] * L(k) = c + d
        /\ a \in Int /\ b \in Int /\ c \in Int /\ d \in Int
    BY <2>2, <2>3, Distributes DEF Positive
  <2>7. u \in Int /\ v \in Int
    BY <2>3, <2>4, <2>5 DEF Owed, Positive
  <2>8. a = c + u /\ b = d + v - u
    BY <2>4, <2>5
  <2>9. made'[k] * M(k) = made'[j] * L(k) + v
    <3> HIDE DEF a, b, c, d, u, v
    <3> QED
      BY <2>6, <2>7, <2>8
  <2> QED
    BY <1>4, <2>5, <2>9 DEF StageEven
<1>7. PlanOK'
  BY <1>2, <1>3, PlanStep
<1>8. made' \in [0 .. numStages -> Nat]
  BY <1>1, <1>2, <1>3
<1>9. m' = [k \in 1 .. numStages |-> m'[k]]
  BY <1>2
<1> QED
  BY <1>4, <1>6, <1>7, <1>8, <1>9 DEF CascadeInv

\* An index and a count of nothing are in step.
LEMMA EvenAtRest ==
  ASSUME NEW a \in Positive, NEW d \in Positive
  PROVE  0 \in 0 .. d - 1 /\ 0 * d = 0 * a + Owed(0, d)
BY DEF Positive, Owed

\* The stages begin in step.
LEMMA CascadeInit == Init => CascadeInv
<1> SUFFICES ASSUME Init PROVE CascadeInv
  OBVIOUS
<1>1. PlanOK
  BY PlanInit
<1>2. m = [k \in 1 .. numStages |-> 0] /\ made = [k \in 0 .. numStages |-> 0]
  BY DEF Init
<1>3. numStages \in Nat
  BY <1>1, StageFactors DEF Positive
<1>4. ASSUME NEW k \in 1 .. numStages PROVE StageEven(k)
  <2>1. L(k) \in Positive /\ M(k) \in Positive
    BY <1>1, StageFactors
  <2>2. m[k] = 0 /\ made[k] = 0 /\ made[k - 1] = 0
    BY <1>2, <1>3
  <2> QED
    BY <2>1, <2>2, EvenAtRest DEF StageEven
<1> QED
  BY <1>1, <1>2, <1>4 DEF CascadeInv

\* A reset puts all stages in step again.
LEMMA CascadeResets == CascadeInv /\ reset => CascadeInv'
<1> SUFFICES ASSUME CascadeInv, reset PROVE CascadeInv'
  OBVIOUS
<1>1. PlanOK /\ PlanOK' /\ numStages' = numStages
  BY PlanStep, FactorsRest DEF CascadeInv, reset
<1>2. m' = [k \in 1 .. numStages |-> 0] /\ made' = [k \in 0 .. numStages |-> 0]
      /\ UNCHANGED plan
  BY DEF reset
<1>3. numStages \in Nat
  BY <1>1, StageFactors DEF Positive
<1>4. ASSUME NEW k \in 1 .. numStages PROVE StageEven(k)'
  <2>1. L(k) \in Positive /\ M(k) \in Positive /\ L(k)' = L(k) /\ M(k)' = M(k)
    BY <1>1, <1>2, StageFactors, FactorsRest
  <2>2. m'[k] = 0 /\ made'[k] = 0 /\ made'[k - 1] = 0
    BY <1>2, <1>3
  <2> QED
    BY <2>1, <2>2, EvenAtRest DEF StageEven
<1>5. made' \in [0 .. numStages -> Nat] /\ m' = [k \in 1 .. numStages |-> m'[k]]
  BY <1>2
<1> QED
  BY <1>1, <1>4, <1>5 DEF CascadeInv

\* Every step keeps them in step.
LEMMA CascadeStep == CascadeInv /\ [Next]_vars => CascadeInv'
<1> SUFFICES ASSUME CascadeInv, [Next]_vars PROVE CascadeInv'
  OBVIOUS
<1>1. ASSUME NEW n \in BlockSizes, Convert(n) PROVE CascadeInv'
  BY <1>1, CascadeConverts
<1>2. CASE reset
  BY <1>2, CascadeResets
<1>3. CASE UNCHANGED vars
  <2>1. UNCHANGED plan /\ m' = m /\ made' = made
    BY <1>3 DEF vars
  <2>2. PlanOK' /\ numStages' = numStages
        /\ \A k \in 1 .. numStages : L(k)' = L(k) /\ M(k)' = M(k)
    BY <2>1, PlanStep, FactorsRest DEF CascadeInv
  <2>3. \A k \in 1 .. numStages : StageEven(k)'
    BY <2>1, <2>2 DEF CascadeInv, StageEven
  <2> QED
    BY <2>1, <2>2, <2>3 DEF CascadeInv
<1> QED
  BY <1>1, <1>2, <1>3 DEF Next

\* So every stage is in step at all times.
LEMMA CascadeInvariant == Spec => []CascadeInv
BY CascadeInit, CascadeStep, PTL DEF Spec

\* The oversampling of a stage cancels.
LEMMA FactorCancels ==
  ASSUME NEW a \in Int, NEW b \in Int, NEW f \in Positive
  PROVE  /\ a * f <= b * f => a <= b
         /\ a * f < b * f => a < b
<1>1. ASSUME NEW x \in Int, NEW y \in Int, x < y PROVE x * f < y * f
  <2>1. (x + 1) * f <= y * f
    BY <1>1, TimesMonotone DEF Positive
  <2>2. (x + 1) * f = x * f + f /\ x * f \in Int /\ y * f \in Int /\ f \in Nat /\ f >= 1
    BY Distributes DEF Positive
  <2> QED
    BY <2>1, <2>2
<1>2. a * f \in Int /\ b * f \in Int
  BY Distributes DEF Positive
<1>3. a <= b \/ b < a
  OBVIOUS
<1>4. a < b \/ a = b \/ b < a
  OBVIOUS
<1>5. b < a => b * f < a * f
  BY <1>1
<1> HIDE DEF Positive
<1> QED
  BY <1>2, <1>3, <1>4, <1>5

\* How far the samples after a stage are above the ratio of those before it.
LEMMA StageRoundsUp ==
  ASSUME CascadeInv, NEW k \in 1 .. numStages
  PROVE  LET n == fractions[k].numerator
             d == fractions[k].denominator
         IN /\ made[k] \in Nat /\ made[k - 1] \in Nat
            /\ made[k - 1] * n <= made[k] * d
            /\ made[k] * d < made[k - 1] * n + d
<1> DEFINE n == fractions[k].numerator
           d == fractions[k].denominator
           f == overSamplingFactor
           a == made[k - 1]
           b == made[k]
           u == Owed(m[k], M(k))
<1>0. PlanOK /\ StageEven(k) /\ made \in [0 .. numStages -> Nat]
  BY DEF CascadeInv
<1>1. /\ numStages \in Nat /\ f \in Positive /\ n \in Positive /\ d \in Positive
      /\ M(k) \in Positive /\ L(k) = n * f /\ M(k) = d * f
  BY <1>0, StageFactors DEF L, M, Positive
<1>2. a \in Nat /\ b \in Nat
  BY <1>0, <1>1
<1>3. u \in 0 .. M(k) - 1 /\ b * M(k) = a * L(k) + u
  <2>1. m[k] \in 0 .. M(k) - 1 /\ b * M(k) = a * L(k) + u
    BY <1>0 DEF StageEven
  <2>2. \A g \in Positive : \A i \in 0 .. g - 1 : Owed(i, g) \in 0 .. g - 1
    BY DEF Owed, Positive
  <2> QED
    BY <1>1, <2>1, <2>2
<1> HIDE DEF n, d, f, a, b, u
<1>4. b * (d * f) = (b * d) * f /\ a * (n * f) = (a * n) * f
      /\ (a * n + d) * f = (a * n) * f + d * f /\ b * d \in Int /\ a * n \in Int
  <2>1. \A x, y, z \in Int : x * (y * z) = (x * y) * z /\ x * y \in Int
                              /\ (x * y + z) * f = (x * y) * f + z * f
    BY <1>1 DEF Positive
  <2> QED
    BY <1>1, <1>2, <2>1 DEF Positive
<1> DEFINE x == b * d
           y == a * n
           xf == x * f
           yf == y * f
           df == d * f
<1>5. xf = yf + u /\ u \in 0 .. df - 1 /\ xf \in Int /\ yf \in Int /\ df \in Int
      /\ (y + d) * f = yf + df /\ x \in Int /\ y \in Int /\ y + d \in Int
  BY <1>1, <1>3, <1>4, Distributes DEF Positive
<1> HIDE DEF x, y
<1>6. yf <= xf /\ xf < (y + d) * f
  <2> HIDE DEF xf, yf, df
  <2> QED
    BY <1>5
<1>7. y <= x /\ x < y + d
  BY <1>1, <1>5, <1>6, FactorCancels
<1> QED
  BY <1>2, <1>7 DEF n, d, a, b, x, y

\* For every plan of the stages and every way of cutting the input into blocks, the
\* number of samples after each stage is what the whole stream would give in one go.
THEOREM CascadeKnowsNoBlocks == Spec => []CascadeIsTransparent
<1>1. CascadeInv => CascadeIsTransparent
  <2> SUFFICES ASSUME CascadeInv, NEW k \in 1 .. numStages
               PROVE  made[k] = CeilDiv(made[k - 1] * fractions[k].numerator,
                                        fractions[k].denominator)
    BY DEF CascadeIsTransparent
  <2> DEFINE n == fractions[k].numerator
             d == fractions[k].denominator
             x == made[k - 1] * n
             b == made[k]
  <2>1. /\ b \in Nat /\ made[k - 1] \in Nat /\ x <= b * d /\ b * d < x + d
    BY StageRoundsUp
  <2>2. n \in Positive /\ d \in Positive
    BY StageFactors DEF CascadeInv
  <2>3. x \in Nat
    BY <2>1, <2>2, TimesNat DEF Positive
  <2> HIDE DEF n, d, x, b
  <2>4. x + d - 1 >= 0 /\ x \in Int /\ b \in Int
    BY <2>1, <2>2, <2>3 DEF Positive
  <2>5. CeilDiv(x, d) \in Nat /\ x <= CeilDiv(x, d) * d /\ CeilDiv(x, d) * d < x + d
    BY <2>2, <2>4, CeilDivOf
  <2>6. b = CeilDiv(x, d)
    BY <2>1, <2>2, <2>4, <2>5, OneMultiple
  <2> QED
    BY <2>6 DEF n, d, x, b
<1> QED
  BY <1>1, CascadeInvariant, PTL

\* The running products of the stages up to the k-th.
P(k) == Product(Numerators(First(fractions, k)))
Q(k) == Product(Denominators(First(fractions, k)))

\* A stage more: what there is too much grows by less than what the stage rounds up.
LEMMA ExcessGrows ==
  ASSUME NEW a \in Nat, NEW b \in Nat, NEW c \in Nat, NEW n \in Positive, NEW d \in Positive,
         NEW p \in Positive, NEW q \in Positive,
         a * n <= b * d, b * d < a * n + d, c * p <= a * q
  PROVE  /\ c * (n * p) <= b * (d * q)
         /\ b * (d * q) - c * (n * p) <= n * (a * q - c * p) + d * q
<1>1. a \in Int /\ b \in Int /\ c \in Int /\ n \in Nat /\ d \in Nat /\ p \in Nat /\ q \in Nat
      /\ n \in Int /\ d \in Int /\ p \in Int /\ q \in Int
  BY DEF Positive
<1> DEFINE an == a * n
           bd == b * d
           cp == c * p
           aq == a * q
<1>2. an \in Int /\ bd \in Int /\ cp \in Int /\ aq \in Int
  BY <1>1, Distributes
<1>3. bd * q = b * (d * q) /\ cp * n = c * (n * p) /\ an * q = aq * n
  <2>1. \A x, y, z \in Int : (x * y) * z = x * (y * z) /\ (x * y) * z = x * (z * y)
                              /\ (x * y) * z = (x * z) * y
    OBVIOUS
  <2> QED
    BY <1>1, <2>1
<1> HIDE DEF an, bd, cp, aq
<1>4. an <= bd /\ bd <= an + d /\ cp <= aq
  BY <1>1, <1>2 DEF an, bd, cp, aq
<1>5. an * q <= bd * q /\ bd * q <= (an + d) * q /\ cp * n <= aq * n
  BY <1>1, <1>2, <1>4, TimesMonotone
<1>6. (an + d) * q = an * q + d * q /\ n * (aq - cp) = aq * n - cp * n
  <2>1. \A x, y, z \in Int : (x + y) * z = x * z + y * z /\ z * (x - y) = x * z - y * z
    OBVIOUS
  <2> QED
    BY <1>1, <1>2, <2>1
<1> DEFINE anq == an * q
           bdq == bd * q
           aqn == aq * n
           cpn == cp * n
           dq == d * q
<1>7. anq \in Int /\ bdq \in Int /\ aqn \in Int /\ cpn \in Int /\ dq \in Int
  BY <1>1, <1>2, Distributes
<1>8. cpn <= bdq /\ bdq - cpn <= (aqn - cpn) + dq
  <2>1. anq = aqn /\ anq <= bdq /\ bdq <= anq + dq /\ cpn <= aqn
    BY <1>3, <1>5, <1>6
  <2> HIDE DEF anq, bdq, aqn, cpn, dq
  <2> QED
    BY <1>7, <2>1
<1> QED
  BY <1>3, <1>6, <1>8 DEF aq, cp

\* No stage leaves the band of the slower side, the last one because the whole ratio
\* does not.
LEMMA StagesInBand ==
  ASSUME PlanOK, NEW k \in 1 .. numStages
  PROVE  /\ P(k) \in Nat /\ Q(k) \in Nat
         /\ P(k) >= Q(k) \/ P(k) * ratio.denominator >= Q(k) * ratio.numerator
<1> DEFINE rn == ratio.numerator
           rd == ratio.denominator
           p == P(k)
           q == Q(k)
<1>1. ratio \in Ratios /\ fractions \in Seq(Ratios) /\ ~BadRatio(fractions, ratio)
      /\ Product(Numerators(fractions)) = rn /\ Product(Denominators(fractions)) = rd
  BY RatioPositive DEF PlanOK, Converts
<1>2. rn \in Nat /\ rd \in Nat
  BY <1>1 DEF Ratios, Positive
<1>3. k \in 0 .. Len(fractions) /\ k \in 1 .. Len(fractions)
  BY <1>1 DEF numStages
<1>4. p \in Nat /\ q \in Nat
  BY <1>1, <1>3, RunningProducts DEF P, Q, Positive
<1>5. p >= q \/ p * rd >= q * rn
  <2>1. CASE k = Len(fractions)
    <3>1. p = rn /\ q = rd
      BY <1>1, <2>1, RunningProducts DEF P, Q
    <3> HIDE DEF p, q, rd, rn
    <3>2. p * rd = q * rn
      BY <1>2, <3>1
    <3>3. p * rd \in Nat /\ q * rn \in Nat
      BY <1>2, <1>4, TimesNat
    <3> QED
      BY <3>2, <3>3
  <2>2. CASE k # Len(fractions)
    <3>1. k \in 1 .. Len(fractions) - 1
      BY <1>1, <1>3, <2>2
    <3>2. ~(p < q /\ p * rd < q * rn)
      BY <1>1, <3>1 DEF BadRatio, P, Q
    <3> HIDE DEF p, q, rd, rn
    <3>3. p * rd \in Nat /\ q * rn \in Nat
      BY <1>2, <1>4, TimesNat
    <3> QED
      BY <1>4, <3>2, <3>3
  <2> QED
    BY <2>1, <2>2
<1> QED
  BY <1>4, <1>5

\* So what a stage rounds up is never more than one sample of the slower side of the
\* whole conversion.
LEMMA QuotientInBand ==
  ASSUME PlanOK, NEW k \in 1 .. numStages
  PROVE  Q(k) * ratio.numerator <= P(k) * Higher(ratio.numerator, ratio.denominator)
<1> DEFINE rn == ratio.numerator
           rd == ratio.denominator
           h == Higher(rn, rd)
           p == P(k)
           q == Q(k)
<1>1. ratio \in Ratios
  BY RatioPositive DEF PlanOK
<1>2. rn \in Nat /\ rd \in Nat /\ h \in Nat /\ rn <= h /\ rd <= h
  BY <1>1 DEF Ratios, Positive, Higher
<1>3. p \in Nat /\ q \in Nat /\ (p >= q \/ p * rd >= q * rn)
  BY StagesInBand
<1>4. p \in Nat /\ q \in Nat
  BY <1>3
<1>5. p >= q \/ p * rd >= q * rn
  BY <1>3
<1> HIDE DEF p, q, rd, rn, h
<1>6. p * rn \in Nat /\ p * rd \in Nat /\ p * h \in Nat /\ q * rn \in Nat
  BY <1>2, <1>4, TimesNat
<1>7. p * rn <= p * h /\ p * rd <= p * h
  BY <1>2, <1>4, <1>6, TimesMonotone, Distributes
<1>8. q <= p => q * rn <= p * rn
  BY <1>2, <1>4, TimesMonotone
<1>9. q * rn <= p * h
  BY <1>4, <1>5, <1>6, <1>7, <1>8
<1> QED
  BY <1>9 DEF p, q, rn, rd, h

\* Of two samples of the whole conversion, the stages up to the k-th owe at most k.
LEMMA ExcessBounded ==
  ASSUME CascadeInv
  PROVE  \A k \in 0 .. numStages :
           LET c == made[0]
               rn == ratio.numerator
               h == Higher(ratio.numerator, ratio.denominator)
           IN /\ c * P(k) <= made[k] * Q(k)
              /\ (made[k] * Q(k) - c * P(k)) * rn <= k * (P(k) * h)
<1> DEFINE c == made[0]
           rn == ratio.numerator
           h == Higher(ratio.numerator, ratio.denominator)
           e(k) == made[k] * Q(k) - c * P(k)
           Good(k) == c * P(k) <= made[k] * Q(k) /\ e(k) * rn <= k * (P(k) * h)
           S == {k \in Nat : k <= numStages => Good(k)}
<1>0. PlanOK
  BY DEF CascadeInv
<1>1. /\ numStages \in Nat /\ ratio \in Ratios
      /\ fractions \in Seq(Ratios) /\ numStages = Len(fractions)
      /\ made \in [0 .. numStages -> Nat]
      /\ \A k \in 1 .. numStages : fractions[k].numerator \in Positive
                                     /\ fractions[k].denominator \in Positive
  BY <1>0, StageFactors DEF CascadeInv, PlanOK, Converts, numStages, Positive
<1>2. rn \in Nat /\ h \in Nat
  BY <1>1 DEF Ratios, Positive, Higher
<1>3. /\ P(0) = 1 /\ Q(0) = 1
      /\ \A k \in 0 .. numStages : P(k) \in Positive /\ Q(k) \in Positive
      /\ \A k \in 1 .. numStages : /\ P(k) = fractions[k].numerator * P(k - 1)
                                   /\ Q(k) = fractions[k].denominator * Q(k - 1)
  BY <1>1, RunningProducts DEF P, Q
<1>4. 0 \in S
  <2>1. c \in Nat /\ made[0] * Q(0) = c /\ c * P(0) = c
    BY <1>1, <1>3
  <2>2. e(0) = 0 /\ c * P(0) <= made[0] * Q(0)
    BY <2>1
  <2>3. 0 * rn = 0 /\ 0 * (P(0) * h) = 0
    BY <1>2, <1>3
  <2>4. Good(0)
    <3> HIDE DEF e, c, h, rn
    <3> QED
      BY <2>2, <2>3
  <2> HIDE DEF Good
  <2> QED
    BY <2>4
<1>5. ASSUME NEW i \in Nat, i \in S PROVE i + 1 \in S
  <2> DEFINE k == i + 1
  <2> SUFFICES ASSUME k <= numStages PROVE Good(k)
    OBVIOUS
  <2>1. k \in 1 .. numStages /\ i \in 0 .. numStages /\ k - 1 = i /\ i <= numStages /\ k \in 0 .. numStages
    BY <1>1
  <2>2. Good(i)
    BY <1>5, <2>1
  <2> HIDE DEF k
  <2> DEFINE n == fractions[k].numerator
             d == fractions[k].denominator
             a == made[i]
             b == made[k]
             p == P(i)
             q == Q(i)
  <2>3. /\ a \in Nat /\ b \in Nat /\ c \in Nat /\ n \in Positive /\ d \in Positive
        /\ p \in Positive /\ q \in Positive /\ P(k) = n * p /\ Q(k) = d * q
    BY <1>1, <1>3, <2>1
  <2>4. a * n <= b * d /\ b * d < a * n + d
    BY <2>1, StageRoundsUp
  <2>5. c * p <= a * q
    BY <2>2
  <2>6. (a * q - c * p) * rn <= i * (p * h)
    BY <2>2
  <2>7. Q(k) * rn <= P(k) * h
    BY <1>0, <2>1, QuotientInBand
  <2> HIDE DEF n, d, a, b, c, p, q, rn, h
  <2>8. /\ c * (n * p) <= b * (d * q)
        /\ b * (d * q) - c * (n * p) <= n * (a * q - c * p) + d * q
    BY <2>3, <2>4, <2>5, ExcessGrows
  <2> DEFINE x == a * q - c * p
             y == b * (d * q) - c * (n * p)
             np == n * p
             dq == d * q
             nx == n * x
             ph == p * h
  <2>9. /\ n \in Nat /\ d \in Nat /\ p \in Nat /\ q \in Nat
        /\ np \in Nat /\ dq \in Nat /\ x \in Int /\ y \in Int /\ nx \in Int /\ ph \in Nat
    <3>1. n \in Nat /\ d \in Nat /\ p \in Nat /\ q \in Nat
      BY <2>3 DEF Positive
    <3>2. a * q \in Nat /\ c * p \in Nat /\ n * p \in Nat /\ d * q \in Nat /\ p * h \in Nat
      BY <1>2, <2>3, <3>1, TimesNat
    <3>3. b * (d * q) \in Nat /\ c * (n * p) \in Nat
      BY <2>3, <3>2, TimesNat
    <3>4. x \in Int
      BY <3>2
    <3>5. n * x \in Int
      <4> HIDE DEF x
      <4> QED
        BY <3>1, <3>4, Distributes
    <3> QED
      BY <3>1, <3>2, <3>3, <3>4, <3>5
  <2>10. y <= nx + dq /\ x * rn <= i * ph /\ dq * rn <= np * h
    BY <2>3, <2>6, <2>7, <2>8
  <2> HIDE DEF x, y, np, dq, nx, ph
  <2>11. y * rn <= nx * rn + dq * rn
    <3>1. nx + dq \in Int
      BY <2>9
    <3>2. y * rn <= (nx + dq) * rn
      BY <1>2, <2>9, <2>10, <3>1, TimesMonotone
    <3>3. (nx + dq) * rn = nx * rn + dq * rn
      BY <1>2, <2>9, Distributes
    <3> QED
      BY <3>2, <3>3
  <2>12. nx * rn = (x * rn) * n /\ (x * rn) * n <= (i * ph) * n
    <3>1. x * rn \in Int /\ i * ph \in Int
      BY <1>2, <2>9, Distributes
    <3>2. \A r, s, t \in Int : (r * s) * t = (s * t) * r
      OBVIOUS
    <3>3. nx * rn = (x * rn) * n
      BY <1>2, <2>9, <3>2 DEF nx
    <3> QED
      BY <2>9, <2>10, <3>1, <3>3, TimesMonotone
  <2>13. (i * ph) * n = i * (np * h)
    <3>1. \A r, s, t, u \in Int : (r * (s * t)) * u = r * ((u * s) * t)
      OBVIOUS
    <3> QED
      BY <1>2, <2>9, <3>1 DEF ph, np
  <2>14. i * (np * h) + np * h = k * (np * h)
    <3>1. np * h \in Int
      BY <1>2, <2>9, Distributes
    <3>2. \A r \in Int : i * r + r = (i + 1) * r
      OBVIOUS
    <3> QED
      BY <3>1, <3>2 DEF k
  <2>15. y * rn <= k * (np * h)
    <3> DEFINE yr == y * rn
               nr == nx * rn
               dr == dq * rn
               ih == i * (np * h)
               hh == np * h
    <3>1. yr \in Int /\ nr \in Int /\ dr \in Int /\ hh \in Int
      BY <1>2, <2>9, Distributes
    <3>2. ih \in Int
      <4> HIDE DEF hh
      <4>1. i * hh \in Int
        BY <3>1, Distributes
      <4> QED
        BY <4>1 DEF hh
    <3>3. yr <= nr + dr /\ nr <= ih /\ dr <= hh /\ ih + hh = k * (np * h)
      BY <2>10, <2>11, <2>12, <2>13, <2>14
    <3>4. yr <= ih + hh
      <4> HIDE DEF yr, nr, dr, ih, hh
      <4> QED
        BY <3>1, <3>2, <3>3
    <3> QED
      BY <3>3, <3>4
  <2>16. y = e(k) /\ P(k) = np
    BY <2>3 DEF y, np, b, c
  <2>17. c * P(k) <= made[k] * Q(k)
    BY <2>3, <2>8 DEF b
  <2>18. e(k) * rn <= k * (P(k) * h)
    BY <2>15, <2>16
  <2> QED
    BY <2>17, <2>18
<1> HIDE DEF S
<1>6. Nat \subseteq S
  BY <1>4, <1>5, InductiveSet
<1>7. \A k \in 0 .. numStages : k \in Nat /\ k <= numStages
  BY <1>1
<1>8. \A k \in 0 .. numStages : Good(k)
  <2> HIDE DEF Good
  <2> QED
    BY <1>6, <1>7 DEF S
<1> QED
  BY <1>8

\* For every plan and every input, the output is at least as long as the input, and no
\* more than one sample of the slower side for each stage longer.
THEOREM DurationIsKept == Spec => []DurationKept
<1>1. CascadeInv => DurationKept
  <2> SUFFICES ASSUME CascadeInv PROVE DurationKept
    OBVIOUS
  <2> DEFINE N == numStages
             rn == ratio.numerator
             rd == ratio.denominator
             h == Higher(rn, rd)
             c == made[0]
             b == made[N]
             p == P(N)
             q == Q(N)
  <2>1. /\ N \in Nat /\ ratio \in Ratios
        /\ fractions \in Seq(Ratios) /\ N = Len(fractions)
        /\ made \in [0 .. N -> Nat]
    BY StageFactors DEF CascadeInv, PlanOK, Converts, numStages, Positive
  <2>2. Product(Numerators(fractions)) = rn /\ Product(Denominators(fractions)) = rd
    BY DEF CascadeInv, PlanOK, Converts
  <2>3. /\ rn \in Nat /\ rd \in Nat /\ rn > 0 /\ h \in Nat
        /\ b \in Nat /\ c \in Nat /\ N \in 0 .. N
    BY <2>1 DEF Ratios, Positive, Higher
  <2>4. p \in Positive /\ q \in Positive /\ p * rd = q * rn
    <3>1. p \in Positive /\ q \in Positive /\ p = rn /\ q = rd
      BY <2>1, <2>3, <2>2, RunningProducts DEF P, Q
    <3> HIDE DEF p, q, rn, rd
    <3>2. p * rd = q * rn
      BY ONLY <2>3, <3>1
    <3> QED
      BY <3>1, <3>2
  <2>5. c * p <= b * q /\ (b * q - c * p) * rn <= N * (p * h)
    BY <2>3, ExcessBounded
  <2> HIDE DEF p, q, c, b, rn, rd, h, N
  <2>6. p \in Nat /\ q \in Nat
    BY <2>4 DEF Positive
  <2>7. (b * q - c * p) * rn = (b * rd - c * rn) * p
    <3>1. \A x, y, z, u, v, w \in Int : (x * y - z * u) * v = x * (y * v) - (z * v) * u
      OBVIOUS
    <3>2. (b * q - c * p) * rn = b * (q * rn) - (c * rn) * p
      BY <2>3, <2>6, <3>1
    <3>3. \A x, y, z, u \in Int : (x * z - y) * u = x * (u * z) - y * u
      OBVIOUS
    <3>4. c * rn \in Int
      BY <2>3, Distributes
    <3>5. (b * rd - c * rn) * p = b * (p * rd) - (c * rn) * p
      BY <2>3, <2>6, <3>3, <3>4
    <3> QED
      BY <2>4, <3>2, <3>5
  <2> DEFINE extra == b * rd - c * rn
             x == b * q - c * p
  <2>8. extra \in Int /\ x \in Nat /\ N * h \in Int
    <3>1. b * rd \in Nat /\ c * rn \in Nat /\ b * q \in Nat /\ c * p \in Nat /\ N * h \in Nat
      BY <2>1, <2>3, <2>6, TimesNat
    <3> DEFINE bq == b * q
               cp == c * p
    <3>2. bq - cp \in Nat
      <4>1. bq \in Nat /\ cp \in Nat /\ cp <= bq
        BY <2>5, <3>1
      <4> HIDE DEF bq, cp
      <4> QED
        BY <4>1
    <3> QED
      BY <3>1, <3>2
  <2>9. N * (p * h) = (N * h) * p
    <3>1. \A r, s, t \in Int : r * (s * t) = (r * t) * s
      OBVIOUS
    <3> QED
      BY <2>1, <2>3, <2>6, <3>1
  <2>10. x * rn = extra * p /\ x * rn <= (N * h) * p
    BY <2>5, <2>7, <2>9
  <2> HIDE DEF extra, x
  <2>11. extra <= N * h
    BY <2>4, <2>8, <2>10, FactorCancels
  <2>12. 0 * p <= extra * p
    <3>1. x * rn \in Nat /\ 0 * p = 0
      BY <2>3, <2>6, <2>8, TimesNat
    <3> QED
      BY <2>10, <3>1
  <2>13. 0 <= extra
    BY <2>4, <2>8, <2>12, FactorCancels
  <2> QED
    BY <2>8, <2>11, <2>13 DEF DurationKept, extra, b, c, rn, rd, h, N
<1> QED
  BY <1>1, CascadeInvariant, PTL
-------------------------------------------------------------------------------
(***************************************************************************)
(* The room for the outputs.                                               *)
(***************************************************************************)
\* What the first stage can make of a full block, however its index stands.
FirstRoom == CeilDiv(BUFFERSIZE * fractions[1].numerator, fractions[1].denominator)

FirstInv ==
  /\ CascadeInv
  /\ outputs[1] \in Nat /\ outputs[1] <= FirstRoom

\* There is a first stage.
LEMMA FirstStage ==
  ASSUME PlanOK
  PROVE  /\ 1 \in 1 .. numStages /\ 0 \in 0 .. numStages
         /\ BUFFERSIZE * fractions[1].numerator \in Nat /\ FirstRoom \in Nat
         /\ BUFFERSIZE * fractions[1].numerator <= FirstRoom * fractions[1].denominator
<1> DEFINE n == fractions[1].numerator
           d == fractions[1].denominator
           x == BUFFERSIZE * n
<1>1. 1 \in 1 .. numStages /\ 0 \in 0 .. numStages
  BY StageFactors DEF Positive
<1>2. n \in Positive /\ d \in Positive
  BY <1>1, StageFactors
<1> HIDE DEF n, d
<1>3. x \in Nat
  BY <1>2, TimesNat, ConverterAssumption DEF Positive
<1> HIDE DEF x
<1>4. x + d - 1 >= 0
  BY <1>2, <1>3 DEF Positive
<1>5. CeilDiv(x, d) \in Nat /\ x <= CeilDiv(x, d) * d
  BY <1>2, <1>3, <1>4, CeilDivOf
<1> QED
  BY <1>1, <1>3, <1>5 DEF FirstRoom, n, d, x

\* A block is no longer than a full one, so its first outputs have room.
LEMMA FirstConverts ==
  ASSUME CascadeInv, NEW n \in BlockSizes, Convert(n)
  PROVE  outputs'[1] \in Nat /\ outputs'[1] <= FirstRoom
<1> DEFINE size == CHOOSE f : f = Sizes(n, f)
           a == fractions[1].numerator
           d == fractions[1].denominator
           f == overSamplingFactor
           p == m[1]
           q == size[1]
           x == BUFFERSIZE * a
           c == FirstRoom
<1>0. n \in Nat /\ n <= BUFFERSIZE /\ BUFFERSIZE \in Nat
  BY ConverterAssumption
<1>1. PlanOK /\ StageEven(1) /\ 1 \in 1 .. numStages
  BY FirstStage DEF CascadeInv
<1>2. size[0] = n /\ size[1] = Outputs(1, size[1 - 1])
  BY <1>0, <1>1, SizesExist
<1>3. outputs' = [k \in 1 .. numStages |-> size[k]]
  BY DEF Convert, Sizes
<1> HIDE DEF size
<1>4. outputs'[1] = q
  BY <1>1, <1>3
<1>5. /\ a \in Positive /\ d \in Positive /\ f \in Positive
      /\ L(1) \in Positive /\ M(1) \in Positive /\ L(1) = a * f /\ M(1) = d * f
  BY <1>1, StageFactors DEF L, M
<1>6. q = CeilDiv(n * L(1) - Owed(p, M(1)), M(1)) /\ p \in 0 .. M(1) - 1
  BY <1>1, <1>2 DEF Outputs, Owed, StageEven
<1>7. x \in Nat /\ c \in Nat /\ x <= c * d
  BY <1>1, FirstStage
<1> HIDE DEF a, d, f, p, q, x, c
<1> DEFINE y == n * L(1)
           z == Owed(p, M(1))
<1>8. y \in Nat /\ z \in Nat /\ z <= y + M(1) - 1
  <2>1. y \in Nat
    BY <1>0, <1>5, TimesNat DEF Positive
  <2>2. z \in 0 .. M(1) - 1
    BY <1>5, <1>6 DEF Owed, Positive
  <2> HIDE DEF y, z
  <2> QED
    BY <1>5, <2>1, <2>2 DEF Positive
<1>9. q \in Nat /\ q * M(1) < (y - z) + M(1)
  <2>1. y - z \in Int /\ (y - z) + M(1) - 1 >= 0
    <3> HIDE DEF y, z
    <3> QED
      BY <1>5, <1>8 DEF Positive
  <2> DEFINE w == y - z
  <2>2. q = CeilDiv(w, M(1)) /\ w \in Int /\ w + M(1) - 1 >= 0
    BY <1>6, <2>1
  <2> HIDE DEF w
  <2>3. q \in Nat /\ q * M(1) < w + M(1)
    BY <1>5, <2>2, CeilDivOf
  <2> QED
    BY <2>3 DEF w
<1>10. q * M(1) < y + M(1)
  <2>1. q * M(1) \in Int /\ M(1) \in Int
    BY <1>5, <1>9, Distributes DEF Positive
  <2> HIDE DEF y, z
  <2> QED
    BY <1>8, <1>9, <2>1
<1>11. /\ q * (d * f) = (q * d) * f /\ n * (a * f) = (n * a) * f
       /\ (n * a + d) * f = (n * a) * f + d * f
       /\ q * d \in Int /\ n * a \in Int /\ n * a + d \in Int
  <2>1. \A r, s, t \in Int : r * (s * t) = (r * s) * t /\ r * s \in Int /\ r + s \in Int
    OBVIOUS
  <2>2. q \in Int /\ n \in Int /\ a \in Int /\ d \in Int /\ f \in Int
    BY <1>0, <1>5, <1>9 DEF Positive
  <2>3. q * d \in Int /\ n * a \in Int
    BY <2>1, <2>2
  <2>4. (n * a + d) * f = (n * a) * f + d * f
    BY <2>2, <2>3, Distributes
  <2> QED
    BY <2>1, <2>2, <2>3, <2>4
<1>12. q * d < n * a + d
  <2>1. (q * d) * f < (n * a + d) * f
    BY <1>5, <1>10, <1>11
  <2> QED
    BY <1>5, <1>11, <2>1, FactorCancels
<1>13. n * a <= x
  BY <1>0, <1>5, TimesMonotone DEF x, Positive
<1>14. q * d < (c + 1) * d
  <2>1. (c + 1) * d = c * d + d /\ c * d \in Int /\ d \in Int
    BY <1>5, <1>7, Distributes DEF Positive
  <2> QED
    BY <1>7, <1>11, <1>12, <1>13, <2>1
<1>15. q < c + 1
  BY <1>5, <1>7, <1>9, <1>14, FactorCancels
<1>16. q <= c
  BY <1>7, <1>9, <1>15
<1> QED
  BY <1>4, <1>9, <1>16 DEF c

\* The room does not change.
LEMMA RoomRests ==
  ASSUME UNCHANGED plan
  PROVE  FirstRoom' = FirstRoom
BY DEF plan, FirstRoom

\* The first stage has room from the start, and in every step.
LEMMA FirstInvariant == Spec => []FirstInv
<1>1. Init => FirstInv
  <2> SUFFICES ASSUME Init PROVE FirstInv
    OBVIOUS
  <2>1. CascadeInv
    BY CascadeInit
  <2>2. 1 \in 1 .. numStages /\ FirstRoom \in Nat
    BY <2>1, FirstStage DEF CascadeInv
  <2>3. outputs[1] = 0
    BY <2>2 DEF Init
  <2> QED
    BY <2>1, <2>2, <2>3 DEF FirstInv
<1>2. FirstInv /\ [Next]_vars => FirstInv'
  <2> SUFFICES ASSUME FirstInv, [Next]_vars PROVE FirstInv'
    OBVIOUS
  <2>1. CascadeInv /\ CascadeInv' /\ FirstRoom' = FirstRoom
    BY CascadeStep, PlanRests, RoomRests DEF FirstInv
  <2>2. ASSUME NEW n \in BlockSizes, Convert(n) PROVE FirstInv'
    BY <2>1, <2>2, FirstConverts DEF FirstInv
  <2>3. CASE reset
    BY <2>1, <2>3 DEF FirstInv, reset
  <2>4. CASE UNCHANGED vars
    BY <2>1, <2>4 DEF FirstInv, vars
  <2> QED
    BY <2>2, <2>3, <2>4 DEF Next
<1> QED
  BY <1>1, <1>2, PTL DEF Spec

\* Whatever the ratio and the sizes of the blocks, a converter of one stage never makes
\* more than its buffer holds: it takes a cascade, which rounds up in every stage.
THEOREM OneStageFits == Spec => [](numStages = 1 => OutputsFit)
<1>1. FirstInv => (numStages = 1 => OutputsFit)
  <2> SUFFICES ASSUME FirstInv, numStages = 1 PROVE outputs[1] <= bufferSize(1)
    BY DEF OutputsFit
  <2>1. PlanOK /\ fractions \in Seq(Ratios)
    BY DEF FirstInv, CascadeInv, PlanOK, Converts
  <2>2. 1 \in 1 .. Len(fractions) /\ FirstRoom \in Nat /\ 1 - 1 = 0
    BY <2>1, FirstStage DEF numStages
  <2>3. /\ Product(Numerators(First(fractions, 1))) = fractions[1].numerator * 1
        /\ Product(Denominators(First(fractions, 1))) = fractions[1].denominator * 1
    BY <2>1, <2>2, RunningProducts
  <2>4. fractions[1].numerator \in Positive /\ fractions[1].denominator \in Positive
    BY <2>1, <2>2, StageFactors DEF numStages
  <2>5. Cumulative(1).numerator = fractions[1].numerator
        /\ Cumulative(1).denominator = fractions[1].denominator
    BY <2>3, <2>4 DEF Cumulative, Frac, Positive
  <2>6. bufferSize(1) = FirstRoom + 1
    BY <2>5 DEF bufferSize, FirstRoom
  <2> QED
    BY <2>2, <2>6 DEF FirstInv
<1> QED
  BY <1>1, FirstInvariant, PTL
-------------------------------------------------------------------------------
(***************************************************************************)
(* The stop frequencies of a cascade.                                      *)
(***************************************************************************)
\* A rule for each of n steps, and a function that follows it from c on.
Rules(C, n) == [(1 .. n) \X C -> C]
Follows(f, C, c, n, E) ==
  f \in [0 .. n -> C] /\ f[0] = c /\ \A k \in 1 .. n : f[k] = E[<<k, f[k - 1]>>]

\* A function that is defined step by step exists.
LEMMA IterationExists ==
  ASSUME NEW C, NEW c \in C, NEW N \in Nat, NEW E \in Rules(C, N)
  PROVE  \E f : Follows(f, C, c, N, E)
<1>0. E \in [(1 .. N) \X C -> C]
  BY DEF Rules
<1> DEFINE Goes(f, n) == f[0] = c /\ \A k \in 1 .. n : f[k] = E[<<k, f[k - 1]>>]
           S == {n \in Nat : n <= N => \E f \in [0 .. n -> C] : Goes(f, n)}
<1>1. 0 \in S
  <2> DEFINE f == [k \in 0 .. 0 |-> c]
  <2>1. f \in [0 .. 0 -> C] /\ Goes(f, 0)
    OBVIOUS
  <2> HIDE DEF f, Goes
  <2> QED
    BY <2>1
<1>2. ASSUME NEW n \in Nat, n \in S PROVE n + 1 \in S
  <2> SUFFICES ASSUME n + 1 <= N PROVE \E f \in [0 .. n + 1 -> C] : Goes(f, n + 1)
    OBVIOUS
  <2>1. PICK f \in [0 .. n -> C] : Goes(f, n)
    BY <1>2
  <2> DEFINE x == E[<<n + 1, f[n]>>]
             g == [k \in 0 .. n + 1 |-> IF k = n + 1 THEN x ELSE f[k]]
  <2>2. x \in C
    <3>1. n + 1 \in 1 .. N /\ n \in 0 .. n
      OBVIOUS
    <3>2. f[n] \in C
      BY <3>1
    <3> QED
      BY <1>0, <3>1, <3>2
  <2>3. g \in [0 .. n + 1 -> C]
    <3> HIDE DEF x
    <3>1. \A k \in 0 .. n + 1 : k # n + 1 => k \in 0 .. n
      OBVIOUS
    <3> QED
      BY <2>2, <3>1
  <2>4. \A k \in 0 .. n : g[k] = f[k]
    <3>1. \A k \in 0 .. n : k \in 0 .. n + 1 /\ k # n + 1
      OBVIOUS
    <3> QED
      BY <3>1
  <2>5. g[n + 1] = x
    OBVIOUS
  <2> HIDE DEF g
  <2>6. g[0] = c
    BY <2>1, <2>4
  <2>7. ASSUME NEW k \in 1 .. n + 1 PROVE g[k] = E[<<k, g[k - 1]>>]
    <3>1. CASE k = n + 1
      <4>1. k - 1 = n /\ n \in 0 .. n
        BY <3>1
      <4>2. g[k - 1] = f[n]
        BY <2>4, <4>1
      <4> QED
        BY <2>5, <3>1, <4>2
    <3>2. CASE k # n + 1
      <4>1. k \in 1 .. n /\ k \in 0 .. n /\ k - 1 \in 0 .. n
        BY <2>7, <3>2
      <4>2. g[k] = f[k] /\ g[k - 1] = f[k - 1]
        BY <2>4, <4>1
      <4>3. f[k] = E[<<k, f[k - 1]>>]
        BY <2>1, <4>1
      <4> QED
        BY <4>2, <4>3
    <3> QED
      BY <3>1, <3>2
  <2>8. Goes(g, n + 1)
    BY <2>6, <2>7
  <2> HIDE DEF Goes
  <2> QED
    BY <2>3, <2>8
<1> HIDE DEF S
<1>3. Nat \subseteq S
  BY <1>1, <1>2, InductiveSet
<1>4. \E f \in [0 .. N -> C] : Goes(f, N)
  BY <1>3 DEF S
<1> QED
  BY <1>4 DEF Follows

\* The denominators up to a stage divide that of the whole ratio.
LEMMA FirstDivides ==
  ASSUME PlanOK, NEW k \in 0 .. numStages
  PROVE  \E c \in Positive : ratio.denominator = Q(k) * c
<1> DEFINE n == numStages
           rd == ratio.denominator
           Divides(j) == \E c \in Positive : rd = Q(j) * c
           S == {j \in Nat : j <= n => Divides(n - j)}
<1>1. /\ fractions \in Seq(Ratios) /\ n = Len(fractions) /\ n \in Nat
      /\ Product(Denominators(fractions)) = rd
  BY DEF PlanOK, Converts, numStages
<1>2. /\ Q(n) = rd
      /\ \A j \in 0 .. n : Q(j) \in Positive
      /\ \A j \in 1 .. n : Q(j) = fractions[j].denominator * Q(j - 1)
                             /\ fractions[j].denominator \in Positive
  BY <1>1, RunningProducts, StageFactors DEF Q
<1>3. 0 \in S
  <2>1. Q(n) \in Nat /\ 1 \in Positive /\ n - 0 = n
    BY <1>1, <1>2 DEF Positive
  <2>2. rd = Q(n) * 1
    BY <1>2, <2>1
  <2>3. Divides(n - 0)
    BY <2>1, <2>2
  <2> HIDE DEF Divides
  <2> QED
    BY <2>3
<1>4. ASSUME NEW j \in Nat, j \in S PROVE j + 1 \in S
  <2> SUFFICES ASSUME j + 1 <= n PROVE Divides(n - (j + 1))
    OBVIOUS
  <2> DEFINE i == n - j
  <2>1. i \in 1 .. n /\ i \in 0 .. n /\ i - 1 \in 0 .. n /\ n - (j + 1) = i - 1
    BY <1>1
  <2>2. PICK c \in Positive : rd = Q(i) * c
    BY <1>1, <1>4
  <2> HIDE DEF i
  <2> DEFINE d == fractions[i].denominator
             q == Q(i - 1)
  <2>3. Q(i) = d * q /\ d \in Positive /\ q \in Positive
    BY <1>2, <2>1
  <2> HIDE DEF d, q
  <2>4. (d * q) * c = q * (d * c) /\ d * c \in Positive
    <3>1. d \in Nat /\ q \in Nat /\ c \in Nat /\ d # 0 /\ c # 0
      BY <2>3 DEF Positive
    <3> QED
      BY <3>1, TimesNat DEF Positive
  <2>5. rd = q * (d * c)
    BY <2>2, <2>3, <2>4
  <2>6. Divides(i - 1)
    BY <2>4, <2>5 DEF q
  <2> QED
    BY <2>1, <2>6
<1> HIDE DEF S, Divides
<1>5. Nat \subseteq S
  BY <1>3, <1>4, InductiveSet
<1>6. n - k \in Nat /\ n - k <= n /\ n - (n - k) = k
  BY <1>1
<1>7. Divides(n - (n - k))
  BY <1>5, <1>6 DEF S
<1> QED
  BY <1>6, <1>7 DEF Divides

\* The rate after k stages is the input's by the running ratio, with nothing rounded off.
Exact(k, rate) ==
  \E c \in Positive : ci.inputRate = Q(k) * c /\ rate = P(k) * c

\* The division of outputRate() is without a remainder.
LEMMA ExactRate ==
  ASSUME PlanOK, NEW k \in 1 .. numStages, NEW rate, Exact(k - 1, rate)
  PROVE  Exact(k, outputRate(rate, fractions[k]))
<1> DEFINE n == fractions[k].numerator
           d == fractions[k].denominator
           p == P(k - 1)
           q == Q(k - 1)
           in == ci.inputRate
<1>1. fractions \in Seq(Ratios) /\ k \in 1 .. Len(fractions) /\ k \in 0 .. numStages
  BY DEF PlanOK, Converts, numStages
<1>2. k - 1 \in 0 .. Len(fractions)
  BY <1>1
<1>3. n \in Positive /\ d \in Positive
  BY StageFactors
<1>4. p \in Positive /\ q \in Positive /\ P(k) = n * p /\ Q(k) = d * q
  BY <1>1, <1>2, RunningProducts DEF P, Q
<1>5. PICK g \in Positive : in = g * ratio.denominator
  BY RatioOfRates DEF PlanOK, ratio
<1>6. PICK c \in Positive : ratio.denominator = Q(k) * c
  BY <1>1, FirstDivides
<1>7. PICK e \in Positive : in = q * e /\ rate = p * e
  BY DEF Exact
<1> DEFINE x == g * c
<1>8. x \in Positive /\ in = (d * q) * x
  <2>1. in = g * ((d * q) * c)
    BY <1>4, <1>5, <1>6
  <2>2. g \in Nat /\ c \in Nat /\ g # 0 /\ c # 0 /\ d \in Nat /\ q \in Nat
    BY <1>3, <1>4 DEF Positive
  <2> HIDE DEF d, q, in
  <2>3. d * q \in Nat
    BY <2>2, TimesNat
  <2>4. g * ((d * q) * c) = (d * q) * (g * c)
    <3> DEFINE y == d * q
    <3>1. y \in Nat
      BY <2>3
    <3> HIDE DEF y
    <3>2. g * (y * c) = y * (g * c)
      BY <2>2, <3>1
    <3> QED
      BY <3>2 DEF y
  <2>5. g * c \in Nat /\ g * c # 0
    BY <2>2, TimesNat
  <2> QED
    BY <2>1, <2>4, <2>5 DEF Positive
<1> HIDE DEF n, d, p, q, in, x
<1>9. e = d * x
  <2>1. d \in Int /\ q \in Int /\ x \in Int /\ e \in Int /\ d * x \in Int
    BY <1>3, <1>4, <1>8, Distributes DEF Positive
  <2>2. (d * q) * x = (d * x) * q /\ q * e = e * q
    BY <2>1
  <2>3. e * q = (d * x) * q
    BY <1>7, <1>8, <2>2
  <2> DEFINE y == d * x
             a == e * q
             b == y * q
  <2>4. y \in Int /\ a \in Int /\ b \in Int /\ a = b
    BY <2>1, <2>3, Distributes
  <2> HIDE DEF y
  <2>5. a <= b => e <= y
    BY <1>4, <2>1, <2>4, FactorCancels
  <2>6. b <= a => y <= e
    BY <1>4, <2>1, <2>4, FactorCancels
  <2> HIDE DEF a, b
  <2>7. e = y
    BY <2>1, <2>4, <2>5, <2>6
  <2> QED
    BY <2>7 DEF y
<1>10. (rate * n) \div d = (n * p) * x
  <2>1. d \in Nat /\ n \in Nat /\ p \in Nat /\ x \in Nat /\ d # 0
    BY <1>3, <1>4, <1>8 DEF Positive
  <2>2. (p * (d * x)) * n = d * ((n * p) * x)
    BY <2>1
  <2> DEFINE y == (n * p) * x
  <2>3. y \in Nat
    BY <2>1, TimesNat
  <2>4. rate * n = d * y
    BY <1>7, <1>9, <2>2
  <2> HIDE DEF y
  <2>5. (d * y) \div d = y
    BY <2>1, <2>3
  <2> QED
    BY <2>4, <2>5 DEF y
<1> QED
  BY <1>4, <1>8, <1>10 DEF Exact, outputRate, n, d, p, q, in

\* stageRate, one step of the recursion.
Rates(f) ==
  [k \in 0 .. numStages |-> IF k = 0 THEN ci.inputRate ELSE outputRate(f[k - 1], fractions[k])]

\* The rates of the stages are those of initMultistage, one after the other.
LEMMA RatesExist ==
  ASSUME PlanOK
  PROVE  /\ stageRate[0] = ci.inputRate
         /\ \A k \in 1 .. numStages : stageRate[k] = outputRate(stageRate[k - 1], fractions[k])
<1> DEFINE N == numStages
           E == [t \in (1 .. N) \X Nat |-> outputRate(t[2], fractions[t[1]])]
           in == ci.inputRate
<1>1. N \in Nat /\ in \in Nat
  BY StageFactors DEF PlanOK, Positive
<1>2. ASSUME NEW k \in 1 .. N, NEW x \in Nat PROVE outputRate(x, fractions[k]) \in Nat
  <2> DEFINE n == fractions[k].numerator
             d == fractions[k].denominator
  <2>1. n \in Nat /\ d \in Positive
    BY StageFactors DEF Positive
  <2> HIDE DEF n, d
  <2>2. x * n \in Nat
    BY <2>1, TimesNat
  <2>3. (x * n) \div d \in Nat
    BY <2>1, <2>2, IntDivMod
  <2> QED
    BY <2>3 DEF outputRate, n, d
<1>3. E \in [(1 .. N) \X Nat -> Nat]
  <2> HIDE DEF N
  <2> QED
    BY <1>2
<1>4. PICK f : Follows(f, Nat, in, N, E)
  <2>1. E \in Rules(Nat, N)
    BY <1>3 DEF Rules
  <2> HIDE DEF E, N, in
  <2> QED
    BY <1>1, <2>1, IterationExists
<1> DEFINE D == 0 .. N
<1>5. f \in [D -> Nat] /\ f[0] = in /\ \A k \in 1 .. N : f[k] = E[<<k, f[k - 1]>>]
  BY <1>4 DEF Follows
<1>6. \A k \in D : k # 0 => k \in 1 .. N /\ k - 1 \in D
  BY <1>1
<1>7. ASSUME NEW k \in D PROVE f[k] = IF k = 0 THEN in ELSE outputRate(f[k - 1], fractions[k])
  <2>1. CASE k = 0
    BY <1>5, <2>1
  <2>2. CASE k # 0
    <3>1. k \in 1 .. N /\ f[k - 1] \in Nat
      BY <1>6, <1>5, <2>2
    <3>2. E[<<k, f[k - 1]>>] = outputRate(f[k - 1], fractions[k])
      BY <3>1
    <3> QED
      BY <1>5, <2>2, <3>1, <3>2
  <2> QED
    BY <2>1, <2>2
<1>8. f = Rates(f)
  <2> HIDE DEF E
  <2> QED
    BY <1>7, <1>5 DEF Rates
<1>9. stageRate = CHOOSE g : g = Rates(g)
  BY DEF stageRate, Rates
<1>10. stageRate = Rates(stageRate)
  BY <1>8, <1>9
<1>11. \A k \in D : stageRate[k] =
          IF k = 0 THEN in ELSE outputRate(stageRate[k - 1], fractions[k])
  BY <1>10 DEF Rates
<1>12. 0 \in D /\ \A k \in 1 .. N : k \in D /\ k # 0
  BY <1>1
<1> QED
  BY <1>11, <1>12

\* Every rate is exact: none of the divisions of the cascade rounds.
LEMMA RatesExact ==
  ASSUME PlanOK, NEW k \in 0 .. numStages
  PROVE  Exact(k, stageRate[k])
<1> DEFINE N == numStages
           S == {j \in Nat : j <= N => Exact(j, stageRate[j])}
<1>1. N \in Nat /\ ci.inputRate \in Positive /\ fractions \in Seq(Ratios) /\ N = Len(fractions)
  BY DEF PlanOK, Converts, numStages
<1>2. 0 \in S
  <2>1. P(0) = 1 /\ Q(0) = 1
    BY <1>1, RunningProducts DEF P, Q
  <2> DEFINE in == ci.inputRate
  <2>2. in \in Nat /\ in = 1 * in
    BY <1>1 DEF Positive
  <2>3. in \in Positive /\ in = Q(0) * in /\ in = P(0) * in
    BY <1>1, <2>1, <2>2
  <2>4. Exact(0, in)
    BY <2>3 DEF Exact
  <2> QED
    BY <2>4, RatesExist
<1>3. ASSUME NEW j \in Nat, j \in S PROVE j + 1 \in S
  <2> SUFFICES ASSUME j + 1 <= N PROVE Exact(j + 1, stageRate[j + 1])
    OBVIOUS
  <2>1. j + 1 \in 1 .. N /\ (j + 1) - 1 = j /\ Exact(j, stageRate[j])
    BY <1>1, <1>3
  <2> DEFINE i == j + 1
  <2>2. i \in 1 .. N /\ Exact(i - 1, stageRate[i - 1])
    BY <2>1
  <2> HIDE DEF i
  <2>3. Exact(i, outputRate(stageRate[i - 1], fractions[i]))
    BY <2>2, ExactRate
  <2>4. Exact(i, stageRate[i])
    BY <2>2, <2>3, RatesExist
  <2> QED
    BY <2>4 DEF i
<1> HIDE DEF S
<1>4. Nat \subseteq S
  BY <1>2, <1>3, InductiveSet
<1> QED
  BY <1>1, <1>4 DEF S

\* No stage delivers less than the lower of the two rates of the conversion.
LEMMA RateInBand ==
  ASSUME PlanOK, NEW k \in 0 .. numStages
  PROVE  /\ stageRate[k] \in Nat
         /\ stageRate[k] >= Lower(ci.inputRate, ci.outputRate)
<1> DEFINE in == ci.inputRate
           out == ci.outputRate
           rn == ratio.numerator
           rd == ratio.denominator
           p == P(k)
           q == Q(k)
           rate == stageRate[k]
<1>1. in \in Positive /\ out \in Positive
  BY DEF PlanOK
<1>2. rn \in Positive /\ rd \in Positive /\ in * rn = out * rd
  BY <1>1, RatioOfRates DEF ratio
<1>3. PICK c \in Positive : in = q * c /\ rate = p * c
  BY RatesExact DEF Exact
<1>4. fractions \in Seq(Ratios) /\ k \in 0 .. Len(fractions) /\ numStages \in Nat
  BY DEF PlanOK, Converts, numStages
<1>5. p \in Positive /\ q \in Positive
  BY <1>4, RunningProducts DEF P, Q
<1>6. k = 0 => rate = in
  BY RatesExist
<1>7. k # 0 => p >= q \/ p * rd >= q * rn
  <2>1. k # 0 => k \in 1 .. numStages
    BY <1>4
  <2> QED
    BY <2>1, StagesInBand
<1> HIDE DEF in, out, rn, rd, p, q, rate
<1>8. /\ in \in Nat /\ out \in Nat /\ rn \in Nat /\ rd \in Nat /\ p \in Nat /\ q \in Nat
      /\ c \in Nat
  BY <1>1, <1>2, <1>3, <1>5 DEF Positive
<1>9. rate \in Nat
  BY <1>3, <1>8, TimesNat
<1>10. p >= q => rate >= in
  BY <1>3, <1>8, TimesMonotone
<1>11. ASSUME p * rd >= q * rn PROVE rate >= out
  <2>1. (q * rn) * c <= (p * rd) * c
    <3>1. q * rn \in Nat /\ p * rd \in Nat
      BY <1>8, TimesNat
    <3> DEFINE a == q * rn
               b == p * rd
    <3>2. a \in Nat /\ b \in Nat /\ a <= b
      BY <1>11, <3>1
    <3> HIDE DEF a, b
    <3>3. a * c <= b * c
      BY <1>8, <3>2, TimesMonotone
    <3> QED
      BY <3>3 DEF a, b
  <2>2. (q * rn) * c = (q * c) * rn /\ (p * rd) * c = (p * c) * rd
    <3>1. \A x, y, z \in Nat : (x * y) * z = (x * z) * y
      OBVIOUS
    <3> QED
      BY <1>8, <3>1
  <2>3. out * rd <= rate * rd
    BY <1>2, <1>3, <2>1, <2>2
  <2> QED
    BY <1>2, <1>8, <1>9, <2>3, FactorCancels
<1>12. rate >= in \/ rate >= out
  <2>1. k = 0 => rate >= in
    BY <1>6, <1>8
  <2> QED
    BY <1>7, <1>10, <1>11, <2>1
<1>13. rate >= Lower(in, out)
  BY <1>8, <1>9, <1>12 DEF Lower
<1> QED
  BY <1>9, <1>13 DEF in, out, rate

\* stopFreq, one step of the recursion.
Stops(f) ==
  [k \in 0 .. numStages |->
     IF k = 0 THEN stretch * ci.inputRate ELSE nextStopFreq(minSampleRate(k), f[k - 1])]

\* The options of the command line do not change.
OptionsOK ==
  /\ <<ci.inputRate, ci.outputRate>> \in RatePairs
  /\ ci.filter \in Filters

\* The transition is a whole number of 44ths of a hertz wide.
LEMMA StretchIsNat ==
  ASSUME OptionsOK
  PROVE  /\ stretch \in Nat /\ ci.filter[1] \in 1 .. 22 /\ ci.filter[2] \in Nat \ {0}
         /\ stretch = ci.filter[1] + ci.filter[2]
<1>1. ci.filter[1] \in 1 .. 22 /\ ci.filter[2] \in Nat \ {0}
  BY ConverterAssumption DEF OptionsOK
<1> QED
  BY <1>1 DEF stretch

\* The lower of the rates before and after a stage is a rate in the band.
LEMMA LowerRate ==
  ASSUME PlanOK, NEW k \in 1 .. numStages
  PROVE  /\ minSampleRate(k) \in Nat
         /\ minSampleRate(k) >= Lower(ci.inputRate, ci.outputRate)
<1>1. k \in 0 .. numStages /\ k - 1 \in 0 .. numStages
  BY StageFactors DEF Positive
<1> DEFINE a == stageRate[k - 1]
           b == stageRate[k]
           low == Lower(ci.inputRate, ci.outputRate)
<1>2. a \in Nat /\ a >= low /\ b \in Nat /\ b >= low
  BY <1>1, RateInBand
<1>3. minSampleRate(k) = a \/ minSampleRate(k) = b
  BY DEF minSampleRate, Lower
<1> QED
  BY <1>2, <1>3

\* Half of a rate, and twice that: a hertz is lost, and no more.
LEMMA NextStopIs ==
  ASSUME OptionsOK, NEW rate \in Nat, NEW last \in Int
  PROVE  LET h == 2 * (rate \div 2)
         IN /\ nextStopFreq(rate, last) \in Int
            /\ nextStopFreq(rate, last) >= stretch * h
            /\ h \in Nat /\ h >= rate - 1
<1> DEFINE h == 2 * (rate \div 2)
           t == stretch * 2 * (rate \div 2)
           u == stretch * h
           v == 44 * rate - last
<1>1. stretch \in Nat
  BY StretchIsNat
<1>2. h \in Nat /\ h >= rate - 1 /\ rate \div 2 \in Nat
  OBVIOUS
<1>3. t = u
  <2>1. \A x, y \in Nat : x * 2 * y = x * (2 * y)
    OBVIOUS
  <2> QED
    BY <1>1, <1>2, <2>1
<1>4. u \in Nat /\ v \in Int
  <2> HIDE DEF h
  <2> QED
    BY <1>1, <1>2, TimesNat
<1>5. nextStopFreq(rate, last) = IF t < v THEN v ELSE t
  BY DEF nextStopFreq, Higher
<1> HIDE DEF t, u, v, h
<1>6. nextStopFreq(rate, last) \in Int /\ nextStopFreq(rate, last) >= u
  BY <1>3, <1>4, <1>5
<1> QED
  BY <1>2, <1>6 DEF h, u

\* The stop frequencies are those of initMultistage, one after the other.
LEMMA StopsExist ==
  ASSUME PlanOK, OptionsOK
  PROVE  /\ stopFreq \in [0 .. numStages -> Int]
         /\ \A k \in 1 .. numStages : stopFreq[k] = nextStopFreq(minSampleRate(k), stopFreq[k - 1])
<1> DEFINE N == numStages
           E == [t \in (1 .. N) \X Int |-> nextStopFreq(minSampleRate(t[1]), t[2])]
           c == stretch * ci.inputRate
<1>1. N \in Nat /\ c \in Int
  <2>1. N \in Nat /\ stretch \in Nat /\ ci.inputRate \in Nat
    BY StageFactors, StretchIsNat DEF PlanOK, Positive
  <2> QED
    BY <2>1, TimesNat
<1>2. ASSUME NEW k \in 1 .. N, NEW x \in Int PROVE nextStopFreq(minSampleRate(k), x) \in Int
  BY LowerRate, NextStopIs
<1>3. E \in Rules(Int, N)
  <2> HIDE DEF N
  <2> QED
    BY <1>2 DEF Rules
<1>4. PICK f : Follows(f, Int, c, N, E)
  <2> HIDE DEF E, N, c
  <2> QED
    BY <1>1, <1>3, IterationExists
<1> DEFINE D == 0 .. N
<1>5. f \in [D -> Int] /\ f[0] = c /\ \A k \in 1 .. N : f[k] = E[<<k, f[k - 1]>>]
  BY <1>4 DEF Follows
<1>6. /\ \A k \in D : k # 0 => k \in 1 .. N /\ k - 1 \in D
      /\ \A k \in 1 .. N : k \in D /\ k # 0 /\ k - 1 \in D
  BY <1>1
<1>7. ASSUME NEW k \in D
      PROVE  f[k] = IF k = 0 THEN c ELSE nextStopFreq(minSampleRate(k), f[k - 1])
  <2>1. CASE k = 0
    BY <1>5, <2>1
  <2>2. CASE k # 0
    <3>1. k \in 1 .. N /\ f[k - 1] \in Int
      BY <1>5, <1>6, <2>2
    <3>2. E[<<k, f[k - 1]>>] = nextStopFreq(minSampleRate(k), f[k - 1])
      BY <3>1
    <3> QED
      BY <1>5, <2>2, <3>1, <3>2
  <2> QED
    BY <2>1, <2>2
<1>8. f = Stops(f)
  <2> HIDE DEF E
  <2> QED
    BY <1>5, <1>7 DEF Stops
<1>9. stopFreq = CHOOSE g : g = Stops(g)
  BY DEF stopFreq, Stops
<1>10. stopFreq = Stops(stopFreq)
  BY <1>8, <1>9
<1>11. /\ stopFreq = [k \in D |-> stopFreq[k]]
       /\ \A k \in D : stopFreq[k] =
            IF k = 0 THEN c ELSE nextStopFreq(minSampleRate(k), stopFreq[k - 1])
  BY <1>10 DEF Stops
<1> DEFINE S == {j \in Nat : j <= N => stopFreq[j] \in Int}
<1> HIDE DEF c, E
<1>12. 0 \in S
  <2>1. 0 \in D
    BY <1>1
  <2>2. stopFreq[0] \in Int
    BY <1>1, <1>11, <2>1
  <2> QED
    BY <2>2
<1>13. ASSUME NEW j \in Nat, j \in S PROVE j + 1 \in S
  <2> SUFFICES ASSUME j + 1 <= N PROVE stopFreq[j + 1] \in Int
    OBVIOUS
  <2>1. /\ j + 1 \in 1 .. N /\ j + 1 \in D /\ j + 1 # 0 /\ (j + 1) - 1 = j
        /\ stopFreq[j] \in Int
    BY <1>1, <1>13
  <2>2. stopFreq[j + 1] = nextStopFreq(minSampleRate(j + 1), stopFreq[j])
    BY <1>11, <2>1
  <2> QED
    BY <1>2, <2>1, <2>2
<1> HIDE DEF S
<1>14. Nat \subseteq S
  BY <1>12, <1>13, InductiveSet
<1>15. \A k \in D : stopFreq[k] \in Int
  <2>1. \A k \in D : k \in Nat /\ k <= N
    BY <1>1
  <2> QED
    BY <1>14, <2>1 DEF S
<1>16. stopFreq \in [D -> Int]
  <2> HIDE DEF D
  <2> QED
    BY <1>11, <1>15
<1>17. \A k \in 1 .. N : stopFreq[k] = nextStopFreq(minSampleRate(k), stopFreq[k - 1])
  BY <1>6, <1>11
<1> QED
  BY <1>16, <1>17

\* The rates are taken from the list, and the filter too, and both are kept.
LEMMA OptionsInvariant == Spec => []OptionsOK
<1>1. Init => OptionsOK
  <2> SUFFICES ASSUME Init PROVE OptionsOK
    OBVIOUS
  <2>1. PICK p \in RatePairs, lpf \in Filters :
          ci.inputRate = p[1] /\ ci.outputRate = p[2] /\ ci.filter = lpf
    BY DEF Init
  <2>2. p = <<p[1], p[2]>>
    BY ConverterAssumption
  <2> QED
    BY <2>1, <2>2 DEF OptionsOK
<1>2. OptionsOK /\ [Next]_vars => OptionsOK'
  BY PlanRests DEF OptionsOK, plan
<1> QED
  BY <1>1, <1>2, PTL DEF Spec

\* The hertz that is lost when an odd rate is halved is less than the transition is wide:
\* so it is for all rates from 24 Hz on, whatever the filter.
WideEnough ==
  \A p \in RatePairs, lpf \in Filters : lpf[1] < lpf[2] * (Lower(p[1], p[2]) - 1)

LEMMA WideEnoughFrom24Hz ==
  (\A p \in RatePairs : p[1] >= 24 /\ p[2] >= 24) => WideEnough
<1> SUFFICES ASSUME \A p \in RatePairs : p[1] >= 24 /\ p[2] >= 24,
                    NEW p \in RatePairs, NEW lpf \in Filters
             PROVE  lpf[1] < lpf[2] * (Lower(p[1], p[2]) - 1)
  BY DEF WideEnough
<1> DEFINE c == lpf[1]
           w == lpf[2]
           x == Lower(p[1], p[2]) - 1
<1>1. c \in 1 .. 22 /\ w \in Nat /\ w >= 1
  BY ConverterAssumption
<1>2. x \in Nat /\ x >= 23
  <2>1. p[1] \in Nat /\ p[2] \in Nat /\ p[1] >= 24 /\ p[2] >= 24
    BY ConverterAssumption
  <2> QED
    BY <2>1 DEF Lower
<1> HIDE DEF c, w, x
<1>3. 1 * x <= w * x
  BY <1>1, <1>2, TimesMonotone
<1>4. w * x \in Nat
  BY <1>1, <1>2, TimesNat
<1>5. c < w * x
  BY <1>1, <1>2, <1>3, <1>4
<1> QED
  BY <1>5 DEF c, w, x

\* "should always be the case for a LPF": for all pairs of rates and every filter, the
\* stages of a cascade end their transition above the frequency at which it begins, and
\* the two assertions of initMultistage hold.
THEOREM AssertionsAlwaysHold == WideEnough => (Spec => []AssertionsHold)
<1> DEFINE low == Lower(ci.inputRate, ci.outputRate)
           c == ci.filter[1]
           w == ci.filter[2]
<1>1. ASSUME WideEnough, PlanOK, OptionsOK PROVE AssertionsHold
  <2> SUFFICES ASSUME NEW k \in 1 .. numStages PROVE stopFreq[k] > ft
    BY DEF AssertionsHold
  <2> DEFINE rate == minSampleRate(k)
             h == 2 * (rate \div 2)
             stop == stopFreq[k]
  <2>1. k - 1 \in 0 .. numStages
    BY <1>1, StageFactors DEF Positive
  <2>2. rate \in Nat /\ rate >= low /\ stopFreq[k - 1] \in Int
        /\ stop = nextStopFreq(rate, stopFreq[k - 1])
    BY <1>1, <2>1, LowerRate, StopsExist
  <2> HIDE DEF rate
  <2>3. stop \in Int /\ stop >= stretch * h /\ h \in Nat /\ h >= rate - 1
    BY <1>1, <2>2, NextStopIs
  <2>4. c \in Nat /\ w \in Nat /\ stretch = c + w
    BY <1>1, StretchIsNat
  <2>5. low \in Nat /\ low >= 1
    BY <1>1 DEF PlanOK, Lower, Positive
  <2>6. c < w * (low - 1)
    <3>1. \A p, l : p \in RatePairs /\ l \in Filters => l[1] < l[2] * (Lower(p[1], p[2]) - 1)
      BY <1>1 DEF WideEnough
    <3> DEFINE p == <<ci.inputRate, ci.outputRate>>
               l == ci.filter
    <3>2. p \in RatePairs /\ l \in Filters /\ p[1] = ci.inputRate /\ p[2] = ci.outputRate
      BY <1>1 DEF OptionsOK
    <3> HIDE DEF p, l
    <3>3. l[1] < l[2] * (Lower(p[1], p[2]) - 1)
      BY <3>1, <3>2
    <3> QED
      BY <3>2, <3>3 DEF l
  <2>7. ft = c * low
    BY DEF ft
  <2> HIDE DEF low, c, w, h, stop
  <2>8. stretch * h >= c * low - c + w * (low - 1)
    <3>1. h >= low - 1 /\ low - 1 \in Nat
      BY <2>2, <2>3, <2>5
    <3>2. (low - 1) * (c + w) <= h * (c + w)
      BY <2>3, <2>4, <3>1, TimesMonotone
    <3>3. (low - 1) * (c + w) = c * low - c + w * (low - 1) /\ h * (c + w) = (c + w) * h
      <4>1. \A x, y, z, t \in Int : (x - 1) * (y + z) = y * x - y + z * (x - 1) /\ t * (y + z) = (y + z) * t
        OBVIOUS
      <4> QED
        BY <2>3, <2>4, <2>5, <4>1
    <3> QED
      BY <2>4, <3>2, <3>3
  <2>9. c * low \in Nat /\ w * (low - 1) \in Int /\ stretch * h \in Nat
    <3>1. low - 1 \in Nat /\ stretch \in Nat
      BY <2>4, <2>5
    <3> QED
      BY <2>3, <2>4, <2>5, <3>1, TimesNat
  <2> DEFINE a == c * low
             b == w * (low - 1)
             d == stretch * h
  <2>10. a \in Nat /\ b \in Int /\ d \in Nat /\ d >= a - c + b /\ c < b /\ stop >= d
    BY <2>3, <2>6, <2>8, <2>9
  <2> HIDE DEF a, b, d
  <2>11. stop > a
    BY <2>3, <2>4, <2>10
  <2> QED
    BY <2>7, <2>11 DEF a, stop
<1>2. WideEnough /\ PlanOK /\ OptionsOK => AssertionsHold
  BY <1>1
<1>3. SUFFICES ASSUME WideEnough PROVE Spec => []AssertionsHold
  OBVIOUS
<1>4. PlanOK /\ OptionsOK => AssertionsHold
  BY <1>2, <1>3
<1> QED
  BY <1>4, PlanInvariant, OptionsInvariant, PTL
===============================================================================
