------------------------------ MODULE ScopeProofs ------------------------------
(***************************************************************************)
(* Proofs about Scope, for any limits on names, addresses of any width and *)
(* any list of entries: ScopeEnforcer's verdict, which looks at characters *)
(* and shifted numbers, is what the labels of names and the ranges of      *)
(* networks say.                                                           *)
(*                                                                         *)
(* Induction over numbers is that of a set of numbers (AllNumbers), which  *)
(* names no operator the provers would have to be told.                    *)
(***************************************************************************)
EXTENDS Scope, SequenceTheorems, FiniteSetTheorems, WellFoundedInduction, TLAPS

\* A set that has 0 and, with every number, the next has all numbers.
LEMMA AllNumbers ==
    ASSUME NEW S, 0 \in S, \A n \in Nat : n \in S => n + 1 \in S
    PROVE  \A n \in Nat : n \in S
<1> SUFFICES ASSUME NEW n \in Nat, n \notin S PROVE FALSE
  OBVIOUS
<1> DEFINE R == OpToRel(<, Nat)
           missing == {k \in Nat : k \notin S}
<1>1. R = {ss \in Nat \X Nat : ss[1] < ss[2]}
  BY DEF OpToRel
<1>2. IsWellFoundedOn(R, Nat)
  BY NatLessThanWellFounded
<1>3. missing \subseteq Nat /\ missing # {}
  OBVIOUS
<1>4. PICK m \in missing : \A k \in missing : <<k, m>> \notin R
  <2> HIDE DEF R, missing
  <2> QED  BY <1>2, <1>3, WFMin
<1>5. m \in Nat /\ m # 0 /\ m - 1 \in Nat
  OBVIOUS
<1>6. m - 1 \notin missing
  <2> HIDE DEF R, missing
  <2>1. <<m - 1, m>> \in R
    BY <1>1, <1>5
  <2> QED  BY <1>4, <2>1
<1> QED  BY <1>5, <1>6

-----------------------------------------------------------------------------
(* Networks *)

\* PowerOfTwo is the function its definition asks for.
LEMMA PowerOfTwoDoubles ==
    PowerOfTwo = [k \in Nat |-> IF k = 0 THEN 1 ELSE 2 * PowerOfTwo[k - 1]]
<1> DEFINE Doubles(g, n) == g[0] = 1 /\ \A k \in 1 .. n : g[k] = 2 * g[k - 1]
           Value(n) == (CHOOSE g : Doubles(g, n))[n]
           f == [n \in Nat |-> Value(n)]
<1>1. \A n \in Nat : \E g : Doubles(g, n)
  <2> DEFINE S == {n \in Nat : \E g : Doubles(g, n)}
  <2>1. 0 \in S
    <3>1. Doubles([k \in {0} |-> 1], 0)
      OBVIOUS
    <3> HIDE DEF Doubles
    <3> QED  BY <3>1
  <2>2. ASSUME NEW n \in Nat, n \in S
        PROVE  n + 1 \in S
    <3>1. PICK g : Doubles(g, n)
      BY <2>2
    <3> DEFINE h == [k \in 0 .. n + 1 |-> IF k = n + 1 THEN 2 * g[n] ELSE g[k]]
    <3>2. h[0] = 1 /\ h[n + 1] = 2 * h[n]
      BY <3>1
    <3>3. \A k \in 1 .. n : h[k] = 2 * h[k - 1]
      BY <3>1
    <3> HIDE DEF h
    <3>4. Doubles(h, n + 1)
      BY <3>2, <3>3
    <3> HIDE DEF Doubles
    <3> QED  BY <3>4
  <2> HIDE DEF S
  <2>3. \A n \in Nat : n \in S
    BY <2>1, <2>2, AllNumbers
  <2> QED  BY <2>3 DEF S
<1>2. \A n \in Nat : \A g, h : Doubles(g, n) /\ Doubles(h, n) => g[n] = h[n]
  <2> DEFINE S == {n \in Nat : \A g, h : Doubles(g, n) /\ Doubles(h, n) => g[n] = h[n]}
  <2>1. 0 \in S
    OBVIOUS
  <2>2. ASSUME NEW n \in Nat, n \in S
        PROVE  n + 1 \in S
    <3> SUFFICES ASSUME NEW g, NEW h, Doubles(g, n + 1), Doubles(h, n + 1)
                 PROVE  g[n + 1] = h[n + 1]
      OBVIOUS
    <3>1. Doubles(g, n) /\ Doubles(h, n)
      OBVIOUS
    <3>2. g[n] = h[n]
      BY <2>2, <3>1
    <3>3. n + 1 \in 1 .. n + 1 /\ n + 1 - 1 = n
      OBVIOUS
    <3> QED  BY <3>2, <3>3
  <2> HIDE DEF S
  <2>3. \A n \in Nat : n \in S
    BY <2>1, <2>2, AllNumbers
  <2> QED  BY <2>3 DEF S
<1>3. \A n \in Nat : Doubles(CHOOSE g : Doubles(g, n), n)
  <2> HIDE DEF Doubles
  <2> QED  BY <1>1
<1>4. f = [k \in Nat |-> IF k = 0 THEN 1 ELSE 2 * f[k - 1]]
  <2>1. Value(0) = 1
    BY <1>3
  <2>2. ASSUME NEW n \in Nat, n # 0
        PROVE  Value(n) = 2 * Value(n - 1)
    <3> DEFINE g == CHOOSE g : Doubles(g, n)
               h == CHOOSE h : Doubles(h, n - 1)
    <3>1. n - 1 \in Nat /\ n \in 1 .. n
      BY <2>2
    <3>2. Doubles(g, n) /\ Doubles(h, n - 1)
      BY <1>3, <3>1
    <3> HIDE DEF g, h
    <3>3. g[n] = 2 * g[n - 1] /\ Doubles(g, n - 1)
      BY <3>1, <3>2
    <3>4. g[n - 1] = h[n - 1]
      BY <1>2, <3>1, <3>2, <3>3
    <3> QED  BY <3>3, <3>4 DEF g, h
  <2> HIDE DEF Value
  <2> QED  BY <2>1, <2>2
<1> HIDE DEF f
<1> QED  BY <1>4, Zenon DEF PowerOfTwo

\* A network has addresses.
LEMMA NetworksHaveSize ==
    ASSUME NEW entry \in EntryRecords, entry.family # 0
    PROVE  SizeOf(entry) \in Nat \ {0}
<1> DEFINE S == {k \in Nat : PowerOfTwo[k] \in Nat \ {0}}
<1>1. 0 \in S
  BY PowerOfTwoDoubles
<1>2. ASSUME NEW n \in Nat, n \in S
      PROVE  n + 1 \in S
  <2>1. PowerOfTwo[n + 1] = 2 * PowerOfTwo[n]
    <3>1. n + 1 \in Nat /\ n + 1 # 0 /\ n + 1 - 1 = n
      OBVIOUS
    <3> QED  BY <3>1, PowerOfTwoDoubles
  <2> QED  BY <1>2, <2>1
<1> HIDE DEF S
<1>3. \A n \in Nat : n \in S
  BY <1>1, <1>2, AllNumbers
<1>4. Bits[entry.family] - entry.prefix \in Nat
  BY BitsType DEF EntryRecords
<1> QED  BY <1>3, <1>4 DEF S, SizeOf

\* An address is in a network, by the bits before its prefix, just when it lies
\* between the network's first and last.
LEMMA NetworksAreRanges ==
    ASSUME NEW entry \in EntryRecords, NEW target \in TargetRecords,
           entry.family # 0, target.family # 0
    PROVE  InNetwork(target, entry) <=> Covers(entry, target)
<1>1. SizeOf(entry) \in Nat \ {0}
  BY NetworksHaveSize
<1>2. entry.number \in Nat /\ target.number \in Nat
  BY DEF EntryRecords, TargetRecords
<1>3. ASSUME NEW n \in Nat, NEW m \in Nat, NEW size \in Nat \ {0}
      PROVE  n \div size = m \div size <=> n \in (m - (m % size)) .. (m - (m % size)) + size - 1
  OBVIOUS
<1>4. target.number \div SizeOf(entry) = entry.number \div SizeOf(entry) <=>
          target.number \in (entry.number - (entry.number % SizeOf(entry)))
                            .. (entry.number - (entry.number % SizeOf(entry))) + SizeOf(entry) - 1
  BY <1>1, <1>2, <1>3
<1> QED  BY <1>4 DEF InNetwork, Covers

-----------------------------------------------------------------------------
(* Where a text is cut *)

\* A text is cut at its two ends and at dots between, so finitely often.
LEMMA CutsAreFinite ==
    ASSUME NEW text \in Seq(STRING)
    PROVE  /\ IsFiniteSet(Cuts(text))
           /\ Cardinality(Cuts(text)) \in Nat
           /\ Cuts(text) \subseteq 0 .. Len(text) + 1
           /\ 0 \in Cuts(text) /\ Len(text) + 1 \in Cuts(text)
           /\ Len(text) \in Nat /\ DOMAIN text = 1 .. Len(text)
           /\ \A i \in 1 .. Len(text) : i \in Cuts(text) <=> text[i] = "."
<1>1. Len(text) \in Nat /\ DOMAIN text = 1 .. Len(text)
  BY LenProperties
<1>2. Cuts(text) \subseteq 0 .. Len(text) + 1
  BY <1>1 DEF Cuts
<1>3. \A i \in 1 .. Len(text) : i \in Cuts(text) <=> text[i] = "."
  BY <1>1 DEF Cuts
<1>4. 0 \in Cuts(text) /\ Len(text) + 1 \in Cuts(text)
  BY DEF Cuts
<1>5. IsFiniteSet(0 .. Len(text) + 1)
  BY <1>1, FS_Interval
<1>6. IsFiniteSet(Cuts(text))
  BY <1>2, <1>5, FS_Subset
<1> QED  BY <1>1, <1>2, <1>3, <1>4, <1>6, FS_CardinalityType

\* The place of a number is that of the last cut up to it: it grows at cuts.
LEMMA PlacesGrow ==
    ASSUME NEW text \in Seq(STRING), NEW i \in 0 .. Len(text) + 1, NEW j \in 0 .. Len(text) + 1
    PROVE  /\ PlaceOf(text, i) \in 1 .. Cardinality(Cuts(text))
           /\ i <= j => PlaceOf(text, i) <= PlaceOf(text, j)
           /\ i < j /\ (\E c \in Cuts(text) : i < c /\ c <= j) => PlaceOf(text, i) < PlaceOf(text, j)
<1> DEFINE UpTo(n) == {c \in Cuts(text) : c <= n}
<1>1. /\ IsFiniteSet(Cuts(text)) /\ Cardinality(Cuts(text)) \in Nat
      /\ Cuts(text) \subseteq 0 .. Len(text) + 1 /\ 0 \in Cuts(text) /\ Len(text) \in Nat
  BY CutsAreFinite
<1>2. ASSUME NEW n \in 0 .. Len(text) + 1
      PROVE  /\ IsFiniteSet(UpTo(n)) /\ Cardinality(UpTo(n)) \in 1 .. Cardinality(Cuts(text))
  <2>1. UpTo(n) \subseteq Cuts(text) /\ 0 \in UpTo(n)
    BY <1>1
  <2>2. IsFiniteSet(UpTo(n)) /\ Cardinality(UpTo(n)) <= Cardinality(Cuts(text))
    BY <1>1, <2>1, FS_Subset
  <2>3. Cardinality(UpTo(n)) \in Nat /\ Cardinality(UpTo(n)) # 0
    BY <2>1, <2>2, FS_CardinalityType, FS_EmptySet
  <2> QED  BY <1>1, <2>2, <2>3
<1>3. i <= j => UpTo(i) \subseteq UpTo(j)
  BY <1>1
<1>4. i <= j => Cardinality(UpTo(i)) <= Cardinality(UpTo(j))
  BY <1>2, <1>3, FS_Subset
<1>5. ASSUME i < j, NEW c \in Cuts(text), i < c, c <= j
      PROVE  Cardinality(UpTo(i)) < Cardinality(UpTo(j))
  <2>1. c \in UpTo(j) /\ c \notin UpTo(i)
    BY <1>1, <1>5
  <2>2. UpTo(i) \subseteq UpTo(j) /\ Cardinality(UpTo(i)) <= Cardinality(UpTo(j))
    BY <1>3, <1>4, <1>5, <1>1
  <2>3. Cardinality(UpTo(j)) # Cardinality(UpTo(i))
    BY <1>2, <2>1, <2>2, FS_Subset
  <2>4. Cardinality(UpTo(i)) \in Int /\ Cardinality(UpTo(j)) \in Int
    <3> HIDE DEF UpTo
    <3> QED  BY <1>1, <1>2
  <2> QED  BY <2>2, <2>3, <2>4
<1> HIDE DEF UpTo
<1>6. PlaceOf(text, i) = Cardinality(UpTo(i)) /\ PlaceOf(text, j) = Cardinality(UpTo(j))
  BY DEF PlaceOf, UpTo
<1> QED  BY <1>2, <1>4, <1>5, <1>6

\* Cut counts the cuts of a text from its first to its last.
LEMMA CutsInOrder ==
    ASSUME NEW text \in Seq(STRING)
    PROVE  /\ \A k \in 1 .. Cardinality(Cuts(text)) :
                  Cut(text, k) \in Cuts(text) /\ PlaceOf(text, Cut(text, k)) = k
           /\ \A c \in Cuts(text) : Cut(text, PlaceOf(text, c)) = c
<1> DEFINE n == Cardinality(Cuts(text))
           place == [c \in Cuts(text) |-> PlaceOf(text, c)]
<1>1. /\ IsFiniteSet(Cuts(text)) /\ n \in Nat
      /\ Cuts(text) \subseteq 0 .. Len(text) + 1 /\ Len(text) \in Nat
  BY CutsAreFinite
<1>2. ASSUME NEW c \in Cuts(text)
      PROVE  place[c] \in 1 .. n
  <2>1. c \in 0 .. Len(text) + 1
    BY <1>1
  <2> QED  BY <2>1, PlacesGrow
<1>3. ASSUME NEW c \in Cuts(text), NEW d \in Cuts(text), PlaceOf(text, c) = PlaceOf(text, d)
      PROVE  c = d
  <2>1. c \in 0 .. Len(text) + 1 /\ d \in 0 .. Len(text) + 1
    BY <1>1
  <2>2. PlaceOf(text, c) \in Int
    BY <2>1, PlacesGrow
  <2>3. ~(c < d)
    <3>1. c < d => PlaceOf(text, c) < PlaceOf(text, d)
      <4>1. c < d => \E x \in Cuts(text) : c < x /\ x <= d
        BY <2>1
      <4> QED  BY <2>1, <4>1, PlacesGrow
    <3> QED  BY <3>1, <1>3, <2>2
  <2>4. ~(d < c)
    <3>1. d < c => PlaceOf(text, d) < PlaceOf(text, c)
      <4>1. d < c => \E x \in Cuts(text) : d < x /\ x <= c
        BY <2>1
      <4> QED  BY <2>1, <4>1, PlacesGrow
    <3> QED  BY <3>1, <1>3, <2>2
  <2> QED  BY <1>1, <2>1, <2>3, <2>4
<1>4. place \in Injection(Cuts(text), 1 .. n)
  <2>1. place \in [Cuts(text) -> 1 .. n]
    BY <1>2
  <2>2. \A a, b \in Cuts(text) : place[a] = place[b] => a = b
    BY <1>3
  <2> HIDE DEF place
  <2> QED  BY <2>1, <2>2 DEF Injection, IsInjective
<1>5. IsFiniteSet(1 .. n) /\ Cardinality(1 .. n) = n
  BY <1>1, FS_Interval
<1>6. place \in Surjection(Cuts(text), 1 .. n)
  <2> HIDE DEF place
  <2> QED  BY <1>4, <1>5, FS_Injection
<1>7. \A k \in 1 .. n : \E c \in Cuts(text) : PlaceOf(text, c) = k
  <2>1. \A k \in 1 .. n : \E c \in Cuts(text) : place[c] = k
    <3> HIDE DEF place
    <3> QED  BY <1>6 DEF Surjection
  <2> QED  BY <2>1
<1>8. \A k \in 1 .. n : Cut(text, k) \in Cuts(text) /\ PlaceOf(text, Cut(text, k)) = k
  BY <1>7 DEF Cut
<1>9. \A c \in Cuts(text) : PlaceOf(text, c) \in 1 .. n
  BY <1>2
<1> QED  BY <1>3, <1>8, <1>9

\* The cuts, counted: they rise from 0 to behind the text, every one of them is
\* counted, and none lies between two that follow each other.
LEMMA CutsRise ==
    ASSUME NEW text \in Seq(STRING)
    PROVE  /\ Cardinality(Cuts(text)) \in Nat /\ Cardinality(Cuts(text)) >= 2
           /\ \A k \in 1 .. Cardinality(Cuts(text)) :
                  Cut(text, k) \in Cuts(text) /\ Cut(text, k) \in 0 .. Len(text) + 1
           /\ Cut(text, 1) = 0 /\ Cut(text, Cardinality(Cuts(text))) = Len(text) + 1
           /\ \A k, m \in 1 .. Cardinality(Cuts(text)) : k < m <=> Cut(text, k) < Cut(text, m)
           /\ \A c \in Cuts(text) : \E k \in 1 .. Cardinality(Cuts(text)) : c = Cut(text, k)
<1> DEFINE n == Cardinality(Cuts(text))
<1>1. /\ n \in Nat /\ Cuts(text) \subseteq 0 .. Len(text) + 1 /\ Len(text) \in Nat
      /\ 0 \in Cuts(text) /\ Len(text) + 1 \in Cuts(text)
  BY CutsAreFinite
<1>2. /\ \A k \in 1 .. n : Cut(text, k) \in Cuts(text) /\ PlaceOf(text, Cut(text, k)) = k
      /\ \A c \in Cuts(text) : Cut(text, PlaceOf(text, c)) = c
  BY CutsInOrder
<1>3. \A c \in Cuts(text) : PlaceOf(text, c) \in 1 .. n
  BY <1>1, PlacesGrow
<1>4. ASSUME NEW c \in Cuts(text), NEW d \in Cuts(text)
      PROVE  (c < d) <=> (PlaceOf(text, c) < PlaceOf(text, d))
  <2>1. c \in 0 .. Len(text) + 1 /\ d \in 0 .. Len(text) + 1
    BY <1>1
  <2>2. c < d => PlaceOf(text, c) < PlaceOf(text, d)
    <3>1. c < d => \E x \in Cuts(text) : c < x /\ x <= d
      BY <2>1
    <3> QED  BY <2>1, <3>1, PlacesGrow
  <2>3. d <= c => PlaceOf(text, d) <= PlaceOf(text, c)
    BY <2>1, PlacesGrow
  <2>4. PlaceOf(text, c) \in Int /\ PlaceOf(text, d) \in Int
    BY <1>3
  <2> QED  BY <1>1, <2>1, <2>2, <2>3, <2>4
<1>5. \A k, m \in 1 .. n : k < m <=> Cut(text, k) < Cut(text, m)
  BY <1>2, <1>4
<1>6. PlaceOf(text, 0) < PlaceOf(text, Len(text) + 1)
  BY <1>1, <1>4
<1>7. PlaceOf(text, 0) \in 1 .. n /\ PlaceOf(text, Len(text) + 1) \in 1 .. n
  BY <1>1, <1>3
<1>8. n >= 2
  BY <1>1, <1>6, <1>7
<1>9. Cut(text, 1) = 0
  <2>1. Cut(text, 1) \in 0 .. Len(text) + 1 /\ Cut(text, PlaceOf(text, 0)) = 0
    BY <1>1, <1>2, <1>8
  <2>2. ~(1 < PlaceOf(text, 0))
    BY <1>1, <1>5, <1>7, <1>8, <2>1
  <2> QED  BY <1>7, <2>1, <2>2
<1>10. Cut(text, n) = Len(text) + 1
  <2> DEFINE p == PlaceOf(text, Len(text) + 1)
  <2>1. Cut(text, n) \in 0 .. Len(text) + 1 /\ Cut(text, p) = Len(text) + 1 /\ p \in 1 .. n
    BY <1>1, <1>2, <1>7, <1>8
  <2> HIDE DEF p, n
  <2>2. ~(p < n)
    BY <1>1, <1>5, <1>8, <2>1
  <2> QED  BY <1>1, <2>1, <2>2
<1>11. \A k \in 1 .. n : Cut(text, k) \in Cuts(text) /\ Cut(text, k) \in 0 .. Len(text) + 1
  BY <1>1, <1>2
<1>12. \A c \in Cuts(text) : \E k \in 1 .. n : c = Cut(text, k)
  BY <1>2, <1>3
<1> QED  BY <1>1, <1>5, <1>8, <1>9, <1>10, <1>11, <1>12

\* A character that is no dot lies between two cuts that follow each other.
LEMMA BetweenCuts ==
    ASSUME NEW text \in Seq(STRING), NEW i \in 1 .. Len(text), text[i] # "."
    PROVE  \E k \in 1 .. Cardinality(Cuts(text)) - 1 : Cut(text, k) < i /\ i < Cut(text, k + 1)
<1> DEFINE n == Cardinality(Cuts(text))
           k == PlaceOf(text, i)
<1>1. /\ n \in Nat /\ Len(text) \in Nat
      /\ i \notin Cuts(text) /\ i \in 0 .. Len(text) + 1 /\ Len(text) + 1 \in Cuts(text)
      /\ Cuts(text) \subseteq 0 .. Len(text) + 1
  BY CutsAreFinite
<1>2. k \in 1 .. n /\ PlaceOf(text, Len(text) + 1) \in 1 .. n
  BY <1>1, PlacesGrow
<1>3. k < PlaceOf(text, Len(text) + 1)
  <2>1. Len(text) + 1 \in 0 .. Len(text) + 1 /\ i < Len(text) + 1
    BY <1>1
  <2> QED  BY <1>1, <2>1, PlacesGrow
<1>4. k \in 1 .. n - 1 /\ k + 1 \in 1 .. n
  BY <1>1, <1>2, <1>3
<1>5. /\ Cut(text, k) \in Cuts(text) /\ PlaceOf(text, Cut(text, k)) = k
      /\ Cut(text, k + 1) \in Cuts(text) /\ PlaceOf(text, Cut(text, k + 1)) = k + 1
  <2>1. \A m \in 1 .. n : Cut(text, m) \in Cuts(text) /\ PlaceOf(text, Cut(text, m)) = m
    BY CutsInOrder
  <2>2. k \in 1 .. n
    BY <1>2
  <2> HIDE DEF k, n
  <2> QED  BY <1>4, <2>1, <2>2
<1> DEFINE low == Cut(text, k)
           high == Cut(text, k + 1)
<1> HIDE DEF k, n
<1>6. low \in 0 .. Len(text) + 1 /\ high \in 0 .. Len(text) + 1 /\ low # i /\ high # i
  BY <1>1, <1>5
<1>7. ~(i < low)
  <2>1. i < low => k < PlaceOf(text, low)
    BY <1>1, <1>5, <1>6, PlacesGrow DEF k
  <2> QED  BY <1>2, <1>5, <2>1
<1>8. ~(high <= i)
  <2>1. high <= i => PlaceOf(text, high) <= k
    BY <1>1, <1>6, PlacesGrow DEF k
  <2> QED  BY <1>2, <1>5, <2>1
<1> QED  BY <1>1, <1>4, <1>6, <1>7, <1>8 DEF n

-----------------------------------------------------------------------------
(* Labels *)

\* A suffix, position by position.
LEMMA SuffixMeans ==
    ASSUME NEW S, NEW s \in Seq(S), NEW t \in Seq(S)
    PROVE  IsSuffix(s, t) <=>
               /\ Len(s) <= Len(t)
               /\ \A i \in 1 .. Len(s) : s[i] = t[Len(t) - Len(s) + i]
<1> DEFINE n == Len(s)
           m == Len(t)
<1>1. n \in Nat /\ m \in Nat /\ s \in [1 .. n -> S] /\ t \in [1 .. m -> S]
  BY LenProperties
<1>2. /\ Reverse(s) \in Seq(S) /\ Len(Reverse(s)) = n
      /\ \A i \in 1 .. n : Reverse(s)[i] = s[n - i + 1]
  BY <1>1 DEF Reverse
<1>3. /\ Reverse(t) \in Seq(S) /\ Len(Reverse(t)) = m
      /\ \A i \in 1 .. m : Reverse(t)[i] = t[m - i + 1]
  BY <1>1 DEF Reverse
<1>4. IsSuffix(s, t) <=> n <= m /\ SubSeq(Reverse(s), 1, n) = SubSeq(Reverse(t), 1, n)
  BY <1>2, <1>3 DEF IsSuffix, IsPrefix
<1>5. ASSUME n <= m
      PROVE  SubSeq(Reverse(s), 1, n) = SubSeq(Reverse(t), 1, n) <=>
                 \A i \in 1 .. n : s[n - i + 1] = t[m - i + 1]
  <2>1. /\ Len(SubSeq(Reverse(s), 1, n)) = n /\ SubSeq(Reverse(s), 1, n) \in Seq(S)
        /\ \A i \in 1 .. n : SubSeq(Reverse(s), 1, n)[i] = s[n - i + 1]
    BY <1>1, <1>2
  <2>2. /\ Len(SubSeq(Reverse(t), 1, n)) = n /\ SubSeq(Reverse(t), 1, n) \in Seq(S)
        /\ \A i \in 1 .. n : SubSeq(Reverse(t), 1, n)[i] = t[m - i + 1]
    BY <1>1, <1>3, <1>5
  <2> DEFINE a == SubSeq(Reverse(s), 1, n)
             b == SubSeq(Reverse(t), 1, n)
  <2> HIDE DEF a, b
  <2>3. a = b <=> \A i \in 1 .. n : a[i] = b[i]
    <3>1. Len(a) = n /\ Len(b) = n /\ a \in Seq(S) /\ b \in Seq(S)
      BY <2>1, <2>2 DEF a, b
    <3> QED  BY <3>1, SeqEqual
  <2> QED  BY <2>1, <2>2, <2>3 DEF a, b
<1>6. (\A i \in 1 .. n : s[n - i + 1] = t[m - i + 1]) <=>
          (\A i \in 1 .. n : s[i] = t[m - n + i])
  <2>1. ASSUME \A i \in 1 .. n : s[n - i + 1] = t[m - i + 1], NEW i \in 1 .. n
        PROVE  s[i] = t[m - n + i]
    <3>1. n - i + 1 \in 1 .. n /\ n - (n - i + 1) + 1 = i /\ m - (n - i + 1) + 1 = m - n + i
      BY <1>1
    <3> QED  BY <2>1, <3>1
  <2>2. ASSUME \A i \in 1 .. n : s[i] = t[m - n + i], NEW i \in 1 .. n
        PROVE  s[n - i + 1] = t[m - i + 1]
    <3>1. n - i + 1 \in 1 .. n /\ m - n + (n - i + 1) = m - i + 1
      BY <1>1
    <3> QED  BY <2>2, <3>1
  <2> QED  BY <2>1, <2>2
<1> QED  BY <1>4, <1>5, <1>6

\* The labels of a text are what stands between its cuts.
LEMMA LabelsStandBetweenCuts ==
    ASSUME NEW text \in Seq(STRING)
    PROVE  /\ Labels(text) \in Seq(Seq(STRING))
           /\ Len(Labels(text)) = Cardinality(Cuts(text)) - 1
           /\ \A k \in 1 .. Cardinality(Cuts(text)) - 1 :
                  /\ Len(Labels(text)[k]) = Cut(text, k + 1) - Cut(text, k) - 1
                  /\ \A i \in 1 .. Cut(text, k + 1) - Cut(text, k) - 1 :
                         Labels(text)[k][i] = text[Cut(text, k) + i]
<1> DEFINE n == Cardinality(Cuts(text))
           labels == Labels(text)
<1>1. /\ n \in Nat /\ n >= 2
      /\ \A k \in 1 .. n : Cut(text, k) \in 0 .. Len(text) + 1
      /\ \A k, m \in 1 .. n : k < m <=> Cut(text, k) < Cut(text, m)
  BY CutsRise
<1>2. Len(text) \in Nat /\ text \in [1 .. Len(text) -> STRING]
  BY LenProperties
<1>3. ASSUME NEW k \in 1 .. n - 1
      PROVE  /\ labels[k] \in Seq(STRING)
             /\ Len(labels[k]) = Cut(text, k + 1) - Cut(text, k) - 1
             /\ \A i \in 1 .. Cut(text, k + 1) - Cut(text, k) - 1 :
                    labels[k][i] = text[Cut(text, k) + i]
  <2> DEFINE a == Cut(text, k)
             b == Cut(text, k + 1)
  <2>1. k \in 1 .. n /\ k + 1 \in 1 .. n /\ k < k + 1
    BY <1>1
  <2>2. a \in 0 .. Len(text) + 1 /\ b \in 0 .. Len(text) + 1 /\ a < b
    BY <1>1, <2>1
  <2>3. labels[k] = SubSeq(text, a + 1, b - 1)
    BY DEF Labels
  <2> HIDE DEF a, b
  <2>4. \A i \in a + 1 .. b - 1 : text[i] \in STRING
    BY <1>2, <2>2
  <2>5. /\ SubSeq(text, a + 1, b - 1) \in Seq(STRING)
        /\ Len(SubSeq(text, a + 1, b - 1)) = IF a + 1 <= b - 1 THEN (b - 1) - (a + 1) + 1 ELSE 0
        /\ \A i \in 1 .. (b - 1) - (a + 1) + 1 :
               SubSeq(text, a + 1, b - 1)[i] = text[(a + 1) + i - 1]
    <3>1. a + 1 \in Int /\ b - 1 \in Int
      BY <1>2, <2>2
    <3> QED  BY <2>4, <3>1, SubSeqProperties
  <2>6. Len(labels[k]) = b - a - 1 /\ labels[k] \in Seq(STRING)
    BY <1>2, <2>2, <2>3, <2>5
  <2>7. \A i \in 1 .. b - a - 1 : labels[k][i] = text[a + i]
    <3> SUFFICES ASSUME NEW i \in 1 .. b - a - 1 PROVE labels[k][i] = text[a + i]
      OBVIOUS
    <3>1. i \in 1 .. (b - 1) - (a + 1) + 1 /\ (a + 1) + i - 1 = a + i
      BY <1>2, <2>2
    <3>2. labels[k][i] = text[(a + 1) + i - 1]
      BY <2>3, <2>5, <3>1
    <3> QED  BY <3>1, <3>2
  <2> QED  BY <2>6, <2>7 DEF a, b
<1>4. labels \in [1 .. n - 1 -> Seq(STRING)]
  <2>1. labels = [k \in 1 .. n - 1 |-> labels[k]]
    BY DEF Labels
  <2> QED  BY <1>3, <2>1
<1>5. labels \in Seq(Seq(STRING)) /\ Len(labels) = n - 1
  <2>1. n - 1 \in Nat
    BY <1>1
  <2> HIDE DEF labels, n
  <2> QED  BY <1>4, <2>1
<1> QED  BY <1>3, <1>5

\* The lower spelling has the length, the dots and with them the cuts.
LEMMA LowerKeepsLength ==
    ASSUME NEW text \in Seq(STRING)
    PROVE  /\ Lower(text) \in Seq(STRING) /\ Len(Lower(text)) = Len(text)
           /\ \A i \in 1 .. Len(text) :
                  Lower(text)[i] = IF text[i] = "A" THEN "a" ELSE text[i]
           /\ Lower(Lower(text)) = Lower(text)
<1>1. Len(text) \in Nat /\ text \in [1 .. Len(text) -> STRING] /\ DOMAIN text = 1 .. Len(text)
  BY LenProperties
<1>2. "a" \in STRING
  BY LettersAreStrings DEF Letters
<1>3. Lower(text) \in [1 .. Len(text) -> STRING]
  BY <1>1, <1>2 DEF Lower
<1>4. Lower(text) \in Seq(STRING) /\ Len(Lower(text)) = Len(text)
  BY <1>1, <1>3
<1>5. \A i \in 1 .. Len(text) : Lower(text)[i] = IF text[i] = "A" THEN "a" ELSE text[i]
  BY <1>1 DEF Lower
<1>6. Lower(Lower(text)) = Lower(text)
  <2>1. \A i \in 1 .. Len(text) : Lower(text)[i] # "A"
    BY <1>2, <1>5
  <2>2. Lower(text) = [i \in 1 .. Len(text) |-> Lower(text)[i]] /\ DOMAIN Lower(text) = 1 .. Len(text)
    BY <1>1 DEF Lower
  <2>3. Lower(Lower(text)) = [i \in DOMAIN Lower(text) |->
                                 IF Lower(text)[i] = "A" THEN "a" ELSE Lower(text)[i]]
    BY DEF Lower
  <2> QED  BY <2>1, <2>2, <2>3
<1> QED  BY <1>4, <1>5, <1>6

\* The last cuts of a host are those of the domain, moved behind what comes
\* before it; so they are its last labels.
AreAligned(domain, host) ==
    LET m == Cardinality(Cuts(domain))
        n == Cardinality(Cuts(host)) IN
    /\ m <= n
    /\ \A k \in 1 .. m : Cut(host, n - m + k) = Len(host) - Len(domain) + Cut(domain, k)

\* A host that is the domain or ends with a dot and it has its cuts there.
LEMMA DomainsAlign ==
    ASSUME NEW domain \in Seq(STRING), NEW host \in Seq(STRING), NEW offset \in Nat,
           Len(host) = offset + Len(domain),
           offset # 0 => host[offset] = ".",
           \A i \in 1 .. Len(domain) : domain[i] = host[offset + i]
    PROVE  AreAligned(domain, host)
<1> DEFINE m == Cardinality(Cuts(domain))
           n == Cardinality(Cuts(host))
           S == {j \in Nat : j < m => j < n /\ Cut(host, n - j) = offset + Cut(domain, m - j)}
<1>1. /\ m \in Nat /\ m >= 2
      /\ \A k \in 1 .. m : Cut(domain, k) \in Cuts(domain) /\ Cut(domain, k) \in 0 .. Len(domain) + 1
      /\ Cut(domain, 1) = 0 /\ Cut(domain, m) = Len(domain) + 1
      /\ \A k, l \in 1 .. m : k < l <=> Cut(domain, k) < Cut(domain, l)
      /\ \A c \in Cuts(domain) : \E k \in 1 .. m : c = Cut(domain, k)
  BY CutsRise
<1>2. /\ n \in Nat /\ n >= 2
      /\ \A k \in 1 .. n : Cut(host, k) \in Cuts(host) /\ Cut(host, k) \in 0 .. Len(host) + 1
      /\ Cut(host, 1) = 0 /\ Cut(host, n) = Len(host) + 1
      /\ \A k, l \in 1 .. n : k < l <=> Cut(host, k) < Cut(host, l)
      /\ \A c \in Cuts(host) : \E k \in 1 .. n : c = Cut(host, k)
  BY CutsRise
<1>3. Len(domain) \in Nat /\ Len(host) \in Nat
  BY CutsAreFinite
<1>4. ASSUME NEW c \in 0 .. Len(domain) + 1
      PROVE  c \in Cuts(domain) <=> offset + c \in Cuts(host)
  <2>1. CASE c = 0
    <3>1. 0 \in Cuts(domain) /\ 0 \in Cuts(host)
      BY CutsAreFinite
    <3>2. offset # 0 => offset \in 1 .. Len(host)
      BY <1>3
    <3>3. offset # 0 => offset \in Cuts(host)
      BY <3>2, CutsAreFinite
    <3> QED  BY <2>1, <3>1, <3>3
  <2>2. CASE c = Len(domain) + 1
    <3>1. offset + c = Len(host) + 1
      BY <1>3, <2>2
    <3> QED  BY <2>2, <3>1, CutsAreFinite
  <2>3. CASE c \in 1 .. Len(domain)
    <3>1. offset + c \in 1 .. Len(host)
      BY <1>3, <2>3
    <3>2. c \in Cuts(domain) <=> domain[c] = "."
      BY <2>3, CutsAreFinite
    <3>3. offset + c \in Cuts(host) <=> host[offset + c] = "."
      BY <3>1, CutsAreFinite
    <3> QED  BY <2>3, <3>2, <3>3
  <2> QED  BY <1>3, <2>1, <2>2, <2>3
<1> HIDE DEF m, n
<1>5. 0 \in S
  <2>1. m - 0 = m /\ n - 0 = n
    BY <1>1, <1>2
  <2>2. Cut(host, n) = offset + Cut(domain, m)
    BY <1>1, <1>2, <1>3
  <2> QED  BY <1>1, <1>2, <2>1, <2>2
<1>6. ASSUME NEW j \in Nat, j \in S
      PROVE  j + 1 \in S
  <2> SUFFICES ASSUME j + 1 < m
               PROVE  j + 1 < n /\ Cut(host, n - (j + 1)) = offset + Cut(domain, m - (j + 1))
    OBVIOUS
  <2>1. j < n /\ Cut(host, n - j) = offset + Cut(domain, m - j)
    BY <1>1, <1>6
  <2>2. /\ m - (j + 1) \in 1 .. m /\ m - j \in 1 .. m /\ n - j \in 1 .. n
        /\ m - (j + 1) < m - j
    BY <1>1, <1>2, <2>1
  <2> DEFINE c == Cut(domain, m - (j + 1))
  <2>3. c \in Cuts(domain) /\ c \in 0 .. Len(domain) + 1 /\ c < Cut(domain, m - j)
    BY <1>1, <2>2
  <2>4. Cut(domain, m - j) \in 0 .. Len(domain) + 1
    BY <1>1, <2>2
  <2> HIDE DEF c
  <2>5. offset + c \in Cuts(host)
    BY <1>4, <2>3
  <2>6. PICK k \in 1 .. n : offset + c = Cut(host, k)
    BY <1>2, <2>5
  <2>7. Cut(host, k) < Cut(host, n - j)
    BY <1>3, <2>1, <2>3, <2>4, <2>6
  <2>8. k < n - j
    BY <1>2, <2>2, <2>7
  <2>9. j + 1 < n /\ n - (j + 1) \in 1 .. n /\ n - (j + 1) < n - j
    BY <1>2, <2>2, <2>8
  <2> DEFINE h == Cut(host, n - (j + 1))
  <2>10. h \in Cuts(host) /\ h \in 0 .. Len(host) + 1 /\ h < Cut(host, n - j)
    BY <1>2, <2>2, <2>9
  <2>11. ~(n - (j + 1) < k)
    BY <1>2, <2>8, <2>9
  <2>12. ~(h < Cut(host, k))
    BY <1>2, <2>9, <2>11
  <2> HIDE DEF h
  <2>13. h >= offset + c
    BY <1>3, <2>3, <2>6, <2>10, <2>12
  <2>14. h - offset \in 0 .. Len(domain) + 1 /\ offset + (h - offset) = h
    BY <1>3, <2>1, <2>3, <2>4, <2>10, <2>13
  <2>15. h - offset \in Cuts(domain)
    BY <1>4, <2>10, <2>14
  <2>16. PICK l \in 1 .. m : h - offset = Cut(domain, l)
    BY <1>1, <2>15
  <2>17. Cut(domain, l) < Cut(domain, m - j)
    BY <1>3, <2>1, <2>4, <2>10, <2>14, <2>16
  <2>18. l < m - j
    BY <1>1, <2>2, <2>17
  <2>19. ~(m - (j + 1) < l)
    BY <1>1, <2>18
  <2>20. ~(c < Cut(domain, l))
    BY <1>1, <2>2, <2>19 DEF c
  <2>21. h = offset + c
    <3>1. ~(c < h - offset)
      BY <2>16, <2>20
    <3> QED  BY <1>3, <2>3, <2>10, <2>13, <3>1
  <2> QED  BY <2>9, <2>21 DEF c, h
<1> HIDE DEF S
<1>7. \A j \in Nat : j \in S
  BY <1>5, <1>6, AllNumbers
<1>8. m <= n
  <2>1. m - 1 \in Nat /\ m - 1 < m
    BY <1>1
  <2>2. m - 1 < n
    BY <1>7, <2>1 DEF S
  <2> QED  BY <1>1, <1>2, <2>2
<1>9. ASSUME NEW k \in 1 .. m
      PROVE  Cut(host, n - m + k) = Len(host) - Len(domain) + Cut(domain, k)
  <2>1. m - k \in Nat /\ m - k < m /\ n - (m - k) = n - m + k /\ m - (m - k) = k
    BY <1>1, <1>2
  <2>2. Cut(host, n - (m - k)) = offset + Cut(domain, m - (m - k))
    BY <1>7, <2>1 DEF S
  <2>3. Len(host) - Len(domain) = offset
    BY <1>3
  <2> QED  BY <2>1, <2>2, <2>3
<1> QED  BY <1>8, <1>9 DEF AreAligned, m, n

\* Labels that are the last of a host's have the lengths of these.
LEMMA LabelsAlign ==
    ASSUME NEW domain \in Seq(STRING), NEW host \in Seq(STRING),
           IsSuffix(Labels(domain), Labels(host))
    PROVE  AreAligned(domain, host)
<1> DEFINE m == Cardinality(Cuts(domain))
           n == Cardinality(Cuts(host))
           offset == Len(host) - Len(domain)
           S == {j \in Nat : j < m => Cut(host, n - j) = offset + Cut(domain, m - j)}
<1>1. /\ m \in Nat /\ m >= 2
      /\ \A k \in 1 .. m : Cut(domain, k) \in 0 .. Len(domain) + 1
      /\ Cut(domain, m) = Len(domain) + 1
  BY CutsRise
<1>2. /\ n \in Nat /\ n >= 2
      /\ \A k \in 1 .. n : Cut(host, k) \in 0 .. Len(host) + 1
      /\ Cut(host, n) = Len(host) + 1
  BY CutsRise
<1>3. Len(domain) \in Nat /\ Len(host) \in Nat
  BY CutsAreFinite
<1>4. /\ Labels(domain) \in Seq(Seq(STRING)) /\ Len(Labels(domain)) = m - 1
      /\ \A k \in 1 .. m - 1 : Len(Labels(domain)[k]) = Cut(domain, k + 1) - Cut(domain, k) - 1
  BY LabelsStandBetweenCuts
<1>5. /\ Labels(host) \in Seq(Seq(STRING)) /\ Len(Labels(host)) = n - 1
      /\ \A k \in 1 .. n - 1 : Len(Labels(host)[k]) = Cut(host, k + 1) - Cut(host, k) - 1
  BY LabelsStandBetweenCuts
<1>6. /\ m - 1 <= n - 1
      /\ \A k \in 1 .. m - 1 : Labels(domain)[k] = Labels(host)[(n - 1) - (m - 1) + k]
  <2> DEFINE a == Labels(domain)
             b == Labels(host)
  <2>1. a \in Seq(Seq(STRING)) /\ b \in Seq(Seq(STRING)) /\ IsSuffix(a, b)
    BY <1>4, <1>5
  <2>2. Len(a) = m - 1 /\ Len(b) = n - 1
    BY <1>4, <1>5
  <2> HIDE DEF a, b
  <2>3. Len(a) <= Len(b) /\ \A i \in 1 .. Len(a) : a[i] = b[Len(b) - Len(a) + i]
    BY <2>1, SuffixMeans
  <2> HIDE DEF m, n
  <2> QED  BY <2>2, <2>3 DEF a, b
<1> HIDE DEF m, n
<1>7. 0 \in S
  <2>1. m - 0 = m /\ n - 0 = n
    BY <1>1, <1>2
  <2>2. Cut(host, n) = offset + Cut(domain, m)
    BY <1>1, <1>2, <1>3
  <2> QED  BY <1>1, <1>2, <2>1, <2>2
<1> HIDE DEF offset
<1>8. ASSUME NEW j \in Nat, j \in S
      PROVE  j + 1 \in S
  <2> SUFFICES ASSUME j + 1 < m
               PROVE  Cut(host, n - (j + 1)) = offset + Cut(domain, m - (j + 1))
    OBVIOUS
  <2> DEFINE k == m - (j + 1)
             l == n - (j + 1)
  <2>1. /\ k \in 1 .. m - 1 /\ l \in 1 .. n - 1 /\ (n - 1) - (m - 1) + k = l
        /\ m - j = k + 1 /\ n - j = l + 1 /\ k \in 1 .. m /\ l \in 1 .. n
        /\ k + 1 \in 1 .. m /\ l + 1 \in 1 .. n
    BY <1>1, <1>2, <1>6
  <2>2. Cut(host, l + 1) = offset + Cut(domain, k + 1)
    BY <1>1, <1>8, <2>1
  <2> HIDE DEF k, l
  <2>3. Labels(domain)[k] = Labels(host)[l]
    BY <1>6, <2>1
  <2>4. Cut(domain, k + 1) - Cut(domain, k) - 1 = Cut(host, l + 1) - Cut(host, l) - 1
    BY <1>4, <1>5, <2>1, <2>3
  <2>5. /\ Cut(domain, k + 1) \in Int /\ Cut(domain, k) \in Int
        /\ Cut(host, l + 1) \in Int /\ Cut(host, l) \in Int /\ offset \in Int
    BY <1>1, <1>2, <1>3, <2>1 DEF offset
  <2>6. Cut(host, l) = offset + Cut(domain, k)
    BY <2>2, <2>4, <2>5
  <2> QED  BY <2>6 DEF k, l
<1> HIDE DEF S
<1>9. \A j \in Nat : j \in S
  BY <1>7, <1>8, AllNumbers
<1>10. ASSUME NEW k \in 1 .. m
       PROVE  Cut(host, n - m + k) = offset + Cut(domain, k)
  <2>1. m - k \in Nat /\ m - k < m /\ n - (m - k) = n - m + k /\ m - (m - k) = k
    BY <1>1, <1>2
  <2>2. Cut(host, n - (m - k)) = offset + Cut(domain, m - (m - k))
    BY <1>9, <2>1 DEF S
  <2> QED  BY <2>1, <2>2
<1>11. m <= n
  BY <1>1, <1>2, <1>6
<1> QED  BY <1>10, <1>11 DEF AreAligned, m, n, offset

\* A text with one word before it.
LEMMA WordBefore ==
    ASSUME NEW S, NEW word \in S, NEW text \in Seq(S)
    PROVE  /\ <<word>> \o text \in Seq(S)
           /\ Len(<<word>> \o text) = Len(text) + 1
           /\ (<<word>> \o text)[1] = word
           /\ \A i \in 1 .. Len(text) : (<<word>> \o text)[i + 1] = text[i]
<1>1. <<word>> \in Seq(S) /\ Len(<<word>>) = 1 /\ <<word>>[1] = word
  OBVIOUS
<1>2. /\ <<word>> \o text \in Seq(S)
      /\ Len(<<word>> \o text) = Len(<<word>>) + Len(text)
      /\ \A i \in 1 .. Len(<<word>>) + Len(text) : (<<word>> \o text)[i] =
             IF i <= Len(<<word>>) THEN <<word>>[i] ELSE text[i - Len(<<word>>)]
  BY <1>1, ConcatProperties
<1>3. Len(text) \in Nat
  BY LenProperties
<1> DEFINE all == <<word>> \o text
           one == <<word>>
<1> HIDE DEF all, one
<1>4. all[1] = word
  BY <1>1, <1>2, <1>3 DEF all, one
<1>5. ASSUME NEW i \in 1 .. Len(text)
      PROVE  all[i + 1] = text[i]
  <2>1. i + 1 \in 1 .. 1 + Len(text) /\ ~(i + 1 <= 1) /\ i + 1 - 1 = i
    BY <1>3
  <2>2. \A k \in 1 .. 1 + Len(text) : all[k] = IF k <= 1 THEN one[k] ELSE text[k - 1]
    BY <1>1, <1>2 DEF all, one
  <2> QED  BY <2>1, <2>2
<1>6. all \in Seq(S) /\ Len(all) = Len(text) + 1
  BY <1>1, <1>2, <1>3 DEF all
<1> QED  BY <1>4, <1>5, <1>6 DEF all

\* A host under a domain, position by position.
LEMMA UnderMeans ==
    ASSUME NEW domain \in Seq(STRING), NEW host \in Seq(STRING)
    PROVE  IsUnder(host, domain) <=>
               /\ Len(domain) < Len(host)
               /\ host[Len(host) - Len(domain)] = "."
               /\ \A i \in 1 .. Len(domain) : domain[i] = host[Len(host) - Len(domain) + i]
<1> DEFINE S == STRING \cup {"."}
           tail == <<".">> \o domain
<1>1. "." \in S /\ STRING \subseteq S
  OBVIOUS
<1>2. domain \in Seq(S) /\ host \in Seq(S)
  <2> HIDE DEF S
  <2> QED  BY <1>1, SeqMonotonic
<1>3. /\ tail \in Seq(S) /\ Len(tail) = Len(domain) + 1 /\ tail[1] = "."
      /\ \A i \in 1 .. Len(domain) : tail[i + 1] = domain[i]
  <2> HIDE DEF S
  <2> QED  BY <1>1, <1>2, WordBefore
<1>4. Len(domain) \in Nat /\ Len(host) \in Nat
  BY LenProperties
<1> HIDE DEF tail
<1>5. IsUnder(host, domain) <=>
          /\ Len(tail) <= Len(host)
          /\ \A i \in 1 .. Len(tail) : tail[i] = host[Len(host) - Len(tail) + i]
  <2>1. IsUnder(host, domain) <=> IsSuffix(tail, host)
    BY DEF IsUnder, tail
  <2> HIDE DEF S
  <2> QED  BY <1>2, <1>3, <2>1, SuffixMeans
<1>6. ASSUME Len(domain) < Len(host)
      PROVE  (\A i \in 1 .. Len(tail) : tail[i] = host[Len(host) - Len(tail) + i]) <=>
                 /\ host[Len(host) - Len(domain)] = "."
                 /\ \A i \in 1 .. Len(domain) : domain[i] = host[Len(host) - Len(domain) + i]
  <2>1. ASSUME \A i \in 1 .. Len(tail) : tail[i] = host[Len(host) - Len(tail) + i]
        PROVE  host[Len(host) - Len(domain)] = "."
    <3>1. 1 \in 1 .. Len(tail) /\ Len(host) - Len(tail) + 1 = Len(host) - Len(domain)
      BY <1>3, <1>4
    <3> QED  BY <1>3, <2>1, <3>1
  <2>2. ASSUME \A i \in 1 .. Len(tail) : tail[i] = host[Len(host) - Len(tail) + i],
               NEW i \in 1 .. Len(domain)
        PROVE  domain[i] = host[Len(host) - Len(domain) + i]
    <3>1. i + 1 \in 1 .. Len(tail) /\ Len(host) - Len(tail) + (i + 1) = Len(host) - Len(domain) + i
      BY <1>3, <1>4
    <3>2. tail[i + 1] = host[Len(host) - Len(tail) + (i + 1)]
      BY <2>2, <3>1
    <3> QED  BY <1>3, <3>1, <3>2
  <2>3. ASSUME host[Len(host) - Len(domain)] = ".",
               \A i \in 1 .. Len(domain) : domain[i] = host[Len(host) - Len(domain) + i],
               NEW i \in 1 .. Len(tail)
        PROVE  tail[i] = host[Len(host) - Len(tail) + i]
    <3>1. CASE i = 1
      <4>1. Len(host) - Len(tail) + i = Len(host) - Len(domain)
        BY <1>3, <1>4, <3>1
      <4> QED  BY <1>3, <2>3, <3>1, <4>1
    <3>2. CASE i # 1
      <4>1. /\ i - 1 \in 1 .. Len(domain) /\ (i - 1) + 1 = i
            /\ Len(host) - Len(tail) + i = Len(host) - Len(domain) + (i - 1)
        BY <1>3, <1>4, <3>2
      <4>2. tail[i] = domain[i - 1]
        BY <1>3, <4>1
      <4> QED  BY <2>3, <4>1, <4>2
    <3> QED  BY <3>1, <3>2
  <2> QED  BY <2>1, <2>2, <2>3
<1> QED  BY <1>3, <1>4, <1>5, <1>6

\* The dots and characters a verdict looks at say what the labels say: a host is
\* the domain or ends with a dot and it just when the domain's labels are the
\* last of the host's, and more when it is not the domain (scope.py 143-150).
THEOREM LabelsDecide ==
    ASSUME NEW domain \in Seq(STRING), NEW host \in Seq(STRING)
    PROVE  /\ IsSuffix(Labels(domain), Labels(host)) <=> host = domain \/ IsUnder(host, domain)
           /\ IsUnder(host, domain) => IsStrictSuffix(Labels(domain), Labels(host))
<1> DEFINE m == Cardinality(Cuts(domain))
           n == Cardinality(Cuts(host))
           offset == Len(host) - Len(domain)
           a == Labels(domain)
           b == Labels(host)
<1>1. /\ m \in Nat /\ m >= 2
      /\ \A k \in 1 .. m : Cut(domain, k) \in 0 .. Len(domain) + 1
      /\ Cut(domain, 1) = 0
      /\ \A k, l \in 1 .. m : k < l <=> Cut(domain, k) < Cut(domain, l)
      /\ \A c \in Cuts(domain) : \E k \in 1 .. m : c = Cut(domain, k)
  BY CutsRise
<1>2. /\ n \in Nat /\ n >= 2
      /\ \A k \in 1 .. n : Cut(host, k) \in Cuts(host) /\ Cut(host, k) \in 0 .. Len(host) + 1
      /\ Cut(host, 1) = 0
  BY CutsRise
<1>3. /\ Len(domain) \in Nat /\ domain \in [1 .. Len(domain) -> STRING]
      /\ Len(host) \in Nat /\ host \in [1 .. Len(host) -> STRING]
  BY LenProperties
<1>0. Len(domain) \in Nat /\ Len(host) \in Nat
  BY LenProperties
<1>4. /\ a \in Seq(Seq(STRING)) /\ Len(a) = m - 1
      /\ \A k \in 1 .. m - 1 :
             /\ Len(a[k]) = Cut(domain, k + 1) - Cut(domain, k) - 1
             /\ \A i \in 1 .. Cut(domain, k + 1) - Cut(domain, k) - 1 :
                    a[k][i] = domain[Cut(domain, k) + i]
  BY LabelsStandBetweenCuts
<1>5. /\ b \in Seq(Seq(STRING)) /\ Len(b) = n - 1
      /\ \A k \in 1 .. n - 1 :
             /\ Len(b[k]) = Cut(host, k + 1) - Cut(host, k) - 1
             /\ \A i \in 1 .. Cut(host, k + 1) - Cut(host, k) - 1 :
                    b[k][i] = host[Cut(host, k) + i]
  BY LabelsStandBetweenCuts
<1> HIDE DEF a, b
<1>6. IsSuffix(a, b) <=> /\ m - 1 <= n - 1
                         /\ \A k \in 1 .. m - 1 : a[k] = b[(n - 1) - (m - 1) + k]
  <2>1. IsSuffix(a, b) <=> /\ Len(a) <= Len(b)
                           /\ \A i \in 1 .. Len(a) : a[i] = b[Len(b) - Len(a) + i]
    BY <1>4, <1>5, SuffixMeans
  <2> QED  BY <1>4, <1>5, <2>1
<1> HIDE DEF m, n, offset
<1>7. ASSUME host = domain \/ IsUnder(host, domain)
      PROVE  IsSuffix(a, b) /\ (host # domain => a # b)
  <2>1. offset \in Nat /\ Len(host) = offset + Len(domain)
    BY <1>3, <1>7, UnderMeans DEF offset
  <2>2. /\ offset # 0 => host[offset] = "."
        /\ \A i \in 1 .. Len(domain) : domain[i] = host[offset + i]
    <3>1. CASE host = domain
      <4>1. offset = 0
        BY <1>3, <3>1 DEF offset
      <4>2. \A i \in 1 .. Len(domain) : offset + i = i
        BY <1>3, <4>1
      <4> QED  BY <3>1, <4>1, <4>2
    <3>2. CASE IsUnder(host, domain)
      BY <3>2, UnderMeans DEF offset
    <3> QED  BY <1>7, <3>1, <3>2
  <2>3. AreAligned(domain, host)
    BY <2>1, <2>2, DomainsAlign
  <2>4. m <= n /\ \A k \in 1 .. m : Cut(host, n - m + k) = offset + Cut(domain, k)
    BY <2>3 DEF AreAligned, m, n, offset
  <2>5. ASSUME NEW k \in 1 .. m - 1
        PROVE  a[k] = b[(n - 1) - (m - 1) + k]
    <3> DEFINE l == n - m + k
               size == Cut(domain, k + 1) - Cut(domain, k) - 1
    <3>1. /\ l \in 1 .. n - 1 /\ (n - 1) - (m - 1) + k = l /\ l + 1 = n - m + (k + 1)
          /\ k \in 1 .. m /\ k + 1 \in 1 .. m
      BY <1>1, <1>2, <2>4
    <3>2. Cut(host, l) = offset + Cut(domain, k) /\ Cut(host, l + 1) = offset + Cut(domain, k + 1)
      BY <2>4, <3>1
    <3>3. Cut(domain, k) \in 0 .. Len(domain) + 1 /\ Cut(domain, k + 1) \in 0 .. Len(domain) + 1
      BY <1>1, <3>1
    <3> HIDE DEF l
    <3>4. size = Cut(host, l + 1) - Cut(host, l) - 1
      BY <1>3, <2>1, <3>2, <3>3
    <3>5. a[k] \in Seq(STRING) /\ b[l] \in Seq(STRING) /\ Len(a[k]) = size /\ Len(b[l]) = size
      <4>1. k \in 1 .. Len(a) /\ l \in 1 .. Len(b)
        BY <1>4, <1>5, <3>1
      <4>2. a[k] \in Seq(STRING) /\ b[l] \in Seq(STRING)
        BY <1>4, <1>5, <4>1, ElementOfSeq
      <4>3. Len(a[k]) = size
        BY <1>4
      <4>4. Len(b[l]) = Cut(host, l + 1) - Cut(host, l) - 1
        BY <1>5, <3>1
      <4> HIDE DEF size
      <4> QED  BY <3>4, <4>2, <4>3, <4>4
    <3>6. ASSUME NEW i \in 1 .. size
          PROVE  a[k][i] = b[l][i]
      <4>1. a[k][i] = domain[Cut(domain, k) + i]
        BY <1>4, <3>6
      <4>2. b[l][i] = host[Cut(host, l) + i]
        BY <1>5, <3>1, <3>4
      <4>3. /\ Cut(domain, k) + i \in 1 .. Len(domain)
            /\ Cut(host, l) + i = offset + (Cut(domain, k) + i)
        BY <1>3, <2>1, <3>2, <3>3
      <4> QED  BY <2>2, <4>1, <4>2, <4>3
    <3> HIDE DEF size
    <3>7. a[k] = b[l]
      BY <3>5, <3>6, SeqEqual
    <3> QED  BY <3>1, <3>7
  <2>6. IsSuffix(a, b)
    BY <1>1, <1>2, <1>6, <2>4, <2>5
  <2>7. ASSUME host # domain
        PROVE  a # b
    <3>1. offset # 0
      <4>1. IsUnder(host, domain)
        BY <1>7, <2>7
      <4>2. Len(domain) < Len(host)
        BY <4>1, UnderMeans
      <4> QED  BY <1>0, <4>2 DEF offset
    <3>2. 1 \in 1 .. m /\ Cut(host, n - m + 1) = offset
      BY <1>1, <2>1, <2>4
    <3>3. m # n
      <4>1. m = n => n - m + 1 = 1
        BY <1>1, <1>2
      <4> QED  BY <1>2, <3>1, <3>2, <4>1
    <3> QED  BY <1>1, <1>2, <1>4, <1>5, <3>3
  <2> QED  BY <2>6, <2>7
<1>8. ASSUME IsSuffix(a, b)
      PROVE  host = domain \/ IsUnder(host, domain)
  <2>1. AreAligned(domain, host)
    BY <1>8, LabelsAlign DEF a, b
  <2>2. m <= n /\ \A k \in 1 .. m : Cut(host, n - m + k) = offset + Cut(domain, k)
    BY <2>1 DEF AreAligned, m, n, offset
  <2>3. n - m + 1 \in 1 .. n /\ Cut(host, n - m + 1) = offset
    <3>1. 1 \in 1 .. m /\ n - m + 1 \in 1 .. n
      BY <1>1, <1>2, <2>2
    <3>2. offset \in Int
      BY <1>3 DEF offset
    <3> QED  BY <1>1, <2>2, <3>1, <3>2
  <2>4. offset \in Cuts(host) /\ offset \in 0 .. Len(host) + 1
    BY <1>2, <2>3
  <2>5. ASSUME NEW i \in 1 .. Len(domain)
        PROVE  domain[i] = host[offset + i]
    <3>0. offset + i \in 1 .. Len(host)
      BY <1>3, <2>4 DEF offset
    <3>1. CASE domain[i] = "."
      <4>1. i \in Cuts(domain)
        BY <3>1, CutsAreFinite
      <4>2. PICK k \in 1 .. m : i = Cut(domain, k)
        BY <1>1, <4>1
      <4>3. n - m + k \in 1 .. n /\ Cut(host, n - m + k) = offset + i
        BY <1>1, <1>2, <2>2, <4>2
      <4>4. offset + i \in Cuts(host)
        BY <1>2, <4>3
      <4> QED  BY <3>0, <3>1, <4>4, CutsAreFinite
    <3>2. CASE domain[i] # "."
      <4>1. PICK k \in 1 .. m - 1 : Cut(domain, k) < i /\ i < Cut(domain, k + 1)
        BY <3>2, BetweenCuts DEF m
      <4> DEFINE l == n - m + k
                 j == i - Cut(domain, k)
      <4>2. /\ l \in 1 .. n - 1 /\ (n - 1) - (m - 1) + k = l /\ l + 1 = n - m + (k + 1)
            /\ k \in 1 .. m /\ k + 1 \in 1 .. m
        BY <1>1, <1>2, <2>2
      <4>3. Cut(host, l) = offset + Cut(domain, k) /\ Cut(host, l + 1) = offset + Cut(domain, k + 1)
        BY <2>2, <4>2
      <4>4. Cut(domain, k) \in 0 .. Len(domain) + 1 /\ Cut(domain, k + 1) \in 0 .. Len(domain) + 1
        BY <1>1, <4>2
      <4> HIDE DEF l
      <4>5. /\ j \in 1 .. Cut(domain, k + 1) - Cut(domain, k) - 1
            /\ j \in 1 .. Cut(host, l + 1) - Cut(host, l) - 1
            /\ Cut(domain, k) + j = i /\ Cut(host, l) + j = offset + i
        BY <1>3, <2>4, <4>1, <4>3, <4>4
      <4> HIDE DEF j
      <4>6. a[k][j] = domain[i]
        BY <1>4, <4>5
      <4>7. b[l][j] = host[offset + i]
        BY <1>5, <4>2, <4>5
      <4>8. a[k] = b[l]
        BY <1>6, <1>8, <4>2
      <4> QED  BY <4>6, <4>7, <4>8
    <3> QED  BY <3>1, <3>2
  <2>6. CASE offset = 0
    <3>1. Len(host) = Len(domain) /\ \A i \in 1 .. Len(domain) : offset + i = i
      BY <1>0, <2>6 DEF offset
    <3>2. \A i \in 1 .. Len(domain) : domain[i] = host[i]
      BY <2>5, <3>1
    <3> QED  BY <3>1, <3>2, SeqEqual
  <2>7. CASE offset # 0
    <3>1. Len(domain) < Len(host) /\ offset \in 1 .. Len(host)
      BY <1>0, <2>4, <2>7 DEF offset
    <3>2. host[offset] = "."
      BY <2>4, <3>1, CutsAreFinite
    <3> QED  BY <2>5, <3>1, <3>2, UnderMeans DEF offset
  <2> QED  BY <2>6, <2>7
<1>9. IsUnder(host, domain) => host # domain
  BY <1>3, UnderMeans
<1> QED  BY <1>7, <1>8, <1>9 DEF a, b, IsStrictSuffix

\* A text is a host name, character by character, just when it is no longer than
\* one and each of its labels is a label (scope.py 26-30, 82-96).
THEOREM LabelsSpellNames ==
    ASSUME NEW text \in Seq(STRING)
    PROVE  (ToSet(text) \cap Refused = {} /\ IsHostName(Lower(text))) <=>
               Len(text) <= NameMax /\ \A l \in ToSet(Labels(text)) : IsLabel(l)
<1> DEFINE n == Cardinality(Cuts(text))
           labels == Labels(text)
           len == Len(text)
           Plain == Letters \cup {"A"}
           Dotted == \A i \in 1 .. len - LabelMax :
                         \E j \in i .. i + LabelMax : text[j] = "."
<1>1. /\ n \in Nat /\ n >= 2
      /\ \A k \in 1 .. n : Cut(text, k) \in Cuts(text) /\ Cut(text, k) \in 0 .. len + 1
      /\ Cut(text, 1) = 0 /\ Cut(text, n) = len + 1
      /\ \A k, m \in 1 .. n : k < m <=> Cut(text, k) < Cut(text, m)
      /\ \A c \in Cuts(text) : \E k \in 1 .. n : c = Cut(text, k)
  BY CutsRise
<1>2. len \in Nat /\ DOMAIN text = 1 .. len
  BY CutsAreFinite
<1>3. /\ labels \in Seq(Seq(STRING)) /\ Len(labels) = n - 1
      /\ \A k \in 1 .. n - 1 :
             /\ Len(labels[k]) = Cut(text, k + 1) - Cut(text, k) - 1
             /\ \A i \in 1 .. Cut(text, k + 1) - Cut(text, k) - 1 :
                    labels[k][i] = text[Cut(text, k) + i]
  BY LabelsStandBetweenCuts
<1>4. \A i \in 1 .. len : i \in Cuts(text) <=> text[i] = "."
  BY CutsAreFinite
<1>5. 0 \in Cuts(text) /\ len + 1 \in Cuts(text)
  BY CutsAreFinite
<1> HIDE DEF labels, n, len
<1>6. ASSUME NEW k \in 1 .. n - 1
      PROVE  labels[k] \in Seq(STRING) /\ DOMAIN labels[k] = 1 .. Len(labels[k])
  <2>1. k \in 1 .. Len(labels)
    BY <1>3
  <2>2. labels[k] \in Seq(STRING)
    BY <1>3, <2>1, ElementOfSeq
  <2> QED  BY <2>2, LenProperties
<1>7. DOMAIN labels = 1 .. n - 1
  BY <1>3, LenProperties
<1>8. (\A l \in ToSet(labels) : IsLabel(l)) <=> \A k \in 1 .. n - 1 : IsLabel(labels[k])
  BY <1>7 DEF ToSet
<1>9. IsHostName(Lower(text)) <=>
          /\ len # 0 /\ len <= NameMax /\ Dotted
          /\ \A i \in 1 .. len :
                 /\ text[i] \in Plain \cup {"-", "."}
                 /\ i = 1 \/ text[i - 1] = "." => text[i] \in Plain
                 /\ i = len \/ text[i + 1] = "." => text[i] \in Plain
  <2> DEFINE low == Lower(text)
  <2>1. /\ low \in Seq(STRING) /\ Len(low) = len
        /\ \A i \in 1 .. len : low[i] = IF text[i] = "A" THEN "a" ELSE text[i]
    BY LowerKeepsLength DEF len
  <2> HIDE DEF low
  <2>2. DOMAIN low = 1 .. len /\ (low # <<>> <=> len # 0)
    BY <1>2, <2>1, LenProperties, EmptySeq
  <2>3. \A i \in 1 .. len :
            /\ low[i] \in Letters <=> text[i] \in Plain
            /\ low[i] \in Letters \cup {"-", "."} <=> text[i] \in Plain \cup {"-", "."}
            /\ low[i] = "." <=> text[i] = "."
    BY <2>1 DEF Letters
  <2>4. \A i \in 1 .. len : /\ i # 1 => i - 1 \in 1 .. len
                            /\ i # len => i + 1 \in 1 .. len
    BY <1>2
  <2>5. IsHostName(low) <=>
            /\ len # 0 /\ len <= NameMax
            /\ \A i \in 1 .. len - LabelMax : \E j \in i .. i + LabelMax : low[j] = "."
            /\ \A i \in 1 .. len :
                   /\ low[i] \in Letters \cup {"-", "."}
                   /\ i = 1 \/ low[i - 1] = "." => low[i] \in Letters
                   /\ i = len \/ low[i + 1] = "." => low[i] \in Letters
    BY <2>1, <2>2 DEF IsHostName
  <2>6. (\A i \in 1 .. len - LabelMax : \E j \in i .. i + LabelMax : low[j] = ".") <=> Dotted
    <3>1. \A i \in 1 .. len - LabelMax : \A j \in i .. i + LabelMax : j \in 1 .. len
      BY <1>2, LimitsType
    <3> QED  BY <2>3, <3>1
  <2> HIDE DEF Plain, Dotted
  <2> QED  BY <2>3, <2>4, <2>5, <2>6 DEF low
<1>10. ASSUME \A i \in 1 .. len : text[i] \in Plain \cup {"-", "."}
       PROVE  ToSet(text) \cap Refused = {}
  BY <1>2, <1>10 DEF ToSet, Refused, Letters
<1>11. ASSUME len # 0, Dotted,
              \A i \in 1 .. len :
                 /\ text[i] \in Plain \cup {"-", "."}
                 /\ i = 1 \/ text[i - 1] = "." => text[i] \in Plain
                 /\ i = len \/ text[i + 1] = "." => text[i] \in Plain,
              NEW k \in 1 .. n - 1
       PROVE  IsLabel(labels[k])
  <2> DEFINE low == Cut(text, k)
             high == Cut(text, k + 1)
  <2>1. k \in 1 .. n /\ k + 1 \in 1 .. n /\ k < k + 1
    BY <1>1
  <2>2. /\ low \in Cuts(text) /\ low \in 0 .. len + 1
        /\ high \in Cuts(text) /\ high \in 0 .. len + 1 /\ low < high
    BY <1>1, <2>1
  <2>3. /\ Len(labels[k]) = high - low - 1
        /\ \A i \in 1 .. high - low - 1 : labels[k][i] = text[low + i]
    BY <1>3
  <2>4. \A c \in Cuts(text) : ~(low < c /\ c < high)
    <3>1. ASSUME NEW m \in 1 .. n PROVE ~(low < Cut(text, m) /\ Cut(text, m) < high)
      <4>1. (low < Cut(text, m) => k < m) /\ (Cut(text, m) < high => m < k + 1)
        BY <1>1, <2>1
      <4> QED  BY <1>1, <4>1
    <3> QED  BY <1>1, <3>1
  <2> HIDE DEF low, high
  <2>5. low = 0 \/ text[low] = "."
    <3>1. low # 0 => low \in 1 .. len
      BY <1>2, <2>2
    <3> QED  BY <1>4, <2>2, <3>1
  <2>6. high = len + 1 \/ text[high] = "."
    <3>1. high # len + 1 => high \in 1 .. len
      BY <1>2, <2>2
    <3> QED  BY <1>4, <2>2, <3>1
  <2>7. low < len
    <3>1. CASE low = 0
      BY <1>2, <1>11, <3>1
    <3>2. CASE low # 0
      <4>1. low \in 1 .. len /\ text[low] = "."
        BY <1>2, <2>2, <2>5, <3>2
      <4>2. low # len
        BY <1>11, <4>1 DEF Letters
      <4> QED  BY <1>2, <4>1, <4>2
    <3> QED  BY <3>1, <3>2
  <2>8. low + 1 \in 1 .. len /\ text[low + 1] \in Plain
    <3> DEFINE i == low + 1
    <3>1. i \in 1 .. len /\ (low = 0 => i = 1) /\ i - 1 = low
      BY <1>2, <2>2, <2>7
    <3> HIDE DEF i
    <3>2. i = 1 \/ text[i - 1] = "."
      BY <2>5, <3>1
    <3>3. text[i] \in Plain
      BY <1>11, <3>1, <3>2
    <3> QED  BY <3>1, <3>3 DEF i
  <2>9. low + 1 < high
    <3>1. high # low + 1
      <4>1. high = low + 1 => text[low + 1] = "."
        BY <1>2, <2>6, <2>8
      <4> QED  BY <2>8, <4>1 DEF Letters
    <3> QED  BY <2>2, <3>1
  <2>10. high - 1 \in 1 .. len /\ text[high - 1] \in Plain
    <3>1. high - 1 \in 1 .. len /\ (high = len + 1 => high - 1 = len) /\ high - 1 + 1 = high
      BY <1>2, <2>2, <2>9
    <3> QED  BY <1>11, <2>6, <3>1
  <2>11. labels[k] \in Seq(STRING) /\ DOMAIN labels[k] = 1 .. high - low - 1
    BY <1>6, <2>3
  <2>12. labels[k] # <<>>
    BY <2>2, <2>3, <2>9, <2>11, EmptySeq
  <2>13. ToSet(labels[k]) \subseteq Letters \cup {"A", "-"}
    <3>1. ASSUME NEW i \in 1 .. high - low - 1
          PROVE  labels[k][i] \in Letters \cup {"A", "-"}
      <4>1. low + i \in 1 .. len /\ low < low + i /\ low + i < high
        BY <1>2, <2>2
      <4>2. text[low + i] # "."
        BY <1>4, <2>4, <4>1
      <4>3. text[low + i] \in Plain \cup {"-", "."}
        BY <1>11, <4>1
      <4> QED  BY <2>3, <4>2, <4>3
    <3> QED  BY <2>11, <3>1 DEF ToSet
  <2>14. labels[k][1] \in Plain
    <3>1. 1 \in 1 .. high - low - 1
      BY <2>2, <2>9
    <3> QED  BY <2>3, <2>8, <3>1
  <2>15. labels[k][Len(labels[k])] \in Plain
    <3>1. high - low - 1 \in 1 .. high - low - 1 /\ low + (high - low - 1) = high - 1
      BY <2>2, <2>9
    <3> QED  BY <2>3, <2>10, <3>1
  <2>16. Len(labels[k]) <= LabelMax
    <3>1. ASSUME high - low - 1 > LabelMax PROVE FALSE
      <4>1. low + 1 \in 1 .. len - LabelMax
        BY <1>2, <2>2, <3>1, LimitsType
      <4>2. PICK j \in low + 1 .. low + 1 + LabelMax : text[j] = "."
        BY <1>11, <4>1
      <4>3. j \in 1 .. len /\ low < j /\ j < high
        BY <1>2, <2>2, <3>1, <4>1, <4>2, LimitsType
      <4> QED  BY <1>4, <2>4, <4>2, <4>3
    <3> QED  BY <2>2, <2>3, <3>1, LimitsType
  <2> QED  BY <2>12, <2>13, <2>14, <2>15, <2>16 DEF IsLabel, Letters
<1>12. ASSUME \A k \in 1 .. n - 1 : IsLabel(labels[k])
       PROVE  /\ len # 0 /\ Dotted
              /\ \A i \in 1 .. len :
                 /\ text[i] \in Plain \cup {"-", "."}
                 /\ i = 1 \/ text[i - 1] = "." => text[i] \in Plain
                 /\ i = len \/ text[i + 1] = "." => text[i] \in Plain
  <2>1. ASSUME NEW k \in 1 .. n - 1
        PROVE  /\ Cut(text, k) + 1 < Cut(text, k + 1)
               /\ Cut(text, k) \in 0 .. len + 1 /\ Cut(text, k + 1) \in 0 .. len + 1
               /\ \A i \in 1 .. Cut(text, k + 1) - Cut(text, k) - 1 :
                      text[Cut(text, k) + i] \in Plain \cup {"-"}
               /\ text[Cut(text, k) + 1] \in Plain
               /\ text[Cut(text, k + 1) - 1] \in Plain
               /\ Cut(text, k + 1) <= Cut(text, k) + 1 + LabelMax
    <3> DEFINE low == Cut(text, k)
               high == Cut(text, k + 1)
               size == high - low - 1
    <3>1. k \in 1 .. n /\ k + 1 \in 1 .. n /\ k < k + 1
      BY <1>1
    <3>2. low \in 0 .. len + 1 /\ high \in 0 .. len + 1 /\ low < high
      BY <1>1, <3>1
    <3>3. Len(labels[k]) = size /\ \A i \in 1 .. size : labels[k][i] = text[low + i]
      BY <1>3
    <3>4. IsLabel(labels[k])
      BY <1>12
    <3>5. labels[k] \in Seq(STRING) /\ DOMAIN labels[k] = 1 .. size
      BY <1>6, <3>3
    <3> HIDE DEF low, high
    <3>6. size \in Nat /\ size # 0
      <4>1. Len(labels[k]) # 0
        BY <3>4, <3>5, EmptySeq DEF IsLabel
      <4> QED  BY <3>2, <3>3, <4>1
    <3>7. \A i \in 1 .. size : labels[k][i] \in Plain \cup {"-"}
      BY <3>4, <3>5 DEF IsLabel, ToSet
    <3>8. 1 \in 1 .. size /\ size \in 1 .. size /\ low + size = high - 1
      BY <3>2, <3>6
    <3> HIDE DEF size
    <3>9. labels[k][1] # "-" /\ labels[k][size] # "-"
      BY <3>3, <3>4 DEF IsLabel
    <3>10. text[low + 1] \in Plain /\ text[high - 1] \in Plain
      BY <3>3, <3>7, <3>8, <3>9
    <3>11. low + 1 < high
      BY <3>2, <3>6 DEF size
    <3>12. \A i \in 1 .. size : text[low + i] \in Plain \cup {"-"}
      BY <3>3, <3>7
    <3>13. high <= low + 1 + LabelMax
      BY <3>2, <3>3, <3>4, LimitsType DEF IsLabel, size
    <3> QED  BY <3>2, <3>10, <3>11, <3>12, <3>13 DEF low, high, size
  <2>2. len # 0
    <3>1. 1 \in 1 .. n - 1 /\ 1 + 1 \in 1 .. n
      BY <1>1
    <3>2. 0 + 1 < Cut(text, 1 + 1) /\ Cut(text, 1 + 1) \in 0 .. len + 1
      BY <1>1, <2>1, <3>1
    <3> QED  BY <1>2, <3>2
  <2>3. ASSUME NEW i \in 1 .. len
        PROVE  text[i] \in Plain \cup {"-", "."}
    <3>1. CASE text[i] # "."
      <4>1. PICK k \in 1 .. n - 1 : Cut(text, k) < i /\ i < Cut(text, k + 1)
        BY <3>1, BetweenCuts DEF n, len
      <4>2. /\ i - Cut(text, k) \in 1 .. Cut(text, k + 1) - Cut(text, k) - 1
            /\ Cut(text, k) + (i - Cut(text, k)) = i
        BY <1>2, <2>1, <4>1
      <4>3. text[Cut(text, k) + (i - Cut(text, k))] \in Plain \cup {"-"}
        BY <2>1, <4>2
      <4> QED  BY <4>2, <4>3
    <3> QED  BY <3>1
  <2>4. ASSUME NEW i \in 1 .. len, i = 1 \/ text[i - 1] = "."
        PROVE  text[i] \in Plain
    <3>1. i - 1 \in Cuts(text) /\ i - 1 # len + 1
      <4>1. i # 1 => i - 1 \in 1 .. len
        BY <1>2
      <4>2. i # 1 => i - 1 \in Cuts(text)
        BY <1>4, <2>4, <4>1
      <4> QED  BY <1>2, <1>5, <4>2
    <3>2. PICK k \in 1 .. n : i - 1 = Cut(text, k)
      BY <1>1, <3>1
    <3>3. k \in 1 .. n - 1
      BY <1>1, <3>1, <3>2
    <3>4. text[Cut(text, k) + 1] \in Plain /\ Cut(text, k) + 1 = i
      BY <1>2, <2>1, <3>2, <3>3
    <3> QED  BY <3>4
  <2>5. ASSUME NEW i \in 1 .. len, i = len \/ text[i + 1] = "."
        PROVE  text[i] \in Plain
    <3>1. i + 1 \in Cuts(text) /\ i + 1 # 0
      <4>1. i # len => i + 1 \in 1 .. len
        BY <1>2
      <4>2. i # len => i + 1 \in Cuts(text)
        BY <1>4, <2>5, <4>1
      <4> QED  BY <1>2, <1>5, <4>2
    <3>2. PICK m \in 1 .. n : i + 1 = Cut(text, m)
      BY <1>1, <3>1
    <3>3. m - 1 \in 1 .. n - 1 /\ m - 1 + 1 = m
      BY <1>1, <3>1, <3>2
    <3>4. text[Cut(text, m - 1 + 1) - 1] \in Plain
      BY <2>1, <3>3
    <3>5. Cut(text, m - 1 + 1) - 1 = i
      BY <1>2, <3>2, <3>3
    <3> QED  BY <3>4, <3>5
  <2>6. ASSUME NEW i \in 1 .. len - LabelMax
        PROVE  \E j \in i .. i + LabelMax : text[j] = "."
    <3>1. i \in 1 .. len /\ i \in i .. i + LabelMax /\ i + LabelMax \in 1 .. len
      BY <1>2, LimitsType
    <3>2. CASE text[i] # "."
      <4>1. PICK k \in 1 .. n - 1 : Cut(text, k) < i /\ i < Cut(text, k + 1)
        BY <3>1, <3>2, BetweenCuts DEF n, len
      <4> DEFINE low == Cut(text, k)
                 high == Cut(text, k + 1)
      <4>2. /\ low \in 0 .. len + 1 /\ high \in 0 .. len + 1
            /\ high <= low + 1 + LabelMax
        BY <2>1
      <4>3. high \in Cuts(text)
        BY <1>1
      <4> HIDE DEF low, high
      <4>4. low < i /\ i < high
        BY <4>1 DEF low, high
      <4>5. high \in i .. i + LabelMax /\ high \in 1 .. len
        BY <1>2, <3>1, <4>2, <4>4, LimitsType
      <4> QED  BY <1>4, <4>3, <4>5
    <3> QED  BY <3>1, <3>2
  <2> QED  BY <2>2, <2>3, <2>4, <2>5, <2>6
<1> HIDE DEF Plain, Dotted
<1> QED  BY <1>8, <1>9, <1>10, <1>11, <1>12 DEF labels, len

-----------------------------------------------------------------------------
(* The verdict *)

\* What the enforcer answers is what the entries it was given permit, by labels
\* and ranges: for every list of entries and every target (scope.py 120-151).
THEOREM VerdictIsPermitted ==
    ASSUME NEW authorized, authorized \subseteq EntryRecords, NEW target \in TargetRecords
    PROVE  IsAuthorized(Rules(authorized), target) <=> Permitted(authorized, target)
<1> DEFINE name == Lower(target.text)
           Matches(rule) ==
               \/ rule.family # 0 /\ target.family # 0 /\ InNetwork(target, rule)
               \/ /\ rule.family = 0 /\ target.family = 0
                  /\ name = rule.text \/ IsUnder(name, rule.text)
<1>1. target.text \in Seq(STRING)
  BY DEF TargetRecords
<1>2. IsClassified(target) <=> IsWellFormed(target)
  BY <1>1, LabelsSpellNames DEF IsClassified, IsWellFormed
<1>3. ASSUME NEW e \in authorized
      PROVE  (~IsBlank(e) /\ Matches(ParseRule(e))) <=> Covers(e, target)
  <2>1. e \in EntryRecords
    BY <1>3
  <2>2. CASE e.family = 0
    <3>1. e.text \in Seq(STRING) /\ e = [e EXCEPT !.text = e.text]
      BY <2>1, <2>2 DEF EntryRecords
    <3>2. ParseRule(e).family = 0 /\ ParseRule(e).text = Lower(e.text)
      BY <2>1, <2>2 DEF ParseRule, EntryRecords
    <3>3. Lower(e.text) \in Seq(STRING) /\ name \in Seq(STRING)
      BY <1>1, <3>1, LowerKeepsLength
    <3>4. IsSuffix(Labels(Lower(e.text)), Labels(name)) <=>
              name = Lower(e.text) \/ IsUnder(name, Lower(e.text))
      BY <3>3, LabelsDecide
    <3> QED  BY <2>2, <3>2, <3>4 DEF Covers
  <2>3. CASE e.family # 0
    <3>1. /\ ParseRule(e).family = e.family /\ ParseRule(e).number = e.number
          /\ ParseRule(e).prefix = e.prefix
      BY <2>1, <2>3 DEF ParseRule, EntryRecords
    <3>2. InNetwork(target, ParseRule(e)) <=> InNetwork(target, e)
      BY <3>1 DEF InNetwork, SizeOf
    <3>3. target.family # 0 => (InNetwork(target, e) <=> Covers(e, target))
      BY <2>1, <2>3, NetworksAreRanges
    <3>4. target.family = 0 => ~Covers(e, target)
      BY <2>3 DEF Covers
    <3>5. ~IsBlank(e)
      BY <2>3 DEF IsBlank
    <3> QED  BY <2>3, <3>1, <3>2, <3>3, <3>4, <3>5
  <2> QED  BY <2>2, <2>3
<1>4. IsAuthorized(Rules(authorized), target) <=>
          IsClassified(target) /\ \E rule \in Rules(authorized) : Matches(rule)
  BY DEF IsAuthorized
<1>5. (\E rule \in Rules(authorized) : Matches(rule)) <=>
          \E e \in authorized : ~IsBlank(e) /\ Matches(ParseRule(e))
  <2> HIDE DEF Matches
  <2> QED  BY DEF Rules
<1> HIDE DEF Matches
<1> QED  BY <1>2, <1>3, <1>4, <1>5 DEF Permitted
\* A suffix of a suffix is one.
LEMMA SuffixesOfSuffixes ==
    ASSUME NEW S, NEW r \in Seq(S), NEW s \in Seq(S), NEW t \in Seq(S),
           IsSuffix(r, s), IsSuffix(s, t)
    PROVE  IsSuffix(r, t)
<1> DEFINE l == Len(r)
           m == Len(s)
           n == Len(t)
<1>1. l \in Nat /\ m \in Nat /\ n \in Nat
  BY LenProperties
<1>2. l <= m /\ \A i \in 1 .. l : r[i] = s[m - l + i]
  BY SuffixMeans
<1>3. m <= n /\ \A i \in 1 .. m : s[i] = t[n - m + i]
  BY SuffixMeans
<1>4. IsSuffix(r, t) <=> l <= n /\ \A i \in 1 .. l : r[i] = t[n - l + i]
  BY SuffixMeans
<1> HIDE DEF l, m, n
<1>5. ASSUME NEW i \in 1 .. l
      PROVE  r[i] = t[n - l + i]
  <2>1. m - l + i \in 1 .. m /\ n - m + (m - l + i) = n - l + i
    BY <1>1, <1>2
  <2> QED  BY <1>2, <1>3, <2>1
<1> QED  BY <1>1, <1>2, <1>3, <1>4, <1>5

\* A host name that lies below a permitted one is itself permitted, by the same
\* entry: following a subdomain never leaves the scope (scope.py 120-151).
THEOREM BelowIsPermitted ==
    ASSUME NEW authorized, authorized \subseteq EntryRecords, NEW target \in TargetRecords,
           target.family = 0, Permitted(authorized, target),
           NEW text \in Seq(STRING), IsHostName(Lower(text)),
           IsUnder(Lower(text), Lower(target.text))
    PROVE  Permitted(authorized, NameOfHost(Lower(text)))
<1> DEFINE host == Lower(text)
           name == Lower(target.text)
<1>1. target.text \in Seq(STRING)
  BY DEF TargetRecords
<1>2. host \in Seq(STRING) /\ name \in Seq(STRING) /\ Lower(host) = host
  BY <1>1, LowerKeepsLength
<1>3. IsHostName(host) /\ IsUnder(host, name)
  OBVIOUS
<1> HIDE DEF host
<1> HIDE DEF name
<1>5. PICK e \in authorized : Covers(e, target)
  BY DEF Permitted
<1>6. e.family = 0 /\ ~IsBlank(e) /\ IsSuffix(Labels(Lower(e.text)), Labels(name))
  BY <1>5 DEF Covers, name
<1>7. Lower(e.text) \in Seq(STRING)
  <2>1. e \in EntryRecords
    OBVIOUS
  <2>2. e.text \in Seq(STRING)
    BY <1>6, <2>1 DEF EntryRecords
  <2> QED  BY <2>2, LowerKeepsLength
<1>8. IsSuffix(Labels(name), Labels(host))
  BY <1>2, <1>3, LabelsDecide
<1>9. IsSuffix(Labels(Lower(e.text)), Labels(host))
  <2>1. /\ Labels(Lower(e.text)) \in Seq(Seq(STRING)) /\ Labels(name) \in Seq(Seq(STRING))
        /\ Labels(host) \in Seq(Seq(STRING))
    BY <1>2, <1>7, LabelsStandBetweenCuts
  <2> QED  BY <1>6, <1>8, <2>1, SuffixesOfSuffixes
<1>10. NameOfHost(host).family = 0 /\ NameOfHost(host).text = host
  BY DEF NameOfHost
<1>11. Covers(e, NameOfHost(host))
  BY <1>2, <1>6, <1>9, <1>10 DEF Covers
<1>12. IsWellFormed(NameOfHost(host))
  <2>1. ToSet(host) \cap Refused = {}
    BY <1>3 DEF ToSet, IsHostName, Refused, Letters
  <2>2. Len(host) <= NameMax /\ \A l \in ToSet(Labels(host)) : IsLabel(l)
    BY <1>2, <1>3, <2>1, LabelsSpellNames
  <2> QED  BY <1>10, <2>2 DEF IsWellFormed
<1> QED  BY <1>11, <1>12 DEF Permitted, host

==============================================================================
