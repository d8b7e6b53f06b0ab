--------------------------- MODULE SelectionProofs ---------------------------
(***************************************************************************)
(* Proofs about lists filtered and added up, for lists of any length.      *)
(*                                                                         *)
(* The operators are functions over the prefixes of a list, and the        *)
(* induction over these is one of sets of numbers: a set with 0 in it, and *)
(* with the successor of each of its numbers, is all of Nat.               *)
(***************************************************************************)
EXTENDS Selections, SequenceTheorems, WellFoundedInduction, TLAPS

-----------------------------------------------------------------------------
(* Numbers.                                                                *)

\* Any set of numbers has a least one.
LEMMA LeastNatural ==
  ASSUME NEW S, S \subseteq Nat, S # {}
  PROVE  \E n \in S : \A m \in S : n <= m
<1> DEFINE R == {ss \in Nat \X Nat : ss[1] < ss[2]}
<1>1. IsWellFoundedOn(R, Nat)
  BY NatLessThanWellFounded DEF OpToRel
<1> HIDE DEF R
<1>2. PICK n \in S : \A m \in S : ~ (<<m, n>> \in R)
  BY <1>1, WFMin
<1>3. ASSUME NEW m \in S PROVE n <= m
  <2>1. <<m, n>> \in Nat \X Nat /\ ~ (<<m, n>> \in R)
    BY <1>2
  <2>2. ~ (m < n)
    BY <2>1 DEF R
  <2> QED
    BY <2>2
<1> QED
  BY <1>3

\* And one that is bounded has a greatest.
LEMMA GreatestNatural ==
  ASSUME NEW n \in Nat, NEW S, S \subseteq 0 .. n, S # {}
  PROVE  \E k \in S : \A j \in S : j <= k
<1> DEFINE mirrored == {n - k : k \in S}
<1>1. mirrored \subseteq Nat /\ mirrored # {}
  <2>1. \A k \in S : n - k \in Nat
    OBVIOUS
  <2> QED
    BY <2>1
<1>2. PICK l \in mirrored : \A j \in mirrored : l <= j
  <2> HIDE DEF mirrored
  <2> QED
    BY <1>1, LeastNatural
<1>3. PICK k \in S : l = n - k
  BY <1>2
<1>4. ASSUME NEW j \in S PROVE j <= k
  <2>1. n - k <= n - j
    BY <1>2, <1>3
  <2> QED
    BY <2>1
<1> QED
  BY <1>4

\* Induction, of a set of numbers.
LEMMA AllNaturals ==
  ASSUME NEW S, 0 \in S, \A n \in Nat : n \in S => n + 1 \in S
  PROVE  Nat \subseteq S
<1> SUFFICES ASSUME Nat \ S # {} PROVE FALSE
  OBVIOUS
<1>1. PICK n \in Nat \ S : \A m \in Nat \ S : n <= m
  BY LeastNatural
<1>2. n - 1 \in Nat /\ n - 1 \in S /\ (n - 1) + 1 = n
  BY <1>1
<1> QED
  BY <1>2

\* What the filter leaves of the prefixes.
KeptFrom(s, good, n, f) ==
  f[n] = IF n = 0 THEN <<>>
         ELSE IF s[n] \in good THEN Append(f[n - 1], s[n]) ELSE f[n - 1]

\* There are such lists for every prefix.
LEMMA KeptExists ==
  ASSUME NEW T, NEW s \in Seq(T), NEW good
  PROVE  \E f \in [0 .. Len(s) -> Seq(T)] : \A n \in 0 .. Len(s) : KeptFrom(s, good, n, f)
<1> DEFINE Upto(m) == m <= Len(s) => \E f \in [0 .. m -> Seq(T)] : \A n \in 0 .. m : KeptFrom(s, good, n, f)
           S == {m \in Nat : Upto(m)}
<1>1. 0 \in S
  <2> DEFINE f == [n \in 0 .. 0 |-> <<>>]
  <2>1. f \in [0 .. 0 -> Seq(T)] /\ \A n \in 0 .. 0 : KeptFrom(s, good, n, f)
    BY DEF KeptFrom
  <2> QED
    BY <2>1
<1>2. ASSUME NEW m \in Nat, m \in S PROVE m + 1 \in S
  <2> SUFFICES ASSUME m + 1 <= Len(s)
               PROVE  \E f \in [0 .. m + 1 -> Seq(T)] : \A n \in 0 .. m + 1 : KeptFrom(s, good, n, f)
    OBVIOUS
  <2>1. PICK f \in [0 .. m -> Seq(T)] : \A n \in 0 .. m : KeptFrom(s, good, n, f)
    BY <1>2
  <2> DEFINE last == IF s[m + 1] \in good THEN Append(f[m], s[m + 1]) ELSE f[m]
             g == [n \in 0 .. m + 1 |-> IF n = m + 1 THEN last ELSE f[n]]
  <2>2. s[m + 1] \in T /\ f[m] \in Seq(T)
    BY <2>1
  <2>3. last \in Seq(T)
    BY <2>2
  <2>4. \A n \in 0 .. m : g[n] = f[n]
    OBVIOUS
  <2>5. g[m + 1] = last /\ g \in [0 .. m + 1 -> Seq(T)]
    BY <2>3
  <2> HIDE DEF g
  <2>6. ASSUME NEW n \in 0 .. m + 1 PROVE KeptFrom(s, good, n, g)
    <3>1. CASE n = m + 1
      BY <3>1, <2>4, <2>5 DEF KeptFrom
    <3>2. CASE n \in 0 .. m
      <4>1. n # 0 => n - 1 \in 0 .. m
        BY <3>2
      <4> QED
        BY <3>2, <4>1, <2>1, <2>4 DEF KeptFrom
    <3> QED
      BY <3>1, <3>2
  <2> QED
    BY <2>5, <2>6
<1>3. Nat \subseteq S
  <2> HIDE DEF S
  <2> QED
    BY <1>1, <1>2, AllNaturals
<1>4. Len(s) \in S
  <2> HIDE DEF S
  <2>1. Len(s) \in Nat
    OBVIOUS
  <2> QED
    BY <1>3, <2>1
<1> QED
  BY <1>4

\* Kept is what the last prefix leaves.
LEMMA KeptPrefixes ==
  ASSUME NEW T, NEW s \in Seq(T), NEW good
  PROVE  \E f \in [0 .. Len(s) -> Seq(T)] :
           /\ \A n \in 0 .. Len(s) : KeptFrom(s, good, n, f)
           /\ Kept(s, good) = f[Len(s)]
<1> DEFINE G(f) == [n \in 0 .. Len(s) |-> IF n = 0 THEN <<>>
                      ELSE IF s[n] \in good THEN Append(f[n - 1], s[n]) ELSE f[n - 1]]
           F == CHOOSE f : f = G(f)
<1>1. PICK f \in [0 .. Len(s) -> Seq(T)] : \A n \in 0 .. Len(s) : KeptFrom(s, good, n, f)
  BY KeptExists
<1>2. f = G(f)
  BY <1>1 DEF KeptFrom
<1>3. Kept(s, good) = F[Len(s)]
  BY DEF Kept
<1> HIDE DEF G
<1>4. F = G(F)
  BY <1>2
<1> HIDE DEF F
<1>5. \A n \in 0 .. Len(s) : KeptFrom(s, good, n, F)
  BY <1>4 DEF G, KeptFrom
<1> DEFINE S == {m \in Nat : m <= Len(s) => F[m] \in Seq(T)}
<1>6. Nat \subseteq S
  <2>1. 0 \in S
    <3>1. 0 \in 0 .. Len(s)
      OBVIOUS
    <3>2. F[0] = <<>>
      BY <3>1, <1>5 DEF KeptFrom
    <3>3. <<>> \in Seq(T)
      OBVIOUS
    <3> QED
      BY <3>2, <3>3
  <2>2. ASSUME NEW m \in Nat, m \in S PROVE m + 1 \in S
    <3> SUFFICES ASSUME m + 1 <= Len(s) PROVE F[m + 1] \in Seq(T)
      OBVIOUS
    <3>1. m + 1 \in 0 .. Len(s) /\ m + 1 # 0 /\ (m + 1) - 1 = m /\ F[m] \in Seq(T) /\ s[m + 1] \in T
      BY <2>2
    <3>2. F[m + 1] = IF s[m + 1] \in good THEN Append(F[m], s[m + 1]) ELSE F[m]
      BY <3>1, <1>5 DEF KeptFrom
    <3> QED
      BY <3>1, <3>2
  <2> HIDE DEF S
  <2> QED
    BY <2>1, <2>2, AllNaturals
<1>7. F \in [0 .. Len(s) -> Seq(T)]
  <2>1. DOMAIN F = 0 .. Len(s) /\ F = [n \in DOMAIN F |-> F[n]]
    BY <1>4 DEF G
  <2> QED
    BY <2>1, <1>6
<1> QED
  BY <1>3, <1>5, <1>7

\* Where the elements kept come from: "at" goes up, and misses no element
\* of the set.
KeptAt(s, n, good, k, at) ==
  /\ at \in [1 .. Len(k) -> 1 .. n]
  /\ \A i \in 1 .. Len(k) : k[i] = s[at[i]] /\ s[at[i]] \in good
  /\ \A i, j \in 1 .. Len(k) : i < j => at[i] < at[j]
  /\ \A m \in 1 .. n : s[m] \in good => \E i \in 1 .. Len(k) : at[i] = m

\* Every element kept has a place in the list, in the same order, and every
\* element of the set is kept.
LEMMA KeptPositions ==
  ASSUME NEW T, NEW s \in Seq(T), NEW good
  PROVE  /\ Kept(s, good) \in Seq(T)
         /\ \E at : KeptAt(s, Len(s), good, Kept(s, good), at)
<1>1. PICK f \in [0 .. Len(s) -> Seq(T)] :
        /\ \A n \in 0 .. Len(s) : KeptFrom(s, good, n, f)
        /\ Kept(s, good) = f[Len(s)]
  BY KeptPrefixes
<1> DEFINE S == {m \in Nat : m <= Len(s) => \E at : KeptAt(s, m, good, f[m], at)}
<1>2. 0 \in S
  <2>1. 0 \in 0 .. Len(s)
    OBVIOUS
  <2>2. f[0] = <<>>
    BY <1>1, <2>1 DEF KeptFrom
  <2>3. KeptAt(s, 0, good, f[0], <<>>)
    BY <2>2 DEF KeptAt
  <2> QED
    BY <2>3
<1>3. ASSUME NEW m \in Nat, m \in S PROVE m + 1 \in S
  <2> SUFFICES ASSUME m + 1 <= Len(s) PROVE \E at : KeptAt(s, m + 1, good, f[m + 1], at)
    OBVIOUS
  <2>1. PICK at : KeptAt(s, m, good, f[m], at)
    BY <1>3
  <2>2. m + 1 \in 0 .. Len(s) /\ m \in 0 .. Len(s) /\ m + 1 # 0 /\ (m + 1) - 1 = m
    BY <1>3
  <2>3. f[m + 1] = IF s[m + 1] \in good THEN Append(f[m], s[m + 1]) ELSE f[m]
    BY <1>1, <2>2 DEF KeptFrom
  <2>4. f[m] \in Seq(T) /\ s[m + 1] \in T
    BY <1>1, <2>2
  <2>5. CASE s[m + 1] \notin good
    <3>1. KeptAt(s, m + 1, good, f[m + 1], at)
      BY <2>1, <2>3, <2>4, <2>5 DEF KeptAt
    <3> QED
      BY <3>1
  <2>6. CASE s[m + 1] \in good
    <3> DEFINE k == f[m]
               l == Len(k) + 1
               to == [i \in 1 .. l |-> IF i = l THEN m + 1 ELSE at[i]]
    <3>1. /\ f[m + 1] = Append(k, s[m + 1]) /\ Len(f[m + 1]) = l /\ l \in Nat
          /\ f[m + 1][l] = s[m + 1]
          /\ \A i \in 1 .. Len(k) : f[m + 1][i] = k[i]
      BY <2>3, <2>4, <2>6
    <3>0. Len(k) \in Nat
      BY <2>4
    <3>a. at \in [1 .. Len(k) -> 1 .. m]
      BY <2>1 DEF KeptAt
    <3> HIDE DEF k
    <3>b. /\ l \in 1 .. l /\ l \notin 1 .. Len(k) /\ \A i \in 1 .. Len(k) : i \in 1 .. l /\ i # l
          /\ \A i \in 1 .. l : i = l \/ i \in 1 .. Len(k)
      BY <3>0
    <3> HIDE DEF l
    <3>2. to[l] = m + 1 /\ \A i \in 1 .. Len(k) : to[i] = at[i] /\ at[i] \in 1 .. m
      BY <3>a, <3>b
    <3>3. \A i \in 1 .. l : i = l \/ i \in 1 .. Len(k)
      BY <3>b
    <3>4. to \in [1 .. l -> 1 .. m + 1]
      <4>1. \A i \in 1 .. l : (IF i = l THEN m + 1 ELSE at[i]) \in 1 .. m + 1
        BY <3>3, <3>a
      <4> QED
        BY <4>1
    <3> USE DEF k
    <3> HIDE DEF k, to
    <3>5. \A i \in 1 .. l : f[m + 1][i] = s[to[i]] /\ s[to[i]] \in good
      BY <2>1, <2>6, <3>1, <3>2, <3>3 DEF KeptAt, k
    <3>6. ASSUME NEW i \in 1 .. l, NEW j \in 1 .. l, i < j PROVE to[i] < to[j]
      <4>1. i \in 1 .. Len(k)
        BY <3>6, <3>1, <3>3
      <4>2. CASE j = l
        BY <4>1, <4>2, <3>2
      <4>3. CASE j \in 1 .. Len(k)
        BY <4>1, <4>3, <3>2, <3>6, <2>1 DEF KeptAt, k
      <4> QED
        BY <4>2, <4>3, <3>3
    <3>7. ASSUME NEW n \in 1 .. m + 1, s[n] \in good PROVE \E i \in 1 .. l : to[i] = n
      <4>1. CASE n = m + 1
        BY <4>1, <3>1, <3>2
      <4>2. CASE n \in 1 .. m
        <5>1. PICK i \in 1 .. Len(k) : at[i] = n
          BY <2>1, <4>2, <3>7 DEF KeptAt, k
        <5> QED
          BY SMTT(30), <5>1, <3>1, <3>2
      <4> QED
        BY <4>1, <4>2
    <3>8. KeptAt(s, m + 1, good, f[m + 1], to)
      BY <3>1, <3>4, <3>5, <3>6, <3>7 DEF KeptAt
    <3> QED
      BY <3>8
  <2> QED
    BY <2>5, <2>6
<1>4. Len(s) \in S
  <2> HIDE DEF S
  <2>1. Len(s) \in Nat
    OBVIOUS
  <2> QED
    BY <1>2, <1>3, AllNaturals, <2>1
<1>5. f[Len(s)] \in Seq(T)
  BY <1>1
<1> QED
  BY <1>1, <1>4, <1>5

\* A filtered list has the elements of the list that are in the set.
LEMMA KeptElements ==
  ASSUME NEW T, NEW s \in Seq(T), NEW good
  PROVE  /\ Kept(s, good) \in Seq(T \cap good)
         /\ {Kept(s, good)[i] : i \in DOMAIN Kept(s, good)} = {s[m] : m \in DOMAIN s} \cap good
<1> DEFINE k == Kept(s, good)
<1>1. k \in Seq(T) /\ \E at : KeptAt(s, Len(s), good, k, at)
  BY KeptPositions
<1> HIDE DEF k
<1>2. PICK at : KeptAt(s, Len(s), good, k, at)
  BY <1>1
<1>3. \A i \in 1 .. Len(k) : at[i] \in 1 .. Len(s) /\ k[i] = s[at[i]] /\ k[i] \in T \cap good
  <2> TAKE i \in 1 .. Len(k)
  <2>1. at[i] \in 1 .. Len(s) /\ k[i] = s[at[i]] /\ s[at[i]] \in good
    BY <1>2 DEF KeptAt
  <2>2. k[i] \in T
    BY <1>1
  <2> QED
    BY <2>1, <2>2
<1>4. k \in Seq(T \cap good)
  BY <1>1, <1>3
<1>5. ASSUME NEW m \in 1 .. Len(s), s[m] \in good PROVE \E i \in 1 .. Len(k) : k[i] = s[m]
  BY <1>2, <1>5 DEF KeptAt
<1>6. DOMAIN k = 1 .. Len(k) /\ DOMAIN s = 1 .. Len(s)
  BY <1>1
<1>7. \A i \in DOMAIN k : k[i] \in {s[m] : m \in DOMAIN s} \cap good
  BY <1>3, <1>6
<1>8. \A x \in {s[m] : m \in DOMAIN s} \cap good : x \in {k[i] : i \in DOMAIN k}
  BY <1>5, <1>6
<1>9. {k[i] : i \in DOMAIN k} = {s[m] : m \in DOMAIN s} \cap good
  BY <1>7, <1>8
<1> QED
  BY <1>4, <1>9 DEF k

-----------------------------------------------------------------------------
(* Sums.                                                                   *)

\* The sum of the first n numbers is f[n], given the sum of fewer.
TotalFrom(s, n, f) == f[n] = IF n = 0 THEN 0 ELSE f[n - 1] + s[n]

\* There are such sums for every prefix.
LEMMA TotalExists ==
  ASSUME NEW s \in Seq(Nat)
  PROVE  \E f \in [0 .. Len(s) -> Nat] : \A n \in 0 .. Len(s) : TotalFrom(s, n, f)
<1> DEFINE S == {m \in Nat : m <= Len(s) =>
                   \E f \in [0 .. m -> Nat] : \A n \in 0 .. m : TotalFrom(s, n, f)}
<1>1. 0 \in S
  <2> DEFINE f == [n \in 0 .. 0 |-> 0]
  <2>1. f \in [0 .. 0 -> Nat] /\ \A n \in 0 .. 0 : TotalFrom(s, n, f)
    BY DEF TotalFrom
  <2> QED
    BY <2>1
<1>2. ASSUME NEW m \in Nat, m \in S PROVE m + 1 \in S
  <2> SUFFICES ASSUME m + 1 <= Len(s)
               PROVE  \E f \in [0 .. m + 1 -> Nat] : \A n \in 0 .. m + 1 : TotalFrom(s, n, f)
    OBVIOUS
  <2>0. m <= Len(s) /\ s[m + 1] \in Nat
    OBVIOUS
  <2>1. PICK f \in [0 .. m -> Nat] : \A n \in 0 .. m : TotalFrom(s, n, f)
    BY <1>2, <2>0
  <2> DEFINE last == f[m] + s[m + 1]
             g == [n \in 0 .. m + 1 |-> IF n = m + 1 THEN last ELSE f[n]]
  <2>2. last \in Nat
    BY <2>0, <2>1
  <2>3. (\A n \in 0 .. m : g[n] = f[n]) /\ g[m + 1] = last /\ g \in [0 .. m + 1 -> Nat]
    BY <2>1, <2>2
  <2> HIDE DEF g
  <2>4. ASSUME NEW n \in 0 .. m + 1 PROVE TotalFrom(s, n, g)
    <3>1. CASE n = m + 1
      BY <3>1, <2>3 DEF TotalFrom
    <3>2. CASE n \in 0 .. m
      <4>1. n # 0 => n - 1 \in 0 .. m
        BY <3>2
      <4> QED
        BY <3>2, <4>1, <2>1, <2>3 DEF TotalFrom
    <3> QED
      BY <3>1, <3>2
  <2> QED
    BY <2>3, <2>4
<1>3. Len(s) \in S
  <2> HIDE DEF S
  <2>1. Len(s) \in Nat
    OBVIOUS
  <2> QED
    BY <1>1, <1>2, AllNaturals, <2>1
<1> QED
  BY <1>3

\* The sum is the last of the partial sums, and there is only one way to
\* have those.
LEMMA TotalPrefixes ==
  ASSUME NEW s \in Seq(Nat)
  PROVE  /\ \E f \in [0 .. Len(s) -> Nat] : \A n \in 0 .. Len(s) : TotalFrom(s, n, f)
         /\ \A f : (\A n \in 0 .. Len(s) : TotalFrom(s, n, f)) => Total(s) = f[Len(s)]
         /\ Total(s) \in Nat
<1> DEFINE G(f) == [n \in 0 .. Len(s) |-> IF n = 0 THEN 0 ELSE f[n - 1] + s[n]]
           F == CHOOSE f : f = G(f)
<1>1. PICK h \in [0 .. Len(s) -> Nat] : \A n \in 0 .. Len(s) : TotalFrom(s, n, h)
  BY TotalExists
<1>2. h = G(h)
  BY <1>1 DEF TotalFrom
<1>3. Total(s) = F[Len(s)]
  BY DEF Total
<1> HIDE DEF G
<1>4. F = G(F)
  BY <1>2
<1> HIDE DEF F
<1>5. \A n \in 0 .. Len(s) : TotalFrom(s, n, F)
  BY <1>4 DEF G, TotalFrom
<1>6. ASSUME NEW f, \A n \in 0 .. Len(s) : TotalFrom(s, n, f) PROVE F[Len(s)] = f[Len(s)]
  <2> DEFINE S == {m \in Nat : m <= Len(s) => F[m] = f[m]}
  <2>0. Len(s) \in Nat
    OBVIOUS
  <2>1. 0 \in S
    <3>1. 0 \in 0 .. Len(s)
      BY <2>0
    <3> QED
      BY <3>1, <1>5, <1>6 DEF TotalFrom
  <2>2. ASSUME NEW m \in Nat, m \in S PROVE m + 1 \in S
    <3> SUFFICES ASSUME m + 1 <= Len(s) PROVE F[m + 1] = f[m + 1]
      OBVIOUS
    <3>1. m + 1 \in 0 .. Len(s) /\ m + 1 # 0 /\ (m + 1) - 1 = m /\ F[m] = f[m]
      BY <2>0, <2>2
    <3> QED
      BY <3>1, <1>5, <1>6 DEF TotalFrom
  <2> HIDE DEF S
  <2>3. Len(s) \in S
    BY <2>0, <2>1, <2>2, AllNaturals
  <2> QED
    BY <2>3, <2>0 DEF S
<1>7. Total(s) \in Nat
  <2>1. F[Len(s)] = h[Len(s)]
    BY <1>1, <1>6
  <2>2. Len(s) \in 0 .. Len(s)
    OBVIOUS
  <2> QED
    BY <1>1, <1>3, <2>1, <2>2
<1> QED
  BY <1>1, <1>3, <1>6, <1>7

\* Lists of one length that differ in one place at most.
LEMMA TotalOneDiffers ==
  ASSUME NEW s \in Seq(Nat), NEW t \in Seq(Nat), Len(s) = Len(t),
         NEW k \in 1 .. Len(s), \A m \in 1 .. Len(s) : m # k => s[m] = t[m]
  PROVE  Total(s) + t[k] = Total(t) + s[k]
<1>1. PICK f \in [0 .. Len(s) -> Nat] : \A n \in 0 .. Len(s) : TotalFrom(s, n, f)
  BY TotalPrefixes
<1>2. PICK g \in [0 .. Len(s) -> Nat] : \A n \in 0 .. Len(s) : TotalFrom(t, n, g)
  BY TotalPrefixes
<1>3. Total(s) = f[Len(s)] /\ Total(t) = g[Len(s)]
  BY <1>1, <1>2, TotalPrefixes
<1>0. Len(s) \in Nat /\ k \in Nat /\ s[k] \in Nat /\ t[k] \in Nat
  OBVIOUS
<1> DEFINE S == {m \in Nat : m <= Len(s) =>
                   IF m < k THEN f[m] = g[m] ELSE f[m] + t[k] = g[m] + s[k]}
<1>4. 0 \in S
  <2>1. 0 \in 0 .. Len(s) /\ 0 < k
    BY <1>0
  <2>2. f[0] = 0 /\ g[0] = 0
    BY <2>1, <1>1, <1>2 DEF TotalFrom
  <2> QED
    BY <2>1, <2>2
<1>5. ASSUME NEW m \in Nat, m \in S PROVE m + 1 \in S
  <2> SUFFICES ASSUME m + 1 <= Len(s)
               PROVE  IF m + 1 < k THEN f[m + 1] = g[m + 1] ELSE f[m + 1] + t[k] = g[m + 1] + s[k]
    OBVIOUS
  <2>1. m + 1 \in 0 .. Len(s) /\ m + 1 # 0 /\ (m + 1) - 1 = m /\ m \in 0 .. Len(s) /\ m + 1 \in 1 .. Len(s)
    BY <1>0
  <2>2. f[m + 1] = f[m] + s[m + 1] /\ g[m + 1] = g[m] + t[m + 1]
    BY <2>1, <1>1, <1>2 DEF TotalFrom
  <2>3. f[m] \in Nat /\ g[m] \in Nat /\ s[m + 1] \in Nat /\ t[m + 1] \in Nat
    <3>1. f[m] \in Nat /\ g[m] \in Nat
      BY <2>1, <1>1, <1>2
    <3>2. s[m + 1] \in Nat /\ t[m + 1] \in Nat
      BY <2>1
    <3> QED
      BY <3>1, <3>2
  <2>4. IF m < k THEN f[m] = g[m] ELSE f[m] + t[k] = g[m] + s[k]
    BY <1>5, <2>1
  <2>5. CASE m + 1 = k
    <3>1. m < k /\ f[m] = g[m] /\ ~ (m + 1 < k)
      BY <2>4, <2>5, <1>0
    <3>2. f[m + 1] = f[m] + s[k] /\ g[m + 1] = f[m] + t[k] /\ f[m] \in Nat
      BY <2>2, <2>3, <2>5, <3>1
    <3>3. f[m + 1] + t[k] = g[m + 1] + s[k]
      BY SMTT(30), <3>2, <1>0
    <3> QED
      BY <3>1, <3>3
  <2>6. CASE m + 1 # k
    <3>1. s[m + 1] = t[m + 1]
      BY <2>1, <2>6
    <3> QED
      <4>1. CASE m < k
        BY <2>2, <2>4, <2>6, <3>1, <4>1, <1>0
      <4>2. CASE ~ (m < k)
        <5>1. ~ (m + 1 < k) /\ f[m] + t[k] = g[m] + s[k]
          BY <2>4, <4>2, <1>0
        <5>2. /\ f[m + 1] = f[m] + s[m + 1] /\ g[m + 1] = g[m] + s[m + 1]
              /\ f[m] \in Nat /\ g[m] \in Nat /\ s[m + 1] \in Nat
          BY <2>2, <2>3, <3>1
        <5> DEFINE a == f[m]
                   b == g[m]
                   c == t[k]
                   d == s[k]
                   x == s[m + 1]
        <5>3. a \in Nat /\ b \in Nat /\ c \in Nat /\ d \in Nat /\ x \in Nat /\ a + c = b + d
          BY <5>1, <5>2, <1>0
        <5>4. (a + x) + c = (b + x) + d
          <6> HIDE DEF a, b, c, d, x
          <6> QED
            BY <5>3
        <5>5. f[m + 1] + t[k] = g[m + 1] + s[k]
          BY <5>2, <5>4
        <5> QED
          BY <5>1, <5>5
      <4> QED
        BY <4>1, <4>2
  <2> QED
    BY <2>5, <2>6
<1>6. Len(s) \in S
  <2> HIDE DEF S
  <2> QED
    BY <1>0, <1>4, <1>5, AllNaturals
<1> QED
  BY <1>0, <1>3, <1>6

\* A list no element of which is less sums to no less.
LEMMA TotalMonotone ==
  ASSUME NEW s \in Seq(Nat), NEW t \in Seq(Nat), Len(s) = Len(t),
         \A m \in 1 .. Len(s) : s[m] <= t[m]
  PROVE  Total(s) <= Total(t)
<1>1. PICK f \in [0 .. Len(s) -> Nat] : \A n \in 0 .. Len(s) : TotalFrom(s, n, f)
  BY TotalPrefixes
<1>2. PICK g \in [0 .. Len(s) -> Nat] : \A n \in 0 .. Len(s) : TotalFrom(t, n, g)
  BY TotalPrefixes
<1>3. Total(s) = f[Len(s)] /\ Total(t) = g[Len(s)]
  BY <1>1, <1>2, TotalPrefixes
<1>0. Len(s) \in Nat
  OBVIOUS
<1> DEFINE S == {m \in Nat : m <= Len(s) => f[m] <= g[m]}
<1>4. 0 \in S
  <2>1. 0 \in 0 .. Len(s)
    BY <1>0
  <2>2. f[0] = 0 /\ g[0] = 0
    BY <2>1, <1>1, <1>2 DEF TotalFrom
  <2> QED
    BY <2>1, <2>2
<1>5. ASSUME NEW m \in Nat, m \in S PROVE m + 1 \in S
  <2> SUFFICES ASSUME m + 1 <= Len(s) PROVE f[m + 1] <= g[m + 1]
    OBVIOUS
  <2>1. m + 1 \in 0 .. Len(s) /\ m + 1 # 0 /\ (m + 1) - 1 = m /\ m \in 0 .. Len(s) /\ m + 1 \in 1 .. Len(s)
    BY <1>0
  <2>2. f[m + 1] = f[m] + s[m + 1] /\ g[m + 1] = g[m] + t[m + 1]
    BY <2>1, <1>1, <1>2 DEF TotalFrom
  <2>3. f[m] \in Nat /\ g[m] \in Nat /\ s[m + 1] \in Nat /\ t[m + 1] \in Nat
    <3>1. f[m] \in Nat /\ g[m] \in Nat
      BY <2>1, <1>1, <1>2
    <3>2. s[m + 1] \in Nat /\ t[m + 1] \in Nat
      BY <2>1
    <3> QED
      BY <3>1, <3>2
  <2>4. f[m] <= g[m] /\ s[m + 1] <= t[m + 1]
    BY <1>5, <2>1
  <2> QED
    BY SMTT(30), <2>2, <2>3, <2>4
<1>6. Len(s) \in S
  <2> HIDE DEF S
  <2> QED
    BY <1>0, <1>4, <1>5, AllNaturals
<1> QED
  BY <1>0, <1>3, <1>6

\* One more number is added to the sum.
LEMMA TotalAppend ==
  ASSUME NEW s \in Seq(Nat), NEW x \in Nat
  PROVE  Total(Append(s, x)) = Total(s) + x
<1> DEFINE t == Append(s, x)
<1>0. Len(s) \in Nat /\ t \in Seq(Nat) /\ Len(t) = Len(s) + 1 /\ t[Len(s) + 1] = x
      /\ \A m \in 1 .. Len(s) : t[m] = s[m]
  OBVIOUS
<1> HIDE DEF t
<1>1. PICK g \in [0 .. Len(t) -> Nat] : \A n \in 0 .. Len(t) : TotalFrom(t, n, g)
  BY <1>0, TotalPrefixes
<1>2. \A n \in 0 .. Len(s) : TotalFrom(s, n, g)
  <2> TAKE n \in 0 .. Len(s)
  <2>1. n \in 0 .. Len(t) /\ (n # 0 => n \in 1 .. Len(s))
    BY <1>0
  <2> QED
    BY <2>1, <1>0, <1>1 DEF TotalFrom
<1>3. Total(s) = g[Len(s)]
  BY <1>2, TotalPrefixes
<1>4. Total(t) = g[Len(s) + 1]
  BY <1>0, <1>1, TotalPrefixes
<1>5. g[Len(s) + 1] = g[Len(s)] + x
  <2>1. Len(s) + 1 \in 0 .. Len(t) /\ Len(s) + 1 # 0 /\ (Len(s) + 1) - 1 = Len(s)
    BY <1>0
  <2> QED
    BY <2>1, <1>0, <1>1 DEF TotalFrom
<1> QED
  BY <1>3, <1>4, <1>5 DEF t

\* The elements' weights.
Weighed(s, w) == [i \in DOMAIN s |-> w[s[i]]]

\* A list has as many weights as elements, and one more for one more.
LEMMA WeighedTyped ==
  ASSUME NEW T, NEW s \in Seq(T), NEW w \in [T -> Nat]
  PROVE  /\ Weighed(s, w) \in Seq(Nat) /\ Len(Weighed(s, w)) = Len(s)
         /\ \A i \in 1 .. Len(s) : Weighed(s, w)[i] = w[s[i]]
         /\ \A x \in T : Weighed(Append(s, x), w) = Append(Weighed(s, w), w[x])
<1>1. Len(s) \in Nat /\ DOMAIN s = 1 .. Len(s)
  OBVIOUS
<1>2. Weighed(s, w) \in Seq(Nat) /\ Len(Weighed(s, w)) = Len(s)
      /\ \A i \in 1 .. Len(s) : Weighed(s, w)[i] = w[s[i]]
  BY <1>1 DEF Weighed
<1>3. ASSUME NEW x \in T PROVE Weighed(Append(s, x), w) = Append(Weighed(s, w), w[x])
  <2>1. /\ DOMAIN Append(s, x) = 1 .. Len(s) + 1 /\ Append(s, x)[Len(s) + 1] = x
        /\ \A i \in 1 .. Len(s) : Append(s, x)[i] = s[i]
    OBVIOUS
  <2> DEFINE a == Weighed(Append(s, x), w)
             b == Append(Weighed(s, w), w[x])
  <2>2. /\ a = [i \in 1 .. Len(s) + 1 |-> a[i]]
        /\ a[Len(s) + 1] = w[x] /\ \A i \in 1 .. Len(s) : a[i] = w[s[i]]
    BY <1>1, <2>1 DEF Weighed
  <2>3. w[x] \in Nat
    OBVIOUS
  <2>4. /\ b \in Seq(Nat) /\ Len(b) = Len(s) + 1
        /\ b[Len(s) + 1] = w[x] /\ \A i \in 1 .. Len(s) : b[i] = w[s[i]]
    BY <1>2, <2>3
  <2>5. b = [i \in 1 .. Len(s) + 1 |-> b[i]]
    BY <2>4
  <2>6. \A i \in 1 .. Len(s) + 1 : i = Len(s) + 1 \/ i \in 1 .. Len(s)
    BY <1>1
  <2> HIDE DEF a, b
  <2>7. \A i \in 1 .. Len(s) + 1 : a[i] = b[i]
    BY <2>2, <2>4, <2>6
  <2>8. a = b
    BY <2>2, <2>5, <2>7
  <2> QED
    BY <2>8 DEF a, b
<1> QED
  BY <1>2, <1>3

\* What is left out of a list weighs nothing.
LEMMA TotalKept ==
  ASSUME NEW T, NEW s \in Seq(T), NEW good, NEW w \in [T -> Nat]
  PROVE  Total(Weighed(Kept(s, good), w)) =
           Total([m \in DOMAIN s |-> IF s[m] \in good THEN w[s[m]] ELSE 0])
<1> DEFINE t == [m \in 1 .. Len(s) |-> IF s[m] \in good THEN w[s[m]] ELSE 0]
<1>0. Len(s) \in Nat /\ DOMAIN s = 1 .. Len(s)
  OBVIOUS
<1>1. PICK f \in [0 .. Len(s) -> Seq(T)] :
        /\ \A n \in 0 .. Len(s) : KeptFrom(s, good, n, f)
        /\ Kept(s, good) = f[Len(s)]
  BY KeptPrefixes
<1>2. t \in Seq(Nat) /\ Len(t) = Len(s)
  <2>1. \A m \in 1 .. Len(s) : t[m] \in Nat
    OBVIOUS
  <2> QED
    BY <1>0, <2>1
<1>a. \A m \in 1 .. Len(s) : t[m] = IF s[m] \in good THEN w[s[m]] ELSE 0
  OBVIOUS
<1> HIDE DEF t
<1>3. PICK g \in [0 .. Len(s) -> Nat] : \A n \in 0 .. Len(s) : TotalFrom(t, n, g)
  BY <1>2, TotalPrefixes
<1>4. Total(t) = g[Len(s)]
  BY <1>2, <1>3, TotalPrefixes
<1> DEFINE S == {m \in Nat : m <= Len(s) => Total(Weighed(f[m], w)) = g[m]}
<1>5. 0 \in S
  <2>1. 0 \in 0 .. Len(s)
    BY <1>0
  <2>2. f[0] = <<>> /\ g[0] = 0
    BY <2>1, <1>1, <1>3 DEF KeptFrom, TotalFrom
  <2>3. Weighed(<<>>, w) = <<>>
    BY DEF Weighed
  <2>4. Total(<<>>) = 0
    <3>1. <<>> \in Seq(Nat) /\ Len(<<>>) = 0
      OBVIOUS
    <3>2. PICK z \in [0 .. Len(<<>>) -> Nat] : \A n \in 0 .. Len(<<>>) : TotalFrom(<<>>, n, z)
      BY <3>1, TotalPrefixes
    <3>3. Total(<<>>) = z[0]
      BY <3>1, <3>2, TotalPrefixes
    <3> QED
      BY <3>1, <3>2, <3>3 DEF TotalFrom
  <2> QED
    BY <2>2, <2>3, <2>4
<1>6. ASSUME NEW m \in Nat, m \in S PROVE m + 1 \in S
  <2> SUFFICES ASSUME m + 1 <= Len(s) PROVE Total(Weighed(f[m + 1], w)) = g[m + 1]
    OBVIOUS
  <2>1. m + 1 \in 0 .. Len(s) /\ m + 1 # 0 /\ (m + 1) - 1 = m /\ m \in 0 .. Len(s) /\ m + 1 \in 1 .. Len(s)
    BY <1>0
  <2>2. f[m + 1] = IF s[m + 1] \in good THEN Append(f[m], s[m + 1]) ELSE f[m]
    BY <2>1, <1>1 DEF KeptFrom
  <2>3. g[m + 1] = g[m] + t[m + 1] /\ g[m] \in Nat
    BY <2>1, <1>3 DEF TotalFrom
  <2>4. Total(Weighed(f[m], w)) = g[m]
    BY <1>6, <2>1
  <2>5. f[m] \in Seq(T) /\ s[m + 1] \in T
    <3>1. f[m] \in Seq(T)
      BY <2>1, <1>1
    <3>2. s[m + 1] \in T
      BY <2>1
    <3> QED
      BY <3>1, <3>2
  <2>6. CASE s[m + 1] \notin good
    <3>1. t[m + 1] = 0
      BY <1>a, <2>1, <2>6
    <3> QED
      BY <2>2, <2>3, <2>4, <2>6, <3>1
  <2>7. CASE s[m + 1] \in good
    <3>1. t[m + 1] = w[s[m + 1]] /\ w[s[m + 1]] \in Nat
      BY <1>a, <2>1, <2>5, <2>7
    <3>2. Weighed(f[m + 1], w) = Append(Weighed(f[m], w), w[s[m + 1]]) /\ Weighed(f[m], w) \in Seq(Nat)
      <4>1. f[m + 1] = Append(f[m], s[m + 1])
        BY <2>2, <2>7
      <4> DEFINE k == f[m]
                 x == s[m + 1]
      <4>2. k \in Seq(T) /\ x \in T
        BY <2>5
      <4> HIDE DEF k, x
      <4>3. Weighed(Append(k, x), w) = Append(Weighed(k, w), w[x]) /\ Weighed(k, w) \in Seq(Nat)
        BY <4>2, WeighedTyped
      <4> QED
        BY <4>1, <4>3 DEF k, x
    <3>3. Total(Weighed(f[m + 1], w)) = Total(Weighed(f[m], w)) + w[s[m + 1]]
      BY <3>1, <3>2, TotalAppend
    <3> QED
      BY <2>3, <2>4, <3>1, <3>3
  <2> QED
    BY <2>6, <2>7
<1>7. Len(s) \in S
  <2> HIDE DEF S
  <2> QED
    BY <1>0, <1>5, <1>6, AllNaturals
<1>8. Total(Weighed(f[Len(s)], w)) = g[Len(s)]
  BY <1>0, <1>7
<1> QED
  BY <1>0, <1>1, <1>4, <1>8 DEF t

\* A list of which nothing is left out weighs what it weighed.
LEMMA TotalAllKept ==
  ASSUME NEW T, NEW s \in Seq(T), NEW good, NEW w \in [T -> Nat], \A m \in DOMAIN s : s[m] \in good
  PROVE  Total(Weighed(Kept(s, good), w)) = Total(Weighed(s, w))
<1>1. [m \in DOMAIN s |-> IF s[m] \in good THEN w[s[m]] ELSE 0] = Weighed(s, w)
  BY DEF Weighed
<1> QED
  BY <1>1, TotalKept
=============================================================================
