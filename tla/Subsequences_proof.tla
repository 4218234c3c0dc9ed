------------------------- MODULE Subsequences_proof --------------------------
(***************************************************************************)
(* Facts about Among: it is defined for every sequence, and what it        *)
(* returns is a sequence over the elements kept, each of which it holds    *)
(* once and in the order it stood (Picks).  The induction theorems         *)
(* of the library take operators; the proofs by induction here take a      *)
(* smallest counterexample instead (NatMinimum).                           *)
(*                                                                         *)
(* Then the relations that a program which is a sequence of requests hands *)
(* on to what is left of it: Has, Ordered, Followed, Adjacent, Once.       *)
(***************************************************************************)
EXTENDS Subsequences, SequenceTheorems, FiniteSetTheorems, TLAPS

(* Every nonempty set of natural numbers has a least element. *)
LEMMA NatMinimum ==
  ASSUME NEW T \in SUBSET Nat, T # {}
  PROVE  \E x \in T : \A y \in T : x <= y
<1>1. PICK t \in T : TRUE
  OBVIOUS
<1> DEFINE F == {0..k : k \in {x \in T : x <= t}}
           W == FiniteSubsetsOf(0..t)
<1>2. F \subseteq W
  <2>1. ASSUME NEW k \in T, k <= t PROVE IsFiniteSet(0..k) /\ 0..k \subseteq 0..t
    BY <2>1, FS_Interval
  <2>2. QED
    BY <2>1 DEF FiniteSubsetsOf
<1>3. 0..t \in F
  OBVIOUS
<1>4. PICK X \in F : \A Y \in F : ~(<<Y, X>> \in StrictSubsetOrdering(0..t))
  <2>1. IsWellFoundedOn(StrictSubsetOrdering(0..t), W)
    BY FS_StrictSubsetOrderingWellFounded
  <2> HIDE DEF F, W
  <2>2. QED
    BY <1>2, <1>3, <2>1, WFMin
<1>5. PICK x \in T : x <= t /\ X = 0..x
  OBVIOUS
<1>6. ASSUME NEW y \in T, y < x PROVE FALSE
  <2>1. 0..y \in F
    BY <1>5, <1>6
  <2>2. 0..y \subseteq X /\ 0..y # X /\ X \subseteq 0..t
    BY <1>5, <1>6
  <2>3. QED
    BY <1>4, <2>1, <2>2 DEF StrictSubsetOrdering
<1>7. QED
  BY <1>6

(* Induction, with a set in the place of the predicate. *)
LEMMA NatInductionSet ==
  ASSUME NEW P \in SUBSET Nat, 0 \in P, \A n \in P : n + 1 \in P
  PROVE  P = Nat
<1>1. SUFFICES ASSUME Nat \ P # {} PROVE FALSE
  OBVIOUS
<1>2. PICK x \in Nat \ P : \A y \in Nat \ P : x <= y
  BY <1>1, NatMinimum
<1>3. x - 1 \in Nat /\ x - 1 \notin Nat \ P
  BY <1>2
<1>4. QED
  BY <1>2, <1>3

(* The recursion in the definition of Among has a solution. *)
Pass(s, Q, f, n) ==
  IF n = 0 THEN <<>>
  ELSE IF s[n] \in Q THEN Append(f[n - 1], s[n])
  ELSE f[n - 1]
Passes(s, Q, m, f) == f = [n \in 0..m |-> Pass(s, Q, f, n)]

LEMMA PassesAgree ==
  ASSUME NEW s, NEW Q, NEW m \in Nat, NEW k \in Nat, m <= k,
         NEW f, Passes(s, Q, m, f), NEW g, Passes(s, Q, k, g)
  PROVE  \A n \in 0..m : f[n] = g[n]
<1> DEFINE P == {n \in Nat : n <= m => f[n] = g[n]}
<1>1. 0 \in P
  BY DEF Passes, Pass
<1>2. ASSUME NEW n \in P PROVE n + 1 \in P
  <2>1. CASE n + 1 <= m
    <3>1. n \in Nat /\ f[n] = g[n]
      BY <2>1
    <3>2. n + 1 \in 0..m /\ n + 1 \in 0..k
      BY <2>1, <3>1
    <3> HIDE DEF P
    <3>3. f[n + 1] = Pass(s, Q, f, n + 1) /\ g[n + 1] = Pass(s, Q, g, n + 1)
      BY <3>2 DEF Passes
    <3>4. f[n + 1] = g[n + 1]
      BY <3>1, <3>3 DEF Pass
    <3>5. QED
      BY <3>1, <3>4 DEF P
  <2>2. QED
    BY <2>1
<1>3. P = Nat
  <2>1. P \in SUBSET Nat
    OBVIOUS
  <2> HIDE DEF P
  <2>2. QED
    BY <1>1, <1>2, <2>1, NatInductionSet
<1>4. QED
  BY <1>3

LEMMA PassesExist ==
  ASSUME NEW s, NEW Q
  PROVE  \A m \in Nat : \E f : Passes(s, Q, m, f)
<1> DEFINE P == {m \in Nat : \E f : Passes(s, Q, m, f)}
<1>1. 0 \in P
  <2>1. Passes(s, Q, 0, [n \in 0..0 |-> <<>>])
    BY DEF Passes, Pass
  <2>2. QED
    BY <2>1
<1>2. ASSUME NEW m \in P PROVE m + 1 \in P
  <2>1. PICK f : Passes(s, Q, m, f)
    OBVIOUS
  <2> DEFINE g == [n \in 0..(m + 1) |-> IF n <= m THEN f[n] ELSE Pass(s, Q, f, n)]
  <2>2. ASSUME NEW n \in 0..(m + 1) PROVE g[n] = Pass(s, Q, g, n)
    <3>1. g[n] = Pass(s, Q, f, n)
      BY <2>1 DEF Passes
    <3>2. n = 0 \/ g[n - 1] = f[n - 1]
      OBVIOUS
    <3>3. QED
      BY <3>1, <3>2 DEF Pass
  <2>3. g = [n \in 0..(m + 1) |-> Pass(s, Q, g, n)]
    BY <2>2
  <2>4. Passes(s, Q, m + 1, g)
    BY <2>3 DEF Passes
  <2>5. QED
    BY <2>4
<1>3. P = Nat
  <2>1. P \in SUBSET Nat
    OBVIOUS
  <2> HIDE DEF P
  <2>2. QED
    BY <1>1, <1>2, <2>1, NatInductionSet
<1>4. QED
  BY <1>3

UpTo(s, Q) == CHOOSE f : f = [n \in Nat |-> Pass(s, Q, f, n)]

LEMMA UpToRecursion ==
  ASSUME NEW s, NEW Q
  PROVE  UpTo(s, Q) = [n \in Nat |-> Pass(s, Q, UpTo(s, Q), n)]
<1> DEFINE G(m) == CHOOSE f : Passes(s, Q, m, f)
           f == [n \in Nat |-> G(n)[n]]
<1>1. ASSUME NEW m \in Nat PROVE Passes(s, Q, m, G(m))
  BY PassesExist
<1>2. ASSUME NEW n \in Nat PROVE f[n] = Pass(s, Q, f, n)
  <2>1. f[n] = Pass(s, Q, G(n), n)
    <3>1. Passes(s, Q, n, G(n))
      BY <1>1
    <3> HIDE DEF G
    <3>2. G(n)[n] = Pass(s, Q, G(n), n)
      BY <3>1 DEF Passes
    <3>3. QED
      BY <3>2
  <2>2. CASE n # 0
    <3>1. n - 1 \in Nat /\ n - 1 <= n /\ n - 1 \in 0..(n - 1)
      BY <2>2
    <3>2. Passes(s, Q, n, G(n)) /\ Passes(s, Q, n - 1, G(n - 1))
      BY <1>1, <3>1
    <3> HIDE DEF G
    <3>3. G(n)[n - 1] = G(n - 1)[n - 1]
      BY <3>1, <3>2, PassesAgree
    <3>4. f[n - 1] = G(n)[n - 1]
      BY <3>1, <3>3
    <3> HIDE DEF f
    <3>5. QED
      BY <2>1, <3>4 DEF Pass
  <2>3. CASE n = 0
    BY <2>1, <2>3 DEF Pass
  <2>4. QED
    BY <2>2, <2>3
<1>3. f = [n \in Nat |-> Pass(s, Q, f, n)]
  <2> HIDE DEF G
  <2> QED
    BY <1>2
<1>4. QED
  <2> HIDE DEF f
  <2> QED
    BY <1>3 DEF UpTo

LEMMA AmongIsUpTo ==
  ASSUME NEW s, NEW Q
  PROVE  Among(s, Q) = UpTo(s, Q)[Len(s)]
  BY DEF Among, UpTo, Pass

(* Among keeps exactly the elements of Q, so it is a sequence over them. *)
LEMMA AmongProperties ==
  ASSUME NEW S, NEW s \in Seq(S), NEW Q
  PROVE  /\ Among(s, Q) \in Seq(S \cap Q)
         /\ Range(Among(s, Q)) = Range(s) \cap Q
<1> DEFINE u == UpTo(s, Q)
           K(n) == {s[i] : i \in 1..n} \cap Q
           P == {n \in Nat : n <= Len(s) => u[n] \in Seq(S \cap Q) /\ Range(u[n]) = K(n)}
<1>1. \A n \in Nat : u[n] = Pass(s, Q, u, n)
  <2>1. u = [n \in Nat |-> Pass(s, Q, u, n)]
    BY UpToRecursion
  <2> HIDE DEF u
  <2>2. QED
    BY <2>1
<1> HIDE DEF u
<1>2. 0 \in P
  <2>1. u[0] = <<>>
    BY <1>1 DEF Pass
  <2>2. K(0) = {} /\ Range(<<>>) = {}
    BY DEF Range
  <2>3. <<>> \in Seq(S \cap Q)
    BY EmptySeq
  <2>4. u[0] \in Seq(S \cap Q) /\ Range(u[0]) = K(0)
    BY <2>1, <2>2, <2>3
  <2>5. QED
    BY <2>4
<1>3. ASSUME NEW n \in P PROVE n + 1 \in P
  <2>1. n \in Nat
    OBVIOUS
  <2>2. SUFFICES ASSUME n + 1 <= Len(s)
                 PROVE  u[n + 1] \in Seq(S \cap Q) /\ Range(u[n + 1]) = K(n + 1)
    BY <2>1
  <2>3. Len(s) \in Nat
    BY LenProperties
  <2>4. u[n] \in Seq(S \cap Q) /\ Range(u[n]) = K(n)
    BY <2>1, <2>2, <2>3
  <2>5. n + 1 \in 1..Len(s)
    BY <2>1, <2>2, <2>3
  <2>6. s[n + 1] \in S
    BY <2>5, ElementOfSeq
  <2>7. K(n + 1) = IF s[n + 1] \in Q THEN K(n) \cup {s[n + 1]} ELSE K(n)
    <3>1. 1..(n + 1) = 1..n \cup {n + 1}
      BY <2>1
    <3>2. QED
      BY <3>1
  <2>8. u[n + 1] = IF s[n + 1] \in Q THEN Append(u[n], s[n + 1]) ELSE u[n]
    <3>1. n + 1 \in Nat /\ n + 1 # 0 /\ (n + 1) - 1 = n
      BY <2>1
    <3>2. u[n + 1] = Pass(s, Q, u, n + 1)
      BY <1>1, <3>1
    <3>3. QED
      BY <3>1, <3>2 DEF Pass
  <2> HIDE DEF K, P
  <2>9. CASE s[n + 1] \in Q
    <3>1. u[n + 1] = Append(u[n], s[n + 1]) /\ s[n + 1] \in S \cap Q
      BY <2>6, <2>8, <2>9
    <3>2. u[n + 1] \in Seq(S \cap Q)
      BY <2>4, <3>1, AppendProperties
    <3>3. <<s[n + 1]>> \in Seq(S \cap Q) /\ Range(<<s[n + 1]>>) = {s[n + 1]}
      BY <3>1 DEF Range
    <3>4. u[n + 1] = u[n] \o <<s[n + 1]>>
      BY <2>4, <3>1, AppendIsConcat
    <3>5. Range(u[n + 1]) = Range(u[n]) \cup {s[n + 1]}
      <4> DEFINE t == <<s[n + 1]>>
      <4>1. Range(t) = {s[n + 1]} /\ t \in Seq(S \cap Q)
        BY <3>3
      <4> HIDE DEF t
      <4>2. Range(u[n] \o t) = Range(u[n]) \cup Range(t)
        BY <2>4, <4>1, RangeConcatenation
      <4>3. QED
        BY <3>4, <4>1, <4>2 DEF t
    <3>6. QED
      BY <2>4, <2>7, <2>9, <3>2, <3>5
  <2>10. CASE s[n + 1] \notin Q
    BY <2>4, <2>7, <2>8, <2>10
  <2>11. QED
    BY <2>9, <2>10
<1>4. P = Nat
  <2>1. P \in SUBSET Nat
    OBVIOUS
  <2> HIDE DEF P
  <2>2. QED
    BY <1>2, <1>3, <2>1, NatInductionSet
<1>5. Len(s) \in Nat /\ Len(s) \in P
  <2>1. Len(s) \in Nat
    BY LenProperties
  <2>2. QED
    BY <1>4, <2>1
<1>6. u[Len(s)] \in Seq(S \cap Q) /\ Range(u[Len(s)]) = K(Len(s))
  BY <1>5
<1>7. Range(s) = {s[i] : i \in 1..Len(s)}
  BY RangeEquality
<1>8. Among(s, Q) = u[Len(s)]
  BY AmongIsUpTo DEF u
<1>9. QED
  BY <1>6, <1>7, <1>8
------------------------------------------------------------------------------
(* What is left of a sequence whose elements are taken from the front:     *)
(* which elements there still are, which of two comes first, which is      *)
(* followed by which, at once or later, and which stands there once.       *)

Has(t, x) == \E i \in DOMAIN t : t[i] = x
Ordered(t, x, y) == \A i, j \in DOMAIN t : t[i] = x /\ t[j] = y => i < j
Followed(t, x, y) == \A i \in DOMAIN t : t[i] = x => \E j \in DOMAIN t : i < j /\ t[j] = y
Adjacent(t, x, y) == \A i \in DOMAIN t : t[i] = x => i + 1 \in DOMAIN t /\ t[i + 1] = y
Once(t, x) == \A i, j \in DOMAIN t : t[i] = x /\ t[j] = x => i = j

LEMMA SuffixElements ==
  ASSUME NEW S, NEW t \in Seq(S), NEW k \in 0 .. Len(t), NEW u, u = SubSeq(t, k + 1, Len(t))
  PROVE  /\ u \in Seq(S)
         /\ \A i \in DOMAIN u : k + i \in DOMAIN t /\ u[i] = t[k + i] /\ i \in Nat
         /\ \A j \in DOMAIN t : j \in Nat /\ (j > k => j - k \in DOMAIN u)
<1>1. Len(t) \in Nat /\ DOMAIN t = 1 .. Len(t) /\ \A i \in 1 .. Len(t) : t[i] \in S
  BY LenProperties, ElementOfSeq
<1>2. u \in Seq(S) /\ Len(u) = Len(t) - k /\ \A i \in 1 .. Len(t) - k : u[i] = t[k + i]
  <2>1. \A i \in k + 1 .. Len(t) : t[i] \in S
    BY <1>1
  <2>2. /\ SubSeq(t, k + 1, Len(t)) \in Seq(S)
        /\ Len(SubSeq(t, k + 1, Len(t))) = IF k + 1 <= Len(t) THEN Len(t) - (k + 1) + 1 ELSE 0
        /\ \A i \in 1 .. Len(t) - (k + 1) + 1 : SubSeq(t, k + 1, Len(t))[i] = t[k + 1 + i - 1]
    <3>1. k + 1 \in Int /\ Len(t) \in Int
      BY <1>1
    <3> QED BY <2>1, <3>1, SubSeqProperties
  <2>3. \A i \in 1 .. Len(t) - k : i \in 1 .. Len(t) - (k + 1) + 1 /\ k + 1 + i - 1 = k + i
    BY <1>1
  <2>4. \A i \in 1 .. Len(t) - k : u[i] = t[k + i]
    BY <2>2, <2>3
  <2>5. (IF k + 1 <= Len(t) THEN Len(t) - (k + 1) + 1 ELSE 0) = Len(t) - k
    <3>1. k \in Nat /\ k <= Len(t)
      BY <1>1
    <3>2. ASSUME NEW n \in Nat, k <= n
          PROVE  (IF k + 1 <= n THEN n - (k + 1) + 1 ELSE 0) = n - k
      BY <3>1, <3>2
    <3> QED BY <1>1, <3>1, <3>2
  <2>6. Len(u) = Len(t) - k
    BY <2>2, <2>5
  <2> QED BY <2>2, <2>4, <2>6
<1>3. DOMAIN u = 1 .. Len(t) - k
  BY <1>2, LenProperties
<1>4. \A i \in DOMAIN u : k + i \in DOMAIN t /\ u[i] = t[k + i] /\ i \in Nat
  <2>1. ASSUME NEW i \in DOMAIN u PROVE k + i \in DOMAIN t /\ i \in Nat /\ i \in 1 .. Len(t) - k
    BY <1>1, <1>3, <2>1
  <2> QED BY <1>2, <2>1
<1>5. \A j \in DOMAIN t : j \in Nat /\ (j > k => j - k \in DOMAIN u)
  BY <1>1, <1>3
<1> QED BY <1>2, <1>4, <1>5

LEMMA SuffixHas ==
  ASSUME NEW S, NEW t \in Seq(S), NEW k \in 0 .. Len(t), NEW u, u = SubSeq(t, k + 1, Len(t)),
         NEW x, Has(u, x)
  PROVE  Has(t, x)
BY SuffixElements DEF Has

LEMMA SuffixOrdered ==
  ASSUME NEW S, NEW t \in Seq(S), NEW k \in 0 .. Len(t), NEW u, u = SubSeq(t, k + 1, Len(t)),
         NEW x, NEW y, Ordered(t, x, y)
  PROVE  Ordered(u, x, y)
<1>1. \A i \in DOMAIN u : k + i \in DOMAIN t /\ u[i] = t[k + i] /\ i \in Nat
  BY SuffixElements
<1>2. k \in Nat
  BY LenProperties
<1>3. ASSUME NEW i \in DOMAIN u, NEW j \in DOMAIN u, u[i] = x, u[j] = y PROVE i < j
  <2>1. k + i < k + j
    BY <1>1, <1>3 DEF Ordered
  <2> QED BY <1>1, <1>2, <2>1
<1> QED BY <1>3 DEF Ordered

LEMMA SuffixFollowed ==
  ASSUME NEW S, NEW t \in Seq(S), NEW k \in 0 .. Len(t), NEW u, u = SubSeq(t, k + 1, Len(t)),
         NEW x, NEW y, Followed(t, x, y)
  PROVE  Followed(u, x, y)
<1>1. /\ \A i \in DOMAIN u : k + i \in DOMAIN t /\ u[i] = t[k + i] /\ i \in Nat
      /\ \A j \in DOMAIN t : j \in Nat /\ (j > k => j - k \in DOMAIN u)
  BY SuffixElements
<1>2. k \in Nat
  BY LenProperties
<1>3. ASSUME NEW i \in DOMAIN u, u[i] = x PROVE \E j \in DOMAIN u : i < j /\ u[j] = y
  <2>1. PICK j \in DOMAIN t : k + i < j /\ t[j] = y
    BY <1>1, <1>3 DEF Followed
  <2>2. j - k \in DOMAIN u /\ i < j - k /\ k + (j - k) = j
    BY <1>1, <1>2, <2>1
  <2> QED BY <1>1, <2>1, <2>2
<1> QED BY <1>3 DEF Followed

LEMMA TailFacts ==
  ASSUME NEW S, NEW t \in Seq(S), t # << >>
  PROVE  /\ t[1] \in S /\ Tail(t) \in Seq(S)
         /\ \A x : Has(Tail(t), x) => Has(t, x)
         /\ \A x : Has(t, x) /\ t[1] # x => Has(Tail(t), x)
         /\ \A x, y : Ordered(t, x, y) => Ordered(Tail(t), x, y)
         /\ \A x, y : Ordered(t, x, y) /\ t[1] = y => ~ Has(t, x)
         /\ \A x, y : Followed(t, x, y) => Followed(Tail(t), x, y)
         /\ \A x, y : Followed(t, x, y) /\ t[1] = x => Has(Tail(t), y)
<1>1. Len(t) \in Nat \ {0} /\ DOMAIN t = 1 .. Len(t) /\ t[1] \in S
  BY LenProperties, EmptySeq, ElementOfSeq
<1>2. Tail(t) = SubSeq(t, 1 + 1, Len(t)) /\ 1 \in 0 .. Len(t)
  BY <1>1, TailIsSubSeq
<1>3. /\ Tail(t) \in Seq(S) /\ Len(Tail(t)) = Len(t) - 1
      /\ \A i \in 1 .. Len(t) - 1 : Tail(t)[i] = t[i + 1]
  BY HeadTailProperties
<1>4. DOMAIN Tail(t) = 1 .. Len(t) - 1
  BY <1>3, LenProperties
<1>5. \A i \in DOMAIN t : i # 1 => i - 1 \in DOMAIN Tail(t) /\ Tail(t)[i - 1] = t[i]
  <2>1. ASSUME NEW i \in DOMAIN t, i # 1 PROVE i - 1 \in 1 .. Len(t) - 1 /\ (i - 1) + 1 = i
    BY <1>1, <2>1
  <2> QED BY <1>3, <1>4, <2>1
<1>6. ASSUME NEW x, Has(t, x), t[1] # x PROVE Has(Tail(t), x)
  BY <1>3, <1>5, <1>6 DEF Has
<1>7. ASSUME NEW x, NEW y, Ordered(t, x, y), t[1] = y PROVE ~ Has(t, x)
  <2>1. \A i \in DOMAIN t : t[i] = x => i < 1
    BY <1>1, <1>7 DEF Ordered
  <2> QED BY <1>1, <2>1 DEF Has
<1>8. ASSUME NEW x, NEW y, Followed(t, x, y), t[1] = x PROVE Has(Tail(t), y)
  <2>1. PICK j \in DOMAIN t : 1 < j /\ t[j] = y
    BY <1>1, <1>8 DEF Followed
  <2>2. j - 1 \in DOMAIN Tail(t) /\ Tail(t)[j - 1] = y
    BY <1>1, <1>5, <2>1
  <2> QED BY <2>2 DEF Has
<1>9. ASSUME NEW x, NEW y PROVE Ordered(t, x, y) => Ordered(Tail(t), x, y)
  BY <1>2, SuffixOrdered
<1>10. ASSUME NEW x, NEW y PROVE Followed(t, x, y) => Followed(Tail(t), x, y)
  BY <1>2, SuffixFollowed
<1>11. ASSUME NEW x PROVE Has(Tail(t), x) => Has(t, x)
  BY <1>2, SuffixHas
<1> QED BY <1>1, <1>3, <1>6, <1>7, <1>8, <1>9, <1>10, <1>11

LEMMA ConcatFacts ==
  ASSUME NEW S, NEW s \in Seq(S), NEW t \in Seq(S)
  PROVE  /\ s \o t \in Seq(S)
         /\ \A x : Has(s \o t, x) <=> Has(s, x) \/ Has(t, x)
         /\ \A x, y : Ordered(s, x, y) /\ Ordered(t, x, y) /\ ~ (Has(s, y) /\ Has(t, x))
                       => Ordered(s \o t, x, y)
         /\ \A x, y : (Followed(s, x, y) \/ Has(t, y)) /\ Followed(t, x, y)
                       => Followed(s \o t, x, y)
<1> DEFINE u == s \o t
           m == Len(s)
<1>1. m \in Nat /\ Len(t) \in Nat /\ DOMAIN s = 1 .. m /\ DOMAIN t = 1 .. Len(t)
  BY LenProperties
<1>2. /\ u \in Seq(S) /\ Len(u) = m + Len(t)
      /\ \A i \in 1 .. m + Len(t) : u[i] = IF i <= m THEN s[i] ELSE t[i - m]
  BY ConcatProperties
<1>3. DOMAIN u = 1 .. m + Len(t)
  BY <1>2, LenProperties
<1> HIDE DEF u, m
<1>4. \A i \in DOMAIN s : i \in Nat /\ i <= m /\ i \in DOMAIN u /\ u[i] = s[i]
  BY <1>1, <1>2, <1>3
<1>5. \A i \in DOMAIN t : m + i \in DOMAIN u /\ u[m + i] = t[i]
  <2>1. ASSUME NEW i \in DOMAIN t PROVE m + i \in DOMAIN u /\ ~ (m + i <= m) /\ (m + i) - m = i
    BY <1>1, <1>3
  <2> QED BY <1>2, <1>3, <2>1
<1>6. \A i \in DOMAIN u : \/ i \in DOMAIN s /\ u[i] = s[i]
                          \/ i \in Nat /\ i > m /\ i - m \in DOMAIN t /\ u[i] = t[i - m]
  BY <1>1, <1>2, <1>3
<1>7. ASSUME NEW x PROVE Has(u, x) <=> Has(s, x) \/ Has(t, x)
  BY <1>2, <1>4, <1>5, <1>6 DEF Has
<1>8. ASSUME NEW x, NEW y, Ordered(s, x, y), Ordered(t, x, y), ~ (Has(s, y) /\ Has(t, x))
      PROVE  Ordered(u, x, y)
  <2> SUFFICES ASSUME NEW i \in DOMAIN u, NEW j \in DOMAIN u, u[i] = x, u[j] = y PROVE i < j
    BY DEF Ordered
  <2>1. CASE i \in DOMAIN s /\ u[i] = s[i] /\ j \in DOMAIN s /\ u[j] = s[j]
    BY <1>8, <2>1 DEF Ordered
  <2>2. CASE i \in DOMAIN s /\ j > m /\ j \in Nat
    BY <1>1, <1>4, <2>2
  <2>3. CASE j \in DOMAIN s /\ u[j] = s[j] /\ i - m \in DOMAIN t /\ u[i] = t[i - m]
    BY <1>8, <2>3 DEF Has
  <2>4. CASE /\ i \in Nat /\ i - m \in DOMAIN t /\ u[i] = t[i - m]
             /\ j \in Nat /\ j - m \in DOMAIN t /\ u[j] = t[j - m]
    <3>1. i - m < j - m
      BY <1>8, <2>4 DEF Ordered
    <3> QED BY <1>1, <2>4, <3>1
  <2> QED BY <1>6, <2>1, <2>2, <2>3, <2>4
<1>9. ASSUME NEW x, NEW y, Followed(s, x, y) \/ Has(t, y), Followed(t, x, y)
      PROVE  Followed(u, x, y)
  <2> SUFFICES ASSUME NEW i \in DOMAIN u, u[i] = x PROVE \E j \in DOMAIN u : i < j /\ u[j] = y
    BY DEF Followed
  <2>1. CASE i \in DOMAIN s /\ u[i] = s[i] /\ Followed(s, x, y)
    BY <1>4, <2>1 DEF Followed
  <2>2. CASE i \in DOMAIN s /\ Has(t, y)
    <3>1. PICK j \in DOMAIN t : t[j] = y
      BY <2>2 DEF Has
    <3>2. m + j \in DOMAIN u /\ u[m + j] = y /\ i < m + j
      BY <1>1, <1>4, <1>5, <2>2, <3>1
    <3> QED BY <3>2
  <2>3. CASE i \in Nat /\ i > m /\ i - m \in DOMAIN t /\ u[i] = t[i - m]
    <3>1. PICK j \in DOMAIN t : i - m < j /\ t[j] = y
      BY <1>9, <2>3 DEF Followed
    <3>2. m + j \in DOMAIN u /\ u[m + j] = y /\ i < m + j
      BY <1>1, <1>5, <2>3, <3>1
    <3> QED BY <3>2
  <2> QED BY <1>6, <1>9, <2>1, <2>2, <2>3
<1> QED BY <1>2, <1>7, <1>8, <1>9 DEF u


LEMMA ShortSequences ==
  /\ \A S, a, b, c : a \in S /\ b \in S /\ c \in S =>
       << >> \in Seq(S) /\ <<a>> \in Seq(S) /\ <<a, b>> \in Seq(S) /\ <<a, b, c>> \in Seq(S)
  /\ \A x, y : ~ Has(<< >>, x) /\ Ordered(<< >>, x, y) /\ Followed(<< >>, x, y)
  /\ \A a, x, y : /\ Has(<<a>>, x) <=> x = a
                  /\ x # y => Ordered(<<a>>, x, y)
                  /\ x # a => Followed(<<a>>, x, y)
<1>1. ASSUME NEW a, NEW x, NEW y
      PROVE  /\ Has(<<a>>, x) <=> x = a
             /\ x # y => Ordered(<<a>>, x, y)
             /\ x # a => Followed(<<a>>, x, y)
  <2>1. DOMAIN <<a>> = {1} /\ <<a>>[1] = a
    OBVIOUS
  <2> QED BY <2>1 DEF Has, Ordered, Followed
<1>2. ASSUME NEW x, NEW y PROVE ~ Has(<< >>, x) /\ Ordered(<< >>, x, y) /\ Followed(<< >>, x, y)
  <2>1. DOMAIN << >> = {}
    OBVIOUS
  <2> QED BY <2>1 DEF Has, Ordered, Followed
<1> QED BY <1>1, <1>2

(* What stands at once behind an element, and what stands once, in a tail  *)
(* and behind a prefix that has nothing of it.                             *)
LEMMA TailAdjacent ==
  ASSUME NEW S, NEW t \in Seq(S), t # << >>, NEW x, NEW y, Adjacent(t, x, y)
  PROVE  /\ Adjacent(Tail(t), x, y)
         /\ t[1] = x => Tail(t) # << >> /\ t[2] = y /\ Tail(t)[1] = y
<1>1. Len(t) \in Nat \ {0} /\ DOMAIN t = 1 .. Len(t)
  BY LenProperties, EmptySeq
<1>2. /\ Tail(t) \in Seq(S) /\ Len(Tail(t)) = Len(t) - 1
      /\ \A i \in 1 .. Len(t) - 1 : Tail(t)[i] = t[i + 1]
  BY HeadTailProperties
<1>3. DOMAIN Tail(t) = 1 .. Len(t) - 1
  BY <1>2, LenProperties
<1>4. ASSUME NEW i \in DOMAIN Tail(t), Tail(t)[i] = x
      PROVE  i + 1 \in DOMAIN Tail(t) /\ Tail(t)[i + 1] = y
  <2>1. i \in Nat /\ i + 1 \in DOMAIN t /\ t[i + 1] = x
    BY <1>1, <1>2, <1>3, <1>4
  <2>2. i + 1 + 1 \in DOMAIN t /\ t[i + 1 + 1] = y
    BY <2>1 DEF Adjacent
  <2>3. i + 1 \in 1 .. Len(t) - 1
    BY <1>1, <2>1, <2>2
  <2> QED BY <1>2, <1>3, <2>2, <2>3
<1>5. ASSUME t[1] = x PROVE Tail(t) # << >> /\ t[2] = y /\ Tail(t)[1] = y
  <2>1. 1 + 1 \in DOMAIN t /\ t[1 + 1] = y
    BY <1>1, <1>5 DEF Adjacent
  <2>2. 1 \in 1 .. Len(t) - 1
    BY <1>1, <2>1
  <2>3. Tail(t)[1] = t[1 + 1] /\ Len(Tail(t)) # 0
    BY <1>1, <1>2, <2>2
  <2>4. Tail(t) # << >>
    BY <2>3, EmptySeq
  <2> QED BY <2>1, <2>3, <2>4
<1> QED BY <1>4, <1>5 DEF Adjacent

LEMMA TailOnce ==
  ASSUME NEW S, NEW t \in Seq(S), t # << >>, NEW x, Once(t, x)
  PROVE  /\ Once(Tail(t), x)
         /\ t[1] = x => ~ Has(Tail(t), x)
<1>1. Len(t) \in Nat \ {0} /\ DOMAIN t = 1 .. Len(t)
  BY LenProperties, EmptySeq
<1>2. /\ Tail(t) \in Seq(S) /\ Len(Tail(t)) = Len(t) - 1
      /\ \A i \in 1 .. Len(t) - 1 : Tail(t)[i] = t[i + 1]
  BY HeadTailProperties
<1>3. DOMAIN Tail(t) = 1 .. Len(t) - 1
  BY <1>2, LenProperties
<1>4. \A i \in DOMAIN Tail(t) : i \in Nat /\ i # 0 /\ i + 1 \in DOMAIN t /\ t[i + 1] = Tail(t)[i]
  BY <1>1, <1>2, <1>3
<1>5. ASSUME NEW i \in DOMAIN Tail(t), NEW j \in DOMAIN Tail(t), Tail(t)[i] = x, Tail(t)[j] = x
      PROVE  i = j
  <2>1. i + 1 = j + 1
    BY <1>4, <1>5 DEF Once
  <2> QED BY <1>4, <2>1
<1>6. ASSUME t[1] = x, NEW i \in DOMAIN Tail(t), Tail(t)[i] = x PROVE FALSE
  <2>1. i + 1 = 1
    BY <1>1, <1>4, <1>6 DEF Once
  <2> QED BY <1>4, <2>1
<1> QED BY <1>5, <1>6 DEF Once, Has

LEMMA PrefixFacts ==
  ASSUME NEW S, NEW s \in Seq(S), NEW t \in Seq(S), NEW x, ~ Has(s, x)
  PROVE  /\ \A y : Ordered(t, x, y) /\ ~ Has(s, y) => Ordered(s \o t, x, y)
         /\ \A y : Followed(t, x, y) => Followed(s \o t, x, y)
         /\ \A y : Adjacent(t, x, y) => Adjacent(s \o t, x, y)
         /\ Once(t, x) => Once(s \o t, x)
<1> DEFINE u == s \o t
           m == Len(s)
<1>1. m \in Nat /\ Len(t) \in Nat /\ DOMAIN s = 1 .. m /\ DOMAIN t = 1 .. Len(t)
  BY LenProperties
<1>2. /\ u \in Seq(S) /\ Len(u) = m + Len(t)
      /\ \A i \in 1 .. m + Len(t) : u[i] = IF i <= m THEN s[i] ELSE t[i - m]
  BY ConcatProperties
<1>3. DOMAIN u = 1 .. m + Len(t)
  BY <1>2, LenProperties
<1> HIDE DEF u, m
<1>4. ASSUME NEW i \in DOMAIN u, u[i] = x
      PROVE  i \in Nat /\ i > m /\ i - m \in DOMAIN t /\ t[i - m] = x
  <2>1. CASE i <= m
    <3>1. i \in DOMAIN s /\ s[i] = x
      BY <1>1, <1>2, <1>3, <1>4, <2>1
    <3> QED BY <3>1 DEF Has
  <2>2. CASE i > m
    BY <1>1, <1>2, <1>3, <1>4, <2>2
  <2> QED BY <1>1, <1>3, <2>1, <2>2
<1>5. ASSUME NEW y, Adjacent(t, x, y) PROVE Adjacent(u, x, y)
  <2> SUFFICES ASSUME NEW i \in DOMAIN u, u[i] = x PROVE i + 1 \in DOMAIN u /\ u[i + 1] = y
    BY DEF Adjacent
  <2>1. i \in Nat /\ i > m /\ i - m + 1 \in DOMAIN t /\ t[i - m + 1] = y
    BY <1>4, <1>5 DEF Adjacent
  <2>2. i + 1 \in DOMAIN u /\ ~ (i + 1 <= m) /\ (i + 1) - m = i - m + 1
    BY <1>1, <1>3, <2>1
  <2> QED BY <1>2, <1>3, <2>1, <2>2
<1>6. ASSUME Once(t, x) PROVE Once(u, x)
  <2> SUFFICES ASSUME NEW i \in DOMAIN u, NEW j \in DOMAIN u, u[i] = x, u[j] = x PROVE i = j
    BY DEF Once
  <2>1. i - m = j - m /\ i \in Nat /\ j \in Nat
    BY <1>4, <1>6 DEF Once
  <2> QED BY <1>1, <2>1
<1>7. \A y : Ordered(s, x, y) /\ Followed(s, x, y)
  BY DEF Has, Ordered, Followed
<1>8. \A y : Ordered(t, x, y) /\ ~ Has(s, y) => Ordered(u, x, y)
  BY <1>7, ConcatFacts DEF u
<1>9. \A y : Followed(t, x, y) => Followed(u, x, y)
  BY <1>7, ConcatFacts DEF u
<1> QED BY <1>5, <1>6, <1>8, <1>9 DEF u


(* The elements of s that are in Q, in their order: where they stand in s. *)
Picks(t, s, Q) ==
  \E g \in [DOMAIN t -> DOMAIN s] :
    /\ \A i \in DOMAIN t : t[i] = s[g[i]] /\ t[i] \in Q
    /\ \A i, k \in DOMAIN t : i < k => g[i] < g[k]
    /\ \A x \in DOMAIN s : s[x] \in Q => \E i \in DOMAIN t : g[i] = x

LEMMA AmongPicks ==
  ASSUME NEW S, NEW s \in Seq(S), NEW Q
  PROVE  Picks(Among(s, Q), s, Q)
<1> DEFINE u == UpTo(s, Q)
           Places(n) ==
             \E g \in [1 .. Len(u[n]) -> 1 .. n] :
               /\ \A i \in 1 .. Len(u[n]) : u[n][i] = s[g[i]] /\ u[n][i] \in Q
               /\ \A i, k \in 1 .. Len(u[n]) : i < k => g[i] < g[k]
               /\ \A x \in 1 .. n : s[x] \in Q => \E i \in 1 .. Len(u[n]) : g[i] = x
           P == {n \in Nat : n <= Len(s) => u[n] \in Seq(S) /\ Places(n)}
<1>1. \A n \in Nat : u[n] = Pass(s, Q, u, n)
  <2>1. u = [n \in Nat |-> Pass(s, Q, u, n)]
    BY UpToRecursion
  <2> HIDE DEF u
  <2> QED BY <2>1
<1> HIDE DEF u
<1>2. 0 \in P
  <2>1. u[0] = <<>> /\ Len(u[0]) = 0 /\ u[0] \in Seq(S)
    BY <1>1, EmptySeq DEF Pass
  <2>2. Places(0)
    <3> DEFINE g == [i \in 1 .. 0 |-> i]
    <3>1. g \in [1 .. Len(u[0]) -> 1 .. 0] /\ 1 .. Len(u[0]) = {} /\ 1 .. 0 = {}
      BY <2>1
    <3> HIDE DEF g
    <3> QED BY <3>1
  <2> QED BY <2>1, <2>2
<1>3. ASSUME NEW n \in P PROVE n + 1 \in P
  <2>1. n \in Nat /\ Len(s) \in Nat
    BY LenProperties
  <2> HIDE DEF Places
  <2>2. SUFFICES ASSUME n + 1 <= Len(s) PROVE u[n + 1] \in Seq(S) /\ Places(n + 1)
    BY <2>1
  <2>3. u[n] \in Seq(S) /\ Places(n)
    BY <2>1, <2>2
  <2> USE DEF Places
  <2>4. s[n + 1] \in S
    BY <2>1, <2>2, ElementOfSeq
  <2>5. u[n + 1] = IF s[n + 1] \in Q THEN Append(u[n], s[n + 1]) ELSE u[n]
    <3>1. n + 1 \in Nat /\ n + 1 # 0 /\ (n + 1) - 1 = n
      BY <2>1
    <3>2. u[n + 1] = Pass(s, Q, u, n + 1)
      BY <1>1, <3>1
    <3> QED BY <3>1, <3>2 DEF Pass
  <2> DEFINE l == Len(u[n])
  <2>6. PICK g \in [1 .. l -> 1 .. n] :
          /\ \A i \in 1 .. l : u[n][i] = s[g[i]] /\ u[n][i] \in Q
          /\ \A i, k \in 1 .. l : i < k => g[i] < g[k]
          /\ \A x \in 1 .. n : s[x] \in Q => \E i \in 1 .. l : g[i] = x
    BY <2>3
  <2>7. l \in Nat
    BY <2>3, LenProperties
  <2>8. CASE s[n + 1] \in Q
    <3>1. /\ u[n + 1] \in Seq(S) /\ Len(u[n + 1]) = l + 1
          /\ \A i \in 1 .. l : u[n + 1][i] = u[n][i]
          /\ u[n + 1][l + 1] = s[n + 1]
      BY <2>3, <2>4, <2>5, <2>8, AppendProperties
    <3> DEFINE h == [i \in 1 .. l + 1 |-> IF i = l + 1 THEN n + 1 ELSE g[i]]
    <3> HIDE DEF P, l
    <3>2. ASSUME NEW i \in 1 .. l + 1, i # l + 1
          PROVE  i \in 1 .. l /\ h[i] = g[i] /\ g[i] \in 1 .. n
      BY <2>7, <3>2
    <3>3. h[l + 1] = n + 1 /\ l + 1 \in 1 .. l + 1
      BY <2>7
    <3>4. h \in [1 .. l + 1 -> 1 .. n + 1]
      BY <2>1, <3>2, <3>3
    <3>5. \A i \in 1 .. l : i \in 1 .. l + 1 /\ i # l + 1
      BY <2>7
    <3> HIDE DEF h
    <3>6. \A i \in 1 .. l + 1 : u[n + 1][i] = s[h[i]] /\ u[n + 1][i] \in Q
      BY <2>6, <2>8, <3>1, <3>2, <3>3
    <3>7. ASSUME NEW i \in 1 .. l + 1, NEW k \in 1 .. l + 1, i < k PROVE h[i] < h[k]
      <4>1. i # l + 1
        BY <2>7, <3>7
      <4>2. CASE k = l + 1
        BY <2>1, <3>2, <3>3, <4>1, <4>2
      <4>3. CASE k # l + 1
        BY <2>6, <3>2, <3>7, <4>1, <4>3
      <4> QED BY <4>2, <4>3
    <3>8. ASSUME NEW x \in 1 .. n + 1, s[x] \in Q PROVE \E i \in 1 .. l + 1 : h[i] = x
      <4>1. CASE x = n + 1
        BY <3>3, <4>1
      <4>2. CASE x # n + 1
        <5>1. x \in 1 .. n
          BY <2>1, <4>2
        <5>2. PICK i \in 1 .. l : g[i] = x
          BY <2>6, <3>8, <5>1
        <5> QED BY <3>2, <3>5, <5>2
      <4> QED BY <4>1, <4>2
    <3>9. Len(u[n + 1]) = l + 1
      BY <3>1
    <3>10. Places(n + 1)
      BY <3>4, <3>6, <3>7, <3>8, <3>9
    <3> QED BY <3>1, <3>10
  <2>9. CASE s[n + 1] \notin Q
    <3> HIDE DEF P
    <3>1. u[n + 1] = u[n]
      BY <2>5, <2>9
    <3>2. g \in [1 .. l -> 1 .. n + 1]
      BY <2>1
    <3>3. \A x \in 1 .. n + 1 : s[x] \in Q => x \in 1 .. n
      BY <2>1, <2>9
    <3>4. Places(n + 1)
      BY <2>6, <3>1, <3>2, <3>3
    <3> QED BY <2>3, <3>1, <3>4
  <2> QED BY <2>8, <2>9
<1>4. P = Nat
  <2>1. P \in SUBSET Nat
    OBVIOUS
  <2> HIDE DEF P
  <2> QED BY <1>2, <1>3, <2>1, NatInductionSet
<1>5. Len(s) \in Nat /\ DOMAIN s = 1 .. Len(s)
  BY LenProperties
<1>6. u[Len(s)] \in Seq(S) /\ Places(Len(s))
  BY <1>4, <1>5
<1>7. Among(s, Q) = u[Len(s)]
  BY AmongIsUpTo DEF u
<1>8. DOMAIN Among(s, Q) = 1 .. Len(u[Len(s)])
  BY <1>6, <1>7, LenProperties
<1> DEFINE t == Among(s, Q)
<1>9. PICK g \in [DOMAIN t -> DOMAIN s] :
        /\ \A i \in DOMAIN t : t[i] = s[g[i]] /\ t[i] \in Q
        /\ \A i, k \in DOMAIN t : i < k => g[i] < g[k]
        /\ \A x \in DOMAIN s : s[x] \in Q => \E i \in DOMAIN t : g[i] = x
  <2> HIDE DEF P
  <2>1. u[Len(s)] = t /\ 1 .. Len(u[Len(s)]) = DOMAIN t /\ 1 .. Len(s) = DOMAIN s
    BY <1>5, <1>7, <1>8
  <2> DEFINE w == u[Len(s)]
  <2>2. PICK g \in [1 .. Len(w) -> 1 .. Len(s)] :
          /\ \A i \in 1 .. Len(w) : w[i] = s[g[i]] /\ w[i] \in Q
          /\ \A i, k \in 1 .. Len(w) : i < k => g[i] < g[k]
          /\ \A x \in 1 .. Len(s) : s[x] \in Q => \E i \in 1 .. Len(w) : g[i] = x
    BY <1>6
  <2>3. w = t /\ 1 .. Len(w) = DOMAIN t
    BY <2>1
  <2> HIDE DEF t, u, w
  <2>4. g \in [DOMAIN t -> DOMAIN s]
    BY <2>1, <2>2, <2>3
  <2>5. \A i \in DOMAIN t : t[i] = s[g[i]] /\ t[i] \in Q
    BY <2>2, <2>3
  <2>6. \A i, k \in DOMAIN t : i < k => g[i] < g[k]
    BY <2>2, <2>3
  <2>7. \A x \in DOMAIN s : s[x] \in Q => \E i \in DOMAIN t : g[i] = x
    BY <2>1, <2>2, <2>3
  <2> QED BY <2>4, <2>5, <2>6, <2>7
<1> QED BY <1>9 DEF Picks

LEMMA PicksTwice ==
  ASSUME NEW s, NEW t, NEW u, NEW Q, NEW R, Picks(t, s, Q), Picks(u, t, R)
  PROVE  Picks(u, s, Q \cap R)
<1>1. PICK g \in [DOMAIN t -> DOMAIN s] :
        /\ \A i \in DOMAIN t : t[i] = s[g[i]] /\ t[i] \in Q
        /\ \A i, k \in DOMAIN t : i < k => g[i] < g[k]
        /\ \A x \in DOMAIN s : s[x] \in Q => \E i \in DOMAIN t : g[i] = x
  BY DEF Picks
<1>2. PICK h \in [DOMAIN u -> DOMAIN t] :
        /\ \A i \in DOMAIN u : u[i] = t[h[i]] /\ u[i] \in R
        /\ \A i, k \in DOMAIN u : i < k => h[i] < h[k]
        /\ \A x \in DOMAIN t : t[x] \in R => \E i \in DOMAIN u : h[i] = x
  BY DEF Picks
<1> DEFINE f == [i \in DOMAIN u |-> g[h[i]]]
<1>3. f \in [DOMAIN u -> DOMAIN s] /\ \A i \in DOMAIN u : f[i] = g[h[i]]
  OBVIOUS
<1> HIDE DEF f
<1>4. \A i \in DOMAIN u : u[i] = s[f[i]] /\ u[i] \in Q \cap R
  BY <1>1, <1>2, <1>3
<1>5. \A i, k \in DOMAIN u : i < k => f[i] < f[k]
  BY <1>1, <1>2, <1>3
<1>6. ASSUME NEW x \in DOMAIN s, s[x] \in Q \cap R PROVE \E i \in DOMAIN u : f[i] = x
  <2>1. PICK k \in DOMAIN t : g[k] = x
    BY <1>1, <1>6
  <2>2. PICK i \in DOMAIN u : h[i] = k
    BY <1>1, <1>2, <1>6, <2>1
  <2> QED BY <1>3, <2>1, <2>2
<1> QED BY <1>3, <1>4, <1>5, <1>6 DEF Picks

(* The first of the elements picked, and two of them. *)
LEMMA PicksFirst ==
  ASSUME NEW S, NEW T, NEW s \in Seq(S), NEW t \in Seq(T), NEW Q, Picks(t, s, Q)
  PROVE  /\ t = <<>> <=> \A x \in DOMAIN s : s[x] \notin Q
         /\ t # <<>> => \E x \in DOMAIN s : /\ s[x] = t[1] /\ s[x] \in Q
                                            /\ \A y \in DOMAIN s : s[y] \in Q => x <= y
         /\ Len(t) > 1 => \E x, y \in DOMAIN s : x < y /\ s[x] \in Q /\ s[y] \in Q
<1>1. PICK g \in [DOMAIN t -> DOMAIN s] :
        /\ \A i \in DOMAIN t : t[i] = s[g[i]] /\ t[i] \in Q
        /\ \A i, k \in DOMAIN t : i < k => g[i] < g[k]
        /\ \A x \in DOMAIN s : s[x] \in Q => \E i \in DOMAIN t : g[i] = x
  BY DEF Picks
<1>2. /\ Len(t) \in Nat /\ DOMAIN t = 1 .. Len(t) /\ (t = <<>> <=> Len(t) = 0)
      /\ Len(s) \in Nat /\ DOMAIN s = 1 .. Len(s)
  BY LenProperties, EmptySeq
<1>3. t = <<>> <=> \A x \in DOMAIN s : s[x] \notin Q
  <2>1. ASSUME t = <<>>, NEW x \in DOMAIN s, s[x] \in Q PROVE FALSE
    BY <1>1, <1>2, <2>1
  <2>2. ASSUME t # <<>> PROVE \E x \in DOMAIN s : s[x] \in Q
    <3>1. 1 \in DOMAIN t
      BY <1>2, <2>2
    <3> QED BY <1>1, <3>1
  <2> QED BY <2>1, <2>2
<1>4. ASSUME t # <<>>
      PROVE  \E x \in DOMAIN s : /\ s[x] = t[1] /\ s[x] \in Q
                                 /\ \A y \in DOMAIN s : s[y] \in Q => x <= y
  <2>1. 1 \in DOMAIN t /\ g[1] \in DOMAIN s /\ s[g[1]] = t[1] /\ t[1] \in Q
    BY <1>1, <1>2, <1>4
  <2>2. ASSUME NEW y \in DOMAIN s, s[y] \in Q PROVE g[1] <= y
    <3>1. PICK i \in DOMAIN t : g[i] = y
      BY <1>1, <2>2
    <3>2. i = 1 \/ 1 < i
      BY <1>2
    <3> QED BY <1>1, <1>2, <2>1, <3>1, <3>2
  <2> QED BY <2>1, <2>2
<1>5. ASSUME Len(t) > 1 PROVE \E x, y \in DOMAIN s : x < y /\ s[x] \in Q /\ s[y] \in Q
  <2>1. 1 \in DOMAIN t /\ 2 \in DOMAIN t /\ 1 < 2
    BY <1>2, <1>5
  <2>2. g[1] < g[2] /\ s[g[1]] \in Q /\ s[g[2]] \in Q
    BY <1>1, <2>1
  <2> QED BY <2>1, <2>2
<1> QED BY <1>3, <1>4, <1>5

(* Only what is in the sequence matters of the set. *)
LEMMA AmongSame ==
  ASSUME NEW S, NEW s \in Seq(S), NEW Q, NEW R, Range(s) \cap Q = Range(s) \cap R
  PROVE  Among(s, Q) = Among(s, R)
<1> DEFINE u == UpTo(s, Q)
           v == UpTo(s, R)
           P == {n \in Nat : n <= Len(s) => u[n] = v[n]}
<1>1. \A n \in Nat : u[n] = Pass(s, Q, u, n) /\ v[n] = Pass(s, R, v, n)
  <2>1. u = [n \in Nat |-> Pass(s, Q, u, n)] /\ v = [n \in Nat |-> Pass(s, R, v, n)]
    BY UpToRecursion
  <2> HIDE DEF u, v
  <2> QED BY <2>1
<1> HIDE DEF u, v
<1>2. 0 \in P
  BY <1>1 DEF Pass
<1>3. ASSUME NEW n \in P PROVE n + 1 \in P
  <2>1. SUFFICES ASSUME n + 1 <= Len(s) PROVE u[n + 1] = v[n + 1]
    OBVIOUS
  <2>2. n \in Nat /\ Len(s) \in Nat /\ DOMAIN s = 1 .. Len(s)
    BY LenProperties
  <2>3. u[n] = v[n] /\ n + 1 \in DOMAIN s
    BY <2>1, <2>2
  <2>4. s[n + 1] \in Range(s)
    BY <2>3 DEF Range
  <2>5. s[n + 1] \in Q <=> s[n + 1] \in R
    BY <2>4
  <2>6. u[n + 1] = Pass(s, Q, u, n + 1) /\ v[n + 1] = Pass(s, R, v, n + 1) /\ (n + 1) - 1 = n /\ n + 1 # 0
    BY <1>1, <2>2
  <2> QED BY <2>3, <2>5, <2>6 DEF Pass
<1>4. P = Nat
  <2>1. P \in SUBSET Nat
    OBVIOUS
  <2> HIDE DEF P
  <2> QED BY <1>2, <1>3, <2>1, NatInductionSet
<1>5. Len(s) \in P
  BY <1>4, LenProperties
<1> QED BY <1>5, AmongIsUpTo, LenProperties DEF u, v
=============================================================================
