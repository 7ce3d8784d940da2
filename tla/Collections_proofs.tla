------------------------- MODULE Collections_proofs -------------------------
(***************************************************************************)
(* Facts about numbers, finite sets, sequences and sums that the proofs of *)
(* several modules need.  Recursive functions are reasoned about by        *)
(* induction for a property given as a set.                                *)
(***************************************************************************)
EXTENDS Integers, Sequences, FiniteSets, SequencesExt, FiniteSetsExt,
        FiniteSetTheorems, WellFoundedInduction, SequenceTheorems, TLAPS

-----------------------------------------------------------------------------
(* Numbers *)

\* A nonempty set of naturals has a least element.
LEMMA LeastNat ==
    ASSUME NEW T \in SUBSET Nat, T # {}
    PROVE  \E x \in T : \A y \in T : x <= y
<1>1. PICK x \in T : \A y \in T : ~(<<y, x>> \in OpToRel(<, Nat))
  BY NatLessThanWellFounded, WFMin
<1>2. ASSUME NEW y \in T PROVE x <= y
  <2>1. ~(<<y, x>> \in OpToRel(<, Nat))
    BY <1>1
  <2>2. ~(y < x)
    BY <2>1 DEF OpToRel
  <2> QED BY <2>2
<1> QED BY <1>2

\* Induction, for a property given as a set
LEMMA NatInd ==
    ASSUME NEW P, 0 \in P, \A n \in Nat : n \in P => n + 1 \in P
    PROVE  \A n \in Nat : n \in P
<1> SUFFICES ASSUME NEW m \in Nat, m \notin P PROVE FALSE
  OBVIOUS
<1> DEFINE T == {n \in Nat : n \notin P}
<1>1. PICK x \in T : \A y \in T : x <= y
  BY LeastNat
<1>2. x # 0
  OBVIOUS
<1>3. x - 1 \in Nat /\ x - 1 \notin T
  BY <1>1, <1>2
<1> QED BY <1>3

\* A bounded set of naturals has the greatest of it.
LEMMA GreatestOf ==
    ASSUME NEW T \in SUBSET Nat, T # {}, NEW n \in Nat, \A x \in T : x <= n
    PROVE  Max(T) \in T /\ \A x \in T : x <= Max(T)
<1> DEFINE D == {n - x : x \in T}
<1>1. \E d \in D : \A y \in D : d <= y
  <2>1. \A x \in T : n - x \in Nat
    OBVIOUS
  <2>2. D \in SUBSET Nat
    BY <2>1
  <2>3. D # {}
    OBVIOUS
  <2> HIDE DEF D
  <2> QED BY <2>2, <2>3, LeastNat
<1>2. PICK m \in T : \A x \in T : x <= m
  <2>1. PICK d \in D : \A y \in D : d <= y
    BY <1>1
  <2>2. PICK m \in T : d = n - m
    BY <2>1
  <2>3. \A x \in T : n - x \in D
    OBVIOUS
  <2>4. \A x \in T : n - m <= n - x
    BY <2>1, <2>2, <2>3
  <2>5. \A x \in T : x <= m
    BY <2>4
  <2> QED BY <2>5
<1> QED BY <1>2 DEF Max

\* A finite nonempty set of integers has a least element.
LEMMA LeastOf ==
    ASSUME NEW S \in SUBSET Int, IsFiniteSet(S), S # {}
    PROVE  Min(S) \in S /\ \A x \in S : Min(S) <= x
<1>1. PICK n \in Nat : ExistsBijection(1..n, S)
  BY FS_NatBijection
<1>2. PICK f : f \in Bijection(1..n, S)
  BY <1>1 DEF ExistsBijection
<1>3. f \in [1..n -> S] /\ \A x \in S : \E k \in 1..n : f[k] = x
  BY <1>2 DEF Bijection, Surjection
<1>4. \A k \in 1..n : f[k] \in Int
  BY <1>3
<1> DEFINE P == {m \in Nat : m <= n => \E b \in Int : \A k \in 1..m : b <= f[k]}
<1>5. 0 \in P
  OBVIOUS
<1>6. ASSUME NEW m \in Nat, m \in P PROVE m + 1 \in P
  <2> SUFFICES ASSUME m + 1 <= n PROVE \E b \in Int : \A k \in 1..(m + 1) : b <= f[k]
    OBVIOUS
  <2>1. PICK b \in Int : \A k \in 1..m : b <= f[k]
    BY <1>6
  <2>2. m + 1 \in 1..n /\ f[m + 1] \in Int
    BY <1>4
  <2>3. \A k \in 1..(m + 1) : k \in 1..m \/ k = m + 1
    OBVIOUS
  <2>4. \A k \in 1..m : k \in 1..n
    OBVIOUS
  <2>5. CASE b <= f[m + 1]
    BY <2>1, <2>3, <2>5
  <2>6. CASE ~(b <= f[m + 1])
    <3>1. \A k \in 1..m : f[m + 1] <= f[k]
      BY <1>4, <2>1, <2>2, <2>4, <2>6
    <3>2. \A k \in 1..(m + 1) : f[m + 1] <= f[k]
      BY <2>2, <2>3, <3>1
    <3> QED BY <2>2, <3>2
  <2> QED BY <2>5, <2>6
<1>7. PICK b \in Int : \A k \in 1..n : b <= f[k]
  <2>1. n \in P
    <3> HIDE DEF P
    <3> QED BY <1>5, <1>6, NatInd
  <2> QED BY <2>1
<1>8. \A x \in S : x \in Int /\ b <= x
  BY <1>3, <1>7
<1> DEFINE T == {x - b : x \in S}
<1>9. PICK t \in T : \A y \in T : t <= y
  <2>1. \A x \in S : x - b \in Nat
    BY <1>8
  <2>2. T \in SUBSET Nat /\ T # {}
    BY <2>1
  <2> HIDE DEF T
  <2> QED BY <2>2, LeastNat
<1>10. PICK m \in S : t = m - b
  OBVIOUS
<1>11. \A x \in S : m <= x
  <2> TAKE x \in S
  <2>1. m - b <= x - b
    BY <1>9, <1>10
  <2> QED BY <1>8, <2>1
<1> QED BY <1>11 DEF Min

\* A function has finitely many values on a finite set.
LEMMA FiniteImage ==
    ASSUME NEW S, IsFiniteSet(S), NEW f
    PROVE  IsFiniteSet({f[x] : x \in S})
<1> DEFINE T == {f[x] : x \in S}
           g == [x \in S |-> f[x]]
<1>1. g \in Surjection(S, T)
  BY DEF Surjection
<1> HIDE DEF g
<1>2. IsFiniteSet(T)
  <2> HIDE DEF T
  <2> QED BY <1>1, FS_Surjection
<1> QED BY <1>2

\* A least element is the minimum.
LEMMA LeastIs ==
    ASSUME NEW S \in SUBSET Int, NEW m \in S, \A x \in S : m <= x
    PROVE  Min(S) = m
<1>1. \E y \in S : \A x \in S : y <= x
  OBVIOUS
<1>2. Min(S) \in S /\ \A x \in S : Min(S) <= x
  BY <1>1 DEF Min
<1>3. Min(S) \in Int /\ m \in Int /\ Min(S) <= m /\ m <= Min(S)
  BY <1>2
<1> QED BY <1>3

-----------------------------------------------------------------------------
(* Listings *)

\* A sequence of all elements of S, each once
Listing(seq, S) ==
    /\ seq \in Seq(S)
    /\ \A i \in S : \E k \in 1..Len(seq) : seq[k] = i
    /\ \A j, k \in 1..Len(seq) : seq[j] = seq[k] => j = k

\* The reverse of a listing lists the same.
LEMMA ReverseLists ==
    ASSUME NEW S, NEW seq, Listing(seq, S)
    PROVE  /\ Listing(Reverse(seq), S) /\ Len(Reverse(seq)) = Len(seq)
           /\ \A k \in 1..Len(seq) : Reverse(seq)[k] = seq[Len(seq) - k + 1]
<1> DEFINE n == Len(seq)
           out == Reverse(seq)
<1>1. seq \in Seq(S) /\ n \in Nat /\ \A k \in 1..n : seq[k] \in S
  BY DEF Listing
<1>2. out = [k \in 1..n |-> seq[(n - k) + 1]]
  BY DEF Reverse
<1>3. \A k \in 1..n : n - k + 1 \in 1..n /\ n - (n - k + 1) + 1 = k
  BY <1>1
<1>4. \A j, k \in 1..n : n - j + 1 = n - k + 1 => j = k
  BY <1>1
<1> HIDE DEF n, out
<1>5. out \in Seq(S) /\ Len(out) = n /\ \A k \in 1..n : out[k] = seq[n - k + 1]
  BY <1>1, <1>2, <1>3
<1>6. ASSUME NEW i \in S PROVE \E k \in 1..n : out[k] = i
  <2>1. PICK m \in 1..n : seq[m] = i
    BY DEF Listing, n
  <2> QED BY <1>3, <1>5, <2>1
<1>7. ASSUME NEW j \in 1..n, NEW k \in 1..n, out[j] = out[k] PROVE j = k
  <2>1. n - j + 1 = n - k + 1
    <3>1. \A l, m \in 1..n : seq[l] = seq[m] => l = m
      BY DEF Listing, n
    <3>2. seq[n - j + 1] = seq[n - k + 1] /\ n - j + 1 \in 1..n /\ n - k + 1 \in 1..n
      BY <1>3, <1>5, <1>7
    <3> QED BY <3>1, <3>2
  <2> QED BY <1>4, <2>1
<1> QED BY <1>5, <1>6, <1>7 DEF Listing, out, n

\* A listing of S has as many elements as S, and they are those of S.
LEMMA ListingIs ==
    ASSUME NEW S, NEW seq, Listing(seq, S)
    PROVE  /\ Len(seq) \in Nat /\ DOMAIN seq = 1..Len(seq)
           /\ \A k \in 1..Len(seq) : seq[k] \in S
           /\ IsFiniteSet(S) /\ Cardinality(S) = Len(seq) /\ ToSet(seq) = S
<1>1. seq \in Seq(S) /\ Len(seq) \in Nat /\ DOMAIN seq = 1..Len(seq)
      /\ \A k \in 1..Len(seq) : seq[k] \in S
  BY DEF Listing
<1>2. seq \in Bijection(1..Len(seq), S)
  <2>1. seq \in [1..Len(seq) -> S]
    BY <1>1
  <2>2. seq \in Injection(1..Len(seq), S)
    BY <2>1 DEF Listing, Injection, IsInjective
  <2>3. seq \in Surjection(1..Len(seq), S)
    BY <2>1 DEF Listing, Surjection
  <2> QED BY <2>2, <2>3 DEF Bijection
<1>3. ExistsBijection(1..Len(seq), S)
  BY <1>2 DEF ExistsBijection
<1>4. IsFiniteSet(S) /\ Cardinality(S) = Len(seq)
  BY <1>1, <1>3, FS_NatBijection, FS_CountingElements
<1>5. ToSet(seq) = S
  BY <1>1 DEF ToSet, Listing
<1> QED BY <1>1, <1>4, <1>5

LEMMA ListingOf ==
    ASSUME NEW S, NEW n \in Nat, NEW seq, seq = [k \in 1..n |-> seq[k]],
           \A k \in 1..n : seq[k] \in S,
           \A x \in S : \E k \in 1..n : seq[k] = x,
           \A j, k \in 1..n : seq[j] = seq[k] => j = k
    PROVE  Listing(seq, S) /\ Len(seq) = n
<1>1. seq \in Seq(S) /\ Len(seq) = n
  OBVIOUS
<1> QED BY <1>1 DEF Listing

LEMMA EmptyLists == Listing(<<>>, {})
BY DEF Listing

\* To apply a function that is one to one lists the images.
LEMMA ImageLists ==
    ASSUME NEW S, NEW seq, Listing(seq, S), NEW g, NEW image,
           image = [k \in DOMAIN seq |-> g[seq[k]]],
           \A x, y \in S : g[x] = g[y] => x = y
    PROVE  Listing(image, {g[x] : x \in S}) /\ Len(image) = Len(seq)
<1> DEFINE n == Len(seq)
           T == {g[x] : x \in S}
<1>1. /\ n \in Nat /\ DOMAIN seq = 1..n /\ \A k \in 1..n : seq[k] \in S
  BY ListingIs
<1>2. image = [k \in 1..n |-> image[k]] /\ \A k \in 1..n : image[k] = g[seq[k]]
  BY <1>1
<1>3. \A k \in 1..n : image[k] \in T
  BY <1>1, <1>2
<1>4. ASSUME NEW y \in T PROVE \E k \in 1..n : image[k] = y
  <2>1. PICK x \in S : y = g[x]
    OBVIOUS
  <2>2. PICK k \in 1..n : seq[k] = x
    BY DEF Listing
  <2> QED BY <1>2, <2>1, <2>2
<1>5. \A j, k \in 1..n : image[j] = image[k] => j = k
  <2>1. \A j, k \in 1..n : seq[j] = seq[k] => j = k
    BY DEF Listing
  <2> QED BY <1>1, <1>2, <2>1
<1> HIDE DEF n, T
<1>6. Listing(image, T) /\ Len(image) = n
  BY <1>1, <1>2, <1>3, <1>4, <1>5, ListingOf
<1> QED BY <1>6 DEF n, T

\* One listing behind another, of other elements
LEMMA ConcatLists ==
    ASSUME NEW S, NEW T, NEW s, NEW t, Listing(s, S), Listing(t, T), S \cap T = {}
    PROVE  Listing(s \o t, S \cup T) /\ Len(s \o t) = Len(s) + Len(t)
<1> DEFINE m == Len(s)
           n == Len(t)
           U == S \cup T
           both == s \o t
<1>1. /\ m \in Nat /\ n \in Nat
      /\ \A k \in 1..m : s[k] \in S
      /\ \A k \in 1..n : t[k] \in T
      /\ s \in Seq(U) /\ t \in Seq(U)
  BY DEF Listing
<1>2. /\ both \in Seq(U) /\ Len(both) = m + n
      /\ \A k \in 1..(m + n) : both[k] = IF k <= m THEN s[k] ELSE t[k - m]
  <2> HIDE DEF U
  <2> QED BY <1>1
<1> HIDE DEF both
<1>3. ASSUME NEW x \in U PROVE \E k \in 1..(m + n) : both[k] = x
  <2>1. CASE x \in S
    <3>1. PICK k \in 1..m : s[k] = x
      BY <2>1 DEF Listing
    <3>2. k \in 1..(m + n) /\ k <= m
      BY <1>1
    <3> QED BY <1>2, <3>1, <3>2
  <2>2. CASE x \in T
    <3>1. PICK k \in 1..n : t[k] = x
      BY <2>2 DEF Listing
    <3>2. m + k \in 1..(m + n) /\ ~(m + k <= m) /\ (m + k) - m = k
      BY <1>1
    <3> QED BY <1>2, <3>1, <3>2
  <2> QED BY <2>1, <2>2
<1>4. ASSUME NEW j \in 1..(m + n), NEW k \in 1..(m + n), both[j] = both[k] PROVE j = k
  <2>1. \A i \in 1..(m + n) : /\ i <= m => i \in 1..m
                              /\ ~(i <= m) => i - m \in 1..n
    BY <1>1
  <2>2. /\ \A a, b \in 1..m : s[a] = s[b] => a = b
        /\ \A a, b \in 1..n : t[a] = t[b] => a = b
    BY DEF Listing
  <2>3. CASE j <= m /\ k <= m
    BY <1>2, <1>4, <2>1, <2>2, <2>3
  <2>4. CASE ~(j <= m) /\ ~(k <= m)
    <3>1. j - m = k - m
      BY <1>2, <1>4, <2>1, <2>2, <2>4
    <3> QED BY <1>1, <3>1
  <2>5. CASE j <= m /\ ~(k <= m)
    <3>1. both[j] \in S /\ both[k] \in T
      BY <1>1, <1>2, <2>1, <2>5
    <3> QED BY <1>4, <3>1
  <2>6. CASE ~(j <= m) /\ k <= m
    <3>1. both[k] \in S /\ both[j] \in T
      BY <1>1, <1>2, <2>1, <2>6
    <3> QED BY <1>4, <3>1
  <2> QED BY <2>3, <2>4, <2>5, <2>6
<1>5. Listing(both, U)
  <2> HIDE DEF U, m, n
  <2> QED BY <1>1, <1>2, <1>3, <1>4 DEF Listing
<1> QED BY <1>2, <1>5 DEF both

\* The first i sequences, one behind the other, for each i
Flattened(seqs, flat) ==
    flat = [i \in 1..Len(seqs) |-> IF i = 1 THEN seqs[i] ELSE flat[i - 1] \o seqs[i]]

LEMMA FlattenIs ==
    ASSUME NEW seqs, Len(seqs) \in Nat, Len(seqs) # 0
    PROVE  \E flat : Flattened(seqs, flat) /\ FlattenSeq(seqs) = flat[Len(seqs)]
<1> DEFINE Upto(m, f) == f = [i \in 1..m |-> IF i = 1 THEN seqs[i] ELSE f[i - 1] \o seqs[i]]
           P == {m \in Nat : \E f : Upto(m, f)}
<1>1. 0 \in P
  <2> DEFINE f == [i \in 1..0 |-> <<>>]
  <2>1. f = [i \in 1..0 |-> IF i = 1 THEN seqs[i] ELSE f[i - 1] \o seqs[i]]
    OBVIOUS
  <2> QED BY <2>1
<1>2. ASSUME NEW m \in Nat, m \in P PROVE m + 1 \in P
  <2>1. PICK f : Upto(m, f)
    BY <1>2
  <2> DEFINE last == IF m = 0 THEN seqs[m + 1] ELSE f[m] \o seqs[m + 1]
             g == [i \in 1..(m + 1) |-> IF i = m + 1 THEN last ELSE f[i]]
  <2>2. g[m + 1] = last /\ \A i \in 1..m : g[i] = f[i]
    <3> HIDE DEF last
    <3> QED OBVIOUS
  <2>3. \A i \in 1..(m + 1) : g[i] = IF i = 1 THEN seqs[i] ELSE g[i - 1] \o seqs[i]
    <3> TAKE i \in 1..(m + 1)
    <3>1. CASE i = m + 1
      <4>1. CASE m = 0
        BY <2>2, <3>1, <4>1
      <4>2. CASE m # 0
        <5>1. m \in 1..m /\ i - 1 = m /\ i # 1
          BY <3>1, <4>2
        <5> QED BY <2>2, <3>1, <4>2, <5>1
      <4> QED BY <4>1, <4>2
    <3>2. CASE i \in 1..m
      <4>1. i # 1 => i - 1 \in 1..m
        BY <3>2
      <4>2. f[i] = IF i = 1 THEN seqs[i] ELSE f[i - 1] \o seqs[i]
        BY <2>1, <3>2
      <4>3. g[i] = f[i] /\ (i # 1 => g[i - 1] = f[i - 1])
        BY <2>2, <3>2, <4>1
      <4> HIDE DEF g
      <4> QED BY <4>2, <4>3
    <3> QED BY <3>1, <3>2
  <2>4. g = [i \in 1..(m + 1) |-> IF i = 1 THEN seqs[i] ELSE g[i - 1] \o seqs[i]]
    BY <2>3
  <2>5. \E h : Upto(m + 1, h)
    <3> HIDE DEF g
    <3> QED BY <2>4
  <2>6. m + 1 \in Nat
    OBVIOUS
  <2> HIDE DEF g, last, Upto
  <2> QED BY <2>5, <2>6
<1>3. Len(seqs) \in P
  <2> HIDE DEF P
  <2> QED BY <1>1, <1>2, NatInd
<1>4. \E f : Flattened(seqs, f)
  BY <1>3 DEF Flattened
<1> DEFINE it == CHOOSE f : Flattened(seqs, f)
<1>5. Flattened(seqs, it)
  BY <1>4
<1>6. FlattenSeq(seqs) = it[Len(seqs)]
  BY DEF FlattenSeq, Flattened
<1> QED BY <1>5, <1>6

\* Listings of sets that are apart, one behind the other
LEMMA FlattenLists ==
    ASSUME NEW n \in Nat, NEW seqs, seqs = [i \in 1..n |-> seqs[i]],
           NEW F, \A i \in 1..n : Listing(seqs[i], F[i]),
           \A i, j \in 1..n : i # j => F[i] \cap F[j] = {}
    PROVE  Listing(FlattenSeq(seqs), UNION {F[i] : i \in 1..n})
<1>1. Len(seqs) = n
  OBVIOUS
<1>2. CASE n = 0
  <2>1. FlattenSeq(seqs) = seqs
    BY <1>1, <1>2 DEF FlattenSeq
  <2>2. seqs = <<>> /\ UNION {F[i] : i \in 1..n} = {}
    BY <1>2
  <2> QED BY <2>1, <2>2, EmptyLists
<1>3. CASE n # 0
  <2>1. PICK flat : Flattened(seqs, flat) /\ FlattenSeq(seqs) = flat[n]
    BY <1>1, <1>3, FlattenIs
  <2> DEFINE All(m) == UNION {F[i] : i \in 1..m}
             P == {m \in Nat : m \in 1..n => Listing(flat[m], All(m))}
  <2>2. 0 \in P
    OBVIOUS
  <2>3. ASSUME NEW m \in Nat, m \in P, m + 1 \in 1..n PROVE Listing(flat[m + 1], All(m + 1))
    <3>1. \A i \in 1..n : flat[i] = IF i = 1 THEN seqs[i] ELSE flat[i - 1] \o seqs[i]
      BY <1>1, <2>1 DEF Flattened
    <3>2. Listing(seqs[m + 1], F[m + 1])
      BY <2>3
    <3>3. CASE m = 0
      <4>1. All(m + 1) = F[m + 1]
        <5>1. 1..(m + 1) = {m + 1}
          BY <3>3
        <5> QED BY <5>1
      <4>2. flat[m + 1] = seqs[m + 1]
        BY <2>3, <3>1, <3>3
      <4> HIDE DEF All
      <4> QED BY <3>2, <4>1, <4>2
    <3>4. CASE m # 0
      <4>1. m \in 1..n /\ (m + 1) - 1 = m /\ m + 1 # 1
        BY <2>3, <3>4
      <4>2. flat[m + 1] = flat[m] \o seqs[m + 1]
        BY <2>3, <3>1, <4>1
      <4>3. Listing(flat[m], All(m))
        BY <2>3, <4>1
      <4>4. \A i \in 1..m : i \in 1..n /\ i # m + 1
        BY <2>3
      <4>5. All(m) \cap F[m + 1] = {}
        BY <2>3, <4>4
      <4>6. 1..(m + 1) = (1..m) \cup {m + 1}
        OBVIOUS
      <4>7. All(m + 1) = All(m) \cup F[m + 1]
        BY <4>6
      <4> HIDE DEF All
      <4>8. Listing(flat[m] \o seqs[m + 1], All(m) \cup F[m + 1])
        BY <3>2, <4>3, <4>5, ConcatLists
      <4> QED BY <4>2, <4>7, <4>8
    <3> QED BY <3>3, <3>4
  <2>4. n \in P
    <3>1. \A m \in Nat : m \in P => m + 1 \in P
      <4> HIDE DEF All
      <4> QED BY <2>3
    <3> HIDE DEF P
    <3> QED BY <2>2, <3>1, NatInd
  <2>5. Listing(flat[n], All(n))
    BY <1>3, <2>4
  <2> QED BY <2>1, <2>5
<1> QED BY <1>2, <1>3

-----------------------------------------------------------------------------
(* Sums *)

\* Induction on finite sets, for a property given as a set
LEMMA SetInd ==
    ASSUME NEW S, IsFiniteSet(S), NEW Q, {} \in Q,
           \A s \in SUBSET S : s # {} /\ (\A x \in s : s \ {x} \in Q) => s \in Q
    PROVE  \A s \in SUBSET S : s \in Q
<1>1. \A s \in SUBSET S : /\ IsFiniteSet(s) /\ Cardinality(s) \in Nat
                          /\ Cardinality(s) = 0 => s = {}
  BY FS_Subset, FS_CardinalityType, FS_EmptySet
<1> DEFINE P == {n \in Nat : \A s \in SUBSET S : Cardinality(s) = n => s \in Q}
<1>2. 0 \in P
  BY <1>1
<1>3. ASSUME NEW n \in Nat, n \in P PROVE n + 1 \in P
  <2> SUFFICES ASSUME NEW s \in SUBSET S, Cardinality(s) = n + 1 PROVE s \in Q
    OBVIOUS
  <2>1. s # {}
    <3>1. Cardinality({}) = 0
      BY FS_EmptySet
    <3> QED BY <3>1
  <2>2. ASSUME NEW x \in s PROVE s \ {x} \in Q
    <3>1. Cardinality(s \ {x}) = Cardinality(s) - 1
      BY <1>1, FS_RemoveElement
    <3>2. Cardinality(s \ {x}) = n /\ s \ {x} \in SUBSET S
      BY <3>1
    <3> QED BY <1>3, <3>2
  <2> QED BY <2>1, <2>2
<1>4. \A n \in Nat : n \in P
  <2> HIDE DEF P
  <2> QED BY <1>2, <1>3, NatInd
<1> QED BY <1>1, <1>4

\* The element a sum takes first
Chosen(s) == CHOOSE x \in s : TRUE

\* The sums of f over the subsets of S
IsSum(f, S, sums) ==
    sums = [s \in SUBSET S |->
              IF s = {} THEN 0 ELSE f[Chosen(s)] + sums[s \ {Chosen(s)}]]

\* There is such a function.
LEMMA SumIs ==
    ASSUME NEW f, NEW S, IsFiniteSet(S)
    PROVE  \E sums : IsSum(f, S, sums) /\ SumFunctionOnSet(f, S) = sums[S]
<1>1. \A s \in SUBSET S : /\ IsFiniteSet(s) /\ Cardinality(s) \in Nat
                          /\ Cardinality(s) <= Cardinality(S)
                          /\ Cardinality(s) = 0 <=> s = {}
  <2> TAKE s \in SUBSET S
  <2>1. IsFiniteSet(s) /\ Cardinality(s) <= Cardinality(S)
    BY FS_Subset
  <2> QED BY <2>1, FS_CardinalityType, FS_EmptySet
<1>2. \A s \in SUBSET S : s # {} =>
         s \ {Chosen(s)} \in SUBSET S /\ Cardinality(s \ {Chosen(s)}) = Cardinality(s) - 1
  BY <1>1, FS_RemoveElement DEF Chosen
<1> DEFINE Step(g, s) == f[Chosen(s)] + g[s \ {Chosen(s)}]
           Upto(n, g) == /\ g = [s \in SUBSET S |-> g[s]]
                         /\ \A s \in SUBSET S : Cardinality(s) <= n =>
                               g[s] = IF s = {} THEN 0 ELSE Step(g, s)
           P == {n \in Nat : \E g : Upto(n, g)}
<1>3. 0 \in P
  <2> DEFINE g == [s \in SUBSET S |-> 0]
  <2>1. \A s \in SUBSET S : Cardinality(s) <= 0 => s = {}
    BY <1>1
  <2>2. Upto(0, g)
    BY <2>1
  <2> QED BY <2>2
<1>4. ASSUME NEW n \in Nat, n \in P PROVE n + 1 \in P
  <2>1. PICK g : Upto(n, g)
    BY <1>4
  <2> DEFINE h == [s \in SUBSET S |-> IF Cardinality(s) = n + 1 THEN Step(g, s) ELSE g[s]]
  <2>2. \A s \in SUBSET S : Cardinality(s) <= n => h[s] = g[s]
    BY <1>1
  <2>3. \A s \in SUBSET S : s # {} /\ Cardinality(s) <= n + 1 => Step(h, s) = Step(g, s)
    <3> TAKE s \in SUBSET S
    <3> HAVE s # {} /\ Cardinality(s) <= n + 1
    <3>1. Cardinality(s \ {Chosen(s)}) <= n /\ s \ {Chosen(s)} \in SUBSET S
      BY <1>1, <1>2
    <3> QED BY <2>2, <3>1
  <2> HIDE DEF Step
  <2>4. ASSUME NEW s \in SUBSET S, Cardinality(s) <= n + 1
        PROVE  h[s] = IF s = {} THEN 0 ELSE Step(h, s)
    <3>1. CASE Cardinality(s) = n + 1
      <4>1. s # {}
        BY <1>1, <3>1
      <4> QED BY <2>3, <2>4, <3>1, <4>1
    <3>2. CASE Cardinality(s) <= n
      BY <2>1, <2>2, <2>3, <2>4, <3>2
    <3> QED BY <1>1, <2>4, <3>1, <3>2
  <2>5. h = [s \in SUBSET S |-> h[s]]
    OBVIOUS
  <2> HIDE DEF h
  <2>6. Upto(n + 1, h)
    BY <2>4, <2>5
  <2> HIDE DEF Upto
  <2> QED BY <2>6
<1>5. PICK g : Upto(Cardinality(S), g)
  <2>1. Cardinality(S) \in Nat
    BY <1>1
  <2>2. Cardinality(S) \in P
    <3> HIDE DEF P
    <3> QED BY <2>1, <1>3, <1>4, NatInd
  <2> QED BY <2>2
<1>6. \E sums : IsSum(f, S, sums)
  <2>1. \A s \in SUBSET S : g[s] = IF s = {} THEN 0 ELSE Step(g, s)
    BY <1>1, <1>5
  <2>2. g = [s \in SUBSET S |-> IF s = {} THEN 0 ELSE Step(g, s)]
    BY <1>5, <2>1
  <2>3. IsSum(f, S, g)
    BY <2>2 DEF IsSum
  <2> QED BY <2>3
<1> DEFINE sums == CHOOSE sums : IsSum(f, S, sums)
<1>7. IsSum(f, S, sums)
  BY <1>6
<1>8. SumFunctionOnSet(f, S) = sums[S]
  <2>1. sums = CHOOSE it : it = [s \in SUBSET S |->
                   IF s = {} THEN 0
                   ELSE f[CHOOSE x \in s : TRUE] + it[s \ {CHOOSE x \in s : TRUE}]]
    BY DEF IsSum, Chosen
  <2> HIDE DEF sums
  <2> QED BY <2>1 DEF SumFunctionOnSet, FoldFunctionOnSet, MapThenFoldSet
<1> QED BY <1>7, <1>8

\* The sums of f over the subsets are the sums of f.
LEMMA SumsAgree ==
    ASSUME NEW f, NEW S, IsFiniteSet(S), NEW sums, IsSum(f, S, sums)
    PROVE  \A s \in SUBSET S : SumFunctionOnSet(f, s) = sums[s]
<1>1. SUFFICES ASSUME NEW T \in SUBSET S PROVE SumFunctionOnSet(f, T) = sums[T]
  OBVIOUS
<1>2. IsFiniteSet(T)
  BY FS_Subset
<1>3. PICK less : IsSum(f, T, less) /\ SumFunctionOnSet(f, T) = less[T]
  BY <1>2, SumIs
<1> DEFINE Q == {s \in SUBSET T : less[s] = sums[s]}
<1>4. /\ \A s \in SUBSET T : less[s] = IF s = {} THEN 0
                                       ELSE f[Chosen(s)] + less[s \ {Chosen(s)}]
      /\ \A s \in SUBSET S : sums[s] = IF s = {} THEN 0
                                       ELSE f[Chosen(s)] + sums[s \ {Chosen(s)}]
  BY <1>3 DEF IsSum
<1>5. {} \in Q
  BY <1>4
<1>6. ASSUME NEW s \in SUBSET T, s # {}, \A x \in s : s \ {x} \in Q PROVE s \in Q
  <2>1. Chosen(s) \in s
    BY <1>6 DEF Chosen
  <2>2. less[s \ {Chosen(s)}] = sums[s \ {Chosen(s)}]
    BY <1>6, <2>1
  <2>3. s \in SUBSET S
    OBVIOUS
  <2>4. /\ less[s] = f[Chosen(s)] + less[s \ {Chosen(s)}]
        /\ sums[s] = f[Chosen(s)] + sums[s \ {Chosen(s)}]
    BY <1>4, <1>6, <2>3
  <2> QED BY <2>2, <2>4
<1>7. T \in Q
  <2> HIDE DEF Q
  <2> QED BY <1>2, <1>5, <1>6, SetInd
<1> QED BY <1>3, <1>7

\* What a sum is, by the element it takes first
LEMMA SumStep ==
    ASSUME NEW f, NEW S, IsFiniteSet(S)
    PROVE  /\ SumFunctionOnSet(f, {}) = 0
           /\ \A s \in SUBSET S : s # {} =>
                 SumFunctionOnSet(f, s)
                    = f[Chosen(s)] + SumFunctionOnSet(f, s \ {Chosen(s)})
<1>1. PICK sums : IsSum(f, S, sums)
  BY SumIs
<1>2. \A s \in SUBSET S : SumFunctionOnSet(f, s) = sums[s]
  BY <1>1, SumsAgree
<1>3. \A s \in SUBSET S : sums[s] = IF s = {} THEN 0
                                    ELSE f[Chosen(s)] + sums[s \ {Chosen(s)}]
  BY <1>1 DEF IsSum
<1>4. SumFunctionOnSet(f, {}) = 0
  BY <1>2, <1>3
<1>5. ASSUME NEW s \in SUBSET S, s # {}
      PROVE  SumFunctionOnSet(f, s) = f[Chosen(s)] + SumFunctionOnSet(f, s \ {Chosen(s)})
  <2>1. s \ {Chosen(s)} \in SUBSET S
    OBVIOUS
  <2> QED BY <1>2, <1>3, <1>5, <2>1
<1> QED BY <1>4, <1>5

\* It may take any element first.
LEMMA SumTakes ==
    ASSUME NEW f, NEW S, IsFiniteSet(S), \A x \in S : f[x] \in Int
    PROVE  \A s \in SUBSET S :
              /\ SumFunctionOnSet(f, s) \in Int
              /\ \A x \in s : SumFunctionOnSet(f, s) = f[x] + SumFunctionOnSet(f, s \ {x})
<1>0. /\ SumFunctionOnSet(f, {}) = 0
      /\ \A s \in SUBSET S : s # {} =>
            SumFunctionOnSet(f, s) = f[Chosen(s)] + SumFunctionOnSet(f, s \ {Chosen(s)})
  BY SumStep
<1> DEFINE Sum(s) == SumFunctionOnSet(f, s)
           Q == {s \in SUBSET S : /\ Sum(s) \in Int
                                  /\ \A x \in s : Sum(s) = f[x] + Sum(s \ {x})}
<1> HIDE DEF Sum
<1>1. /\ Sum({}) = 0
      /\ \A s \in SUBSET S : s # {} => Sum(s) = f[Chosen(s)] + Sum(s \ {Chosen(s)})
  BY <1>0 DEF Sum
<1>2. \A s \in SUBSET S : Sum(s) \in Int
  <2> DEFINE R == {s \in SUBSET S : Sum(s) \in Int}
  <2>1. {} \in R
    BY <1>1
  <2>2. ASSUME NEW s \in SUBSET S, s # {}, \A x \in s : s \ {x} \in R PROVE s \in R
    <3>1. Chosen(s) \in s /\ f[Chosen(s)] \in Int
      BY <2>2 DEF Chosen
    <3>2. Sum(s \ {Chosen(s)}) \in Int
      BY <2>2, <3>1
    <3> QED BY <1>1, <2>2, <3>1, <3>2
  <2> HIDE DEF R
  <2>3. \A s \in SUBSET S : s \in R
    BY <2>1, <2>2, SetInd
  <2> QED BY <2>3 DEF R
<1>3. ASSUME NEW s \in SUBSET S, s # {}, \A x \in s : s \ {x} \in Q PROVE s \in Q
  <2> DEFINE y == Chosen(s)
  <2>1. y \in s /\ f[y] \in Int
    BY <1>3 DEF Chosen
  <2>2. Sum(s) = f[y] + Sum(s \ {y})
    BY <1>1, <1>3
  <2> HIDE DEF y
  <2>4. ASSUME NEW x \in s PROVE Sum(s) = f[x] + Sum(s \ {x})
    <3>1. CASE x = y
      BY <2>2, <3>1
    <3>2. CASE x # y
      <4>1. s \ {x} \in Q /\ y \in s \ {x} /\ s \ {y} \in Q /\ x \in s \ {y}
        BY <1>3, <2>1, <3>2
      <4>2. Sum(s \ {x}) = f[y] + Sum((s \ {x}) \ {y})
        BY <4>1
      <4>3. Sum(s \ {y}) = f[x] + Sum((s \ {y}) \ {x})
        BY <4>1
      <4>4. (s \ {x}) \ {y} = (s \ {y}) \ {x}
        OBVIOUS
      <4>5. (s \ {x}) \ {y} \in SUBSET S /\ Sum(s \ {x}) \in Int /\ Sum(s \ {y}) \in Int
        BY <4>1
      <4> DEFINE a == Sum((s \ {x}) \ {y})
      <4>6. Sum(s \ {x}) = f[y] + a /\ Sum(s \ {y}) = f[x] + a
        BY <4>2, <4>3, <4>4
      <4>7. a \in Int
        BY <1>2, <4>5
      <4> HIDE DEF a
      <4>8. f[x] \in Int
        OBVIOUS
      <4> QED BY <2>1, <2>2, <4>6, <4>7, <4>8
    <3> QED BY <3>1, <3>2
  <2> QED BY <1>2, <2>4
<1>4. \A s \in SUBSET S : s \in Q
  <2>1. {} \in Q
    BY <1>1
  <2> HIDE DEF Q
  <2> QED BY <2>1, <1>3, SetInd
<1> QED BY <1>4 DEF Sum

\* A sum is of the values only.
LEMMA SumsSame ==
    ASSUME NEW f, NEW g, NEW S, IsFiniteSet(S), \A x \in S : f[x] \in Int /\ g[x] = f[x]
    PROVE  SumFunctionOnSet(g, S) = SumFunctionOnSet(f, S)
<1> DEFINE Q == {s \in SUBSET S : SumFunctionOnSet(g, s) = SumFunctionOnSet(f, s)}
<1>1. /\ SumFunctionOnSet(f, {}) = 0
      /\ \A s \in SUBSET S : s # {} =>
            SumFunctionOnSet(f, s) = f[Chosen(s)] + SumFunctionOnSet(f, s \ {Chosen(s)})
  BY SumStep
<1>2. /\ SumFunctionOnSet(g, {}) = 0
      /\ \A s \in SUBSET S : s # {} =>
            SumFunctionOnSet(g, s) = g[Chosen(s)] + SumFunctionOnSet(g, s \ {Chosen(s)})
  BY SumStep
<1>3. {} \in Q
  BY <1>1, <1>2
<1>4. ASSUME NEW s \in SUBSET S, s # {}, \A x \in s : s \ {x} \in Q PROVE s \in Q
  <2>1. Chosen(s) \in s /\ Chosen(s) \in S
    BY <1>4 DEF Chosen
  <2>2. SumFunctionOnSet(g, s \ {Chosen(s)}) = SumFunctionOnSet(f, s \ {Chosen(s)})
    BY <1>4, <2>1
  <2> QED BY <1>1, <1>2, <1>4, <2>1, <2>2
<1>5. \A s \in SUBSET S : s \in Q
  <2> HIDE DEF Q
  <2> QED BY <1>3, <1>4, SetInd
<1> QED BY <1>5

\* A sum of zeros is zero.
LEMMA SumOfZeros ==
    ASSUME NEW f, NEW S, IsFiniteSet(S), \A x \in S : f[x] = 0
    PROVE  SumFunctionOnSet(f, S) = 0
<1> DEFINE Q == {s \in SUBSET S : SumFunctionOnSet(f, s) = 0}
<1>1. /\ SumFunctionOnSet(f, {}) = 0
      /\ \A s \in SUBSET S : s # {} =>
            SumFunctionOnSet(f, s) = f[Chosen(s)] + SumFunctionOnSet(f, s \ {Chosen(s)})
  BY SumStep
<1>2. {} \in Q
  BY <1>1
<1>3. ASSUME NEW s \in SUBSET S, s # {}, \A x \in s : s \ {x} \in Q PROVE s \in Q
  <2>1. Chosen(s) \in s /\ Chosen(s) \in S
    BY <1>3 DEF Chosen
  <2>2. SumFunctionOnSet(f, s \ {Chosen(s)}) = 0
    BY <1>3, <2>1
  <2> QED BY <1>1, <1>3, <2>1, <2>2
<1>4. \A s \in SUBSET S : s \in Q
  <2> HIDE DEF Q
  <2> QED BY <1>2, <1>3, SetInd
<1> QED BY <1>4

\* The elements of S of a key
Part(S, k, key) == {x \in S : k[x] = key}

\* The sums of v over the elements of S of each key
GroupSums(S, K, v, k) == [key \in K |-> SumFunctionOnSet(v, Part(S, k, key))]

\* The sums of the groups add up to the sum of all.
LEMMA SumByGroup ==
    ASSUME NEW S, IsFiniteSet(S), NEW K, IsFiniteSet(K), NEW v, NEW k,
           \A x \in S : v[x] \in Int /\ k[x] \in K
    PROVE  SumFunctionOnSet(GroupSums(S, K, v, k), K) = SumFunctionOnSet(v, S)
<1> DEFINE Good(s) == SumFunctionOnSet(GroupSums(s, K, v, k), K) = SumFunctionOnSet(v, s)
           Q == {s \in SUBSET S : Good(s)}
<1>1. /\ SumFunctionOnSet(v, {}) = 0
      /\ \A s \in SUBSET S :
            /\ SumFunctionOnSet(v, s) \in Int
            /\ \A x \in s : SumFunctionOnSet(v, s) = v[x] + SumFunctionOnSet(v, s \ {x})
  <2>1. SumFunctionOnSet(v, {}) = 0
    BY SumStep
  <2>2. \A x \in S : v[x] \in Int
    OBVIOUS
  <2>3. \A s \in SUBSET S :
           /\ SumFunctionOnSet(v, s) \in Int
           /\ \A x \in s : SumFunctionOnSet(v, s) = v[x] + SumFunctionOnSet(v, s \ {x})
    BY <2>2, SumTakes
  <2> QED BY <2>1, <2>3
<1>2. \A s : \A key \in K : GroupSums(s, K, v, k)[key] = SumFunctionOnSet(v, Part(s, k, key))
  BY DEF GroupSums
<1>3. \A s \in SUBSET S : \A key \in K : Part(s, k, key) \in SUBSET S
  BY DEF Part
<1>4. Good({})
  <2>1. \A key : Part({}, k, key) = {}
    BY DEF Part
  <2>2. \A key \in K : GroupSums({}, K, v, k)[key] = 0
    BY <1>1, <1>2, <2>1
  <2>3. SumFunctionOnSet(GroupSums({}, K, v, k), K) = 0
    BY <2>2, SumOfZeros
  <2> QED BY <1>1, <2>3
<1>5. ASSUME NEW s \in SUBSET S, s # {}, \A x \in s : s \ {x} \in Q PROVE Good(s)
  <2>1. PICK x \in s : TRUE
    BY <1>5
  <2> DEFINE t == s \ {x}
             a == k[x]
             g == GroupSums(s, K, v, k)
             h == GroupSums(t, K, v, k)
  <2>2. /\ v[x] \in Int /\ a \in K /\ t \in SUBSET S
        /\ SumFunctionOnSet(h, K) = SumFunctionOnSet(v, t)
    BY <1>5, <2>1
  <2>3. /\ \A key \in K : key # a => Part(s, k, key) = Part(t, k, key)
        /\ Part(t, k, a) = Part(s, k, a) \ {x} /\ x \in Part(s, k, a)
    BY <2>1 DEF Part
  <2>4. /\ \A key \in K : g[key] = SumFunctionOnSet(v, Part(s, k, key))
        /\ \A key \in K : h[key] = SumFunctionOnSet(v, Part(t, k, key))
    BY <1>2
  <2> HIDE DEF g, h, t, a
  <2>5. \A key \in K : g[key] \in Int /\ h[key] \in Int
    BY <1>1, <1>3, <2>2, <2>4
  <2>6. g[a] = v[x] + h[a]
    BY <1>1, <1>3, <2>2, <2>3, <2>4
  <2>7. \A key \in K : key # a => g[key] = h[key]
    BY <2>3, <2>4
  <2>8. /\ SumFunctionOnSet(g, K) = g[a] + SumFunctionOnSet(g, K \ {a})
        /\ SumFunctionOnSet(h, K) = h[a] + SumFunctionOnSet(h, K \ {a})
        /\ SumFunctionOnSet(h, K \ {a}) \in Int
    <3>1. K \in SUBSET K /\ K \ {a} \in SUBSET K
      OBVIOUS
    <3>2. \A z \in K : g[z] \in Int
      BY <2>5
    <3>3. \A z \in K : h[z] \in Int
      BY <2>5
    <3>4. SumFunctionOnSet(g, K) = g[a] + SumFunctionOnSet(g, K \ {a})
      BY <2>2, <3>1, <3>2, SumTakes
    <3>5. /\ SumFunctionOnSet(h, K) = h[a] + SumFunctionOnSet(h, K \ {a})
          /\ SumFunctionOnSet(h, K \ {a}) \in Int
      BY <2>2, <3>1, <3>3, SumTakes
    <3> QED BY <3>4, <3>5
  <2>9. SumFunctionOnSet(g, K \ {a}) = SumFunctionOnSet(h, K \ {a})
    <3>1. IsFiniteSet(K \ {a})
      BY FS_RemoveElement
    <3>2. \A z \in K \ {a} : h[z] \in Int /\ g[z] = h[z]
      BY <2>5, <2>7
    <3> QED BY <3>1, <3>2, SumsSame
  <2>10. SumFunctionOnSet(v, s) = v[x] + SumFunctionOnSet(v, t)
    BY <1>1, <2>1 DEF t
  <2>11. h[a] \in Int
    BY <2>2, <2>5
  <2> DEFINE rest == SumFunctionOnSet(h, K \ {a})
  <2>12. SumFunctionOnSet(g, K) = v[x] + SumFunctionOnSet(v, t)
    <3>1. /\ SumFunctionOnSet(g, K) = (v[x] + h[a]) + rest
          /\ SumFunctionOnSet(v, t) = h[a] + rest
          /\ rest \in Int /\ h[a] \in Int /\ v[x] \in Int
      BY <2>2, <2>6, <2>8, <2>9, <2>11
    <3> HIDE DEF rest
    <3> QED BY <3>1
  <2> QED BY <2>10, <2>12 DEF g
<1>6. \A s \in SUBSET S : s \in Q
  <2>1. {} \in Q
    <3> HIDE DEF Good
    <3> QED BY <1>4
  <2>2. \A s \in SUBSET S : s # {} /\ (\A x \in s : s \ {x} \in Q) => s \in Q
    <3> HIDE DEF Good
    <3> QED BY <1>5
  <2> HIDE DEF Q
  <2> QED BY <2>1, <2>2, SetInd
<1> QED BY <1>6

\* A sum of ones is how many there are.
LEMMA SumOfOnes ==
    ASSUME NEW f, NEW S, IsFiniteSet(S), \A x \in S : f[x] = 1
    PROVE  SumFunctionOnSet(f, S) = Cardinality(S)
<1> DEFINE Q == {s \in SUBSET S : SumFunctionOnSet(f, s) = Cardinality(s)}
<1>1. /\ SumFunctionOnSet(f, {}) = 0
      /\ \A s \in SUBSET S : s # {} =>
            SumFunctionOnSet(f, s) = f[Chosen(s)] + SumFunctionOnSet(f, s \ {Chosen(s)})
  BY SumStep
<1>2. {} \in Q
  BY <1>1, FS_EmptySet
<1>3. ASSUME NEW s \in SUBSET S, s # {}, \A x \in s : s \ {x} \in Q PROVE s \in Q
  <2>1. Chosen(s) \in s /\ Chosen(s) \in S
    BY <1>3 DEF Chosen
  <2>2. SumFunctionOnSet(f, s \ {Chosen(s)}) = Cardinality(s \ {Chosen(s)})
    BY <1>3, <2>1
  <2>3. IsFiniteSet(s) /\ Cardinality(s) \in Nat
    BY FS_Subset, FS_CardinalityType
  <2>4. Cardinality(s \ {Chosen(s)}) = Cardinality(s) - 1
    BY <2>1, <2>3, FS_RemoveElement
  <2> QED BY <1>1, <1>3, <2>1, <2>2, <2>3, <2>4
<1>4. \A s \in SUBSET S : s \in Q
  <2> HIDE DEF Q
  <2> QED BY <1>2, <1>3, SetInd
<1> QED BY <1>4

\* Sums over two sets that are apart
LEMMA SumOfBoth ==
    ASSUME NEW A, NEW B, IsFiniteSet(A), IsFiniteSet(B), A \cap B = {},
           NEW v, \A x \in A \cup B : v[x] \in Int
    PROVE  /\ SumFunctionOnSet(v, A) \in Int /\ SumFunctionOnSet(v, B) \in Int
           /\ SumFunctionOnSet(v, A \cup B)
                 = SumFunctionOnSet(v, A) + SumFunctionOnSet(v, B)
<1> DEFINE U == A \cup B
           Sum(s) == SumFunctionOnSet(v, s)
           Q == {s \in SUBSET A : Sum(s \cup B) = Sum(s) + Sum(B)}
<1>1. IsFiniteSet(U)
  BY FS_Union
<1>2. \A s \in SUBSET U : Sum(s) \in Int /\ \A x \in s : Sum(s) = v[x] + Sum(s \ {x})
  <2>1. \A x \in U : v[x] \in Int
    OBVIOUS
  <2> HIDE DEF U
  <2> QED BY <1>1, <2>1, SumTakes
<1>3. Sum({}) = 0
  BY SumStep
<1> HIDE DEF Sum
<1>4. {} \in Q
  <2>1. {} \cup B = B /\ Sum(B) \in Int
    BY <1>2
  <2> QED BY <1>3, <2>1
<1>5. ASSUME NEW s \in SUBSET A, s # {}, \A x \in s : s \ {x} \in Q PROVE s \in Q
  <2>1. PICK x \in s : TRUE
    BY <1>5
  <2> DEFINE r == s \ {x}
  <2>2. Sum(r \cup B) = Sum(r) + Sum(B)
    BY <1>5, <2>1
  <2>3. (s \cup B) \ {x} = r \cup B /\ x \in s \cup B /\ s \cup B \in SUBSET U
    BY <2>1
  <2>4. Sum(s \cup B) = v[x] + Sum(r \cup B)
    BY <1>2, <2>3
  <2>5. Sum(s) = v[x] + Sum(r)
    <3>1. s \in SUBSET U
      OBVIOUS
    <3> QED BY <1>2, <2>1, <3>1
  <2>6. v[x] \in Int /\ Sum(r) \in Int /\ Sum(B) \in Int
    <3>1. r \in SUBSET U /\ B \in SUBSET U
      OBVIOUS
    <3> QED BY <1>2, <2>1, <3>1
  <2> HIDE DEF r
  <2>7. Sum(s \cup B) = Sum(s) + Sum(B)
    BY <2>2, <2>4, <2>5, <2>6
  <2> QED BY <2>7
<1>6. A \in Q
  <2>1. \A s \in SUBSET A : s \in Q
    <3> HIDE DEF Q
    <3> QED BY <1>4, <1>5, SetInd
  <2> QED BY <2>1
<1>7. Sum(A) \in Int /\ Sum(B) \in Int
  <2>1. A \in SUBSET U /\ B \in SUBSET U
    OBVIOUS
  <2> QED BY <1>2, <2>1
<1> QED BY <1>6, <1>7 DEF Sum

\* A sum over a listing is the sum over what it lists.
LEMMA SumOfListing ==
    ASSUME NEW S, NEW seq, Listing(seq, S), NEW v, \A x \in S : v[x] \in Int,
           NEW f, DOMAIN f = DOMAIN seq, \A k \in DOMAIN seq : f[k] = v[seq[k]]
    PROVE  SumFunction(f) = SumFunctionOnSet(v, S)
<1> DEFINE D == 1..Len(seq)
<1>1. /\ Len(seq) \in Nat /\ DOMAIN seq = D /\ \A k \in D : seq[k] \in S
      /\ IsFiniteSet(S)
  BY ListingIs
<1>2. IsFiniteSet(D)
  BY <1>1, FS_Interval
<1>3. \A k \in D : f[k] \in Int /\ seq[k] \in S
  BY <1>1
<1>4. SumFunctionOnSet(GroupSums(D, S, f, seq), S) = SumFunctionOnSet(f, D)
  <2> HIDE DEF D
  <2> QED BY <1>1, <1>2, <1>3, SumByGroup
<1>5. ASSUME NEW x \in S PROVE GroupSums(D, S, f, seq)[x] = v[x]
  <2>1. PICK k \in D : seq[k] = x
    BY DEF Listing
  <2>2. \A j \in D : seq[j] = x => j = k
    BY <2>1 DEF Listing
  <2>3. Part(D, seq, x) = {k}
    BY <2>1, <2>2 DEF Part
  <2>4. f[k] = v[x] /\ v[x] \in Int
    BY <1>1, <2>1
  <2>5. SumFunctionOnSet(f, {k}) = v[x]
    <3>1. IsFiniteSet({k}) /\ {k} \in SUBSET {k} /\ \A y \in {k} : f[y] \in Int
      BY <2>4, FS_Singleton
    <3>2. SumFunctionOnSet(f, {k}) = f[k] + SumFunctionOnSet(f, {k} \ {k})
      BY <3>1, SumTakes
    <3>3. {k} \ {k} = {}
      OBVIOUS
    <3>4. SumFunctionOnSet(f, {}) = 0
      BY <3>1, SumStep
    <3>5. SumFunctionOnSet(f, {k} \ {k}) = 0
      BY <3>3, <3>4
    <3> HIDE DEF D
    <3>6. SumFunctionOnSet(f, {k}) = v[x] + 0
      BY <2>4, <3>2, <3>5
    <3> QED BY <2>4, <3>6
  <2> QED BY <2>3, <2>5 DEF GroupSums
<1>6. SumFunctionOnSet(GroupSums(D, S, f, seq), S) = SumFunctionOnSet(v, S)
  <2> DEFINE g == GroupSums(D, S, f, seq)
  <2>1. \A x \in S : v[x] \in Int /\ g[x] = v[x]
    BY <1>5
  <2> HIDE DEF g
  <2>2. SumFunctionOnSet(g, S) = SumFunctionOnSet(v, S)
    BY <1>1, <2>1, SumsSame
  <2> QED BY <2>2 DEF g
<1> QED BY <1>1, <1>4, <1>6 DEF SumFunction
=============================================================================
