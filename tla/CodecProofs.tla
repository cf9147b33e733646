---------------------------- MODULE CodecProofs -----------------------------
(***************************************************************************)
(* For bytes, texts, numbers and datasets of any size: what the functions  *)
(* decodePropValue and GetDeviceInfo make of what PackPTPString, PackI16   *)
(* and a camera pack.  What a recursive definition computes is proved by   *)
(* induction over the set of the numbers for which it holds.               *)
(***************************************************************************)
EXTENDS Codec, FiniteSetTheorems, TLAPS

-----------------------------------------------------------------------------
(***************************************************************************)
(* Induction, and the concatenation of sequences.                          *)
(***************************************************************************)
\* Every set of naturals that is not empty has a least element.
LEMMA LeastNatural ==
    ASSUME NEW T, T \subseteq Nat, T # {}
    PROVE  \E m \in T : \A n \in T : m <= n
<1>1. PICK t \in T : TRUE
  OBVIOUS
<1> DEFINE D == {n \in 0..t : \A m \in T : n < m}
           c == Cardinality(D)
<1>2. /\ IsFiniteSet(D) /\ c \in Nat
  <2>1. IsFiniteSet(0..t)
    BY <1>1, FS_Interval
  <2> QED BY <2>1, FS_Subset, FS_CardinalityType
<1>3. c \notin D
  <2> SUFFICES ASSUME c \in D PROVE FALSE
    OBVIOUS
  <2>1. 0..c \subseteq D
    BY <1>2
  <2>2. Cardinality(0..c) = c + 1
    BY <1>2, FS_Interval
  <2>3. Cardinality(0..c) <= c
    BY <1>2, <2>1, FS_Subset
  <2> QED BY <1>2, <2>2, <2>3
<1>4. ASSUME NEW n \in Nat, n < c PROVE n \in D
  <2> SUFFICES ASSUME n \notin D PROVE FALSE
    OBVIOUS
  <2>1. D \subseteq 0..(n - 1)
    BY <1>4
  <2>2. n - 1 \in Int
    BY <1>4
  <2>3. IsFiniteSet(0..(n - 1)) /\ Cardinality(0..(n - 1)) = IF 0 > n - 1 THEN 0 ELSE (n - 1) - 0 + 1
    BY <2>2, FS_Interval
  <2>4. c <= n
    BY <2>1, <2>3, <1>4, FS_Subset
  <2> QED BY <1>2, <1>4, <2>4
<1>5. c <= t
  BY <1>1, <1>2, <1>4
<1>6. PICK m \in T : m <= c
  BY <1>2, <1>3, <1>5
<1>7. \A n \in T : c <= n
  BY <1>2, <1>4
<1> QED BY <1>2, <1>6, <1>7

\* Induction, as a fact about the set of the numbers it reaches.
LEMMA Induction ==
    ASSUME NEW T, 0 \in T, \A n \in Nat : n \in T => n + 1 \in T
    PROVE  Nat \subseteq T
<1> DEFINE Out == Nat \ T
<1>1. SUFFICES ASSUME Out # {} PROVE FALSE
  OBVIOUS
<1>2. PICK m \in Out : \A n \in Out : m <= n
  <2>1. Out \subseteq Nat
    OBVIOUS
  <2> HIDE DEF Out
  <2> QED BY <1>1, <2>1, LeastNatural
<1>3. m # 0 /\ m - 1 \in Nat /\ (m - 1) + 1 = m /\ m - 1 \notin Out
  BY <1>2
<1> QED BY <1>2, <1>3

\* g[k] is k steps of F from a.
Iterates(g, N, a, F) == g[0] = a /\ \A k \in 1..N : g[k] = F[k][g[k - 1]]

\* A recursion over 1..N with a step of its own for each number has a solution.
LEMMA Iteration ==
    ASSUME NEW N \in Nat, NEW X, NEW a \in X, NEW F \in [1..N -> [X -> X]]
    PROVE  \E g \in [0..N -> X] : Iterates(g, N, a, F)
<1> DEFINE Runs(g, n) == Iterates(g, n, a, F)
           Upto(n) == \E g \in [0..n -> X] : Runs(g, n)
<1>1. Upto(0)
  <2>1. [i \in 0..0 |-> a] \in [0..0 -> X]
    OBVIOUS
  <2>2. Runs([i \in 0..0 |-> a], 0)
    BY DEF Iterates
  <2> HIDE DEF Runs
  <2> QED BY <2>1, <2>2
<1>2. ASSUME NEW n \in 1..N, Upto(n - 1) PROVE Upto(n)
  <2>1. PICK g \in [0..(n - 1) -> X] : Runs(g, n - 1)
    BY <1>2
  <2> DEFINE h == [i \in 0..n |-> IF i = n THEN F[n][g[n - 1]] ELSE g[i]]
  <2>2. F[n] \in [X -> X] /\ g[n - 1] \in X
    OBVIOUS
  <2>3. h \in [0..n -> X]
    BY <2>2
  <2>4. h[0] = a
    BY <2>1 DEF Iterates
  <2>5. ASSUME NEW k \in 1..n PROVE h[k] = F[k][h[k - 1]]
    <3>1. CASE k = n
      BY <3>1
    <3>2. CASE k # n
      <4>1. k \in 1..(n - 1) /\ k \in 0..n /\ k - 1 \in 0..n /\ k - 1 # n
        BY <3>2
      <4>2. h[k] = g[k] /\ h[k - 1] = g[k - 1]
        BY <4>1, <3>2
      <4> QED BY <4>1, <4>2, <2>1 DEF Iterates
    <3> QED BY <3>1, <3>2
  <2>6. Runs(h, n)
    <3> HIDE DEF h
    <3> QED BY <2>4, <2>5 DEF Iterates
  <2> HIDE DEF Runs, h
  <2> QED BY <2>3, <2>6
<1>3. Upto(N)
  <2> DEFINE T == {n \in Nat : n <= N => Upto(n)}
  <2> HIDE DEF Upto
  <2>1. 0 \in T
    BY <1>1
  <2>2. ASSUME NEW n \in Nat, n \in T PROVE n + 1 \in T
    <3>1. n + 1 <= N => n + 1 \in 1..N /\ (n + 1) - 1 = n /\ n <= N
      OBVIOUS
    <3> QED BY <1>2, <2>2, <3>1
  <2>3. Nat \subseteq T
    <3> HIDE DEF T
    <3> QED BY <2>1, <2>2, Induction
  <2> QED BY <2>3
<1> QED BY <1>3

\* f[k] concatenates the first k parts of s.
Flattens(f, s) == f[1] = s[1] /\ \A k \in 2..Len(s) : f[k] = f[k - 1] \o s[k]

\* The concatenations of the prefixes of s exist.
LEMMA FlattensExists ==
    ASSUME NEW X, NEW s \in Seq(Seq(X)), s # <<>>
    PROVE  \E f \in [1..Len(s) -> Seq(X)] : Flattens(f, s)
<1> DEFINE S == Seq(X)
           N == Len(s) - 1
           F == [k \in 1..N |-> [t \in S |-> t \o s[k + 1]]]
<1>1. N \in Nat /\ s[1] \in S
  OBVIOUS
<1>2. ASSUME NEW k \in 1..N, NEW t \in S PROVE t \o s[k + 1] \in S
  OBVIOUS
<1>3. F \in [1..N -> [S -> S]]
  <2> HIDE DEF S, N
  <2> QED BY <1>2
<1>4. PICK g \in [0..N -> S] : Iterates(g, N, s[1], F)
  <2> HIDE DEF S, N, F
  <2> QED BY <1>1, <1>3, Iteration
<1>5. ASSUME NEW k \in 1..N PROVE g[k] = g[k - 1] \o s[k + 1]
  <2>1. g[k - 1] \in S
    <3>1. k - 1 \in 0..N
      BY <1>1
    <3> HIDE DEF S, N
    <3> QED BY <3>1
  <2>2. g[k] = F[k][g[k - 1]]
    BY <1>4 DEF Iterates
  <2> HIDE DEF S, N
  <2> QED BY <2>1, <2>2
<1> DEFINE f == [k \in 1..Len(s) |-> g[k - 1]]
<1>6. f \in [1..Len(s) -> S]
  <2>1. ASSUME NEW k \in 1..Len(s) PROVE k - 1 \in 0..N
    OBVIOUS
  <2> HIDE DEF S, N
  <2> QED BY <2>1
<1>7. f[1] = s[1]
  BY <1>4, <1>1 DEF Iterates
<1>8. ASSUME NEW k \in 2..Len(s) PROVE f[k] = f[k - 1] \o s[k]
  <2>1. k - 1 \in 1..N /\ (k - 1) + 1 = k /\ k \in 1..Len(s) /\ k - 1 \in 1..Len(s)
    OBVIOUS
  <2>2. g[k - 1] = g[(k - 1) - 1] \o s[k]
    BY <1>5, <2>1
  <2> QED BY <2>1, <2>2
<1> HIDE DEF f
<1> QED BY <1>6, <1>7, <1>8 DEF Flattens

\* There is one way to concatenate the prefixes of s.
LEMMA FlattensUnique ==
    ASSUME NEW X, NEW s \in Seq(Seq(X)), NEW f, NEW g, Flattens(f, s), Flattens(g, s)
    PROVE  \A k \in 1..Len(s) : f[k] = g[k]
<1> DEFINE T == {k \in Nat : k + 1 <= Len(s) => f[k + 1] = g[k + 1]}
<1>1. 0 \in T
  BY DEF Flattens
<1>2. ASSUME NEW k \in Nat, k \in T PROVE k + 1 \in T
  <2>1. ASSUME (k + 1) + 1 <= Len(s) PROVE f[(k + 1) + 1] = g[(k + 1) + 1]
    <3>1. f[k + 1] = g[k + 1]
      BY <1>2, <2>1
    <3>2. (k + 1) + 1 \in 2..Len(s) /\ ((k + 1) + 1) - 1 = k + 1
      BY <2>1
    <3> QED BY <3>1, <3>2 DEF Flattens
  <2> QED BY <2>1
<1>3. Nat \subseteq T
  <2> HIDE DEF T
  <2> QED BY <1>1, <1>2, Induction
<1>4. ASSUME NEW k \in 1..Len(s) PROVE f[k] = g[k]
  <2>1. k - 1 \in Nat /\ (k - 1) + 1 = k
    OBVIOUS
  <2>2. k - 1 \in T
    BY <1>3, <2>1
  <2> QED BY <2>1, <2>2
<1> QED BY <1>4

\* Nothing is the concatenation of no parts.
LEMMA FlattenEmpty == FlattenSeq(<<>>) = <<>>
BY DEF FlattenSeq

\* FlattenSeq is the last of these concatenations.
LEMMA FlattenAs ==
    ASSUME NEW X, NEW s \in Seq(Seq(X)), s # <<>>
    PROVE  \E f \in [1..Len(s) -> Seq(X)] : Flattens(f, s) /\ FlattenSeq(s) = f[Len(s)]
<1> DEFINE flat(h) == [k \in 1..Len(s) |-> IF k = 1 THEN s[k] ELSE h[k - 1] \o s[k]]
           it == CHOOSE h : h = flat(h)
<1>1. PICK f \in [1..Len(s) -> Seq(X)] : Flattens(f, s)
  BY FlattensExists
<1>2. f = flat(f)
  <2>1. ASSUME NEW k \in 1..Len(s) PROVE f[k] = IF k = 1 THEN s[k] ELSE f[k - 1] \o s[k]
    <3>1. k = 1 \/ k \in 2..Len(s)
      OBVIOUS
    <3> QED BY <1>1, <3>1 DEF Flattens
  <2> QED BY <2>1
<1>3. it = flat(it)
  <2> HIDE DEF flat
  <2> QED BY <1>2
<1>4. Flattens(it, s)
  <2> HIDE DEF it
  <2>1. it[1] = s[1]
    BY <1>3
  <2>2. ASSUME NEW k \in 2..Len(s) PROVE it[k] = it[k - 1] \o s[k]
    <3>1. k \in 1..Len(s) /\ k # 1
      OBVIOUS
    <3>2. flat(it)[k] = it[k - 1] \o s[k]
      BY <3>1
    <3> HIDE DEF flat
    <3> QED BY <1>3, <3>2
  <2> QED BY <2>1, <2>2 DEF Flattens
<1>5. FlattenSeq(s) = it[Len(s)]
  BY DEF FlattenSeq
<1>6. it[Len(s)] = f[Len(s)]
  <2> HIDE DEF it
  <2>1. Len(s) \in 1..Len(s)
    OBVIOUS
  <2> QED BY <1>1, <1>4, <2>1, FlattensUnique
<1> QED BY <1>1, <1>5, <1>6

\* The concatenation of sequences over X is a sequence over X.
LEMMA FlattenType ==
    ASSUME NEW X, NEW s \in Seq(Seq(X))
    PROVE  FlattenSeq(s) \in Seq(X)
<1>1. CASE s = <<>>
  <2>1. FlattenSeq(s) = <<>>
    BY <1>1, FlattenEmpty
  <2> QED BY <2>1
<1>2. CASE s # <<>>
  <2>1. PICK f \in [1..Len(s) -> Seq(X)] : FlattenSeq(s) = f[Len(s)]
    BY <1>2, FlattenAs
  <2>2. Len(s) \in 1..Len(s)
    BY <1>2
  <2> DEFINE S == Seq(X)
  <2>3. f[Len(s)] \in S
    BY <2>2
  <2> QED BY <2>1, <2>3
<1> QED BY <1>1, <1>2

\* One more part comes at the end of the concatenation.
LEMMA FlattenAppend ==
    ASSUME NEW X, NEW s \in Seq(Seq(X)), NEW e \in Seq(X)
    PROVE  FlattenSeq(Append(s, e)) = FlattenSeq(s) \o e
<1> DEFINE t == Append(s, e)
<1>1. /\ t \in Seq(Seq(X)) /\ t # <<>> /\ Len(t) = Len(s) + 1 /\ t[Len(t)] = e
      /\ \A k \in 1..Len(s) : t[k] = s[k]
  <2> DEFINE S == Seq(X)
  <2>1. e \in S /\ s \in Seq(S)
    OBVIOUS
  <2> HIDE DEF S
  <2>2. t \in Seq(S) /\ Len(t) = Len(s) + 1
    BY <2>1
  <2>3. t[Len(s) + 1] = e
    BY <2>1
  <2>4. \A k \in 1..Len(s) : t[k] = s[k]
    BY <2>1
  <2> HIDE DEF t
  <2>5. t # <<>>
    BY <2>2, <2>1
  <2> QED BY <2>2, <2>3, <2>4, <2>5 DEF S
<1> HIDE DEF t
<1>2. PICK f \in [1..Len(t) -> Seq(X)] : Flattens(f, t) /\ FlattenSeq(t) = f[Len(t)]
  BY <1>1, FlattenAs
<1>3. CASE s = <<>>
  <2>1. Len(t) = 1
    BY <1>1, <1>3
  <2>2. FlattenSeq(t) = e
    BY <1>1, <1>2, <2>1 DEF Flattens
  <2> QED BY <1>3, <2>2, FlattenEmpty DEF t
<1>4. CASE s # <<>>
  <2>1. PICK g \in [1..Len(s) -> Seq(X)] : Flattens(g, s) /\ FlattenSeq(s) = g[Len(s)]
    BY <1>4, FlattenAs
  <2>2. Flattens(f, s)
    <3>1. f[1] = s[1]
      BY <1>1, <1>2, <1>4 DEF Flattens
    <3>2. ASSUME NEW k \in 2..Len(s) PROVE f[k] = f[k - 1] \o s[k]
      <4>1. k \in 2..Len(t) /\ k \in 1..Len(s)
        BY <1>1
      <4> QED BY <1>1, <1>2, <4>1 DEF Flattens
    <3> QED BY <3>1, <3>2 DEF Flattens
  <2>3. Len(s) \in 1..Len(s) /\ Len(t) \in 2..Len(t) /\ Len(t) - 1 = Len(s)
    BY <1>1, <1>4
  <2>4. \A k \in 1..Len(s) : f[k] = g[k]
    BY <2>1, <2>2, FlattensUnique
  <2>5. f[Len(t)] = f[Len(s)] \o e
    BY <1>1, <1>2, <2>3 DEF Flattens
  <2> QED BY <1>2, <2>1, <2>3, <2>4, <2>5 DEF t
<1> QED BY <1>3, <1>4

\* A sequence that agrees with q and has one more element is q with it appended.
LEMMA AppendIs ==
    ASSUME NEW S, NEW q \in Seq(S), NEW p \in Seq(S), Len(p) = Len(q) + 1,
           \A i \in 1..Len(q) : p[i] = q[i]
    PROVE  p = Append(q, p[Len(p)])
<1>1. p[Len(p)] \in S
  OBVIOUS
<1> QED BY <1>1

\* p has one more part than q.
LEMMA FlattenExtend ==
    ASSUME NEW X, NEW q \in Seq(Seq(X)), NEW p \in Seq(Seq(X)), Len(p) = Len(q) + 1,
           \A i \in 1..Len(q) : p[i] = q[i]
    PROVE  FlattenSeq(p) = FlattenSeq(q) \o p[Len(p)] /\ p[Len(p)] \in Seq(X)
<1> DEFINE S == Seq(X)
           e == p[Len(p)]
<1>1. e \in S /\ p = Append(q, e)
  <2>1. q \in Seq(S) /\ p \in Seq(S)
    OBVIOUS
  <2>2. Len(p) \in 1..Len(p)
    OBVIOUS
  <2> HIDE DEF S
  <2>3. e \in S
    BY <2>1, <2>2
  <2> QED BY <2>1, <2>3, AppendIs
<1> HIDE DEF e
<1>2. FlattenSeq(Append(q, e)) = FlattenSeq(q) \o e
  BY <1>1, FlattenAppend
<1>3. FlattenSeq(p) = FlattenSeq(q) \o e
  BY <1>1, <1>2
<1> QED BY <1>1, <1>3 DEF e

-----------------------------------------------------------------------------
(***************************************************************************)
(* Numbers and UTF-16.                                                     *)
(***************************************************************************)
\* Membership of an interval, as inequalities.
LEMMA InRange ==
    ASSUME NEW a \in Int, NEW b \in Int, NEW x
    PROVE  x \in a..b <=> x \in Int /\ a <= x /\ x <= b
OBVIOUS

\* The words are the numbers of 16 bits.
LEMMA WordRange == \A x : x \in Word <=> x \in Int /\ 0 <= x /\ x <= 65535
<1> DEFINE hi == 65535
<1>1. hi \in Int /\ Word = 0..hi
  BY SMT DEF Word
<1> HIDE DEF hi
<1>2. \A x : x \in Word <=> x \in Int /\ 0 <= x /\ x <= hi
  BY <1>1, InRange, SMT
<1> QED BY <1>2, SMT DEF hi

\* The surrogates are words of two ranges.
LEMMA SurrogateRange ==
    ASSUME NEW x
    PROVE  /\ High(x) <=> x \in Int /\ 55296 <= x /\ x <= 56319
           /\ Low(x) <=> x \in Int /\ 56320 <= x /\ x <= 57343
<1>1. High(x) <=> x \in Int /\ 55296 <= x /\ x <= 56319
  BY InRange, SMT DEF High
<1>2. Low(x) <=> x \in Int /\ 56320 <= x /\ x <= 57343
  BY InRange, SMT DEF Low
<1> QED BY <1>1, <1>2

\* PackI16, then decodePropValue: the number comes back.
LEMMA NumberRoundTrip ==
    ASSUME NEW n, Short(n)
    PROVE  decodePropValue(PackI16(n)) = Number(n)
<1> DEFINE w == n % 65536
           d == PackI16(n)
<1>1. n \in Int /\ -32768 <= n /\ n <= 32767
  BY SMT DEF Short
<1>2. w \in Nat /\ w < 65536 /\ (n >= 0 => w = n) /\ (n < 0 => w = n + 65536)
  <2>1. w \in Nat /\ w < 65536
    BY <1>1, SMT
  <2>2. n >= 0 => w = n
    BY <1>1, SMT
  <2>3. n < 0 => w = n + 65536
    BY <1>1, SMT
  <2> QED BY <2>1, <2>2, <2>3
<1>3. d = <<w % 256, w \div 256>>
  BY DEF PackI16, PackU16, Uint16
<1> HIDE DEF w
<1>4. (w % 256) + 256 * (w \div 256) = w
  BY <1>2, SMT
<1>5. Len(d) = 2 /\ U16(d, 1) = w
  BY <1>3, <1>4 DEF U16
<1>6. Int16(w) = n
  BY <1>1, <1>2, SMT DEF Int16
<1> HIDE DEF d
<1>7. ~LooksLikeString(d)
  BY <1>5 DEF LooksLikeString
<1>8. Scalar(d) = Number(Int16(U16(d, 1)))
  BY <1>5 DEF Scalar
<1>9. decodePropValue(d) = Number(n)
  BY <1>5, <1>6, <1>7, <1>8 DEF decodePropValue
<1> QED BY <1>9 DEF d

\* When the guess of a string takes bytes that Str then leaves.
LEMMA PanicOfValue ==
    ASSUME NEW d \in Seq(Byte)
    PROVE  decodePropValue(d) = Panic <=> Len(d) >= 4 /\ Len(d) = 2 * d[1]
<1>1. \A s : Text(s) # Panic
  BY DEF Text, Panic
<1>2. \A n : Number(n) # Panic
  BY DEF Number, Panic
<1>3. Hex(d) # Panic
  BY DEF Hex, Panic
<1>4. Scalar(d) # Panic
  BY <1>2, <1>3 DEF Scalar
<1>5. Len(d) \in Nat /\ (Len(d) >= 1 => d[1] \in Nat)
  <2>1. Len(d) >= 1 => 1 \in 1..Len(d)
    OBVIOUS
  <2>2. Len(d) >= 1 => d[1] \in Byte
    BY <2>1
  <2>3. Len(d) \in Nat /\ Byte \subseteq Nat
    BY DEF Byte
  <2> QED BY <2>2, <2>3
<1>6. CASE ~LooksLikeString(d)
  <2>1. decodePropValue(d) # Panic
    BY <1>4, <1>6 DEF decodePropValue
  <2>2. ASSUME Len(d) >= 4, Len(d) = 2 * d[1] PROVE FALSE
    BY <1>5, <1>6, <2>2 DEF LooksLikeString
  <2> QED BY <2>1, <2>2
<1>7. CASE LooksLikeString(d)
  <2>1. decodePropValue(d) = Panic <=> StrOverruns(d, 1)
    BY <1>1, <1>7 DEF decodePropValue
  <2>2. Len(d) >= 3 /\ d[1] >= 2 /\ d[1] \in Nat /\ (Len(d) = 2 * d[1] \/ Len(d) = 2 * d[1] + 1)
    BY <1>5, <1>7 DEF LooksLikeString
  <2>3. StrOverruns(d, 1) <=> Len(d) = 2 * d[1]
    BY <1>5, <2>2, SMT DEF StrOverruns
  <2> QED BY <1>5, <2>1, <2>2, <2>3
<1> QED BY <1>6, <1>7

\* The rune that a high and a low surrogate stand for.
RuneOfPair(h, l) == 65536 + (h - 55296) * 1024 + (l - 56320)

\* A rune is one unit that is no surrogate, or a high and a low one.
LEMMA UnitsOfRune ==
    ASSUME NEW r, IsRune(r)
    PROVE  \/ r \in Word /\ ~High(r) /\ ~Low(r) /\ Utf16OfRune(r) = <<r>>
           \/ \E h, l \in Word : /\ High(h) /\ Low(l) /\ ~High(l) /\ Utf16OfRune(r) = <<h, l>>
                                 /\ r = RuneOfPair(h, l)
<1>1. r \in Int /\ 0 <= r /\ r <= 1114111 /\ ~(55296 <= r /\ r <= 57343)
  BY SMT DEF IsRune
<1>2. CASE r < 65536
  <2>1. Utf16OfRune(r) = <<r>>
    BY <1>2, SMT DEF Utf16OfRune
  <2>2. r \in Word /\ ~High(r) /\ ~Low(r)
    BY <1>1, <1>2, WordRange, SurrogateRange, SMT
  <2> QED BY <2>1, <2>2
<1>3. CASE r >= 65536
  <2> DEFINE q == (r - 65536) \div 1024
             m == (r - 65536) % 1024
             h == 55296 + q
             l == 56320 + m
  <2>1. /\ q \in Int /\ 0 <= q /\ q < 1024 /\ m \in Int /\ 0 <= m /\ m < 1024
        /\ q * 1024 + m = r - 65536
    BY <1>1, <1>3, SMT
  <2>2. Utf16OfRune(r) = <<h, l>>
    BY <1>1, <1>3, SMT DEF Utf16OfRune
  <2> HIDE DEF q, m
  <2>3. h \in Word /\ l \in Word /\ High(h) /\ Low(l) /\ ~High(l)
    BY <2>1, WordRange, SurrogateRange, SMT
  <2>4. r = RuneOfPair(h, l)
    BY <1>1, <2>1, SMT DEF RuneOfPair
  <2> HIDE DEF h, l
  <2> QED BY <2>2, <2>3, <2>4, SMT
<1> QED BY <1>1, <1>2, <1>3, SMT

\* The pieces that the units of u contribute.
Pieces(u) == [i \in DOMAIN u |-> IF Paired(u, i - 1) THEN <<>> ELSE <<RuneAt(u, i)>>]
\* No high surrogate waits for a low one.
Closed(u) == u \in Seq(Word) /\ (u # <<>> => ~High(u[Len(u)]))

\* What utf16.Decode makes of a pair and of a unit that is no surrogate.
LEMMA RuneAtCases ==
    ASSUME NEW u, NEW i
    PROVE  /\ Paired(u, i) => RuneAt(u, i) = RuneOfPair(u[i], u[i + 1])
           /\ ~Paired(u, i) /\ ~High(u[i]) /\ ~Low(u[i]) => RuneAt(u, i) = u[i]
BY SMT DEF RuneAt, RuneOfPair

\* What it makes of a unit depends on this unit and the next one only.
LEMMA RuneAtSame ==
    ASSUME NEW u, NEW v, NEW i, Paired(u, i) <=> Paired(v, i), u[i] = v[i],
           Paired(u, i) => u[i + 1] = v[i + 1]
    PROVE  RuneAt(u, i) = RuneAt(v, i)
BY SMT DEF RuneAt

\* The pieces are sequences of runes.
LEMMA PiecesType ==
    ASSUME NEW u \in Seq(Word)
    PROVE  Pieces(u) \in Seq(Seq(Nat))
<1>1. ASSUME NEW i \in 1..Len(u) PROVE RuneAt(u, i) \in Nat
  <2>1. u[i] \in Int /\ 0 <= u[i]
    BY WordRange, SMT
  <2>2. Paired(u, i) => u[i + 1] \in Int /\ u[i + 1] >= 56320 /\ u[i] >= 55296
    BY SurrogateRange, SMT DEF Paired
  <2> QED BY <2>1, <2>2, SMT DEF RuneAt, Replacement
<1>2. ASSUME NEW i \in 1..Len(u) PROVE Pieces(u)[i] \in Seq(Nat)
  BY <1>1 DEF Pieces
<1>3. Pieces(u) = [i \in 1..Len(u) |-> Pieces(u)[i]]
  BY DEF Pieces
<1> DEFINE S == Seq(Nat)
<1> HIDE DEF S
<1>4. [i \in 1..Len(u) |-> Pieces(u)[i]] \in Seq(S)
  BY <1>2 DEF S
<1> QED BY <1>3, <1>4 DEF S

\* Decoding concatenates the pieces.
LEMMA DecodeIsFlatten == ASSUME NEW u PROVE Utf16Decode(u) = FlattenSeq(Pieces(u))
BY DEF Utf16Decode, Pieces

\* More units leave the pieces of closed ones alone.
LEMMA PiecesPrefix ==
    ASSUME NEW u, Closed(u), NEW v \in Seq(Word), Len(v) > Len(u),
           \A i \in 1..Len(u) : v[i] = u[i]
    PROVE  /\ \A i \in 1..Len(u) : Pieces(v)[i] = Pieces(u)[i]
           /\ ~Paired(v, Len(u))
<1> DEFINE n == Len(u)
<1>1. u \in Seq(Word) /\ n \in Nat /\ Len(v) \in Nat /\ DOMAIN u = 1..n /\ DOMAIN v = 1..Len(v)
  BY DEF Closed
<1>2. ASSUME NEW i \in 1..n PROVE Paired(v, i) <=> Paired(u, i)
  <2>1. CASE i < n
    <3>1. i + 1 \in 1..n
      BY <1>1, <2>1
    <3> QED BY <1>1, <2>1, <3>1 DEF Paired
  <2>2. CASE i = n
    <3>1. ~High(u[n])
      BY <1>1, <2>2 DEF Closed
    <3>2. v[n] = u[n]
      BY <2>2
    <3>3. ~Paired(v, i)
      BY <2>2, <3>1, <3>2 DEF Paired
    <3>4. ~Paired(u, i)
      BY <1>1, <2>2 DEF Paired
    <3>5. Paired(v, i) \in BOOLEAN /\ Paired(u, i) \in BOOLEAN
      BY DEF Paired
    <3> QED BY <3>3, <3>4, <3>5
  <2>3. i < n \/ i = n
    BY <1>1
  <2> QED BY <2>1, <2>2, <2>3
<1>3. ~Paired(u, 0) /\ ~Paired(v, 0)
  BY DEF Paired
<1>4. ~Paired(v, n)
  BY <1>1, <1>2, <1>3 DEF Paired
<1>5. ASSUME NEW i \in 1..n PROVE Pieces(v)[i] = Pieces(u)[i]
  <2>1. Paired(v, i - 1) <=> Paired(u, i - 1)
    <3>1. i = 1 \/ i - 1 \in 1..n
      BY <1>1
    <3> QED BY <1>2, <1>3, <3>1
  <2>2. RuneAt(v, i) = RuneAt(u, i)
    <3>1. Paired(u, i) => i + 1 \in 1..n
      BY <1>1 DEF Paired
    <3> QED BY <1>2, <3>1, RuneAtSame
  <2>3. i \in DOMAIN v /\ i \in DOMAIN u
    BY <1>1
  <2> QED BY <2>1, <2>2, <2>3 DEF Pieces
<1> QED BY <1>4, <1>5

\* There is one piece for each unit.
LEMMA PiecesLength ==
    ASSUME NEW u \in Seq(Word)
    PROVE  Pieces(u) \in Seq(Seq(Nat)) /\ Len(Pieces(u)) = Len(u) /\ DOMAIN Pieces(u) = 1..Len(u)
<1>1. Pieces(u) \in Seq(Seq(Nat))
  BY PiecesType
<1>2. Pieces(u) = [i \in 1..Len(u) |-> Pieces(u)[i]]
  BY DEF Pieces
<1> DEFINE p == Pieces(u)
<1> HIDE DEF p
<1>3. p = [i \in 1..Len(u) |-> p[i]]
  BY <1>2 DEF p
<1>4. Len(p) = Len(u) /\ DOMAIN p = 1..Len(u)
  BY <1>3
<1> QED BY <1>1, <1>4 DEF p

\* Decoding one more unit that is no surrogate.
LEMMA DecodeUnit ==
    ASSUME NEW u, Closed(u), NEW w \in Word, ~High(w), ~Low(w)
    PROVE  Utf16Decode(u \o <<w>>) = Utf16Decode(u) \o <<w>> /\ Closed(u \o <<w>>)
<1> DEFINE v == u \o <<w>>
           n == Len(u)
<1>1. u \in Seq(Word) /\ n \in Nat
  BY DEF Closed
<1>2. v \in Seq(Word) /\ Len(v) = n + 1 /\ v[n + 1] = w /\ \A i \in 1..n : v[i] = u[i]
  BY <1>1
<1> HIDE DEF v
<1>3. Closed(v)
  BY <1>1, <1>2 DEF Closed
<1>4. (\A i \in 1..n : Pieces(v)[i] = Pieces(u)[i]) /\ ~Paired(v, n)
  BY <1>1, <1>2, PiecesPrefix
<1>5. Pieces(v)[n + 1] = <<w>>
  <2>1. n + 1 \in DOMAIN v /\ (n + 1) - 1 = n
    BY <1>1, <1>2
  <2>2. RuneAt(v, n + 1) = w
    <3>1. ~Paired(v, n + 1)
      BY <1>1, <1>2 DEF Paired
    <3> QED BY <1>2, <3>1, RuneAtCases
  <2> QED BY <1>4, <2>1, <2>2 DEF Pieces
<1>6. FlattenSeq(Pieces(v)) = FlattenSeq(Pieces(u)) \o <<w>>
  <2>1. Pieces(u) \in Seq(Seq(Nat)) /\ Len(Pieces(u)) = n
    BY <1>1, PiecesLength
  <2>2. Pieces(v) \in Seq(Seq(Nat)) /\ Len(Pieces(v)) = n + 1
    BY <1>2, PiecesLength
  <2> QED BY <1>4, <1>5, <2>1, <2>2, FlattenExtend
<1> QED BY <1>3, <1>6, DecodeIsFlatten DEF v

\* Decoding one more pair of surrogates.
LEMMA DecodePair ==
    ASSUME NEW u, Closed(u), NEW h \in Word, NEW l \in Word, High(h), Low(l), ~High(l)
    PROVE  Utf16Decode(u \o <<h, l>>) = Utf16Decode(u) \o <<RuneOfPair(h, l)>> /\ Closed(u \o <<h, l>>)
<1> DEFINE r == RuneOfPair(h, l)
           v == u \o <<h, l>>
           n == Len(u)
<1>1. u \in Seq(Word) /\ n \in Nat
  BY DEF Closed
<1>2. /\ v \in Seq(Word) /\ Len(v) = n + 2 /\ v[n + 1] = h /\ v[n + 2] = l
      /\ \A i \in 1..n : v[i] = u[i]
  BY <1>1
<1> HIDE DEF v
<1>3. Closed(v)
  BY <1>1, <1>2 DEF Closed
<1>4. (\A i \in 1..n : Pieces(v)[i] = Pieces(u)[i]) /\ ~Paired(v, n)
  BY <1>1, <1>2, PiecesPrefix
<1>5. Paired(v, n + 1) /\ (n + 1) + 1 = n + 2
  BY <1>1, <1>2 DEF Paired
<1>6. Pieces(v)[n + 1] = <<r>>
  <2>1. n + 1 \in DOMAIN v /\ (n + 1) - 1 = n
    BY <1>1, <1>2
  <2>2. RuneAt(v, n + 1) = r
    BY <1>2, <1>5, RuneAtCases
  <2> QED BY <1>4, <2>1, <2>2 DEF Pieces
<1>7. Pieces(v)[n + 2] = <<>>
  <2>1. n + 2 \in DOMAIN v /\ (n + 2) - 1 = n + 1
    BY <1>1, <1>2
  <2> QED BY <1>5, <2>1 DEF Pieces
<1>8. FlattenSeq(Pieces(v)) = FlattenSeq(Pieces(u)) \o <<r>>
  <2> DEFINE p == Pieces(v)
             q == Pieces(u)
             S == Seq(Nat)
             m == SubSeq(p, 1, n + 1)
  <2>1. q \in Seq(S) /\ Len(q) = n
    BY <1>1, PiecesLength
  <2>2. p \in Seq(S) /\ Len(p) = n + 2
    BY <1>2, PiecesLength
  <2>3. /\ \A i \in 1..n : p[i] = q[i]
        /\ p[n + 1] = <<r>> /\ p[n + 2] = <<>>
    BY <1>4, <1>6, <1>7
  <2> HIDE DEF p, q, S
  <2>4. /\ m \in Seq(S) /\ Len(m) = n + 1 /\ \A i \in 1..(n + 1) : m[i] = p[i]
    BY <1>1, <2>2
  <2> HIDE DEF m
  <2>5. FlattenSeq(m) = FlattenSeq(q) \o <<r>> /\ <<r>> \in Seq(Nat)
    <3>1. m[n + 1] = <<r>> /\ \A i \in 1..n : m[i] = q[i]
      BY <1>1, <2>3, <2>4
    <3> QED BY <2>1, <2>4, <3>1, FlattenExtend DEF S
  <2>6. FlattenSeq(p) = FlattenSeq(m) \o <<>>
    <3>1. Len(p) = Len(m) + 1 /\ p[Len(p)] = <<>> /\ \A i \in 1..Len(m) : p[i] = m[i]
      BY <1>1, <2>2, <2>3, <2>4
    <3> QED BY <2>2, <2>4, <3>1, FlattenExtend DEF S
  <2>7. FlattenSeq(q) \in Seq(Nat)
    BY <2>1, FlattenType DEF S
  <2>8. (FlattenSeq(q) \o <<r>>) \o <<>> = FlattenSeq(q) \o <<r>>
    BY <2>5, <2>7
  <2> QED BY <2>5, <2>6, <2>8 DEF p, q
<1> QED BY <1>3, <1>8, DecodeIsFlatten DEF v

\* Encoding one more rune.
LEMMA EncodeStep ==
    ASSUME NEW s, IsText(s), s # <<>>
    PROVE  LET p == SubSeq(s, 1, Len(s) - 1) IN
           /\ IsText(p) /\ Len(p) = Len(s) - 1 /\ IsRune(s[Len(s)]) /\ s = p \o <<s[Len(s)]>>
           /\ Utf16Encode(s) = Utf16Encode(p) \o Utf16OfRune(s[Len(s)])
<1> DEFINE n == Len(s) - 1
           p == SubSeq(s, 1, n)
           r == s[Len(s)]
           E(t) == [i \in DOMAIN t |-> Utf16OfRune(t[i])]
<1>1. s \in Seq(Nat) /\ n \in Nat /\ Len(s) = n + 1 /\ DOMAIN s = 1..(n + 1)
  BY DEF IsText
<1>2. p \in Seq(Nat) /\ Len(p) = n /\ (\A i \in 1..n : p[i] = s[i]) /\ DOMAIN p = 1..n
  BY <1>1
<1>3. IsRune(r) /\ IsText(p)
  BY <1>1, <1>2 DEF IsText
<1>4. s = p \o <<r>>
  <2> HIDE DEF p
  <2>1. n + 1 \in 1..Len(s) /\ s[n + 1] = r
    BY <1>1
  <2>2. r \in Nat
    BY <1>1, <2>1
  <2>3. s = Append(p, r)
    BY <1>1, <1>2, AppendIs
  <2> HIDE DEF r
  <2>4. Append(p, r) = p \o <<r>>
    BY <1>2, <2>2
  <2> QED BY <2>3, <2>4
<1>5. ASSUME NEW q, IsRune(q) PROVE Utf16OfRune(q) \in Seq(Word)
  <2>1. \A h, l \in Word : <<h>> \in Seq(Word) /\ <<h, l>> \in Seq(Word)
    OBVIOUS
  <2>2. CASE q \in Word /\ Utf16OfRune(q) = <<q>>
    BY <2>1, <2>2
  <2>3. CASE \E h, l \in Word : Utf16OfRune(q) = <<h, l>>
    BY <2>1, <2>3
  <2> QED BY <1>5, <2>2, <2>3, UnitsOfRune
<1> DEFINE S == Seq(Word)
<1>6. ASSUME NEW t, IsText(t) PROVE E(t) \in Seq(S) /\ Len(E(t)) = Len(t)
  <2>1. Len(t) \in Nat /\ DOMAIN t = 1..Len(t)
    BY <1>6 DEF IsText
  <2>2. \A i \in 1..Len(t) : Utf16OfRune(t[i]) \in S
    BY <1>5, <1>6, <2>1 DEF IsText
  <2> HIDE DEF p, S
  <2> QED BY <2>1, <2>2
<1>7. FlattenSeq(E(s)) = FlattenSeq(E(p)) \o Utf16OfRune(r)
  <2> DEFINE a == E(s)
             b == E(p)
  <2>1. a \in Seq(Seq(Word)) /\ Len(a) = n + 1 /\ b \in Seq(Seq(Word)) /\ Len(b) = n
    BY <1>1, <1>2, <1>3, <1>6
  <2>2. a[n + 1] = Utf16OfRune(r) /\ \A i \in 1..n : a[i] = b[i]
    BY <1>1, <1>2
  <2> HIDE DEF a, b
  <2>3. FlattenSeq(a) = FlattenSeq(b) \o Utf16OfRune(r)
    BY <1>1, <2>1, <2>2, FlattenExtend
  <2> QED BY <2>3 DEF a, b
<1> QED BY <1>1, <1>2, <1>3, <1>4, <1>7 DEF Utf16Encode

\* utf16.Encode, then utf16.Decode: every text comes back.
LEMMA TextRoundTrip ==
    ASSUME NEW s, IsText(s)
    PROVE  Closed(Utf16Encode(s)) /\ Utf16Decode(Utf16Encode(s)) = s
<1> DEFINE Good(t) == Closed(Utf16Encode(t)) /\ Utf16Decode(Utf16Encode(t)) = t
           T == {n \in Nat : \A t : IsText(t) /\ Len(t) = n => Good(t)}
<1>1. ASSUME NEW t, IsText(t), Len(t) = 0 PROVE Good(t)
  <2>1. t = <<>>
    BY <1>1 DEF IsText
  <2>2. Utf16Encode(t) = <<>>
    <3>1. [i \in DOMAIN t |-> Utf16OfRune(t[i])] = <<>>
      BY <2>1
    <3> QED BY <3>1, FlattenEmpty DEF Utf16Encode
  <2>3. Utf16Decode(<<>>) = <<>>
    <3>1. Pieces(<<>>) = <<>>
      BY DEF Pieces
    <3> QED BY <3>1, FlattenEmpty, DecodeIsFlatten
  <2>4. Closed(<<>>)
    BY DEF Closed
  <2> QED BY <2>1, <2>2, <2>3, <2>4
<1>2. ASSUME NEW n \in Nat, n \in T, NEW t, IsText(t), Len(t) = n + 1 PROVE Good(t)
  <2> DEFINE p == SubSeq(t, 1, Len(t) - 1)
             r == t[Len(t)]
             u == Utf16Encode(p)
  <2>1. t # <<>>
    BY <1>2
  <2>2. /\ IsText(p) /\ Len(p) = Len(t) - 1 /\ IsRune(r) /\ t = p \o <<r>>
        /\ Utf16Encode(t) = u \o Utf16OfRune(r)
    BY <1>2, <2>1, EncodeStep
  <2>3. Closed(u) /\ Utf16Decode(u) = p
    <3> HIDE DEF p
    <3> QED BY <1>2, <2>2
  <2> HIDE DEF u, p, r
  <2>4. CASE r \in Word /\ ~High(r) /\ ~Low(r) /\ Utf16OfRune(r) = <<r>>
    <3>1. Utf16Decode(u \o <<r>>) = Utf16Decode(u) \o <<r>> /\ Closed(u \o <<r>>)
      BY <2>3, <2>4, DecodeUnit
    <3>2. Utf16Encode(t) = u \o <<r>> /\ Utf16Decode(u) \o <<r>> = t
      BY <2>2, <2>3, <2>4
    <3> QED BY <3>1, <3>2
  <2>5. CASE \E h, l \in Word : /\ High(h) /\ Low(l) /\ ~High(l) /\ Utf16OfRune(r) = <<h, l>>
                                /\ r = RuneOfPair(h, l)
    <3>1. PICK h \in Word, l \in Word : /\ High(h) /\ Low(l) /\ ~High(l) /\ Utf16OfRune(r) = <<h, l>>
                                         /\ r = RuneOfPair(h, l)
      BY <2>5
    <3>2. Utf16Decode(u \o <<h, l>>) = Utf16Decode(u) \o <<r>> /\ Closed(u \o <<h, l>>)
      BY <2>3, <3>1, DecodePair
    <3>3. Utf16Encode(t) = u \o <<h, l>> /\ Utf16Decode(u) \o <<r>> = t
      BY <2>2, <2>3, <3>1
    <3> QED BY <3>2, <3>3
  <2> QED BY <2>2, <2>4, <2>5, UnitsOfRune
<1>3. 0 \in T /\ \A n \in Nat : n \in T => n + 1 \in T
  <2> HIDE DEF Good
  <2> QED BY <1>1, <1>2
<1>4. Nat \subseteq T
  <2> HIDE DEF T
  <2> QED BY <1>3, Induction
<1>5. Len(s) \in Nat
  BY DEF IsText
<1> QED
  <2> HIDE DEF Good
  <2>1. Good(s)
    BY <1>4, <1>5
  <2> QED BY <2>1 DEF Good

-----------------------------------------------------------------------------
(***************************************************************************)
(* Strings.                                                                *)
(***************************************************************************)
\* The units of a text and how many there are.
LEMMA TextUnits ==
    ASSUME NEW s, IsText(s)
    PROVE  LET u == Utf16Encode(s) IN
           /\ u \in Seq(Word) /\ Len(u) \in Nat /\ DOMAIN u = 1..Len(u)
           /\ Len(u) = 0 <=> s = <<>>
<1> DEFINE u == Utf16Encode(s)
<1>1. u \in Seq(Word) /\ Utf16Decode(u) = s
  BY TextRoundTrip DEF Closed
<1>2. Utf16Decode(<<>>) = <<>>
  <2>1. Pieces(<<>>) = <<>>
    BY DEF Pieces
  <2> QED BY <2>1, FlattenEmpty, DecodeIsFlatten
<1>3. s = <<>> => u = <<>>
  <2>1. SUFFICES ASSUME s = <<>> PROVE u = <<>>
    OBVIOUS
  <2>2. [i \in DOMAIN s |-> Utf16OfRune(s[i])] = <<>>
    BY <2>1
  <2> QED BY <2>2, FlattenEmpty DEF Utf16Encode
<1> HIDE DEF u
<1>4. Len(u) \in Nat /\ DOMAIN u = 1..Len(u) /\ (Len(u) = 0 <=> u = <<>>)
  BY <1>1
<1> QED BY <1>1, <1>2, <1>3, <1>4 DEF u

\* The bytes of a packed string: count, units, terminator.
LEMMA PackUnitsAt ==
    ASSUME NEW u \in Seq(Word)
    PROVE  LET q == PackUnits(u) IN
           /\ Len(q) = 3 + 2 * Len(u) /\ DOMAIN q = 1..(3 + 2 * Len(u)) /\ q[1] = (Len(u) + 1) % 256
           /\ q[2 + 2 * Len(u)] = 0 /\ q[3 + 2 * Len(u)] = 0
           /\ \A j \in 1..Len(u) : q[2 * j] + 256 * q[2 * j + 1] = u[j]
           /\ q \in Seq(Byte)
<1> DEFINE n == Len(u)
           q == PackUnits(u)
           B(i) == IF i = 1 THEN (Len(u) + 1) % 256 ELSE IF i > 1 + 2 * Len(u) THEN 0
                   ELSE PackU16(u[i \div 2])[1 + (i % 2)]
<1>1. n \in Nat
  OBVIOUS
<1>2. q = [i \in 1..(3 + 2 * n) |-> B(i)]
  BY DEF PackUnits
<1>3. Len(q) = 3 + 2 * n /\ DOMAIN q = 1..(3 + 2 * n) /\ \A i \in 1..(3 + 2 * n) : q[i] = B(i)
  <2> HIDE DEF q, B
  <2> QED BY <1>1, <1>2
<1>4. q[1] = (n + 1) % 256 /\ q[2 + 2 * n] = 0 /\ q[3 + 2 * n] = 0
  BY <1>1, <1>3
<1>5. ASSUME NEW j \in 1..n
      PROVE  q[2 * j] = u[j] % 256 /\ q[2 * j + 1] = u[j] \div 256
  <2>1. /\ 2 * j \in 1..(3 + 2 * n) /\ 2 * j # 1 /\ ~(2 * j > 1 + 2 * n)
        /\ (2 * j) \div 2 = j /\ (2 * j) % 2 = 0
    BY <1>1
  <2>2. /\ 2 * j + 1 \in 1..(3 + 2 * n) /\ 2 * j + 1 # 1 /\ ~(2 * j + 1 > 1 + 2 * n)
        /\ (2 * j + 1) \div 2 = j /\ (2 * j + 1) % 2 = 1
    BY <1>1
  <2>3. q[2 * j] = PackU16(u[j])[1 + 0] /\ q[2 * j + 1] = PackU16(u[j])[1 + 1]
    <3> HIDE DEF q, n
    <3>1. q[2 * j] = B(2 * j) /\ q[2 * j + 1] = B(2 * j + 1)
      BY <1>3, <2>1, <2>2
    <3> QED BY <3>1, <2>1, <2>2 DEF n
  <2> QED BY <2>3 DEF PackU16
<1>6. ASSUME NEW j \in 1..n
      PROVE  /\ q[2 * j] + 256 * q[2 * j + 1] = u[j]
             /\ q[2 * j] \in Byte /\ q[2 * j + 1] \in Byte
  <2>1. u[j] \in Int /\ 0 <= u[j] /\ u[j] <= 65535
    BY WordRange, SMT
  <2> DEFINE w == u[j]
  <2> HIDE DEF w
  <2>2. /\ (w % 256) + 256 * (w \div 256) = w
        /\ w % 256 \in Byte /\ w \div 256 \in Byte
    <3>1. w \in Int /\ 0 <= w /\ w <= 65535
      BY <2>1 DEF w
    <3> QED BY <3>1, SMT DEF Byte
  <2>3. q[2 * j] = w % 256 /\ q[2 * j + 1] = w \div 256
    BY <1>5 DEF w
  <2> HIDE DEF q
  <2> QED BY <2>2, <2>3 DEF w
<1>7. ASSUME NEW i \in 1..(3 + 2 * n) PROVE q[i] \in Byte
  <2> HIDE DEF q, n
  <2>1. CASE i = 1
    BY <2>1, <1>1, <1>4 DEF Byte
  <2>2. CASE i > 1 + 2 * n
    <3>1. i = 2 + 2 * n \/ i = 3 + 2 * n
      BY <2>2, <1>1
    <3> QED BY <3>1, <1>4 DEF Byte
  <2>3. CASE i > 1 /\ ~(i > 1 + 2 * n)
    <3>1. i \div 2 \in 1..n /\ (i = 2 * (i \div 2) \/ i = 2 * (i \div 2) + 1)
      BY <2>3, <1>1
    <3> QED BY <3>1, <1>6
  <2> QED BY <2>1, <2>2, <2>3, <1>1
<1>8. q \in Seq(Byte)
  <2> HIDE DEF q
  <2>1. q = [i \in 1..(3 + 2 * n) |-> q[i]]
    BY <1>2, <1>3
  <2> DEFINE m == 3 + 2 * n
  <2>2. m \in Nat
    BY <1>1
  <2> HIDE DEF m
  <2>3. [i \in 1..m |-> q[i]] \in Seq(Byte)
    BY <2>2, <1>7 DEF m
  <2> QED BY <2>1, <2>3 DEF m
<1> QED BY <1>3, <1>4, <1>6, <1>8

\* The length and the count byte of a packed text.
LEMMA PackedText ==
    ASSUME NEW s, IsText(s)
    PROVE  LET q == PackPTPString(s)
               n == Len(Utf16Encode(s)) IN
           /\ q \in Seq(Byte) /\ Len(q) = IF n = 0 THEN 1 ELSE 3 + 2 * n
           /\ q[1] = IF n = 0 THEN 0 ELSE (n + 1) % 256
<1> DEFINE u == Utf16Encode(s)
<1>1. u \in Seq(Word) /\ Len(u) \in Nat /\ (Len(u) = 0 <=> s = <<>>)
  BY TextUnits
<1> HIDE DEF u
<1>2. CASE s = <<>>
  BY <1>1, <1>2 DEF PackPTPString, Byte, u
<1>3. CASE s # <<>>
  <2>1. PackPTPString(s) = PackUnits(u)
    BY <1>3 DEF PackPTPString, u
  <2> QED BY <1>1, <1>3, <2>1, PackUnitsAt DEF u
<1> QED BY <1>2, <1>3

\* A string that begins at p.
LEMMA StringAt ==
    ASSUME NEW s, IsText(s), Len(Utf16Encode(s)) < 255, NEW d, NEW p \in Int,
           \A i \in 1..Len(PackPTPString(s)) : d[p - 1 + i] = PackPTPString(s)[i]
    PROVE  Str(d, p) = s /\ 1 + 2 * d[p] = Len(PackPTPString(s)) /\ d[p] \in Nat
<1> DEFINE u == Utf16Encode(s)
           n == Len(u)
           q == PackPTPString(s)
<1>1. u \in Seq(Word) /\ n \in Nat /\ (n = 0 <=> s = <<>>) /\ Utf16Decode(u) = s /\ DOMAIN u = 1..n
  BY TextUnits, TextRoundTrip
<1>2. CASE s = <<>>
  <2>1. q = <<0>>
    BY <1>2 DEF PackPTPString
  <2>2. d[p] = 0 /\ Len(q) = 1
    <3> HIDE DEF q
    <3>1. 1 \in 1..Len(q) /\ p - 1 + 1 = p /\ Len(q) = 1 /\ q[1] = 0
      BY <2>1
    <3> QED BY <3>1 DEF q
  <2>3. Units(d, p) = <<>>
    BY <2>2 DEF Units
  <2>4. StripNull(Units(d, p)) = <<>>
    BY <2>3 DEF StripNull
  <2>5. u = <<>>
    BY <1>1, <1>2
  <2> QED BY <1>1, <2>2, <2>4, <2>5 DEF Str
<1>3. CASE s # <<>>
  <2>1. q = PackUnits(u)
    BY <1>3 DEF PackPTPString
  <2>2. /\ Len(q) = 3 + 2 * n /\ q[1] = (n + 1) % 256 /\ q[2 + 2 * n] = 0 /\ q[3 + 2 * n] = 0
        /\ \A j \in 1..n : q[2 * j] + 256 * q[2 * j + 1] = u[j]
    BY <1>1, <2>1, PackUnitsAt
  <2> HIDE DEF u, n, q
  <2>3. \A i \in 1..(3 + 2 * n) : d[p - 1 + i] = q[i]
    BY <2>2 DEF q
  <2>4. d[p] = n + 1
    <3>1. 1 \in 1..(3 + 2 * n) /\ p - 1 + 1 = p /\ (n + 1) % 256 = n + 1
      BY <1>1 DEF n, u
    <3> QED BY <2>2, <2>3, <3>1
  <2>5. ASSUME NEW j \in 1..(n + 1)
        PROVE  U16(d, p + 2 * j - 1) = IF j = n + 1 THEN 0 ELSE u[j]
    <3>1. /\ 2 * j \in 1..(3 + 2 * n) /\ 2 * j + 1 \in 1..(3 + 2 * n)
          /\ p + 2 * j - 1 = p - 1 + (2 * j) /\ (p + 2 * j - 1) + 1 = p - 1 + (2 * j + 1)
      BY <1>1
    <3>2. U16(d, p + 2 * j - 1) = q[2 * j] + 256 * q[2 * j + 1]
      BY <2>3, <3>1 DEF U16
    <3>3. CASE j = n + 1
      <4>1. q[2 * j] = 0 /\ q[2 * j + 1] = 0
        <5>1. 2 * j = 2 + 2 * n /\ 2 * j + 1 = 3 + 2 * n
          BY <1>1, <3>3
        <5> QED BY <5>1, <2>2
      <4> QED BY <3>2, <3>3, <4>1
    <3>4. CASE j # n + 1
      <4>1. j \in 1..n
        BY <1>1, <3>4
      <4> QED BY <2>2, <3>2, <3>4, <4>1
    <3> QED BY <3>3, <3>4
  <2> DEFINE v == Units(d, p)
  <2>6. v = [j \in 1..(n + 1) |-> IF j = n + 1 THEN 0 ELSE u[j]]
    <3>1. v = [j \in 1..(n + 1) |-> U16(d, p + 2 * j - 1)]
      BY <2>4 DEF Units
    <3> HIDE DEF v
    <3> QED BY <2>5, <3>1
  <2>7. StripNull(v) = u
    <3> DEFINE m == n + 1
    <3>1. m \in Nat /\ m - 1 = n /\ \A j \in 1..n : j \in 1..m /\ j # m
      BY <1>1
    <3>2. v = [j \in 1..m |-> IF j = m THEN 0 ELSE u[j]]
      BY <2>6
    <3> HIDE DEF v, m
    <3>3. Len(v) = m /\ v[m] = 0 /\ v # <<>>
      BY <3>1, <3>2, <1>1 DEF m
    <3>4. StripNull(v) = SubSeq(v, 1, n)
      BY <3>1, <3>3 DEF StripNull, Front
    <3>5. SubSeq(v, 1, n) = [j \in 1..n |-> v[j]]
      BY <1>1, <3>1, <3>3
    <3>6. u = [j \in 1..n |-> u[j]]
      BY <1>1 DEF n
    <3>7. [j \in 1..n |-> v[j]] = [j \in 1..n |-> u[j]]
      BY <3>1, <3>2
    <3> QED BY <3>4, <3>5, <3>6, <3>7
  <2>8. Str(d, p) = s
    <3> HIDE DEF v
    <3> QED BY <1>1, <2>7 DEF Str, v, u
  <2> QED BY <1>1, <2>2, <2>4, <2>8 DEF q
<1> QED BY <1>2, <1>3

\* PackPTPString, then decodePropValue: a name of 1 to 254 units comes back.
LEMMA NameRoundTrip ==
    ASSUME NEW s, IsText(s)
    PROVE  decodePropValue(PackPTPString(s)) = Text(s) <=> Len(Utf16Encode(s)) \in 1..254
<1> DEFINE n == Len(Utf16Encode(s))
           d == PackPTPString(s)
<1>1. n \in Nat /\ (n = 0 <=> s = <<>>)
  BY TextUnits
<1>2. Len(d) = (IF n = 0 THEN 1 ELSE 3 + 2 * n) /\ d[1] = IF n = 0 THEN 0 ELSE (n + 1) % 256
  BY PackedText
<1>3. \A i : Number(i) # Text(s)
  BY DEF Number, Text
<1>4. Hex(d) # Text(s)
  BY DEF Hex, Text
<1>5. n < 255 => Str(d, 1) = s
  <2>1. \A i \in 1..Len(d) : d[1 - 1 + i] = d[i]
    <3> HIDE DEF d
    <3>1. \A i \in 1..Len(d) : 1 - 1 + i = i
      OBVIOUS
    <3> QED BY <3>1
  <2> QED BY <2>1, StringAt
<1> HIDE DEF n, d
<1>6. CASE n = 0
  <2>1. ~LooksLikeString(d) /\ Scalar(d) = Number(d[1])
    BY <1>2, <1>6 DEF LooksLikeString, Scalar
  <2>2. decodePropValue(d) # Text(s)
    BY <1>3, <2>1 DEF decodePropValue
  <2> QED BY <1>6, <2>2 DEF n, d
<1>7. CASE n \in 1..254
  <2>1. d[1] = n + 1 /\ Len(d) = 3 + 2 * n
    BY <1>2, <1>7
  <2>2. LooksLikeString(d) /\ ~StrOverruns(d, 1)
    BY <1>7, <2>1 DEF LooksLikeString, StrOverruns
  <2>3. decodePropValue(d) = Text(s)
    BY <1>5, <1>7, <2>2 DEF decodePropValue
  <2> QED BY <1>7, <2>3 DEF n, d
<1>8. CASE n >= 255
  <2>1. d[1] \in Nat /\ d[1] <= n /\ Len(d) = 3 + 2 * n
    BY <1>1, <1>2, <1>8
  <2>2. ~LooksLikeString(d)
    BY <1>1, <2>1 DEF LooksLikeString
  <2>3. Scalar(d) = Hex(d)
    BY <1>1, <1>8, <2>1 DEF Scalar
  <2>4. decodePropValue(d) # Text(s)
    BY <1>4, <2>2, <2>3 DEF decodePropValue
  <2>5. n \notin 1..254
    BY <1>1, <1>8
  <2> QED BY <2>4, <2>5 DEF n, d
<1>9. n = 0 \/ n \in 1..254 \/ n >= 255
  BY <1>1
<1> QED BY <1>6, <1>7, <1>8, <1>9 DEF n, d

-----------------------------------------------------------------------------
(***************************************************************************)
(* Arrays, and the dataset of a DeviceInfo.                                *)
(***************************************************************************)
\* The bytes of a packed array: count and elements.
LEMMA PackArrayAt ==
    ASSUME NEW a \in Seq(Word), Len(a) < 65536
    PROVE  LET q == PackArray(a) IN
           /\ q \in Seq(Byte) /\ Len(q) = 4 + 2 * Len(a)
           /\ q[1] + 256 * q[2] = Len(a) /\ q[3] = 0 /\ q[4] = 0
           /\ \A j \in 1..Len(a) : q[3 + 2 * j] + 256 * q[4 + 2 * j] = a[j]
<1> DEFINE n == Len(a)
           q == PackArray(a)
           B(i) == IF i <= 2 THEN PackU16(Len(a))[i] ELSE IF i <= 4 THEN 0
                   ELSE PackU16(a[(i - 3) \div 2])[2 - (i % 2)]
<1>1. n \in Nat
  OBVIOUS
<1>2. q = [i \in 1..(4 + 2 * n) |-> B(i)]
  BY DEF PackArray
<1>3. Len(q) = 4 + 2 * n /\ \A i \in 1..(4 + 2 * n) : q[i] = B(i)
  <2> HIDE DEF q, B
  <2> QED BY <1>1, <1>2
<1>4. ASSUME NEW w \in Int, 0 <= w, w < 65536
      PROVE  /\ (w % 256) + 256 * (w \div 256) = w
             /\ w % 256 \in Byte /\ w \div 256 \in Byte
  BY <1>4, SMT DEF Byte
<1>5. q[1] = n % 256 /\ q[2] = n \div 256 /\ q[3] = 0 /\ q[4] = 0
  <2>1. 1 \in 1..(4 + 2 * n) /\ 2 \in 1..(4 + 2 * n) /\ 3 \in 1..(4 + 2 * n) /\ 4 \in 1..(4 + 2 * n)
    BY <1>1
  <2>2. q[1] = B(1) /\ q[2] = B(2) /\ q[3] = B(3) /\ q[4] = B(4)
    <3> HIDE DEF q, B, n
    <3> QED BY <1>3, <2>1
  <2>3. PackU16(n) = <<n % 256, n \div 256>>
    BY DEF PackU16
  <2> HIDE DEF q
  <2>4. B(1) = PackU16(n)[1] /\ B(2) = PackU16(n)[2] /\ B(3) = 0 /\ B(4) = 0
    OBVIOUS
  <2> QED BY <2>2, <2>3, <2>4
<1>6. n < 65536
  BY SMT
<1>7. ASSUME NEW j \in 1..n
      PROVE  q[3 + 2 * j] = a[j] % 256 /\ q[4 + 2 * j] = a[j] \div 256
  <2>1. /\ 3 + 2 * j \in 1..(4 + 2 * n) /\ ~(3 + 2 * j <= 2) /\ ~(3 + 2 * j <= 4)
        /\ ((3 + 2 * j) - 3) \div 2 = j /\ (3 + 2 * j) % 2 = 1
    BY <1>1
  <2>2. /\ 4 + 2 * j \in 1..(4 + 2 * n) /\ ~(4 + 2 * j <= 2) /\ ~(4 + 2 * j <= 4)
        /\ ((4 + 2 * j) - 3) \div 2 = j /\ (4 + 2 * j) % 2 = 0
    BY <1>1
  <2>3. q[3 + 2 * j] = PackU16(a[j])[2 - 1] /\ q[4 + 2 * j] = PackU16(a[j])[2 - 0]
    <3> HIDE DEF q, n
    <3>1. q[3 + 2 * j] = B(3 + 2 * j) /\ q[4 + 2 * j] = B(4 + 2 * j)
      BY <1>3, <2>1, <2>2
    <3> QED BY <3>1, <2>1, <2>2 DEF n
  <2> QED BY <2>3 DEF PackU16
<1>8. ASSUME NEW j \in 1..n
      PROVE  /\ q[3 + 2 * j] + 256 * q[4 + 2 * j] = a[j]
             /\ q[3 + 2 * j] \in Byte /\ q[4 + 2 * j] \in Byte
  <2> DEFINE w == a[j]
  <2>1. w \in Int /\ 0 <= w /\ w < 65536
    BY WordRange, SMT
  <2>2. q[3 + 2 * j] = w % 256 /\ q[4 + 2 * j] = w \div 256
    BY <1>7
  <2> HIDE DEF q, w
  <2> QED BY <1>4, <2>1, <2>2 DEF w
<1>9. q[1] + 256 * q[2] = n /\ q[1] \in Byte /\ q[2] \in Byte
  <2> HIDE DEF q, n
  <2> QED BY <1>1, <1>4, <1>5, <1>6
<1>10. ASSUME NEW i \in 1..(4 + 2 * n) PROVE q[i] \in Byte
  <2> HIDE DEF q, n
  <2>1. CASE i <= 2
    <3>1. i = 1 \/ i = 2
      BY <1>1, <2>1
    <3> QED BY <3>1, <1>9
  <2>2. CASE i = 3 \/ i = 4
    BY <2>2, <1>5 DEF Byte
  <2>3. CASE i > 4
    <3>1. (i - 3) \div 2 \in 1..n /\ (i = 3 + 2 * ((i - 3) \div 2) \/ i = 4 + 2 * ((i - 3) \div 2))
      BY <2>3, <1>1
    <3> QED BY <3>1, <1>8
  <2> QED BY <2>1, <2>2, <2>3, <1>1
<1>11. q \in Seq(Byte)
  <2> HIDE DEF q
  <2> DEFINE m == 4 + 2 * n
  <2>1. q = [i \in 1..m |-> q[i]] /\ m \in Nat
    BY <1>1, <1>2, <1>3
  <2> HIDE DEF m
  <2>2. [i \in 1..m |-> q[i]] \in Seq(Byte)
    BY <2>1, <1>10 DEF m
  <2> QED BY <2>1, <2>2 DEF m
<1> QED BY <1>3, <1>5, <1>8, <1>9, <1>11

\* The bytes of a field of that type.
Carries(seg, f) ==
    \/ f = "u16" /\ Len(seg) = 2
    \/ f = "u32" /\ Len(seg) = 4
    \/ f = "str" /\ \E s : IsText(s) /\ Len(Utf16Encode(s)) < 255 /\ seg = PackPTPString(s)
    \/ f = "array" /\ \E a \in Seq(Word) : Len(a) < 65536 /\ seg = PackArray(a)

\* The array that begins at p.
LEMMA ArrayAt ==
    ASSUME NEW a \in Seq(Word), Len(a) < 65536, NEW d, NEW p \in Int,
           \A i \in 1..Len(PackArray(a)) : d[p - 1 + i] = PackArray(a)[i]
    PROVE  U16Array(d, p) = a
<1> DEFINE q == PackArray(a)
           n == Len(a)
<1>1. /\ n \in Nat /\ Len(q) = 4 + 2 * n /\ q[1] + 256 * q[2] = n /\ q[3] = 0 /\ q[4] = 0
      /\ \A j \in 1..n : q[3 + 2 * j] + 256 * q[4 + 2 * j] = a[j]
  BY PackArrayAt
<1>2. \A i \in 1..(4 + 2 * n) : d[p - 1 + i] = q[i]
  BY <1>1
<1> HIDE DEF q
<1>3. ArrayLen(d, p) = n
  <2>1. d[p] = q[1] /\ d[p + 1] = q[2] /\ d[p + 2] = q[3] /\ d[(p + 2) + 1] = q[4]
    <3>1. 1 \in 1..(4 + 2 * n) /\ 2 \in 1..(4 + 2 * n) /\ 3 \in 1..(4 + 2 * n) /\ 4 \in 1..(4 + 2 * n)
      BY <1>1
    <3>2. p - 1 + 1 = p /\ p - 1 + 2 = p + 1 /\ p - 1 + 3 = p + 2 /\ p - 1 + 4 = (p + 2) + 1
      OBVIOUS
    <3> QED BY <1>2, <3>1, <3>2
  <2>2. U16(d, p) = n /\ U16(d, p + 2) = 0
    BY <1>1, <2>1 DEF U16
  <2> QED BY <1>1, <2>2, SMT DEF ArrayLen
<1>4. ASSUME NEW j \in 1..n PROVE U16(d, p + 2 + 2 * j) = a[j]
  <2>1. /\ 3 + 2 * j \in 1..(4 + 2 * n) /\ 4 + 2 * j \in 1..(4 + 2 * n)
        /\ p + 2 + 2 * j = p - 1 + (3 + 2 * j) /\ (p + 2 + 2 * j) + 1 = p - 1 + (4 + 2 * j)
    BY <1>1
  <2>2. U16(d, p + 2 + 2 * j) = q[3 + 2 * j] + 256 * q[4 + 2 * j]
    BY <1>2, <2>1 DEF U16
  <2> QED BY <1>1, <2>2
<1>5. U16Array(d, p) = [j \in 1..n |-> U16(d, p + 2 + 2 * j)]
  BY <1>3 DEF U16Array
<1>6. a = [j \in 1..n |-> a[j]]
  OBVIOUS
<1> HIDE DEF n
<1> QED BY <1>4, <1>5, <1>6

\* How many bytes a field takes in what is left of the dataset.
LEMMA FieldStep ==
    ASSUME NEW d \in Seq(Byte), NEW p \in 1..Len(d), NEW seg \in Seq(Byte), NEW f, Carries(seg, f),
           \A i \in 1..Len(seg) : p - 1 + i <= Len(d) => d[p - 1 + i] = seg[i]
    PROVE  /\ Len(seg) > 0
           /\ \/ FieldSize(d, p, f) = Len(seg)
              \/ FieldSize(d, p, f) = 4 /\ Len(seg) >= 4 /\ p + 3 > Len(d)
<1>1. CASE f = "u16" /\ Len(seg) = 2
  BY <1>1 DEF FieldSize
<1>2. CASE f = "u32" /\ Len(seg) = 4
  BY <1>2 DEF FieldSize
<1>3. CASE f = "str" /\ \E s : IsText(s) /\ Len(Utf16Encode(s)) < 255 /\ seg = PackPTPString(s)
  <2>1. PICK s : IsText(s) /\ Len(Utf16Encode(s)) < 255 /\ seg = PackPTPString(s)
    BY <1>3
  <2> DEFINE n == Len(Utf16Encode(s))
  <2>2. /\ n \in Nat /\ n < 255 /\ Len(seg) = (IF n = 0 THEN 1 ELSE 3 + 2 * n)
        /\ seg[1] = IF n = 0 THEN 0 ELSE (n + 1) % 256
    BY <2>1, PackedText, TextUnits
  <2> HIDE DEF n
  <2>3. Len(seg) = 1 + 2 * seg[1]
    BY <2>2
  <2>4. d[p] = seg[1]
    <3>1. 1 \in 1..Len(seg) /\ p - 1 + 1 = p
      BY <2>2
    <3> QED BY <3>1
  <2>5. FieldSize(d, p, f) = 1 + 2 * d[p]
    BY <1>3 DEF FieldSize
  <2> QED BY <2>2, <2>3, <2>4, <2>5
<1>4. CASE f = "array" /\ \E a \in Seq(Word) : Len(a) < 65536 /\ seg = PackArray(a)
  <2>1. PICK a \in Seq(Word) : Len(a) < 65536 /\ seg = PackArray(a)
    BY <1>4
  <2>2. /\ Len(a) \in Nat /\ Len(seg) = 4 + 2 * Len(a) /\ seg[1] + 256 * seg[2] = Len(a)
        /\ seg[3] = 0 /\ seg[4] = 0
    BY <2>1, PackArrayAt
  <2>3. FieldSize(d, p, f) = IF p + 3 > Len(d) THEN 4 ELSE 4 + 2 * ArrayLen(d, p)
    BY <1>4 DEF FieldSize
  <2>4. CASE p + 3 > Len(d)
    BY <2>2, <2>3, <2>4
  <2>5. CASE ~(p + 3 > Len(d))
    <3>1. d[p] = seg[1] /\ d[p + 1] = seg[2] /\ d[p + 2] = seg[3] /\ d[(p + 2) + 1] = seg[4]
      <4>1. 1 \in 1..Len(seg) /\ 2 \in 1..Len(seg) /\ 3 \in 1..Len(seg) /\ 4 \in 1..Len(seg)
        BY <2>2
      <4>2. /\ p - 1 + 1 = p /\ p - 1 + 2 = p + 1 /\ p - 1 + 3 = p + 2 /\ p - 1 + 4 = (p + 2) + 1
            /\ p <= Len(d) /\ p + 1 <= Len(d) /\ p + 2 <= Len(d) /\ (p + 2) + 1 <= Len(d)
        BY <2>5
      <4> QED BY <4>1, <4>2
    <3>2. ArrayLen(d, p) = Len(a)
      <4>1. U16(d, p) = Len(a) /\ U16(d, p + 2) = 0
        BY <2>2, <3>1 DEF U16
      <4> QED BY <2>2, <4>1, SMT DEF ArrayLen
    <3> QED BY <2>2, <2>3, <2>5, <3>2
  <2> QED BY <2>4, <2>5
<1> QED BY <1>1, <1>2, <1>3, <1>4 DEF Carries

\* Where each part of s begins in its concatenation w.
Places(e, s, w) ==
    /\ e[1] = 1 /\ e[Len(s) + 1] = Len(w) + 1
    /\ \A k \in 1..Len(s) :
          /\ e[k + 1] = e[k] + Len(s[k]) /\ e[k + 1] <= Len(w) + 1
          /\ \A i \in 1..Len(s[k]) : w[e[k] - 1 + i] = s[k][i]

\* Each part of s has a place in its concatenation.
LEMMA FlattenPlaces ==
    ASSUME NEW X, NEW s \in Seq(Seq(X)), s # <<>>
    PROVE  \E e \in [1..(Len(s) + 1) -> Nat \ {0}] : Places(e, s, FlattenSeq(s))
<1> DEFINE S == Seq(X)
           n == Len(s)
           w == FlattenSeq(s)
<1>1. n \in Nat /\ n >= 1 /\ s \in Seq(S)
  OBVIOUS
<1>2. PICK f \in [1..n -> Seq(X)] : Flattens(f, s) /\ w = f[n]
  BY FlattenAs
<1>3. ASSUME NEW k \in 1..n PROVE f[k] \in Seq(X) /\ s[k] \in Seq(X) /\ Len(f[k]) \in Nat /\ Len(s[k]) \in Nat
  <2>1. s[k] \in S
    <3> HIDE DEF S
    <3> QED BY <1>1
  <2>2. f[k] \in Seq(X)
    OBVIOUS
  <2> QED BY <2>1, <2>2
<1> DEFINE before(k) == IF k = 1 THEN <<>> ELSE f[k - 1]
           e == [k \in 1..(n + 1) |-> 1 + Len(before(k))]
<1>4. ASSUME NEW k \in 1..n PROVE f[k] = before(k) \o s[k] /\ before(k) \in Seq(X) /\ before(k + 1) = f[k]
  <2>1. CASE k = 1
    <3>1. f[1] = s[1] /\ s[1] \in Seq(X) /\ before(1) = <<>> /\ before(k + 1) = f[k]
      BY <1>1, <1>2, <1>3, <2>1 DEF Flattens
    <3>2. <<>> \o s[1] = s[1]
      BY <3>1
    <3> QED BY <2>1, <3>1, <3>2
  <2>2. CASE k # 1
    <3>1. k \in 2..n /\ k - 1 \in 1..n /\ k + 1 # 1 /\ (k + 1) - 1 = k
      BY <1>1, <2>2
    <3> QED BY <1>2, <1>3, <2>2, <3>1 DEF Flattens
  <2> QED BY <2>1, <2>2
<1> HIDE DEF before
<1>5. ASSUME NEW k \in 1..n
      PROVE  /\ Len(f[k]) = Len(before(k)) + Len(s[k]) /\ Len(before(k)) \in Nat
             /\ \A i \in 1..Len(before(k)) : f[k][i] = before(k)[i]
             /\ \A i \in 1..Len(s[k]) : f[k][Len(before(k)) + i] = s[k][i]
  <2> DEFINE a == before(k)
             b == s[k]
  <2>1. a \in Seq(X) /\ b \in Seq(X) /\ f[k] = a \o b
    BY <1>3, <1>4
  <2> HIDE DEF a, b
  <2>2. /\ Len(a \o b) = Len(a) + Len(b) /\ Len(a) \in Nat
        /\ \A i \in 1..Len(a) : (a \o b)[i] = a[i]
        /\ \A i \in 1..Len(b) : (a \o b)[Len(a) + i] = b[i]
    BY <2>1
  <2> QED BY <2>1, <2>2 DEF a, b
<1> HIDE DEF w
<1>6. \* what has been written stays
      ASSUME NEW k \in 1..n
      PROVE  Len(f[k]) <= Len(w) /\ \A i \in 1..Len(f[k]) : w[i] = f[k][i]
  <2> DEFINE Kept(m) == \A i \in 1..Len(f[k]) : f[m][i] = f[k][i]
             T == {m \in Nat : k + m <= n => Len(f[k]) <= Len(f[k + m]) /\ Kept(k + m)}
  <2>1. 0 \in T
    BY <1>3
  <2>2. ASSUME NEW m \in Nat, m \in T PROVE m + 1 \in T
    <3>1. SUFFICES ASSUME k + (m + 1) <= n
                   PROVE  Len(f[k]) <= Len(f[k + (m + 1)]) /\ Kept(k + (m + 1))
      OBVIOUS
    <3> DEFINE j == k + m
    <3>2. k + (m + 1) = j + 1 /\ j \in 1..n /\ j + 1 \in 1..n
      BY <1>1, <3>1
    <3>3. Len(f[k]) <= Len(f[j]) /\ Kept(j)
      BY <2>2, <3>2
    <3> HIDE DEF j
    <3>4. before(j + 1) = f[j]
      BY <1>4, <3>2
    <3>5. Len(f[j + 1]) = Len(f[j]) + Len(s[j + 1]) /\ \A i \in 1..Len(f[j]) : f[j + 1][i] = f[j][i]
      BY <1>5, <3>2, <3>4
    <3>6. Len(f[k]) <= Len(f[j + 1])
      BY <1>3, <3>2, <3>3, <3>5
    <3>7. Kept(j + 1)
      <4>1. \A i \in 1..Len(f[k]) : i \in 1..Len(f[j])
        BY <1>3, <3>2, <3>3
      <4> QED BY <3>3, <3>5, <4>1
    <3> HIDE DEF Kept
    <3> QED BY <3>2, <3>6, <3>7
  <2>3. Nat \subseteq T
    <3> HIDE DEF T
    <3> QED BY <2>1, <2>2, Induction
  <2>4. n - k \in Nat /\ k + (n - k) = n
    BY <1>1
  <2>5. n - k \in T
    BY <2>3, <2>4
  <2> QED BY <1>2, <2>4, <2>5
<1>7. ASSUME NEW k \in 1..(n + 1) PROVE before(k) \in Seq(X) /\ Len(before(k)) \in Nat
  <2>1. CASE k = 1
    BY <2>1 DEF before
  <2>2. CASE k # 1
    <3>1. k - 1 \in 1..n /\ (k - 1) + 1 = k
      BY <1>1, <2>2
    <3> QED BY <1>3, <1>4, <3>1
  <2> QED BY <2>1, <2>2
<1>8. e \in [1..(n + 1) -> Nat \ {0}]
  <2>1. ASSUME NEW k \in 1..(n + 1) PROVE 1 + Len(before(k)) \in Nat \ {0}
    BY <1>7
  <2> QED BY <2>1
<1>9. ASSUME NEW k \in 1..n
      PROVE  /\ e[k] = 1 + Len(before(k)) /\ e[k + 1] = 1 + Len(f[k])
             /\ e[k + 1] = e[k] + Len(s[k]) /\ e[k + 1] <= Len(w) + 1
             /\ \A i \in 1..Len(s[k]) : w[e[k] - 1 + i] = s[k][i]
  <2>1. k \in 1..(n + 1) /\ k + 1 \in 1..(n + 1)
    BY <1>1
  <2>2. e[k] = 1 + Len(before(k)) /\ e[k + 1] = 1 + Len(f[k])
    BY <1>4, <2>1
  <2>3. Len(w) \in Nat
    <3>1. n \in 1..n
      BY <1>1
    <3> QED BY <1>2, <1>3, <3>1 DEF w
  <2>4. e[k + 1] = e[k] + Len(s[k]) /\ e[k + 1] <= Len(w) + 1
    <3> HIDE DEF e
    <3>1. /\ Len(f[k]) = Len(before(k)) + Len(s[k]) /\ Len(before(k)) \in Nat
          /\ Len(f[k]) \in Nat /\ Len(s[k]) \in Nat /\ Len(f[k]) <= Len(w)
      BY <1>3, <1>5, <1>6
    <3> DEFINE a == Len(before(k))
               b == Len(f[k])
               c == Len(s[k])
               m == Len(w)
    <3>2. /\ e[k] = 1 + a /\ e[k + 1] = 1 + b /\ b = a + c /\ b <= m
          /\ a \in Nat /\ b \in Nat /\ c \in Nat /\ m \in Nat
      BY <2>2, <2>3, <3>1
    <3> HIDE DEF a, b, c, m
    <3>3. e[k + 1] = e[k] + c /\ e[k + 1] <= m + 1
      BY <3>2
    <3> QED BY <3>3 DEF c, m
  <2>5. ASSUME NEW i \in 1..Len(s[k]) PROVE w[e[k] - 1 + i] = s[k][i]
    <3> HIDE DEF e, before
    <3> DEFINE a == Len(before(k))
               b == Len(f[k])
               c == Len(s[k])
    <3>1. e[k] = 1 + a /\ a \in Nat /\ b \in Nat /\ c \in Nat /\ b = a + c /\ i \in 1..c
      BY <1>3, <1>5, <2>2
    <3> HIDE DEF a, b, c
    <3>2. e[k] - 1 + i = a + i /\ a + i \in 1..b
      BY <3>1
    <3>3. e[k] - 1 + i = Len(before(k)) + i /\ Len(before(k)) + i \in 1..Len(f[k])
      BY <3>2 DEF a, b
    <3> QED BY <1>5, <1>6, <3>3
  <2> QED BY <2>2, <2>4, <2>5
<1>10. e[1] = 1 /\ e[n + 1] = Len(w) + 1
  <2>1. 1 \in 1..(n + 1) /\ Len(before(1)) = 0
    BY <1>1 DEF before
  <2>2. n \in 1..n
    BY <1>1
  <2>3. e[n + 1] = 1 + Len(f[n])
    BY <1>9, <2>2
  <2>4. Len(f[n]) \in Nat
    BY <1>3, <2>2
  <2> QED BY <1>2, <2>1, <2>3, <2>4 DEF w
<1> HIDE DEF e
<1>11. Places(e, s, w)
  BY <1>9, <1>10 DEF Places
<1> QED BY <1>8, <1>11 DEF w

\* The fields begin one after the other.
LEMMA FieldAtSteps ==
    ASSUME NEW d \in Seq(Byte)
    PROVE  /\ FieldAt(d)[1] = 1
           /\ \A k \in 1..14 :
                 /\ FieldAt(d)[k] \in Nat \ {0}
                 /\ FieldAt(d)[k + 1] = IF FieldAt(d)[k] > Len(d) THEN Len(d) + 2
                                        ELSE FieldAt(d)[k] + FieldSize(d, FieldAt(d)[k], Fields[k])
<1> DEFINE X == Nat \ {0}
           step(k, p) == IF p > Len(d) THEN Len(d) + 2 ELSE p + FieldSize(d, p, Fields[k])
           F == [k \in 1..14 |-> [p \in X |-> step(k, p)]]
           fields(h) == [k \in 1..(Len(Fields) + 1) |->
                            IF k = 1 THEN 1
                            ELSE LET p == h[k - 1] IN
                                 IF p > Len(d) THEN Len(d) + 2 ELSE p + FieldSize(d, p, Fields[k - 1])]
           at == CHOOSE h : h = fields(h)
<1>1. /\ Len(Fields) = 14
      /\ \A k \in 1..14 : Fields[k] \in {"u16", "u32", "str", "array"}
  BY DEF Fields
<1>2. \A i \in 1..Len(d) : d[i] \in Nat
  <2>1. \A i \in 1..Len(d) : d[i] \in Byte
    OBVIOUS
  <2>2. Byte \subseteq Nat
    BY DEF Byte
  <2> QED BY <2>1, <2>2
<1>3. ASSUME NEW p \in X, p <= Len(d), NEW f \in {"u16", "u32", "str", "array"}
      PROVE  FieldSize(d, p, f) \in Nat
  <2>1. p \in 1..Len(d) /\ d[p] \in Nat
    BY <1>2, <1>3
  <2>2. CASE f = "array"
    <3>1. CASE p + 3 > Len(d)
      BY <2>2, <3>1 DEF FieldSize
    <3>2. CASE ~(p + 3 > Len(d))
      <4>1. p + 1 \in 1..Len(d) /\ p + 2 \in 1..Len(d) /\ (p + 2) + 1 \in 1..Len(d)
        BY <2>1, <3>2
      <4>2. U16(d, p) \in Nat /\ U16(d, p + 2) \in Nat
        BY <1>2, <2>1, <4>1 DEF U16
      <4>3. ArrayLen(d, p) \in Nat
        BY <4>2, SMT DEF ArrayLen
      <4> QED BY <2>2, <3>2, <4>3 DEF FieldSize
    <3> QED BY <3>1, <3>2
  <2>3. CASE f # "array"
    BY <1>3, <2>1, <2>3 DEF FieldSize
  <2> QED BY <2>2, <2>3
<1>4. ASSUME NEW k \in 1..14, NEW p \in X PROVE step(k, p) \in X
  <2>1. CASE p > Len(d)
    BY <2>1
  <2>2. CASE ~(p > Len(d))
    <3>1. FieldSize(d, p, Fields[k]) \in Nat
      <4>1. p <= Len(d) /\ Fields[k] \in {"u16", "u32", "str", "array"}
        BY <1>1, <2>2
      <4> QED BY <1>3, <4>1
    <3> QED BY <2>2, <3>1
  <2> QED BY <2>1, <2>2
<1> HIDE DEF step
<1>5. F \in [1..14 -> [X -> X]]
  <2> HIDE DEF X
  <2> QED BY <1>4
<1>6. PICK g \in [0..14 -> X] : Iterates(g, 14, 1, F)
  <2> HIDE DEF X, F
  <2>1. 1 \in X
    BY DEF X
  <2> QED BY <1>5, <2>1, Iteration
<1>7. g[0] = 1 /\ \A k \in 1..14 : g[k - 1] \in X /\ g[k] = step(k, g[k - 1])
  <2>1. ASSUME NEW k \in 1..14 PROVE g[k - 1] \in X /\ g[k] = step(k, g[k - 1])
    <3>1. k - 1 \in 0..14
      OBVIOUS
    <3> HIDE DEF X
    <3>2. g[k - 1] \in X
      BY <3>1
    <3>3. g[k] = F[k][g[k - 1]]
      BY <1>6 DEF Iterates
    <3> QED BY <3>2, <3>3
  <2> QED BY <1>6, <2>1 DEF Iterates
<1> DEFINE h == [k \in 1..15 |-> g[k - 1]]
<1>8. h = fields(h)
  <2> DEFINE Y(k) == IF k = 1 THEN 1
                     ELSE LET p == h[k - 1] IN
                          IF p > Len(d) THEN Len(d) + 2 ELSE p + FieldSize(d, p, Fields[k - 1])
  <2>1. ASSUME NEW k \in 1..15 PROVE g[k - 1] = Y(k)
    <3>1. CASE k = 1
      BY <1>7, <3>1
    <3>2. CASE k # 1
      <4>1. k - 1 \in 1..14 /\ k - 1 \in 1..15
        BY <3>2
      <4>2. h[k - 1] = g[(k - 1) - 1]
        BY <4>1
      <4>3. g[k - 1] = step(k - 1, h[k - 1])
        <5> HIDE DEF h
        <5> QED BY <1>7, <4>1, <4>2
      <4> HIDE DEF h
      <4> QED BY <3>2, <4>3 DEF step
    <3> QED BY <3>1, <3>2
  <2>2. Len(Fields) + 1 = 15
    BY <1>1
  <2>3. h = [k \in 1..15 |-> g[k - 1]]
    OBVIOUS
  <2> HIDE DEF h
  <2>4. fields(h) = [k \in 1..15 |-> Y(k)]
    BY <2>2
  <2> HIDE DEF fields, Y
  <2> QED BY <2>1, <2>3, <2>4
<1>9. at = fields(at)
  <2> HIDE DEF fields, h
  <2> QED BY <1>8
<1>10. FieldAt(d) = at
  BY DEF FieldAt
<1> HIDE DEF at
<1>11. /\ at[1] = 1
       /\ \A k \in 1..14 : at[k + 1] = step(k, at[k])
  <2>1. /\ 1 \in 1..(Len(Fields) + 1)
        /\ \A k \in 1..14 : k + 1 \in 1..(Len(Fields) + 1) /\ k + 1 # 1 /\ (k + 1) - 1 = k
    BY <1>1
  <2>2. at[1] = 1
    <3>1. fields(at)[1] = 1
      BY <2>1
    <3> HIDE DEF fields
    <3> QED BY <1>9, <3>1
  <2>3. ASSUME NEW k \in 1..14 PROVE at[k + 1] = step(k, at[k])
    <3>1. fields(at)[k + 1] = step(k, at[k])
      BY <2>1 DEF step
    <3> HIDE DEF fields
    <3> QED BY <1>9, <3>1
  <2> QED BY <2>2, <2>3
<1>12. ASSUME NEW k \in 1..14 PROVE at[k] \in X
  <2> DEFINE T == {m \in Nat : m + 1 \in 1..14 => at[m + 1] \in X}
  <2>1. 0 \in T
    <3>1. 0 + 1 = 1 /\ 1 \in X /\ 0 \in Nat
      OBVIOUS
    <3> HIDE DEF X
    <3> QED BY <1>11, <3>1
  <2>2. ASSUME NEW m \in Nat, m \in T PROVE m + 1 \in T
    <3>1. SUFFICES ASSUME (m + 1) + 1 \in 1..14 PROVE at[(m + 1) + 1] \in X
      OBVIOUS
    <3>2. m + 1 \in 1..14
      BY <3>1
    <3> HIDE DEF X
    <3>3. at[m + 1] \in X
      BY <2>2, <3>2
    <3> QED BY <1>4, <1>11, <3>2, <3>3
  <2>3. Nat \subseteq T
    <3> HIDE DEF T
    <3> QED BY <2>1, <2>2, Induction
  <2>4. k - 1 \in Nat /\ (k - 1) + 1 = k
    OBVIOUS
  <2>5. k - 1 \in T
    BY <2>3, <2>4
  <2> HIDE DEF X
  <2> QED BY <2>4, <2>5
<1> QED BY <1>10, <1>11, <1>12 DEF step

\* The fourteen fields of a packed DeviceInfo.
Segments(info) ==
    <<<<100, 0>>, <<6, 0, 0, 0>>, <<100, 0>>, PackPTPString(info.Model), <<0, 0>>,
      PackArray(info.Operations), PackArray(<<>>), PackArray(info.Properties),
      PackArray(<<14337>>), PackArray(<<>>),
      PackPTPString(info.Manufacturer), PackPTPString(info.Model),
      PackPTPString(info.DeviceVersion), PackPTPString(info.SerialNumber)>>

\* The fields of a DeviceInfo are of the types that GetDeviceInfo skips or reads.
LEMMA SegmentsType ==
    ASSUME NEW info, Packable(info)
    PROVE  /\ Segments(info) \in Seq(Seq(Byte)) /\ Len(Segments(info)) = 14
           /\ \A k \in 1..14 : Carries(Segments(info)[k], Fields[k])
           /\ PackInfo(info) = FlattenSeq(Segments(info))
<1> DEFINE S == Seq(Byte)
           t(n) == PackPTPString(info[n])
           a(n) == PackArray(info[n])
           e == PackArray(<<>>)
           o == PackArray(<<14337>>)
           w2 == <<100, 0>>
           w4 == <<6, 0, 0, 0>>
           z2 == <<0, 0>>
           str(q) == q \in S /\ Carries(q, "str")
           array(q) == q \in S /\ Carries(q, "array")
<1>1. ASSUME NEW n \in {"Manufacturer", "Model", "DeviceVersion", "SerialNumber"} PROVE str(t(n))
  <2>1. IsText(info[n]) /\ Len(Utf16Encode(info[n])) < 255
    BY DEF Packable
  <2>2. t(n) \in S
    BY <2>1, PackedText
  <2>3. Carries(t(n), "str")
    <3> DEFINE q == t(n)
    <3>1. \E s : IsText(s) /\ Len(Utf16Encode(s)) < 255 /\ q = PackPTPString(s)
      BY <2>1
    <3> HIDE DEF q
    <3> QED BY <3>1 DEF Carries, q
  <2> QED BY <2>2, <2>3
<1>2. ASSUME NEW b \in Seq(Word), Len(b) < 65536 PROVE array(PackArray(b))
  <2>1. PackArray(b) \in S
    BY <1>2, PackArrayAt
  <2>2. Carries(PackArray(b), "array")
    BY <1>2 DEF Carries
  <2> QED BY <2>1, <2>2
<1>3. ASSUME NEW n \in {"Operations", "Properties"} PROVE array(a(n))
  <2>1. info[n] \in Seq(Word) /\ Len(info[n]) < 65536
    BY DEF Packable
  <2> QED BY <1>2, <2>1
<1>4. array(e) /\ array(o)
  <2>1. <<>> \in Seq(Word) /\ Len(<<>>) < 65536
    BY SMT
  <2>2. 14337 \in Word
    BY WordRange, SMT
  <2>3. <<14337>> \in Seq(Word) /\ Len(<<14337>>) < 65536
    BY <2>2, SMT
  <2> DEFINE none == <<>>
             one == <<14337>>
  <2>4. none \in Seq(Word) /\ Len(none) < 65536 /\ one \in Seq(Word) /\ Len(one) < 65536
    BY <2>1, <2>3
  <2>5. e = PackArray(none) /\ o = PackArray(one)
    OBVIOUS
  <2> HIDE DEF none, one, e, o
  <2>6. array(PackArray(none)) /\ array(PackArray(one))
    <3> HIDE DEF array
    <3> QED BY <1>2, <2>4
  <2> QED BY <2>5, <2>6
<1>5. /\ w2 \in S /\ Carries(w2, "u16") /\ w4 \in S /\ Carries(w4, "u32")
      /\ z2 \in S /\ Carries(z2, "u16")
  BY DEF Carries, Byte
<1> DEFINE mo == t("Model")
           ma == t("Manufacturer")
           dv == t("DeviceVersion")
           sn == t("SerialNumber")
           op == a("Operations")
           pr == a("Properties")
<1>6. str(mo) /\ str(ma) /\ str(dv) /\ str(sn) /\ array(op) /\ array(pr)
  BY <1>1, <1>3
<1>7. Segments(info) = <<w2, w4, w2, mo, z2, op, e, pr, o, e, ma, mo, dv, sn>>
  BY DEF Segments
<1> DEFINE seg == <<w2, w4, w2, mo, z2, op, e, pr, o, e, ma, mo, dv, sn>>
<1> HIDE DEF w2, w4, z2, mo, ma, dv, sn, op, pr, e, o, S, t, a
<1>8. seg \in Seq(S) /\ Len(seg) = 14
  BY <1>4, <1>5, <1>6
<1>9. \A k \in 1..14 : Carries(seg[k], Fields[k])
  BY <1>4, <1>5, <1>6 DEF Fields
<1>10. PackInfo(info) = FlattenSeq(Segments(info))
  BY DEF PackInfo, Segments
<1> QED BY <1>7, <1>8, <1>9, <1>10 DEF S

\* No field is empty.
LEMMA CarriesSome ==
    ASSUME NEW q, NEW f, Carries(q, f)
    PROVE  Len(q) \in Nat /\ Len(q) > 0
<1>1. CASE \E s : IsText(s) /\ q = PackPTPString(s)
  <2>1. PICK s : IsText(s) /\ q = PackPTPString(s)
    BY <1>1
  <2>2. Len(Utf16Encode(s)) \in Nat
    BY <2>1, TextUnits
  <2>3. Len(q) = IF Len(Utf16Encode(s)) = 0 THEN 1 ELSE 3 + 2 * Len(Utf16Encode(s))
    BY <2>1, PackedText
  <2> QED BY <2>2, <2>3
<1>2. CASE \E a \in Seq(Word) : Len(a) < 65536 /\ q = PackArray(a)
  <2>1. PICK a \in Seq(Word) : Len(a) < 65536 /\ q = PackArray(a)
    BY <1>2
  <2>2. Len(q) = 4 + 2 * Len(a)
    BY <2>1, PackArrayAt
  <2>3. Len(a) \in Nat
    BY <2>1
  <2> QED BY <2>2, <2>3
<1>3. CASE Len(q) = 2 \/ Len(q) = 4
  BY <1>3
<1> QED BY <1>1, <1>2, <1>3 DEF Carries

\* Reading fields of sizes z, which begin at e, until the dataset ends after c of m bytes.
Walks(c, m, e, at, z) ==
    /\ c \in Nat /\ m \in Nat /\ c <= m /\ e[1] = 1 /\ at[1] = 1 /\ e[15] = m + 1
    /\ \A k \in 1..14 :
          /\ e[k] \in Nat /\ at[k] \in Nat /\ z[k] \in Nat /\ z[k] > 0
          /\ e[k + 1] = e[k] + z[k] /\ e[k + 1] <= m + 1
          /\ at[k] > c => at[k + 1] = c + 2
          /\ at[k] = e[k] /\ e[k] <= c =>
                at[k + 1] = e[k] + z[k] \/ (at[k + 1] > c + 1 /\ c < m)

\* The reader leaves a dataset that is cut, and finds every field of a whole one.
LEMMA Walk ==
    ASSUME NEW c, NEW m, NEW e, NEW at, NEW z, Walks(c, m, e, at, z)
    PROVE  /\ c < m => at[15] > c + 1
           /\ c = m => \A k \in 1..15 : at[k] = e[k]
<1> USE DEF Walks
<1> DEFINE Right(k) == at[k] = e[k] \/ (at[k] > c + 1 /\ c < m)
<1>1. ASSUME NEW k \in 1..14, Right(k) PROVE Right(k + 1)
  <2> DEFINE a == at[k]
             b == at[k + 1]
             x == e[k]
             y == e[k + 1]
             v == z[k]
  <2>1. /\ x \in Nat /\ a \in Nat /\ v \in Nat /\ v > 0
        /\ y = x + v /\ y <= m + 1
        /\ a > c => b = c + 2
        /\ a = x /\ x <= c => b = x + v \/ (b > c + 1 /\ c < m)
        /\ a = x \/ (a > c + 1 /\ c < m)
    BY <1>1
  <2> HIDE DEF a, b, x, y, v
  <2>2. b = y \/ (b > c + 1 /\ c < m)
    BY <2>1
  <2> QED BY <2>2 DEF b, y
<1>2. \A k \in 1..15 : Right(k)
  <2> DEFINE T == {i \in Nat : i + 1 \in 1..15 => Right(i + 1)}
  <2>1. Right(1)
    OBVIOUS
  <2> HIDE DEF Right
  <2>2. 0 \in T
    BY <2>1
  <2>3. ASSUME NEW i \in Nat, i \in T PROVE i + 1 \in T
    <3>1. SUFFICES ASSUME (i + 1) + 1 \in 1..15 PROVE Right((i + 1) + 1)
      OBVIOUS
    <3>2. i + 1 \in 1..14 /\ i + 1 \in 1..15
      BY <3>1
    <3>3. Right(i + 1)
      BY <2>3, <3>2
    <3> QED BY <1>1, <3>2, <3>3
  <2>4. Nat \subseteq T
    <3> HIDE DEF T
    <3> QED BY <2>2, <2>3, Induction
  <2>5. ASSUME NEW k \in 1..15 PROVE Right(k)
    <3>1. k - 1 \in Nat /\ (k - 1) + 1 = k
      OBVIOUS
    <3>2. k - 1 \in T
      BY <2>4, <3>1
    <3> QED BY <3>1, <3>2
  <2> QED BY <2>5
<1>3. ASSUME c < m PROVE at[15] > c + 1
  <2>1. at[15] = e[15] \/ at[15] > c + 1
    <3>1. 15 \in 1..15
      OBVIOUS
    <3> QED BY <1>2, <3>1
  <2> QED BY <1>3, <2>1
<1>4. ASSUME c = m PROVE \A k \in 1..15 : at[k] = e[k]
  <2>1. ~(c < m)
    BY <1>4
  <2> QED BY <1>2, <2>1
<1> QED BY <1>3, <1>4

\* What is left of w when it is cut.
Prefix(d, w) ==
    /\ d \in Seq(Byte) /\ w \in Seq(Byte) /\ Len(d) <= Len(w)
    /\ \A i \in 1..Len(d) : d[i] = w[i]
\* The fields of a DeviceInfo.
FieldsOfInfo(seg) ==
    /\ seg \in Seq(Seq(Byte)) /\ Len(seg) = 14
    /\ \A k \in 1..14 : Carries(seg[k], Fields[k])
\* p is the place of the part q of w.
At(p, q, w) ==
    /\ p \in Nat \ {0} /\ q \in Seq(Byte) /\ p + Len(q) <= Len(w) + 1
    /\ \A i \in 1..Len(q) : w[p - 1 + i] = q[i]

\* An element of a sequence over S is in S.
LEMMA ElementOf ==
    ASSUME NEW S, NEW s \in Seq(S), NEW k \in 1..Len(s)
    PROVE  s[k] \in S
OBVIOUS

\* The first c elements of w.
LEMMA SubSeqPrefix ==
    ASSUME NEW S, NEW w \in Seq(S), NEW c \in 0..Len(w)
    PROVE  LET d == SubSeq(w, 1, c) IN
           /\ d \in Seq(S) /\ Len(d) = c /\ \A i \in 1..c : d[i] = w[i]
           /\ c = Len(w) => d = w
OBVIOUS

\* What is cut is no longer than the whole.
LEMMA PrefixLengths ==
    ASSUME NEW d, NEW w, Prefix(d, w)
    PROVE  Len(d) \in Nat /\ Len(w) \in Nat /\ Len(d) <= Len(w)
BY DEF Prefix

\* The reader takes a field whole, or runs over the end of what was cut in it.
LEMMA FieldOfPrefix ==
    ASSUME NEW d, NEW w, Prefix(d, w), NEW p, NEW q, At(p, q, w), p <= Len(d),
           NEW f, Carries(q, f)
    PROVE  \/ FieldSize(d, p, f) = Len(q)
           \/ p + FieldSize(d, p, f) > Len(d) + 1 /\ Len(d) < Len(w)
<1>1. /\ d \in Seq(Byte) /\ Len(d) \in Nat /\ Len(w) \in Nat /\ Len(d) <= Len(w)
      /\ \A i \in 1..Len(d) : d[i] = w[i]
  BY DEF Prefix
<1>2. /\ p \in Nat \ {0} /\ q \in Seq(Byte) /\ Len(q) \in Nat /\ p + Len(q) <= Len(w) + 1
      /\ \A i \in 1..Len(q) : w[p - 1 + i] = q[i]
  BY DEF At
<1>3. p \in 1..Len(d)
  BY <1>1, <1>2
<1>4. ASSUME NEW i \in 1..Len(q), p - 1 + i <= Len(d) PROVE d[p - 1 + i] = q[i]
  <2>1. p - 1 + i \in 1..Len(d)
    BY <1>1, <1>2, <1>4
  <2> QED BY <1>1, <1>2, <2>1
<1>5. \/ FieldSize(d, p, f) = Len(q)
      \/ FieldSize(d, p, f) = 4 /\ Len(q) >= 4 /\ p + 3 > Len(d)
  BY <1>1, <1>2, <1>3, <1>4, FieldStep
<1> DEFINE a == Len(d)
           b == Len(w)
           c == Len(q)
           z == FieldSize(d, p, f)
<1>6. /\ a \in Nat /\ b \in Nat /\ c \in Nat /\ p + c <= b + 1 /\ p \in Nat
      /\ (z = c \/ (z = 4 /\ c >= 4 /\ p + 3 > a))
  BY <1>1, <1>2, <1>5
<1> HIDE DEF a, b, c, z
<1>7. z = c \/ (p + z > a + 1 /\ a < b)
  BY <1>6
<1> QED BY <1>7 DEF a, b, c, z

\* The places of the fields of a DeviceInfo, in numbers.
LEMMA PlacesAt ==
    ASSUME NEW w, NEW seg, FieldsOfInfo(seg), NEW e \in [1..15 -> Nat \ {0}], Places(e, seg, w)
    PROVE  /\ e[1] = 1 /\ e[15] = Len(w) + 1
           /\ \A k \in 1..14 :
                 /\ At(e[k], seg[k], w) /\ Carries(seg[k], Fields[k])
                 /\ Len(seg[k]) \in Nat /\ Len(seg[k]) > 0
                 /\ e[k] \in Nat /\ e[k + 1] = e[k] + Len(seg[k]) /\ e[k + 1] <= Len(w) + 1
<1>1. Len(seg) = 14 /\ Len(seg) + 1 = 15
  BY DEF FieldsOfInfo
<1>2. e[1] = 1 /\ e[15] = Len(w) + 1
  BY <1>1 DEF Places
<1>3. ASSUME NEW k \in 1..14
      PROVE  /\ At(e[k], seg[k], w) /\ Carries(seg[k], Fields[k])
             /\ Len(seg[k]) \in Nat /\ Len(seg[k]) > 0
             /\ e[k] \in Nat /\ e[k + 1] = e[k] + Len(seg[k]) /\ e[k + 1] <= Len(w) + 1
  <2>1. k \in 1..Len(seg) /\ k \in 1..15
    BY <1>1
  <2>2. Carries(seg[k], Fields[k])
    BY DEF FieldsOfInfo
  <2>3. Len(seg[k]) \in Nat /\ Len(seg[k]) > 0
    BY <2>2, CarriesSome
  <2>4. seg[k] \in Seq(Byte)
    <3> DEFINE S == Seq(Byte)
    <3>1. seg \in Seq(S)
      BY DEF FieldsOfInfo
    <3> HIDE DEF S
    <3>2. seg[k] \in S
      BY <2>1, <3>1, ElementOf
    <3> QED BY <3>2 DEF S
  <2>5. /\ e[k + 1] = e[k] + Len(seg[k]) /\ e[k + 1] <= Len(w) + 1
        /\ \A i \in 1..Len(seg[k]) : w[e[k] - 1 + i] = seg[k][i]
    BY <2>1 DEF Places
  <2>6. e[k] \in Nat \ {0}
    BY <2>1
  <2>7. At(e[k], seg[k], w)
    BY <2>4, <2>5, <2>6 DEF At
  <2> QED BY <2>2, <2>3, <2>5, <2>6, <2>7
<1> QED BY <1>2, <1>3

\* GetDeviceInfo begins each field where it is, and runs over the end of a cut dataset.
LEMMA InfoWalk ==
    ASSUME NEW d, NEW w, Prefix(d, w),
           NEW seg, FieldsOfInfo(seg), NEW e \in [1..15 -> Nat \ {0}], Places(e, seg, w)
    PROVE  /\ Len(d) < Len(w) => FieldAt(d)[15] > Len(d) + 1
           /\ Len(d) = Len(w) => \A k \in 1..15 : FieldAt(d)[k] = e[k]
<1> DEFINE at == FieldAt(d)
           c == Len(d)
           m == Len(w)
           z == [k \in 1..14 |-> Len(seg[k])]
<1>1. c \in Nat /\ m \in Nat /\ c <= m
  BY PrefixLengths
<1>2. /\ e[1] = 1 /\ e[15] = m + 1
      /\ \A k \in 1..14 :
            /\ At(e[k], seg[k], w) /\ Carries(seg[k], Fields[k])
            /\ Len(seg[k]) \in Nat /\ Len(seg[k]) > 0
            /\ e[k] \in Nat /\ e[k + 1] = e[k] + Len(seg[k]) /\ e[k + 1] <= m + 1
  BY PlacesAt
<1>3. \A k \in 1..14 : z[k] = Len(seg[k])
  OBVIOUS
<1> HIDE DEF z
<1>4. /\ at[1] = 1
      /\ \A k \in 1..14 :
            /\ at[k] \in Nat \ {0}
            /\ at[k + 1] = IF at[k] > c THEN c + 2 ELSE at[k] + FieldSize(d, at[k], Fields[k])
  <2>1. d \in Seq(Byte)
    BY DEF Prefix
  <2> QED BY <2>1, FieldAtSteps
<1> HIDE DEF at
<1>5. ASSUME NEW k \in 1..14, at[k] = e[k], e[k] <= c
      PROVE  at[k + 1] = e[k] + z[k] \/ (at[k + 1] > c + 1 /\ c < m)
  <2> DEFINE p == e[k]
             q == seg[k]
             f == Fields[k]
  <2>1. At(p, q, w) /\ Carries(q, f) /\ p <= Len(d) /\ p \in Nat
    BY <1>2, <1>5
  <2>2. at[k + 1] = p + FieldSize(d, p, f)
    <3>1. at[k] = p /\ at[k + 1] = IF p > c THEN c + 2 ELSE p + FieldSize(d, p, f)
      BY <1>4, <1>5
    <3>2. ~(p > c)
      <4> HIDE DEF p
      <4>1. p <= c
        BY <2>1
      <4> HIDE DEF c
      <4> QED BY <1>1, <2>1, <4>1
    <3> QED BY <3>1, <3>2
  <2>3. z[k] = Len(q)
    BY <1>3
  <2> HIDE DEF p, q, f
  <2>4. \/ FieldSize(d, p, f) = Len(q)
        \/ p + FieldSize(d, p, f) > Len(d) + 1 /\ Len(d) < Len(w)
    BY <2>1, FieldOfPrefix
  <2>5. at[k + 1] = p + z[k] \/ (at[k + 1] > c + 1 /\ c < m)
    BY <2>2, <2>3, <2>4
  <2> QED BY <2>5 DEF p
<1> HIDE DEF c, m
<1>6. ASSUME NEW k \in 1..14
      PROVE  /\ e[k] \in Nat /\ at[k] \in Nat /\ z[k] \in Nat /\ z[k] > 0
             /\ e[k + 1] = e[k] + z[k] /\ e[k + 1] <= m + 1
             /\ at[k] > c => at[k + 1] = c + 2
             /\ at[k] = e[k] /\ e[k] <= c =>
                   at[k + 1] = e[k] + z[k] \/ (at[k + 1] > c + 1 /\ c < m)
  <2>1. /\ e[k] \in Nat /\ at[k] \in Nat /\ z[k] \in Nat /\ z[k] > 0
        /\ e[k + 1] = e[k] + z[k] /\ e[k + 1] <= m + 1
    BY <1>2, <1>3, <1>4
  <2>2. at[k] > c => at[k + 1] = c + 2
    BY <1>4
  <2> QED BY <1>5, <2>1, <2>2
<1>7. /\ c < m => at[15] > c + 1
      /\ c = m => \A k \in 1..15 : at[k] = e[k]
  <2>1. e[1] = 1 /\ at[1] = 1 /\ e[15] = m + 1
    BY <1>2, <1>4
  <2>2. Walks(c, m, e, at, z)
    BY <1>1, <1>6, <2>1 DEF Walks
  <2> QED BY <2>2, Walk
<1> QED BY <1>7 DEF c, m, at

\* A text or an array is read where it begins.
LEMMA ReadAt ==
    ASSUME NEW d, NEW p, NEW q, At(p, q, d)
    PROVE  /\ \A s : IsText(s) /\ Len(Utf16Encode(s)) < 255 /\ q = PackPTPString(s) => Str(d, p) = s
           /\ \A a \in Seq(Word) : Len(a) < 65536 /\ q = PackArray(a) => U16Array(d, p) = a
<1>1. p \in Int /\ \A i \in 1..Len(q) : d[p - 1 + i] = q[i]
  BY DEF At
<1>2. ASSUME NEW s, IsText(s), Len(Utf16Encode(s)) < 255, q = PackPTPString(s) PROVE Str(d, p) = s
  <2>1. \A i \in 1..Len(PackPTPString(s)) : d[p - 1 + i] = PackPTPString(s)[i]
    BY <1>1, <1>2
  <2> QED BY <1>1, <1>2, <2>1, StringAt
<1>3. ASSUME NEW a \in Seq(Word), Len(a) < 65536, q = PackArray(a) PROVE U16Array(d, p) = a
  <2>1. \A i \in 1..Len(PackArray(a)) : d[p - 1 + i] = PackArray(a)[i]
    BY <1>1, <1>3
  <2> QED BY <1>1, <1>3, <2>1, ArrayAt
<1> QED BY <1>2, <1>3

\* A whole DeviceInfo comes back, and one that is cut panics.
LEMMA InfoRoundTrip ==
    ASSUME NEW info, info \in [DOMAIN FieldOf -> Seq(Nat)], Packable(info),
           NEW cut, cut \in 0..Len(PackInfo(info))
    PROVE  GetDeviceInfo(SubSeq(PackInfo(info), 1, cut))
                = IF cut < Len(PackInfo(info)) THEN Panic ELSE info
<1> DEFINE w == PackInfo(info)
           seg == Segments(info)
           d == SubSeq(w, 1, cut)
           at == FieldAt(d)
<1>1. FieldsOfInfo(seg) /\ w = FlattenSeq(seg) /\ seg \in Seq(Seq(Byte)) /\ Len(seg) = 14
  BY SegmentsType DEF FieldsOfInfo
<1>2. cut \in 0..Len(w)
  OBVIOUS
<1> HIDE DEF seg, w
<1>3. seg # <<>>
  <2> SUFFICES ASSUME seg = <<>> PROVE FALSE
    OBVIOUS
  <2>1. Len(<<>>) = 14
    BY <1>1
  <2>2. Len(<<>>) = 0
    OBVIOUS
  <2> QED BY <2>1, <2>2
<1>4. PICK e \in [1..15 -> Nat \ {0}] : Places(e, seg, w)
  <2>1. Len(seg) + 1 = 15
    BY <1>1
  <2>2. \E e \in [1..(Len(seg) + 1) -> Nat \ {0}] : Places(e, seg, w)
    BY <1>1, <1>3, FlattenPlaces
  <2> QED BY <2>1, <2>2
<1>5. w \in Seq(Byte)
  BY <1>1, FlattenType
<1>6. Prefix(d, w) /\ Len(d) = cut /\ (cut = Len(w) => d = w)
  <2>1. Len(w) \in Nat /\ cut \in Nat /\ cut <= Len(w)
    BY <1>2, <1>5
  <2>2. /\ d \in Seq(Byte) /\ Len(d) = cut /\ \A i \in 1..cut : d[i] = w[i]
        /\ cut = Len(w) => d = w
    BY <1>2, <1>5, SubSeqPrefix
  <2> HIDE DEF d
  <2> QED BY <1>5, <2>1, <2>2 DEF Prefix
<1> HIDE DEF d
<1>7. /\ Len(d) < Len(w) => at[15] > Len(d) + 1
      /\ Len(d) = Len(w) => \A k \in 1..15 : at[k] = e[k]
  BY <1>1, <1>4, <1>6, InfoWalk
<1> HIDE DEF at
<1>8. Len(Fields) + 1 = 15
  BY DEF Fields
<1>9. CASE cut < Len(w)
  <2>1. at[15] > Len(d) + 1
    BY <1>6, <1>7, <1>9
  <2>2. GetDeviceInfo(d) = Panic
    BY <1>8, <2>1 DEF GetDeviceInfo, at
  <2> QED BY <1>9, <2>2 DEF w, d
<1>10. CASE cut = Len(w)
  <2>1. Len(d) = Len(w) /\ d = w /\ \A k \in 1..15 : at[k] = e[k]
    BY <1>6, <1>7, <1>10
  <2>2. /\ e[15] = Len(w) + 1
        /\ \A k \in 1..14 : At(e[k], seg[k], w)
    BY <1>1, <1>4, PlacesAt
  <2>3. ~(at[15] > Len(d) + 1)
    <3> DEFINE l == Len(d)
               x == at[15]
    <3>1. x = l + 1 /\ l \in Nat
      <4>1. 15 \in 1..15
        OBVIOUS
      <4>2. x = e[15] /\ l = Len(w)
        BY <2>1, <4>1
      <4>3. l \in Nat
        BY <1>6, PrefixLengths
      <4> QED BY <2>2, <4>2, <4>3
    <3> HIDE DEF l, x
    <3>2. ~(x > l + 1)
      BY <3>1
    <3> QED BY <3>2 DEF l, x
  <2>4. ASSUME NEW k \in 1..14 PROVE At(at[k], seg[k], d)
    <3>1. k \in 1..15
      OBVIOUS
    <3>2. at[k] = e[k] /\ d = w
      BY <2>1, <3>1
    <3> QED BY <2>2, <3>2
  <2> DEFINE field(n) == IF n \in {"Operations", "Properties"} THEN U16Array(d, at[FieldOf[n]])
                         ELSE Str(d, at[FieldOf[n]])
  <2>5. GetDeviceInfo(d) = [n \in DOMAIN FieldOf |-> field(n)]
    BY <1>8, <2>3 DEF GetDeviceInfo, at
  <2>6. /\ seg[6] = PackArray(info["Operations"]) /\ seg[8] = PackArray(info["Properties"])
        /\ seg[11] = PackPTPString(info["Manufacturer"]) /\ seg[12] = PackPTPString(info["Model"])
        /\ seg[13] = PackPTPString(info["DeviceVersion"]) /\ seg[14] = PackPTPString(info["SerialNumber"])
    BY DEF seg, Segments
  <2>7. /\ \A n \in {"Operations", "Properties"} : info[n] \in Seq(Word) /\ Len(info[n]) < 65536
        /\ \A n \in {"Manufacturer", "Model", "DeviceVersion", "SerialNumber"} :
              IsText(info[n]) /\ Len(Utf16Encode(info[n])) < 255
    BY DEF Packable
  <2>8. /\ At(at[6], seg[6], d) /\ At(at[8], seg[8], d) /\ At(at[11], seg[11], d)
        /\ At(at[12], seg[12], d) /\ At(at[13], seg[13], d) /\ At(at[14], seg[14], d)
    BY <2>4
  <2>9. U16Array(d, at[6]) = info["Operations"] /\ U16Array(d, at[8]) = info["Properties"]
    <3> DEFINE op == info["Operations"]
               pr == info["Properties"]
    <3>1. /\ op \in Seq(Word) /\ Len(op) < 65536 /\ seg[6] = PackArray(op) /\ At(at[6], seg[6], d)
          /\ pr \in Seq(Word) /\ Len(pr) < 65536 /\ seg[8] = PackArray(pr) /\ At(at[8], seg[8], d)
      BY <2>6, <2>7, <2>8
    <3> HIDE DEF op, pr
    <3>2. U16Array(d, at[6]) = op /\ U16Array(d, at[8]) = pr
      BY <3>1, ReadAt
    <3> QED BY <3>2 DEF op, pr
  <2>10. /\ Str(d, at[11]) = info["Manufacturer"] /\ Str(d, at[12]) = info["Model"]
         /\ Str(d, at[13]) = info["DeviceVersion"] /\ Str(d, at[14]) = info["SerialNumber"]
    <3>1. ASSUME NEW t, IsText(t), Len(Utf16Encode(t)) < 255, NEW p, At(p, PackPTPString(t), d)
          PROVE  Str(d, p) = t
      BY <3>1, ReadAt
    <3>2. Str(d, at[11]) = info["Manufacturer"]
      BY <2>6, <2>7, <2>8, <3>1
    <3>3. Str(d, at[12]) = info["Model"]
      BY <2>6, <2>7, <2>8, <3>1
    <3>4. Str(d, at[13]) = info["DeviceVersion"]
      BY <2>6, <2>7, <2>8, <3>1
    <3>5. Str(d, at[14]) = info["SerialNumber"]
      BY <2>6, <2>7, <2>8, <3>1
    <3> QED BY <3>2, <3>3, <3>4, <3>5
  <2>11. ASSUME NEW n \in DOMAIN FieldOf PROVE field(n) = info[n]
    <3>1. n \in {"Operations", "Properties", "Manufacturer", "Model", "DeviceVersion", "SerialNumber"}
      BY DEF FieldOf
    <3>2. /\ FieldOf["Operations"] = 6 /\ FieldOf["Properties"] = 8
          /\ FieldOf["Manufacturer"] = 11 /\ FieldOf["Model"] = 12
          /\ FieldOf["DeviceVersion"] = 13 /\ FieldOf["SerialNumber"] = 14
      BY DEF FieldOf
    <3> QED BY <2>9, <2>10, <3>1, <3>2
  <2> HIDE DEF field
  <2>12. info = [n \in DOMAIN FieldOf |-> info[n]]
    OBVIOUS
  <2>13. GetDeviceInfo(d) = info
    BY <2>5, <2>11, <2>12
  <2>14. ~(cut < Len(w))
    <3>1. Len(w) \in Nat
      BY <1>5
    <3> HIDE DEF field
    <3> QED BY <1>10, <3>1
  <2> QED BY <2>13, <2>14 DEF w, d
<1>11. cut < Len(w) \/ cut = Len(w)
  <2>1. Len(w) \in Nat
    BY <1>5
  <2> QED BY <1>2, <2>1
<1> QED BY <1>9, <1>10, <1>11 DEF w

-----------------------------------------------------------------------------
(***************************************************************************)
(* The theorems.                                                           *)
(***************************************************************************)
\* What the step leaves.
Computed ==
    /\ Is("decode") => result = decodePropValue(job.decode)
    /\ Is("name") => result = decodePropValue(PackPTPString(job.name))
    /\ Is("number") => result = decodePropValue(PackI16(job.number))
    /\ Is("info") => result = GetDeviceInfo(SubSeq(PackInfo(job.info), 1, job.cut))
    /\ Is("profile") => result = PatchProfile(job.profile, job.changes)
    /\ Is("ui") => result = TranslateUIToPresetProps(job.ui, job.base)
\* The inductive invariant.
CodecInv == JobOK /\ (done => Computed)

\* The input of a job of each kind.
LEMMA JobKinds ==
    ASSUME JobOK
    PROVE  /\ Is("decode") => job.decode \in Values
           /\ Is("name") => job.name \in Names
           /\ Is("number") => job.number \in Numbers
           /\ Is("info") => job.info \in Infos /\ job.cut \in 0..Len(PackInfo(job.info))
           /\ Is("profile") => job.profile \in Profiles /\ job.changes \in Edits
           /\ Is("ui") => job.ui \in Presets /\ job.base \in Bases
           /\ \/ DOMAIN job = {"decode"} \/ DOMAIN job = {"name"} \/ DOMAIN job = {"number"}
              \/ DOMAIN job = {"info", "cut"} \/ DOMAIN job = {"profile", "changes"}
              \/ DOMAIN job = {"ui", "base"}
<1>1. CASE job \in [decode : Values]
  BY <1>1 DEF Is
<1>2. CASE job \in [name : Names]
  BY <1>2 DEF Is
<1>3. CASE job \in [number : Numbers]
  BY <1>3 DEF Is
<1>4. CASE \E info \in Infos :
             \E cut \in 0..Len(PackInfo(info)) : job = [info |-> info, cut |-> cut]
  <2>1. PICK info \in Infos : \E cut \in 0..Len(PackInfo(info)) : job = [info |-> info, cut |-> cut]
    BY <1>4
  <2>2. PICK cut \in 0..Len(PackInfo(info)) : job = [info |-> info, cut |-> cut]
    BY <2>1
  <2>3. job.info = info /\ job.cut = cut /\ DOMAIN job = {"info", "cut"}
    BY <2>2
  <2> QED BY <2>3 DEF Is
<1>5. CASE job \in [profile : Profiles, changes : Edits]
  BY <1>5 DEF Is
<1>6. CASE job \in [ui : Presets, base : Bases]
  BY <1>6 DEF Is
<1> QED BY <1>1, <1>2, <1>3, <1>4, <1>5, <1>6 DEF JobOK

(***************************************************************************)
(* The job stays one of the enumerated kinds and the result is what its    *)
(* function returns, by the definition of the actions: what the theorems   *)
(* about the functions start from.                                         *)
(***************************************************************************)
LEMMA CodecInvariance == Spec => []CodecInv
<1>1. Init => CodecInv
  BY DEF Init, CodecInv
<1>2. CodecInv /\ [Next]_vars => CodecInv'
  <2> SUFFICES ASSUME CodecInv, [Next]_vars PROVE CodecInv'
    OBVIOUS
  <2>1. JobOK /\ (done => Computed)
    BY DEF CodecInv
  <2>2. CASE UNCHANGED vars
    BY <2>1, <2>2 DEF CodecInv, JobOK, Computed, Is, vars
  <2>3. CASE Next
    <3>1. UNCHANGED job /\ ~done /\ done'
      BY <2>3 DEF Next, Decode, ReadName, ReadNumber, ReadInfo, Patch, Translate, Finish
    <3>2. JobOK'
      BY <2>1, <3>1 DEF JobOK
    <3>3. Computed'
      <4>1. CASE Decode
        BY <2>1, <3>1, <4>1, JobKinds DEF Decode, Finish, Computed, Is
      <4>2. CASE ReadName
        BY <2>1, <3>1, <4>2, JobKinds DEF ReadName, Finish, Computed, Is
      <4>3. CASE ReadNumber
        BY <2>1, <3>1, <4>3, JobKinds DEF ReadNumber, Finish, Computed, Is
      <4>4. CASE ReadInfo
        BY <2>1, <3>1, <4>4, JobKinds DEF ReadInfo, Finish, Computed, Is
      <4>5. CASE Patch
        BY <2>1, <3>1, <4>5, JobKinds DEF Patch, Finish, Computed, Is
      <4>6. CASE Translate
        BY <2>1, <3>1, <4>6, JobKinds DEF Translate, Finish, Computed, Is
      <4> QED BY <2>3, <4>1, <4>2, <4>3, <4>4, <4>5, <4>6 DEF Next
    <3> QED BY <3>2, <3>3 DEF CodecInv
  <2> QED BY <2>2, <2>3
<1> QED BY <1>1, <1>2, PTL DEF Spec

(***************************************************************************)
(* For any bytes: decodePropValue leaves the slice exactly on those that   *)
(* are one byte short of the string they announce.  Its guess              *)
(* (session.go:207) lets them through to Str.                              *)
(***************************************************************************)
THEOREM ValuesRead == Spec => []PanicsOneShort
<1>1. CodecInv => PanicsOneShort
  <2> SUFFICES ASSUME CodecInv, Has("decode")
               PROVE  result = Panic <=> Len(job.decode) >= 4 /\ Len(job.decode) = 2 * job.decode[1]
    BY DEF PanicsOneShort
  <2> DEFINE d == job.decode
  <2>1. d \in Seq(Byte) /\ result = decodePropValue(d)
    BY JobKinds, CodecAssumption DEF CodecInv, Computed, Has
  <2> HIDE DEF d
  <2>2. result = Panic <=> Len(d) >= 4 /\ Len(d) = 2 * d[1]
    BY <2>1, PanicOfValue
  <2> QED BY <2>2 DEF d
<1> QED BY <1>1, CodecInvariance, PTL

(***************************************************************************)
(* For any text: what PackPTPString makes of a preset's name is read back  *)
(* by decodePropValue as that name exactly when it has 1 to 254 UTF-16     *)
(* units, surrogate pairs included.                                        *)
(***************************************************************************)
THEOREM NamesRead == Spec => []NamesComeBack
<1>1. CodecInv => NamesComeBack
  <2> SUFFICES ASSUME CodecInv, Has("name")
               PROVE  result = Text(job.name) <=> Len(Utf16Encode(job.name)) \in 1..254
    BY DEF NamesComeBack
  <2> DEFINE s == job.name
  <2>1. IsText(s) /\ result = decodePropValue(PackPTPString(s))
    BY JobKinds, CodecAssumption DEF CodecInv, Computed, Has
  <2> HIDE DEF s
  <2>2. result = Text(s) <=> Len(Utf16Encode(s)) \in 1..254
    BY <2>1, NameRoundTrip
  <2> QED BY <2>2 DEF s
<1> QED BY <1>1, CodecInvariance, PTL

(***************************************************************************)
(* For any 16-bit number: the two bytes of PackI16 are read back with      *)
(* their sign, whatever string their first byte could announce.            *)
(***************************************************************************)
THEOREM NumbersRead == Spec => []NumbersComeBack
<1>1. CodecInv => NumbersComeBack
  <2> SUFFICES ASSUME CodecInv, Has("number") PROVE result = Number(job.number)
    BY DEF NumbersComeBack
  <2>1. Short(job.number) /\ result = decodePropValue(PackI16(job.number))
    BY JobKinds, CodecAssumption DEF CodecInv, Computed, Has
  <2> QED BY <2>1, NumberRoundTrip
<1> QED BY <1>1, CodecInvariance, PTL

(***************************************************************************)
(* For any DeviceInfo and any cut of it: GetDeviceInfo, which skips eight  *)
(* fields of four types to reach the ones it wants, reads these from a     *)
(* whole dataset and panics on every proper prefix of one.                 *)
(***************************************************************************)
THEOREM InfoRead == Spec => []InfoComesBack
<1>1. CodecInv => InfoComesBack
  <2> SUFFICES ASSUME CodecInv, Has("info")
               PROVE  result = IF job.cut < Len(PackInfo(job.info)) THEN Panic ELSE job.info
    BY DEF InfoComesBack
  <2> DEFINE info == job.info
             cut == job.cut
  <2>1. /\ info \in Infos /\ cut \in 0..Len(PackInfo(info))
        /\ result = GetDeviceInfo(SubSeq(PackInfo(info), 1, cut))
    BY JobKinds DEF CodecInv, Computed, Has
  <2>2. info \in [DOMAIN FieldOf -> Seq(Nat)] /\ Packable(info)
    BY <2>1, CodecAssumption
  <2> HIDE DEF info, cut
  <2>3. result = IF cut < Len(PackInfo(info)) THEN Panic ELSE info
    BY <2>1, <2>2, InfoRoundTrip
  <2> QED BY <2>3 DEF info, cut
<1> QED BY <1>1, CodecInvariance, PTL

=============================================================================
