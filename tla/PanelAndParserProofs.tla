-------------------------- MODULE PanelAndParserProofs --------------------------
(***************************************************************************)
(* Lemmas about what is put together out of many pieces: the picture of a   *)
(* page from its texts, the live pages from the log and the movements, and  *)
(* the tables of the parser from the items of a descriptor.  DriversProofs  *)
(* draws the theorems from them.  The theorems on induction of the library  *)
(* take an operator, which the provers here cannot instantiate; the first   *)
(* section has what is needed of it for sets and functions instead.         *)
(***************************************************************************)
EXTENDS PanelAndParser, SequenceTheorems, WellFoundedInduction, TLAPS

-------------------------------------------------------------------------------
(* Induction, folds and recursive functions. *)

LEMMA Least ==
    ASSUME NEW S \in SUBSET Nat, S # {}
    PROVE  \E n \in S : \A m \in S : n <= m
<1>1. PICK n \in S : \A m \in S : ~ (<<m, n>> \in OpToRel(<, Nat))
  BY NatLessThanWellFounded, WFMin
<1>2. \A m \in S : m \in Nat /\ ~ (m < n)
  BY <1>1 DEF OpToRel
<1> QED
  BY <1>2

\* What holds of 0 and of the next number of each holds up to n.
LEMMA UpTo ==
    ASSUME NEW n \in Nat, NEW S, 0 \in S, \A k \in 0 .. n - 1 : k \in S => k + 1 \in S
    PROVE  \A k \in 0 .. n : k \in S
<1> DEFINE Bad == {k \in 0 .. n : k \notin S}
<1> SUFFICES ASSUME Bad # {} PROVE FALSE
  OBVIOUS
<1>1. Bad \in SUBSET Nat
  OBVIOUS
<1>2. PICK k \in Bad : \A m \in Bad : k <= m
  BY <1>1, Least
<1>3. k \in 0 .. n /\ k \notin S /\ k # 0
  OBVIOUS
<1>4. k - 1 \in 0 .. n - 1 /\ k - 1 \in 0 .. n /\ ~ (k <= k - 1)
  BY <1>3
<1>5. k - 1 \in S
  BY <1>2, <1>4
<1>6. k - 1 + 1 = k
  BY <1>3
<1> QED
  BY <1>3, <1>4, <1>5, <1>6

\* The choice of FoldLeft (FiniteSetsExt!Max).
GreatestIn(S) == CHOOSE x \in S : \A y \in S : x >= y

LEMMA GreatestOf ==
    ASSUME NEW n \in Nat, NEW S \in SUBSET (1 .. n), S # {}
    PROVE  GreatestIn(S) \in S /\ \A m \in S : m <= GreatestIn(S)
<1> DEFINE Up == {k \in Nat : \A m \in S : m <= k}
<1>1. n \in Up
  OBVIOUS
<1>2. PICK k \in Up : \A m \in Up : k <= m
  <2>1. Up \in SUBSET Nat /\ Up # {}
    BY <1>1
  <2> QED
    BY <2>1, Least
<1>3. k \in S
  <2> SUFFICES ASSUME k \notin S PROVE FALSE
    OBVIOUS
  <2>1. PICK m \in S : TRUE
    OBVIOUS
  <2>2. \A j \in S : j \in Nat /\ j >= 1 /\ j <= k /\ j # k
    BY <1>2
  <2>3. k - 1 \in Nat /\ \A j \in S : j <= k - 1
    BY <1>2, <2>1, <2>2
  <2>4. k - 1 \in Up
    BY <2>3
  <2>5. k <= k - 1
    BY <1>2, <2>4
  <2> QED
    BY <1>2, <2>5
<1>4. \E x \in S : \A y \in S : x >= y
  BY <1>2, <1>3
<1>5. GreatestIn(S) \in S /\ \A y \in S : GreatestIn(S) >= y
  BY <1>4 DEF GreatestIn
<1> QED
  BY <1>5

LEMMA GreatestIs ==
    ASSUME NEW n \in Nat, NEW S \in SUBSET (1 .. n), NEW k \in S, \A m \in S : m <= k
    PROVE  GreatestIn(S) = k
<1>1. GreatestIn(S) \in S /\ \A m \in S : m <= GreatestIn(S)
  BY GreatestOf
<1> DEFINE x == GreatestIn(S)
<1>2. x \in 1 .. n /\ k \in 1 .. n /\ x <= k /\ k <= x
  BY <1>1
<1> HIDE DEF x
<1>3. x = k
  BY <1>2
<1> QED
  BY <1>3 DEF x

\* A fold, with what it does at a place and a value given as a function.
Folds(n, T, base, step, h) ==
    /\ h \in [SUBSET (1 .. n) -> T]
    /\ \A S \in SUBSET (1 .. n) :
         h[S] = IF S = {} THEN base ELSE step[<<GreatestIn(S), h[S \ {GreatestIn(S)}]>>]

LEMMA FoldExists ==
    ASSUME NEW n \in Nat, NEW T, NEW base \in T, NEW step \in [(1 .. n) \X T -> T]
    PROVE  \E h : Folds(n, T, base, step, h)
<1> DEFINE G == {m \in 0 .. n : \E h : Folds(m, T, base, step, h)}
<1>1. 0 \in G
  <2> DEFINE h == [S \in SUBSET (1 .. 0) |-> base]
  <2>1. \A S \in SUBSET (1 .. 0) : S = {}
    OBVIOUS
  <2>2. Folds(0, T, base, step, h)
    BY <2>1 DEF Folds
  <2> HIDE DEF h
  <2> QED
    BY <2>2
<1>2. ASSUME NEW m \in 0 .. n - 1, m \in G PROVE m + 1 \in G
  <2>1. PICK g : Folds(m, T, base, step, g)
    BY <1>2
  <2> DEFINE h == [S \in SUBSET (1 .. m + 1) |->
                     IF m + 1 \in S THEN step[<<m + 1, g[S \ {m + 1}]>>] ELSE g[S]]
  <2>2. ASSUME NEW S \in SUBSET (1 .. m + 1)
        PROVE  S \ {m + 1} \in SUBSET (1 .. m) /\ (m + 1 \notin S => S \in SUBSET (1 .. m))
    OBVIOUS
  <2>3. \A S \in SUBSET (1 .. m) : g[S] \in T
    BY <2>1 DEF Folds
  <2>4. h \in [SUBSET (1 .. m + 1) -> T]
    <3> SUFFICES ASSUME NEW S \in SUBSET (1 .. m + 1)
                 PROVE  (IF m + 1 \in S THEN step[<<m + 1, g[S \ {m + 1}]>>] ELSE g[S]) \in T
      OBVIOUS
    <3>1. CASE m + 1 \in S
      <4>1. g[S \ {m + 1}] \in T /\ m + 1 \in 1 .. n
        BY <2>2, <2>3
      <4> QED
        BY <3>1, <4>1
    <3>2. CASE m + 1 \notin S
      BY <2>2, <2>3, <3>2
    <3> QED
      BY <3>1, <3>2
  <2>5. ASSUME NEW S \in SUBSET (1 .. m + 1)
        PROVE  h[S] = IF S = {} THEN base ELSE step[<<GreatestIn(S), h[S \ {GreatestIn(S)}]>>]
    <3>1. CASE m + 1 \in S
      <4>1. \A j \in S : j <= m + 1
        OBVIOUS
      <4>2. GreatestIn(S) = m + 1
        <5>1. m + 1 \in Nat
          OBVIOUS
        <5> QED
          BY <3>1, <4>1, <5>1, GreatestIs
      <4>3. S \ {m + 1} \in SUBSET (1 .. m + 1) /\ m + 1 \notin S \ {m + 1}
        OBVIOUS
      <4>4. h[S \ {m + 1}] = g[S \ {m + 1}]
        BY <4>3
      <4>5. h[S] = step[<<m + 1, g[S \ {m + 1}]>>]
        BY <3>1
      <4> HIDE DEF h
      <4> QED
        BY <3>1, <4>2, <4>4, <4>5
    <3>2. CASE m + 1 \notin S /\ S # {}
      <4>1. S \in SUBSET (1 .. m)
        BY <2>2, <3>2
      <4>2. GreatestIn(S) \in S /\ GreatestIn(S) \in 1 .. m
        <5>1. m \in Nat
          OBVIOUS
        <5>2. GreatestIn(S) \in S
          BY <3>2, <4>1, <5>1, GreatestOf
        <5> QED
          BY <4>1, <5>2
      <4>3. S \ {GreatestIn(S)} \in SUBSET (1 .. m + 1) /\ m + 1 \notin S \ {GreatestIn(S)}
        BY <3>2
      <4>4. h[S] = g[S] /\ h[S \ {GreatestIn(S)}] = g[S \ {GreatestIn(S)}]
        BY <3>2, <4>3
      <4>5. g[S] = step[<<GreatestIn(S), g[S \ {GreatestIn(S)}]>>]
        BY <2>1, <3>2, <4>1 DEF Folds
      <4> HIDE DEF h
      <4> QED
        BY <3>2, <4>4, <4>5
    <3>3. CASE S = {}
      <4>1. {} \in SUBSET (1 .. m) /\ {} \in SUBSET (1 .. m + 1) /\ m + 1 \notin {}
        OBVIOUS
      <4>2. g[{}] = base
        BY <2>1, <4>1 DEF Folds
      <4>3. h[{}] = g[{}]
        BY <4>1
      <4> HIDE DEF h
      <4> QED
        BY <3>3, <4>2, <4>3
    <3> QED
      BY <3>1, <3>2, <3>3
  <2> HIDE DEF h
  <2>6. Folds(m + 1, T, base, step, h)
    BY <2>4, <2>5 DEF Folds
  <2>7. m + 1 \in 0 .. n
    OBVIOUS
  <2> QED
    BY <2>6, <2>7
<1> HIDE DEF G
<1>3. n \in G
  <2>1. \A k \in 0 .. n : k \in G
    BY <1>1, <1>2, UpTo
  <2> QED
    BY <2>1
<1> QED
  BY <1>3 DEF G

\* The fold of the first k places, one place after the other.
LEMMA FirstPlaces ==
    ASSUME NEW n \in Nat, NEW k \in 1 .. n
    PROVE  /\ 1 .. k \in SUBSET (1 .. n) /\ 1 .. k # {}
           /\ GreatestIn(1 .. k) = k /\ (1 .. k) \ {k} = 1 .. k - 1
<1>1. 1 .. k \in SUBSET (1 .. n) /\ k \in 1 .. k /\ \A m \in 1 .. k : m <= k
  OBVIOUS
<1>2. GreatestIn(1 .. k) = k
  BY <1>1, GreatestIs
<1>3. (1 .. k) \ {k} = 1 .. k - 1
  OBVIOUS
<1> QED
  BY <1>1, <1>2, <1>3

\* A function defined by recursion to a lower place, with what it does there
\* given as a function.
Recurs(m, T, base, down, step, f) ==
    /\ f \in [0 .. m -> T] /\ f[0] = base
    /\ \A k \in 1 .. m : f[k] = step[<<k, f[down[k]]>>]

LEMMA RecursionExists ==
    ASSUME NEW n \in Nat, NEW T, NEW base \in T,
           NEW down \in [1 .. n -> Nat], \A k \in 1 .. n : down[k] < k,
           NEW step \in [(1 .. n) \X T -> T]
    PROVE  \E f : Recurs(n, T, base, down, step, f)
<1> DEFINE Rec(m, f) ==
             /\ f \in [0 .. m -> T]
             /\ f[0] = base /\ \A k \in 1 .. m : f[k] = step[<<k, f[down[k]]>>]
           G == {m \in 0 .. n : \E f : Rec(m, f)}
<1>1. 0 \in G
  <2> DEFINE f == [k \in 0 .. 0 |-> base]
  <2>1. Rec(0, f)
    OBVIOUS
  <2> HIDE DEF f
  <2> QED
    BY <2>1
<1>2. ASSUME NEW m \in 0 .. n - 1, m \in G PROVE m + 1 \in G
  <2>1. PICK g : Rec(m, g)
    BY <1>2
  <2>2. m + 1 \in 1 .. n /\ down[m + 1] \in 0 .. m
    <3>1. m + 1 \in 1 .. n
      OBVIOUS
    <3>2. down[m + 1] \in Nat /\ down[m + 1] < m + 1
      BY <3>1
    <3> QED
      BY <3>1, <3>2
  <2> DEFINE v == step[<<m + 1, g[down[m + 1]]>>]
             f == [k \in 0 .. m + 1 |-> IF k = m + 1 THEN v ELSE g[k]]
  <2>3. v \in T
    <3>1. g[down[m + 1]] \in T
      BY <2>1, <2>2
    <3> QED
      BY <2>2, <3>1
  <2> HIDE DEF v
  <2>4. f \in [0 .. m + 1 -> T]
    BY <2>1, <2>3
  <2>5. f[m + 1] = v /\ \A k \in 0 .. m : f[k] = g[k]
    OBVIOUS
  <2> HIDE DEF f
  <2>6. f[0] = base
    BY <2>1, <2>5
  <2>7. ASSUME NEW k \in 1 .. m + 1 PROVE f[k] = step[<<k, f[down[k]]>>]
    <3>1. CASE k = m + 1
      <4>1. f[down[m + 1]] = g[down[m + 1]]
        BY <2>2, <2>5
      <4> QED
        BY <2>5, <3>1, <4>1 DEF v
    <3>2. CASE k \in 1 .. m
      <4>1. k \in 1 .. n /\ down[k] \in Nat /\ down[k] < k
        BY <3>2
      <4>2. down[k] \in 0 .. m /\ k \in 0 .. m
        BY <3>2, <4>1
      <4>3. f[k] = g[k] /\ f[down[k]] = g[down[k]]
        BY <2>5, <4>2
      <4> QED
        BY <2>1, <3>2, <4>3
    <3> QED
      BY <3>1, <3>2
  <2>8. Rec(m + 1, f)
    BY <2>4, <2>6, <2>7
  <2>9. m + 1 \in 0 .. n
    OBVIOUS
  <2> QED
    BY <2>8, <2>9
<1>3. n \in G
  <2> HIDE DEF G
  <2>1. \A k \in 0 .. n : k \in G
    BY <1>1, <1>2, UpTo
  <2> QED
    BY <2>1
<1> QED
  BY <1>3 DEF Recurs
-------------------------------------------------------------------------------
(* Texts: what utf8_next makes of the bytes of a character. *)

Octets == 0 .. 255

LEMMA ByteOf ==
    ASSUME NEW s \in Seq(Octets), NEW k \in Nat, k >= 1
    PROVE  /\ Panel!Byte(s, k) \in Octets
           /\ k <= Len(s) => Panel!Byte(s, k) = s[k]
           /\ Panel!Byte(s, k) \div 64 = 2 => k <= Len(s)
<1>1. CASE k <= Len(s)
  <2>1. s[k] \in Octets
    BY <1>1
  <2> QED
    BY <1>1, <2>1 DEF Panel!Byte
<1>2. CASE ~(k <= Len(s))
  <2>1. 0 \div 64 = 0
    OBVIOUS
  <2> QED
    BY <1>2, <2>1 DEF Panel!Byte, Octets
<1> QED
  BY <1>1, <1>2

LEMMA InText ==
    ASSUME NEW s \in Seq(Octets), NEW k \in Nat, k >= 1, NEW m \in Nat, Panel!Continues(s, k, m), k <= m
    PROVE  m <= Len(s) /\ \A q \in k .. m : s[q] \div 64 = 2 /\ s[q] \in Octets
<1>1. \A q \in k .. m : Panel!Byte(s, q) \div 64 = 2 /\ q \in Nat /\ q >= 1
  BY DEF Panel!Continues
<1>2. \A q \in k .. m : q <= Len(s) /\ Panel!Byte(s, q) = s[q] /\ Panel!Byte(s, q) \in Octets
  BY <1>1, ByteOf
<1> QED
  BY <1>1, <1>2

LEMMA OctetParts ==
    ASSUME NEW a \in Octets
    PROVE  /\ a % 64 \in 0 .. 63 /\ a % 32 \in 0 .. 31 /\ a % 16 \in 0 .. 15 /\ a % 8 \in 0 .. 7
<1>1. a \in Int /\ 0 <= a /\ a <= 255
  BY DEF Octets
<1> QED
  BY <1>1

LEMMA Low6Range ==
    ASSUME NEW s \in Seq(Octets), NEW k \in Nat, k >= 1
    PROVE  Panel!Low6(s, k) \in 0 .. 63
<1> DEFINE a == Panel!Byte(s, k)
<1>1. a \in Octets
  BY ByteOf
<1> HIDE DEF a
<1>2. a % 64 \in 0 .. 63
  BY <1>1, OctetParts
<1> QED
  BY <1>2 DEF a, Panel!Low6

\* Whatever the bytes, a character ends with the text at the latest.
LEMMA NextCharEnds ==
    ASSUME NEW s \in Seq(Octets), NEW k \in 1 .. Len(s)
    PROVE  /\ Panel!NextChar(s, k).cp \in Nat
           /\ Panel!NextChar(s, k).length \in 1 .. 4
           /\ k + Panel!NextChar(s, k).length <= Len(s) + 1
<1> DEFINE n == Len(s)
           a == s[k]
           x == Panel!Low6(s, k + 1)
           y == Panel!Low6(s, k + 2)
           z == Panel!Low6(s, k + 3)
           c == Panel!NextChar(s, k)
           two == Panel!Continues(s, k + 1, k + 1)
           three == Panel!Continues(s, k + 1, k + 2)
           four == Panel!Continues(s, k + 1, k + 3)
<1>1. n \in Nat /\ k \in Nat /\ k >= 1 /\ k <= n /\ a \in Octets
  OBVIOUS
<1>2. x \in 0 .. 63 /\ y \in 0 .. 63 /\ z \in 0 .. 63
  <2>1. k + 1 \in Nat /\ k + 1 >= 1 /\ k + 2 \in Nat /\ k + 2 >= 1 /\ k + 3 \in Nat /\ k + 3 >= 1
    BY <1>1
  <2> QED
    BY <2>1, Low6Range
<1>3. /\ two => k + 1 <= n
      /\ three => k + 2 <= n
      /\ four => k + 3 <= n
  <2>1. k + 1 \in Nat /\ k + 1 >= 1 /\ k + 2 \in Nat /\ k + 1 <= k + 2 /\ k + 3 \in Nat /\ k + 1 <= k + 3
        /\ k + 1 <= k + 1
    BY <1>1
  <2> QED
    BY <2>1, InText
<1>4. \/ c = [cp |-> a, length |-> 1]
      \/ c = [cp |-> (a % 32) * 64 + x, length |-> 2] /\ two
      \/ c = [cp |-> (a % 16) * 4096 + x * 64 + y, length |-> 3] /\ three
      \/ c = [cp |-> (a % 8) * 262144 + x * 4096 + y * 64 + z, length |-> 4] /\ four
  BY SMTT(20) DEF Panel!NextChar, Panel!TwoBytes, Panel!OneByte
<1> HIDE DEF n, a, x, y, z, c, two, three, four
<1>5. a \in Nat /\ a % 32 \in 0 .. 31 /\ a % 16 \in 0 .. 15 /\ a % 8 \in 0 .. 7
  BY <1>1, OctetParts DEF Octets
<1>6. /\ (a % 32) * 64 + x \in Nat
      /\ (a % 16) * 4096 + x * 64 + y \in Nat
      /\ (a % 8) * 262144 + x * 4096 + y * 64 + z \in Nat
  <2> DEFINE d == a % 32
             e == a % 16
             f == a % 8
  <2> HIDE DEF d, e, f
  <2>1. d \in 0 .. 31 /\ e \in 0 .. 15 /\ f \in 0 .. 7
    BY <1>5 DEF d, e, f
  <2>2. d * 64 + x \in Nat /\ e * 4096 + x * 64 + y \in Nat /\ f * 262144 + x * 4096 + y * 64 + z \in Nat
    BY <1>2, <2>1
  <2> QED
    BY <2>2 DEF d, e, f
<1>7. c.cp \in Nat /\ c.length \in 1 .. 4 /\ k + c.length <= n + 1
  <2>1. CASE c = [cp |-> a, length |-> 1]
    BY <1>1, <1>5, <2>1
  <2>2. CASE c = [cp |-> (a % 32) * 64 + x, length |-> 2] /\ two
    BY <1>1, <1>3, <1>6, <2>2
  <2>3. CASE c = [cp |-> (a % 16) * 4096 + x * 64 + y, length |-> 3] /\ three
    BY <1>1, <1>3, <1>6, <2>3
  <2>4. CASE c = [cp |-> (a % 8) * 262144 + x * 4096 + y * 64 + z, length |-> 4] /\ four
    BY <1>1, <1>3, <1>6, <2>4
  <2> QED
    BY <1>4, <2>1, <2>2, <2>3, <2>4
<1> QED
  BY <1>7 DEF c, n

\* s has the bytes b from its place k.
Holds(s, k, b) == k + Len(b) <= Len(s) + 1 /\ \A q \in 1 .. Len(b) : s[k + q - 1] = b[q]

LEMMA EncodedBytes ==
    ASSUME NEW cp \in Nat, cp <= \h10FFFF
    PROVE  /\ Panel!Encode(cp) \in Seq(Octets) /\ Len(Panel!Encode(cp)) \in 1 .. 4
           /\ Panel!Encode(cp)[1] < \h80 \/ Panel!Encode(cp)[1] >= \hC0
<1> DEFINE t(d) == Panel!Tail6(cp, d)
<1>1. cp \in Int /\ 0 <= cp /\ cp <= 1114111
  OBVIOUS
<1>2. \A d \in {1, 64, 4096} : t(d) \in Octets
  BY SMTT(20), <1>1 DEF Panel!Tail6, Octets
<1> HIDE DEF t
<1>3. CASE cp < \h80
  <2>1. Panel!Encode(cp) = <<cp>> /\ cp \in Octets
    BY SMTT(20), <1>1, <1>3 DEF Panel!Encode, Octets
  <2> QED
    BY <1>3, <2>1
<1>4. CASE cp >= \h80 /\ cp < \h800
  <2> DEFINE a == \hC0 + (cp \div 64)
  <2>1. a \in Octets /\ a >= \hC0
    BY SMTT(20), <1>1, <1>4 DEF Octets
  <2>2. Panel!Encode(cp) = <<a, t(1)>>
    BY SMTT(20), <1>1, <1>4 DEF Panel!Encode, t
  <2> HIDE DEF a
  <2> QED
    BY <1>2, <2>1, <2>2
<1>5. CASE cp >= \h800 /\ cp < \h10000
  <2> DEFINE a == \hE0 + (cp \div 4096)
  <2>1. a \in Octets /\ a >= \hC0
    BY SMTT(20), <1>1, <1>5 DEF Octets
  <2>2. Panel!Encode(cp) = <<a, t(64), t(1)>>
    BY SMTT(20), <1>1, <1>5 DEF Panel!Encode, t
  <2> HIDE DEF a
  <2> QED
    BY <1>2, <2>1, <2>2
<1>6. CASE cp >= \h10000
  <2> DEFINE a == \hF0 + (cp \div 262144)
  <2>1. a \in Octets /\ a >= \hC0
    BY SMTT(20), <1>1, <1>6 DEF Octets
  <2>2. Panel!Encode(cp) = <<a, t(4096), t(64), t(1)>>
    BY SMTT(20), <1>1, <1>6 DEF Panel!Encode, t
  <2> HIDE DEF a
  <2> QED
    BY <1>2, <2>1, <2>2
<1> QED
  BY SMT, <1>1, <1>3, <1>4, <1>5, <1>6

LEMMA TailOf ==
    ASSUME NEW q \in Nat
    PROVE  \h80 + (q % 64) \in Octets /\ (\h80 + (q % 64)) \div 64 = 2 /\ (\h80 + (q % 64)) % 64 = q % 64
<1> DEFINE r == q % 64
<1>1. r \in 0 .. 63
  OBVIOUS
<1> HIDE DEF r
<1>2. 128 + r \in Octets /\ (128 + r) \div 64 = 2 /\ (128 + r) % 64 = r
  BY <1>1 DEF Octets
<1> QED
  BY <1>2 DEF r

\* A bare byte at the end of the text, or before what is no part of a longer
\* character, is one.
LEMMA BareIsRead ==
    ASSUME NEW s \in Seq(Octets), NEW k \in 1 .. Len(s), Panel!Byte(s, k + 1) \div 64 # 2
    PROVE  Panel!NextChar(s, k) = [cp |-> s[k], length |-> 1]
<1>1. \A m \in {k + 1, k + 2, k + 3} : ~Panel!Continues(s, k + 1, m)
  <2> SUFFICES ASSUME NEW m \in {k + 1, k + 2, k + 3} PROVE k + 1 \in k + 1 .. m
    BY DEF Panel!Continues
  <2> QED
    OBVIOUS
<1> QED
  BY SMTT(20), <1>1 DEF Panel!NextChar, Panel!TwoBytes, Panel!OneByte

LEMMA CodeParts ==
    ASSUME NEW cp \in Nat, cp < 2097152
    PROVE  /\ cp = (cp \div 64) * 64 + (cp % 64)
           /\ cp = (cp \div 4096) * 4096 + ((cp \div 64) % 64) * 64 + (cp % 64)
           /\ cp = (cp \div 262144) * 262144 + ((cp \div 4096) % 64) * 4096
                      + ((cp \div 64) % 64) * 64 + (cp % 64)
           /\ cp \div 64 \in Nat /\ cp \div 4096 \in Nat /\ cp \div 262144 \in Nat
<1> DEFINE a == cp \div 64
           b == a \div 64
           c == b \div 64
<1>1. cp = a * 64 + (cp % 64) /\ a \in Nat
  BY SMT
<1>2. cp \div 4096 = b /\ cp \div 262144 = c
  BY SMT
<1> HIDE DEF a
<1>3. a = b * 64 + (a % 64) /\ b \in Nat
  BY SMT, <1>1
<1> HIDE DEF b
<1>4. b = c * 64 + (b % 64) /\ c \in Nat
  BY SMT, <1>3
<1> HIDE DEF c
<1> DEFINE u == cp % 64
           v == a % 64
           w == b % 64
<1>5. u \in Int /\ v \in Int /\ w \in Int
  BY SMT, <1>1, <1>3
<1>6. cp = a * 64 + u /\ a = b * 64 + v /\ b = c * 64 + w
  BY <1>1, <1>3, <1>4
<1> HIDE DEF u, v, w
<1>7. cp = b * 4096 + v * 64 + u /\ cp = c * 262144 + w * 4096 + v * 64 + u
  BY SMT, <1>1, <1>3, <1>4, <1>5, <1>6
<1> QED
  BY SMT, <1>1, <1>2, <1>3, <1>4, <1>7 DEF a, u, v, w

\* What Encode writes is read back as the one character it was.
LEMMA EncodedIsRead ==
    ASSUME NEW s \in Seq(Octets), NEW k \in 1 .. Len(s), NEW cp \in Nat, cp <= \h10FFFF,
           Holds(s, k, Panel!Encode(cp))
    PROVE  Panel!NextChar(s, k) = [cp |-> cp, length |-> Len(Panel!Encode(cp))]
<1> DEFINE t(d) == Panel!Tail6(cp, d)
           n == Len(s)
<1>0. n \in Nat /\ k \in Nat /\ k >= 1 /\ k <= n
  OBVIOUS
<1>1. /\ t(1) \in Octets /\ t(1) \div 64 = 2 /\ t(1) % 64 = cp % 64
      /\ t(64) \in Octets /\ t(64) \div 64 = 2 /\ t(64) % 64 = (cp \div 64) % 64
      /\ t(4096) \in Octets /\ t(4096) \div 64 = 2 /\ t(4096) % 64 = (cp \div 4096) % 64
  <2>1. cp \div 1 = cp /\ cp \div 64 \in Nat /\ cp \div 4096 \in Nat
    BY SMT
  <2> QED
    BY SMT, <2>1, TailOf DEF Panel!Tail6
<1> HIDE DEF t
<1>2. CASE cp < \h80
  <2>1. Panel!Encode(cp) = <<cp>>
    BY SMT, <1>2 DEF Panel!Encode
  <2>2. s[k] = cp
    BY SMT, <1>0, <2>1 DEF Holds
  <2> QED
    BY SMT, <1>2, <2>1, <2>2 DEF Panel!NextChar, Panel!OneByte
<1>3. CASE cp >= \h80 /\ cp < \h800
  <2> DEFINE a == \hC0 + (cp \div 64)
             u == t(1)
  <2>1. a \in Int /\ a >= 194 /\ a < 224 /\ a % 32 = cp \div 64
    BY SMT, <1>3
  <2>2. Panel!Encode(cp) = <<a, u>>
    BY SMT, <1>3 DEF Panel!Encode, t
  <2>3. cp = (a % 32) * 64 + (u % 64)
    BY SMT, <1>1, <1>3, <2>1, CodeParts DEF u
  <2>4. u \in Octets /\ u \div 64 = 2
    BY SMT, <1>1
  <2> HIDE DEF a, u
  <2>5. s[k] = a /\ s[k + 1] = u /\ k + 1 <= n
    BY SMT, <1>0, <2>2 DEF Holds, n
  <2>6. Panel!Byte(s, k + 1) = u
    BY SMT, <1>0, <2>5 DEF Panel!Byte, n
  <2>7. Panel!Continues(s, k + 1, k + 1) /\ Panel!Low6(s, k + 1) = u % 64
    BY SMT, <1>0, <2>4, <2>6 DEF Panel!Continues, Panel!Low6
  <2>8. ~(a <= 159) /\ a \div 16 # 14 /\ a \div 8 # 30 /\ a \div 32 = 6
    BY SMT, <2>1
  <2>9. Panel!NextChar(s, k) = [cp |-> (a % 32) * 64 + (u % 64), length |-> 2]
    BY SMTT(20), <2>5, <2>7, <2>8 DEF Panel!NextChar, Panel!TwoBytes
  <2> QED
    BY SMT, <2>2, <2>3, <2>9
<1>4. CASE cp >= \h800 /\ cp < \h10000
  <2> DEFINE a == \hE0 + (cp \div 4096)
             u == t(64)
             v == t(1)
  <2>1. a \in Int /\ a >= 224 /\ a < 240 /\ a % 16 = cp \div 4096
    BY SMT, <1>4
  <2>2. Panel!Encode(cp) = <<a, u, v>>
    BY SMT, <1>4 DEF Panel!Encode, t
  <2>3. cp = (a % 16) * 4096 + (u % 64) * 64 + (v % 64)
    BY SMT, <1>1, <1>4, <2>1, CodeParts DEF u, v
  <2>4. u \in Octets /\ u \div 64 = 2 /\ v \in Octets /\ v \div 64 = 2
    BY SMT, <1>1
  <2> HIDE DEF a, u, v
  <2>5. s[k] = a /\ s[k + 1] = u /\ s[k + 2] = v /\ k + 2 <= n
    BY SMT, <1>0, <2>2 DEF Holds, n
  <2>6. Panel!Byte(s, k + 1) = u /\ Panel!Byte(s, k + 2) = v
    BY SMT, <1>0, <2>5 DEF Panel!Byte, n
  <2>7. Panel!Continues(s, k + 1, k + 2) /\ Panel!Low6(s, k + 1) = u % 64 /\ Panel!Low6(s, k + 2) = v % 64
    <3>1. \A q \in k + 1 .. k + 2 : q = k + 1 \/ q = k + 2
      BY SMT, <1>0
    <3> QED
      BY SMT, <3>1, <2>4, <2>6 DEF Panel!Continues, Panel!Low6
  <2>8. ~(a <= 159) /\ a \div 16 = 14
    BY SMT, <2>1
  <2>9. Panel!NextChar(s, k) = [cp |-> (a % 16) * 4096 + (u % 64) * 64 + (v % 64), length |-> 3]
    BY SMTT(20), <2>5, <2>7, <2>8 DEF Panel!NextChar
  <2> QED
    BY SMT, <2>2, <2>3, <2>9
<1>5. CASE cp >= \h10000
  <2> DEFINE a == \hF0 + (cp \div 262144)
             u == t(4096)
             v == t(64)
             w == t(1)
  <2>1. a \in Int /\ a >= 240 /\ a < 248 /\ a % 8 = cp \div 262144
    BY SMT, <1>5
  <2>2. Panel!Encode(cp) = <<a, u, v, w>>
    BY SMT, <1>5 DEF Panel!Encode, t
  <2>3. cp = (a % 8) * 262144 + (u % 64) * 4096 + (v % 64) * 64 + (w % 64)
    BY SMT, <1>1, <1>5, <2>1, CodeParts DEF u, v, w
  <2>4. u \in Octets /\ u \div 64 = 2 /\ v \in Octets /\ v \div 64 = 2 /\ w \in Octets /\ w \div 64 = 2
    BY SMT, <1>1
  <2> HIDE DEF a, u, v, w
  <2>5. s[k] = a /\ s[k + 1] = u /\ s[k + 2] = v /\ s[k + 3] = w /\ k + 3 <= n
    BY SMT, <1>0, <2>2 DEF Holds, n
  <2>6. Panel!Byte(s, k + 1) = u /\ Panel!Byte(s, k + 2) = v /\ Panel!Byte(s, k + 3) = w
    BY SMT, <1>0, <2>5 DEF Panel!Byte, n
  <2>7. /\ Panel!Continues(s, k + 1, k + 3)
        /\ Panel!Low6(s, k + 1) = u % 64 /\ Panel!Low6(s, k + 2) = v % 64 /\ Panel!Low6(s, k + 3) = w % 64
    <3>1. \A q \in k + 1 .. k + 3 : q = k + 1 \/ q = k + 2 \/ q = k + 3
      BY SMT, <1>0
    <3> QED
      BY SMT, <3>1, <2>4, <2>6 DEF Panel!Continues, Panel!Low6
  <2>8. ~(a <= 159) /\ a \div 16 # 14 /\ a \div 8 = 30
    BY SMT, <2>1
  <2>9. Panel!NextChar(s, k) =
          [cp |-> (a % 8) * 262144 + (u % 64) * 4096 + (v % 64) * 64 + (w % 64), length |-> 4]
    BY SMTT(20), <2>5, <2>7, <2>8 DEF Panel!NextChar
  <2> QED
    BY SMT, <2>2, <2>3, <2>9
<1> QED
  BY SMT, <1>2, <1>3, <1>4, <1>5

-------------------------------------------------------------------------------
(* Runs: the results of a fold place by place. *)

LEMMA RunStays ==
    ASSUME NEW n \in Nat, NEW T, NEW run, run[0] \in T,
           \A k \in 1 .. n : run[k - 1] \in T => run[k] \in T
    PROVE  \A k \in 0 .. n : run[k] \in T
<1> DEFINE G == {k \in 0 .. n : run[k] \in T}
<1>1. 0 \in G
  OBVIOUS
<1>2. \A k \in 0 .. n - 1 : k \in G => k + 1 \in G
  <2> SUFFICES ASSUME NEW k \in 0 .. n - 1, run[k] \in T PROVE k + 1 \in 0 .. n /\ run[k + 1] \in T
    OBVIOUS
  <2>1. k + 1 \in 1 .. n /\ (k + 1) - 1 = k
    OBVIOUS
  <2> QED
    BY <2>1
<1> HIDE DEF G
<1>3. \A k \in 0 .. n : k \in G
  BY <1>1, <1>2, UpTo
<1> QED
  BY <1>3 DEF G

Written(u) == IF u.bare THEN <<u.cp>> ELSE Panel!Encode(u.cp)

LEMMA WrittenBytes ==
    ASSUME NEW text \in Seq(Units), Legible(text), NEW k \in 1 .. Len(text)
    PROVE  /\ Written(text[k]) \in Seq(Octets) /\ Len(Written(text[k])) \in 1 .. 4
           /\ text[k].cp \in Nat
<1> DEFINE u == text[k]
<1>1. u \in Units /\ u.cp <= \h10FFFF /\ (u.bare => u.cp \in \h80 .. \hFF)
  <2>1. u \in Units
    BY SMT
  <2>2. k \in DOMAIN text
    BY SMT
  <2> QED
    BY SMT, <2>1, <2>2 DEF Legible
<1> HIDE DEF u
<1>2. u.cp \in Nat /\ u.bare \in BOOLEAN
  BY SMT, <1>1 DEF Units
<1>3. CASE u.bare
  <2>1. u.cp \in Octets
    BY SMT, <1>1, <1>3 DEF Octets
  <2>2. Written(u) = <<u.cp>>
    BY SMT, <1>3 DEF Written
  <2> QED
    BY SMT, <1>2, <2>1, <2>2 DEF u
<1>4. CASE ~u.bare
  <2>1. Written(u) = Panel!Encode(u.cp)
    BY SMT, <1>4 DEF Written
  <2>2. Panel!Encode(u.cp) \in Seq(Octets) /\ Len(Panel!Encode(u.cp)) \in 1 .. 4
    BY SMT, <1>1, <1>2, EncodedBytes
  <2> QED
    BY SMT, <1>2, <2>1, <2>2 DEF u
<1> QED
  BY SMT, <1>2, <1>3, <1>4

\* The bytes of a text, character by character.
Writes(text, run) ==
    /\ run \in [0 .. Len(text) -> Seq(Octets)] /\ run[0] = <<>>
    /\ \A k \in 1 .. Len(text) : run[k] = run[k - 1] \o Written(text[k])
    /\ Panel!Bytes(text) = run[Len(text)]

LEMMA BytesRun ==
    ASSUME NEW text \in Seq(Units), Legible(text)
    PROVE  \E run : Writes(text, run)
<1> DEFINE n == Len(text)
           it == CHOOSE iter : iter =
                   [S \in SUBSET DOMAIN text |->
                      IF S = {} THEN <<>> ELSE iter[S \ {GreatestIn(S)}] \o Written(text[GreatestIn(S)])]
           step == [q \in (1 .. n) \X Seq(Octets) |-> q[2] \o Written(text[q[1]])]
<1>1. Panel!Bytes(text) = it[DOMAIN text]
  BY DEF Panel!Bytes, Panel!FoldLeft, Panel!MapThenFoldSet, Panel!Max, GreatestIn, Written
<1>2. n \in Nat /\ DOMAIN text = 1 .. n
  OBVIOUS
<1>3. \A k \in 1 .. n : Written(text[k]) \in Seq(Octets)
  BY WrittenBytes
<1>4. step \in [(1 .. n) \X Seq(Octets) -> Seq(Octets)] /\ <<>> \in Seq(Octets)
  BY <1>3
<1>5. \A k \in 1 .. n, b \in Seq(Octets) : step[<<k, b>>] = b \o Written(text[k])
  OBVIOUS
<1> HIDE DEF step, n
<1>6. PICK h : Folds(n, Seq(Octets), <<>>, step, h)
  BY <1>2, <1>4, FoldExists
<1>7. h = [S \in SUBSET DOMAIN text |->
             IF S = {} THEN <<>> ELSE h[S \ {GreatestIn(S)}] \o Written(text[GreatestIn(S)])]
  <2>1. ASSUME NEW S \in SUBSET (1 .. n)
        PROVE  h[S] = IF S = {} THEN <<>> ELSE h[S \ {GreatestIn(S)}] \o Written(text[GreatestIn(S)])
    <3>1. CASE S = {}
      BY <1>6, <3>1 DEF Folds
    <3>2. CASE S # {}
      <4>1. GreatestIn(S) \in 1 .. n
        BY <1>2, <3>2, GreatestOf
      <4>2. h[S \ {GreatestIn(S)}] \in Seq(Octets)
        BY <1>6 DEF Folds
      <4>3. h[S] = step[<<GreatestIn(S), h[S \ {GreatestIn(S)}]>>]
        BY <1>6, <3>2 DEF Folds
      <4> QED
        BY <1>5, <3>2, <4>1, <4>2, <4>3
    <3> QED
      BY <3>1, <3>2
  <2> QED
    BY <1>2, <1>6, <2>1 DEF Folds
<1>8. it = [S \in SUBSET DOMAIN text |->
             IF S = {} THEN <<>> ELSE it[S \ {GreatestIn(S)}] \o Written(text[GreatestIn(S)])]
  BY Zenon, <1>7
<1> HIDE DEF it
<1> DEFINE run == [k \in 0 .. n |-> it[1 .. k]]
<1>9. ASSUME NEW k \in 1 .. n PROVE run[k] = run[k - 1] \o Written(text[k])
  <2>1. 1 .. k \in SUBSET (1 .. n) /\ 1 .. k # {} /\ GreatestIn(1 .. k) = k /\ (1 .. k) \ {k} = 1 .. k - 1
    BY <1>2, FirstPlaces
  <2>2. it[1 .. k] = it[1 .. k - 1] \o Written(text[k])
    BY <1>2, <1>8, <2>1
  <2>3. k \in 0 .. n /\ k - 1 \in 0 .. n
    BY <1>2
  <2> QED
    BY <2>2, <2>3
<1>10. run[0] = <<>>
  <2>1. 1 .. 0 = {} /\ 0 \in 0 .. n /\ {} \in SUBSET (1 .. n)
    BY <1>2
  <2>2. it[{}] = <<>>
    BY <1>2, <1>8, <2>1
  <2> QED
    BY <2>1, <2>2
<1>11. run[n] = Panel!Bytes(text) /\ run = [k \in 0 .. n |-> run[k]]
  BY <1>1, <1>2
<1> HIDE DEF run
<1>12. \A k \in 0 .. n : run[k] \in Seq(Octets)
  <2>1. \A k \in 1 .. n : run[k - 1] \in Seq(Octets) => run[k] \in Seq(Octets)
    <3> SUFFICES ASSUME NEW k \in 1 .. n, run[k - 1] \in Seq(Octets)
                 PROVE  run[k - 1] \o Written(text[k]) \in Seq(Octets)
      BY Zenon, <1>9
    <3>1. Written(text[k]) \in Seq(Octets)
      BY <1>3
    <3> QED
      BY <3>1
  <2>2. run[0] \in Seq(Octets)
    BY <1>4, <1>10
  <2> QED
    BY <1>2, <2>1, <2>2, RunStays
<1>13. run \in [0 .. n -> Seq(Octets)]
  BY <1>11, <1>12
<1> QED
  BY <1>9, <1>10, <1>11, <1>13 DEF Writes, n

\* The characters of any bytes, from one to the one after it.
LEMMA CharsFrom ==
    ASSUME NEW s \in Seq(Octets)
    PROVE  \E from :
             /\ Panel!Chars(s) = from[1] /\ from[Len(s) + 1] = <<>>
             /\ \A k \in 1 .. Len(s) :
                  from[k] = <<Panel!NextChar(s, k).cp>> \o from[k + Panel!NextChar(s, k).length]
<1> DEFINE n == Len(s)
           cp(k) == Panel!NextChar(s, k).cp
           length(k) == Panel!NextChar(s, k).length
           it == CHOOSE from : from =
                   [k \in 1 .. n + 1 |-> IF k > n THEN <<>> ELSE <<cp(k)>> \o from[k + length(k)]]
           down == [m \in 1 .. n |-> m - length(n + 1 - m)]
           step == [q \in (1 .. n) \X Seq(Nat) |-> <<cp(n + 1 - q[1])>> \o q[2]]
<1>1. Panel!Chars(s) = it[1]
  BY Zenon DEF Panel!Chars
<1>2. n \in Nat
  OBVIOUS
<1>3. \A k \in 1 .. n : cp(k) \in Nat /\ length(k) \in 1 .. 4 /\ k + length(k) <= n + 1
  BY NextCharEnds
<1> HIDE DEF n, cp, length
<1>4. ASSUME NEW m \in 1 .. n
      PROVE  n + 1 - m \in 1 .. n /\ m - length(n + 1 - m) \in Nat /\ m - length(n + 1 - m) < m
  <2> DEFINE k == n + 1 - m
  <2>1. k \in 1 .. n
    BY <1>2
  <2>2. length(k) \in 1 .. 4 /\ k + length(k) <= n + 1
    BY <1>3, <2>1
  <2>3. m \in Int /\ n \in Int /\ length(k) \in Int /\ k = n + 1 - m
    BY <1>2, <2>2
  <2> HIDE DEF k
  <2>4. m - length(k) \in Nat /\ m - length(k) < m
    BY <2>2, <2>3
  <2> QED
    BY <2>1, <2>4 DEF k
<1>5. down \in [1 .. n -> Nat] /\ \A m \in 1 .. n : down[m] = m - length(n + 1 - m) /\ down[m] < m
  BY <1>4
<1>6. step \in [(1 .. n) \X Seq(Nat) -> Seq(Nat)]
  <2> SUFFICES ASSUME NEW m \in 1 .. n, NEW r \in Seq(Nat) PROVE <<cp(n + 1 - m)>> \o r \in Seq(Nat)
    OBVIOUS
  <2>1. cp(n + 1 - m) \in Nat
    BY <1>3, <1>4
  <2> QED
    BY <2>1
<1>7. \A m \in 1 .. n, r \in Seq(Nat) : step[<<m, r>>] = <<cp(n + 1 - m)>> \o r
  OBVIOUS
<1> HIDE DEF down, step
<1>8. \E f \in [0 .. n -> Seq(Nat)] :
        f[0] = <<>> /\ \A m \in 1 .. n : f[m] = step[<<m, f[down[m]]>>]
  <2>1. <<>> \in Seq(Nat) /\ \A m \in 1 .. n : down[m] < m
    BY <1>5
  <2>2. down \in [1 .. n -> Nat]
    BY <1>5
  <2>3. \E f : Recurs(n, Seq(Nat), <<>>, down, step, f)
    BY Zenon, <1>2, <1>6, <2>1, <2>2, RecursionExists
  <2> QED
    BY <2>3 DEF Recurs
<1>9a. PICK f \in [0 .. n -> Seq(Nat)] :
         f[0] = <<>> /\ \A m \in 1 .. n : f[m] = step[<<m, f[down[m]]>>]
  BY Zenon, <1>8
<1> DEFINE g == [k \in 1 .. n + 1 |-> f[n + 1 - k]]
<1>9. ASSUME NEW k \in 1 .. n + 1
      PROVE  g[k] = IF k > n THEN <<>> ELSE <<cp(k)>> \o g[k + length(k)]
  <2>1. CASE k > n
    <3>1. n + 1 - k = 0
      BY <1>2, <2>1
    <3> QED
      BY <1>9a, <2>1, <3>1
  <2>2. CASE ~(k > n)
    <3> DEFINE m == n + 1 - k
    <3>1. m \in 1 .. n /\ n + 1 - m = k /\ k \in 1 .. n
      BY <1>2, <2>2
    <3>2. g[k] = f[m]
      OBVIOUS
    <3>3. f[m] = step[<<m, f[down[m]]>>] /\ down[m] = m - length(k) /\ down[m] \in Nat /\ down[m] < m
      BY <1>5, <1>9a, <3>1
    <3> DEFINE w == length(k)
               d == down[m]
    <3>4. w \in 1 .. 4 /\ k + w <= n + 1 /\ d = m - w /\ d \in Nat /\ d < m
      BY Zenon, <1>3, <3>1, <3>3
    <3>5. d \in 0 .. n /\ k + w \in 1 .. n + 1 /\ n + 1 - (k + w) = d
      <4> HIDE DEF w, d
      <4> QED
        BY <1>2, <3>1, <3>4
    <3>6. f[down[m]] \in Seq(Nat) /\ g[k + length(k)] = f[down[m]]
      BY <1>9a, <3>3, <3>5
    <3> HIDE DEF g, m
    <3>7. f[m] = <<cp(k)>> \o f[down[m]]
      BY <1>7, <3>1, <3>3, <3>6
    <3> QED
      BY <2>2, <3>2, <3>6, <3>7
  <2> QED
    BY <2>1, <2>2
<1>10. g = [k \in 1 .. n + 1 |-> IF k > n THEN <<>> ELSE <<cp(k)>> \o g[k + length(k)]]
  <2>1. g = [k \in 1 .. n + 1 |-> g[k]]
    OBVIOUS
  <2> HIDE DEF g
  <2> QED
    BY <1>9, <2>1
<1> HIDE DEF g
<1>11. it = [k \in 1 .. n + 1 |-> IF k > n THEN <<>> ELSE <<cp(k)>> \o it[k + length(k)]]
  BY Zenon, <1>10
<1> HIDE DEF it
<1>12. it[n + 1] = <<>> /\ \A k \in 1 .. n : it[k] = <<cp(k)>> \o it[k + length(k)]
  <2>1. n + 1 \in 1 .. n + 1 /\ n + 1 > n /\ \A k \in 1 .. n : k \in 1 .. n + 1 /\ ~(k > n)
    BY <1>2
  <2> QED
    BY <1>11, <2>1
<1> QED
  BY Zenon, <1>1, <1>12 DEF n, cp, length

\* One is the beginning of the other.
Begins(a, b) == Len(a) <= Len(b) /\ \A q \in 1 .. Len(a) : b[q] = a[q]

LEMMA RunsBegin ==
    ASSUME NEW text \in Seq(Units), Legible(text), NEW run, Writes(text, run)
    PROVE  \A j \in 0 .. Len(text) : \A k \in 0 .. j : Begins(run[k], run[j])
<1> DEFINE n == Len(text)
           G == {j \in 0 .. n : \A k \in 0 .. j : Begins(run[k], run[j])}
<1>1. n \in Nat /\ \A k \in 0 .. n : run[k] \in Seq(Octets)
  BY DEF Writes
<1>2. 0 \in G
  BY <1>1 DEF Begins
<1>3. \A j \in 0 .. n - 1 : j \in G => j + 1 \in G
  <2> SUFFICES ASSUME NEW j \in 0 .. n - 1, \A k \in 0 .. j : Begins(run[k], run[j]), NEW k \in 0 .. j + 1
               PROVE  Begins(run[k], run[j + 1])
    OBVIOUS
  <2>1. j \in 0 .. n /\ j + 1 \in 0 .. n /\ j + 1 \in 1 .. n /\ (j + 1) - 1 = j
    BY <1>1
  <2> DEFINE a == run[j]
             b == Written(text[j + 1])
  <2>2. a \in Seq(Octets) /\ b \in Seq(Octets) /\ run[j + 1] = a \o b
    BY <1>1, <2>1, WrittenBytes DEF Writes
  <2> HIDE DEF a, b
  <2>3. CASE k = j + 1
    BY <1>1, <2>1, <2>3 DEF Begins
  <2>4. CASE k # j + 1
    <3> DEFINE c == run[k]
    <3>1. k \in 0 .. j /\ k \in 0 .. n
      BY <1>1, <2>4
    <3>2. Begins(c, a) /\ c \in Seq(Octets)
      BY <1>1, <3>1 DEF a
    <3> HIDE DEF c
    <3>3. Begins(c, a \o b)
      BY <2>2, <3>2 DEF Begins
    <3> QED
      BY <2>2, <3>3 DEF c
  <2> QED
    BY <2>3, <2>4
<1> HIDE DEF G
<1>4. \A j \in 0 .. n : j \in G
  BY <1>1, <1>2, <1>3, UpTo
<1> QED
  BY <1>4 DEF G

\* Each character is read at the byte where it was written.
LEMMA EachIsRead ==
    ASSUME NEW text \in Seq(Units), Legible(text), NEW run, Writes(text, run), NEW k \in 1 .. Len(text)
    PROVE  /\ Len(run[k - 1]) + 1 \in 1 .. Len(run[Len(text)])
           /\ Panel!NextChar(run[Len(text)], Len(run[k - 1]) + 1) =
                [cp |-> text[k].cp, length |-> Len(Written(text[k]))]
           /\ Len(run[k]) = Len(run[k - 1]) + Len(Written(text[k]))
<1> DEFINE n == Len(text)
           s == run[n]
           w == Written(text[k])
           a == run[k - 1]
           at == Len(a) + 1
<1>1. n \in Nat /\ k \in 1 .. n /\ k \in 0 .. n /\ k - 1 \in 0 .. n /\ n \in 0 .. n /\ k \in 0 .. n
  OBVIOUS
<1>2. a \in Seq(Octets) /\ s \in Seq(Octets) /\ run[k] = a \o w
  BY <1>1 DEF Writes
<1>3. w \in Seq(Octets) /\ Len(w) \in 1 .. 4
  BY WrittenBytes
<1>4. Begins(run[k], s)
  BY <1>1, RunsBegin
<1>5. Len(run[k]) = Len(a) + Len(w) /\ at \in 1 .. Len(s) /\ Holds(s, at, w)
  <2> HIDE DEF s, a, w
  <2>1. Len(a \o w) = Len(a) + Len(w) /\ Len(a) \in Nat /\ Len(w) \in Nat /\ Len(s) \in Nat
    BY <1>2, <1>3
  <2>2. \A q \in 1 .. Len(w) : at + q - 1 \in 1 .. Len(a \o w) /\ (a \o w)[at + q - 1] = w[q]
    BY <1>2, <1>3, <2>1
  <2> QED
    <3>1. Len(a) + Len(w) <= Len(s) /\ \A q \in 1 .. Len(a) + Len(w) : s[q] = (a \o w)[q]
      BY <1>2, <1>4, <2>1 DEF Begins
    <3>2. at \in 1 .. Len(s) /\ at + Len(w) <= Len(s) + 1
      <4>1. Len(a) + Len(w) <= Len(s)
        BY <3>1
      <4> DEFINE la == Len(a)
                 lw == Len(w)
                 ls == Len(s)
      <4>2. la \in Nat /\ lw \in 1 .. 4 /\ ls \in Nat /\ la + lw <= ls
        BY <1>3, <2>1, <4>1
      <4> HIDE DEF la, lw, ls
      <4>3. la + 1 \in 1 .. ls /\ (la + 1) + lw <= ls + 1
        BY <4>2
      <4> QED
        BY <4>3 DEF la, lw, ls
    <3>3. \A q \in 1 .. Len(w) : s[at + q - 1] = w[q]
      BY <2>1, <2>2, <3>1
    <3> QED
      BY <1>2, <2>1, <3>2, <3>3 DEF Holds
<1>6. text[k].cp <= \h10FFFF /\ text[k].cp \in Nat /\ text[k].bare \in BOOLEAN
  <2>1. text[k] \in Units /\ k \in DOMAIN text
    BY SMT
  <2> QED
    BY SMT, <2>1 DEF Units, Legible
<1>7. CASE text[k].bare
  <2>1. w = <<text[k].cp>>
    BY SMT, <1>7 DEF Written
  <2>2. Panel!Byte(s, at + 1) \div 64 # 2
    <3>1. CASE k = n
      <4>1. Len(s) = Len(a) + 1
        BY SMT, <1>2, <1>5, <2>1, <3>1
      <4>2. ~(at + 1 <= Len(s))
        BY SMT, <1>2, <4>1
      <4>3. Panel!Byte(s, at + 1) = 0
        BY Zenon, <4>2 DEF Panel!Byte
      <4> QED
        BY SMT, <4>3
    <3>2. CASE k # n
      <4> DEFINE v == text[k + 1]
                 x == Written(v)
                 c == run[k]
      <4>1. k + 1 \in 1 .. n /\ k + 1 \in 0 .. n /\ (k + 1) - 1 = k /\ k + 1 \in DOMAIN text /\ k + 1 > 1
        BY SMT, <1>1, <3>2
      <4>2. ~v.bare /\ v.cp <= \h10FFFF
        BY SMT, <1>7, <4>1 DEF Legible
      <4>3. v.cp \in Nat /\ x \in Seq(Octets) /\ Len(x) \in 1 .. 4
        BY SMT, <4>1, WrittenBytes
      <4>4. x = Panel!Encode(v.cp)
        BY SMT, <4>2 DEF Written
      <4>5. x[1] < \h80 \/ x[1] >= \hC0
        BY SMT, <4>2, <4>3, <4>4, EncodedBytes
      <4>6. run[k + 1] = c \o x /\ c \in Seq(Octets)
        <5>1. k + 1 \in 1 .. Len(text) /\ (k + 1) - 1 = k /\ k \in 0 .. Len(text)
          BY SMT, <1>1, <4>1
        <5>2. run[k + 1] = run[(k + 1) - 1] \o Written(text[k + 1])
          BY Zenon, <5>1 DEF Writes
        <5>3. c \in Seq(Octets)
          BY SMT, <5>1 DEF Writes
        <5> QED
          BY Zenon, <5>1, <5>2, <5>3
      <4>7. Begins(run[k + 1], s)
        BY SMT, <1>1, <4>1, RunsBegin
      <4>8. Len(c) = Len(a) + 1
        BY SMT, <1>2, <1>5, <2>1
      <4> HIDE DEF x, s, a, c
      <4>9. Len(c \o x) = Len(c) + Len(x) /\ (c \o x)[Len(c) + 1] = x[1]
        BY SMT, <4>3, <4>6
      <4>10. Len(c) + 1 <= Len(s) /\ s[Len(c) + 1] = x[1]
        <5>1. Len(c) + 1 \in 1 .. Len(c \o x) /\ Len(s) \in Nat
          BY SMT, <1>2, <4>3, <4>6, <4>9
        <5>2. Begins(c \o x, s)
          BY Zenon, <4>6, <4>7
        <5> QED
          BY SMT, <4>9, <5>1, <5>2 DEF Begins
      <4>11. Panel!Byte(s, at + 1) = x[1]
        BY SMT, <4>8, <4>10, <1>2 DEF Panel!Byte
      <4>12. x[1] \in Octets
        BY SMT, <4>3
      <4> QED
        <5> DEFINE b == x[1]
        <5>0. b \in Octets /\ (b < \h80 \/ b >= \hC0)
          BY Zenon, <4>5, <4>12
        <5> HIDE DEF b
        <5>1. b \in Int /\ 0 <= b /\ b <= 255 /\ (b < 128 \/ b >= 192)
          BY SMT, <5>0 DEF Octets
        <5>2. b \div 64 # 2
          BY SMT, <5>1
        <5> QED
          BY SMT, <4>11, <5>2 DEF b
    <3> QED
      BY SMT, <3>1, <3>2
  <2>3. s[at] = text[k].cp
    BY SMT, <1>2, <1>5, <2>1 DEF Holds
  <2>4. Panel!NextChar(s, at) = [cp |-> s[at], length |-> 1]
    BY SMT, <1>2, <1>5, <2>2, BareIsRead
  <2>5. Len(w) = 1
    BY SMT, <2>1
  <2>6. Panel!NextChar(s, at) = [cp |-> text[k].cp, length |-> Len(w)]
    BY Zenon, <2>3, <2>4, <2>5
  <2> QED
    BY Zenon, <1>5, <2>6
<1>8. CASE ~text[k].bare
  <2>1. w = Panel!Encode(text[k].cp)
    BY SMT, <1>8 DEF Written
  <2>3. Holds(s, at, Panel!Encode(text[k].cp)) /\ at \in 1 .. Len(s)
    BY Zenon, <1>5, <2>1
  <2>2. Panel!NextChar(s, at) = [cp |-> text[k].cp, length |-> Len(Panel!Encode(text[k].cp))]
    BY SMT, <1>2, <1>6, <2>3, EncodedIsRead
  <2> QED
    BY Zenon, <1>5, <2>1, <2>2
<1>9. Panel!NextChar(s, at) = [cp |-> text[k].cp, length |-> Len(w)]
  BY Zenon, <1>7, <1>8
<1> QED
  BY Zenon, <1>5, <1>9

LEMMA OneThen ==
    ASSUME NEW x \in Nat, NEW b \in Seq(Nat), NEW c \in Seq(Nat),
           Len(c) = Len(b) + 1, c[1] = x, \A q \in 1 .. Len(b) : c[q + 1] = b[q]
    PROVE  <<x>> \o b = c
<1>1. <<x>> \o b \in Seq(Nat) /\ Len(<<x>> \o b) = Len(c)
  OBVIOUS
<1>2. ASSUME NEW q \in 1 .. Len(<<x>> \o b) PROVE (<<x>> \o b)[q] = c[q]
  <2>1. CASE q = 1
    BY <2>1
  <2>2. CASE q # 1
    <3>1. q - 1 \in 1 .. Len(b) /\ (q - 1) + 1 = q
      BY <2>2
    <3>2. (<<x>> \o b)[q] = b[q - 1]
      BY <2>2
    <3> QED
      BY <3>1, <3>2
  <2> QED
    BY <2>1, <2>2
<1> QED
  BY <1>1, <1>2, SeqEqual

\* The characters of the bytes of a text are its code points.
LEMMA TextIsRead ==
    ASSUME NEW text \in Seq(Units), Legible(text)
    PROVE  /\ Panel!Chars(Panel!Bytes(text)) = [k \in 1 .. Len(text) |-> text[k].cp]
           /\ \A k \in 1 .. Len(text) : text[k].cp \in Nat
<1> DEFINE n == Len(text)
<1>1. n \in Nat /\ \A k \in 1 .. n : text[k].cp \in Nat
  BY WrittenBytes
<1>2. PICK run : Writes(text, run)
  BY BytesRun
<1> DEFINE s == run[n]
<1>3. Panel!Bytes(text) = s /\ s \in Seq(Octets)
  BY <1>1, <1>2 DEF Writes
<1>4. PICK from :
        /\ Panel!Chars(s) = from[1] /\ from[Len(s) + 1] = <<>>
        /\ \A k \in 1 .. Len(s) :
             from[k] = <<Panel!NextChar(s, k).cp>> \o from[k + Panel!NextChar(s, k).length]
  BY <1>3, CharsFrom
<1>5. ASSUME NEW k \in 1 .. n
      PROVE  from[Len(run[k - 1]) + 1] = <<text[k].cp>> \o from[Len(run[k]) + 1]
  <2> DEFINE at == Len(run[k - 1]) + 1
             length == Len(Written(text[k]))
  <2>1. /\ at \in 1 .. Len(s) /\ Panel!NextChar(s, at) = [cp |-> text[k].cp, length |-> length]
        /\ Len(run[k]) = Len(run[k - 1]) + length
    BY Zenon, <1>2, EachIsRead
  <2>2. from[at] = <<Panel!NextChar(s, at).cp>> \o from[at + Panel!NextChar(s, at).length]
    BY Zenon, <1>4, <2>1
  <2>3. Panel!NextChar(s, at).cp = text[k].cp /\ Panel!NextChar(s, at).length = length
    BY <2>1
  <2>4. at + length = Len(run[k]) + 1
    <3>1. k \in 0 .. n /\ k - 1 \in 0 .. n
      BY <1>1
    <3> DEFINE b == run[k - 1]
    <3>2. b \in Seq(Octets)
      BY Zenon, <1>2, <3>1 DEF Writes
    <3>3. length \in 1 .. 4
      BY Zenon, WrittenBytes
    <3> HIDE DEF length, b
    <3>4. Len(b) \in Nat
      BY <3>2
    <3>5. Len(run[k]) = Len(b) + length /\ at = Len(b) + 1
      BY Zenon, <2>1 DEF b
    <3> HIDE DEF at
    <3> DEFINE m == Len(b)
    <3>6. m \in Nat /\ Len(run[k]) = m + length /\ at = m + 1
      BY Zenon, <3>4, <3>5
    <3> HIDE DEF m
    <3> QED
      BY <3>3, <3>6
  <2> QED
    BY Zenon, <2>2, <2>3, <2>4
<1> HIDE DEF s
<1> DEFINE rest(j) == [q \in 1 .. j |-> text[n - j + q].cp]
           G == {j \in 0 .. n : from[Len(run[n - j]) + 1] = rest(j)}
<1>6. 0 \in G
  <2>1. n - 0 = n /\ rest(0) = <<>>
    BY <1>1
  <2>2. from[Len(run[n - 0]) + 1] = <<>>
    BY Zenon, <1>4, <2>1 DEF s
  <2> QED
    BY <1>1, <2>1, <2>2
<1>7. \A j \in 0 .. n - 1 : j \in G => j + 1 \in G
  <2> SUFFICES ASSUME NEW j \in 0 .. n - 1, from[Len(run[n - j]) + 1] = rest(j)
               PROVE  j + 1 \in 0 .. n /\ from[Len(run[n - (j + 1)]) + 1] = rest(j + 1)
    BY Zenon
  <2> DEFINE k == n - j
  <2>1. k \in 1 .. n /\ k - 1 = n - (j + 1) /\ j + 1 \in 0 .. n /\ j \in Nat
    BY <1>1
  <2>2. from[Len(run[n - (j + 1)]) + 1] = <<text[k].cp>> \o rest(j)
    BY Zenon, <1>5, <2>1
  <2>3. <<text[k].cp>> \o rest(j) = rest(j + 1)
    <3> DEFINE a == <<text[k].cp>>
               b == rest(j)
               c == rest(j + 1)
    <3>1. \A q \in 1 .. j + 1 : n - (j + 1) + q \in 1 .. n
      BY <1>1, <2>1
    <3>2. c \in Seq(Nat) /\ Len(c) = j + 1
      BY <1>1, <2>1, <3>1
    <3>3. \A q \in 1 .. j : n - j + q \in 1 .. n
      BY <1>1, <2>1
    <3>4. b \in Seq(Nat) /\ Len(b) = j /\ a \in Seq(Nat) /\ Len(a) = 1
      BY <1>1, <2>1, <3>3
    <3>5. c[1] = a[1]
      <4>1. 1 \in 1 .. j + 1 /\ n - (j + 1) + 1 = k
        BY <1>1, <2>1
      <4> QED
        BY <4>1
    <3>6. ASSUME NEW q \in 1 .. j PROVE c[q + 1] = b[q]
      <4>1. q + 1 \in 1 .. j + 1 /\ n - (j + 1) + (q + 1) = n - j + q
        BY <1>1, <2>1
      <4> QED
        BY <4>1
    <3> DEFINE x == text[k].cp
    <3>7. x \in Nat /\ a = <<x>> /\ a[1] = x
      BY <1>1, <2>1
    <3> HIDE DEF a, b, c, x
    <3>9. a \o b = c
      BY <3>2, <3>4, <3>5, <3>6, <3>7, OneThen
    <3> QED
      BY <3>9 DEF a, b, c
  <2> QED
    BY Zenon, <2>1, <2>2, <2>3
<1> HIDE DEF G
<1>8. n \in G
  <2>1. \A j \in 0 .. n : j \in G
    BY <1>1, <1>6, <1>7, UpTo
  <2> QED
    BY <1>1, <2>1
<1>9. from[Len(run[n - n]) + 1] = rest(n)
  BY Zenon, <1>8 DEF G
<1>10. n - n = 0 /\ run[0] = <<>> /\ Len(<<>>) + 1 = 1
  BY <1>1, <1>2 DEF Writes
<1>11. rest(n) = [k \in 1 .. n |-> text[k].cp]
  <2>1. \A q \in 1 .. n : n - n + q = q
    BY <1>1
  <2> QED
    BY <2>1
<1> QED
  BY Zenon, <1>1, <1>3, <1>4, <1>9, <1>10, <1>11

-------------------------------------------------------------------------------
(* Pixels. *)

LEMMA Dimensions ==
    /\ Width \in Nat /\ Height \in Nat /\ FontWidth \in Nat /\ FontHeight \in Nat /\ Kerning \in Nat
    /\ \A b \in \h20 .. \hFF : Glyph[b] \subseteq (0 .. FontWidth - 1) \X (0 .. FontHeight - 1)
<1>1. {Width, Height, FontWidth, FontHeight, Kerning} \subseteq Nat
  BY PanelAssumption
<1>2. Glyph \in [\h20 .. \hFF -> SUBSET ((0 .. FontWidth - 1) \X (0 .. FontHeight - 1))]
  BY PanelAssumption
<1> QED
  BY <1>1, <1>2

LEMMA TimesLeq ==
    ASSUME NEW a \in Nat, NEW b \in Nat, NEW s \in Nat, a <= b
    PROVE  a * s \in Nat /\ b * s \in Nat /\ a * s <= b * s
<1>1. PICK d \in Nat : b = a + d
  <2>1. b - a \in Nat /\ b = a + (b - a)
    OBVIOUS
  <2> QED
    BY <2>1
<1>2. a * s \in Nat /\ d * s \in Nat /\ b * s = a * s + d * s
  BY <1>1
<1> QED
  BY <1>2

LEMMA ScreenPixels ==
    ASSUME NEW px \in Panel!Screen
    PROVE  px[1] \in Nat /\ px[2] \in Nat /\ px = <<px[1], px[2]>>
BY DEF Panel!Screen

LEMMA InSquare ==
    ASSUME NEW x \in Nat, NEW y \in Nat, NEW w \in Nat, NEW h \in Nat, NEW px
    PROVE  px \in Panel!Square(x, y, w, h) <=>
             px \in Panel!Screen /\ x <= px[1] /\ px[1] < x + w /\ y <= px[2] /\ px[2] < y + h
<1>1. CASE px \in Panel!Screen
  <2>1. px[1] \in Nat /\ px[2] \in Nat /\ px = <<px[1], px[2]>>
    BY <1>1, ScreenPixels
  <2> DEFINE u == px[1]
             v == px[2]
  <2>2. px \in (x .. x + w - 1) \X (y .. y + h - 1) <=> u \in x .. x + w - 1 /\ v \in y .. y + h - 1
    BY <2>1
  <2>3. u \in x .. x + w - 1 /\ v \in y .. y + h - 1 <=> x <= u /\ u < x + w /\ y <= v /\ v < y + h
    <3> HIDE DEF u, v
    <3>1. u \in Nat /\ v \in Nat
      BY <2>1 DEF u, v
    <3> QED
      BY <3>1
  <2> QED
    BY Zenon, <1>1, <2>2, <2>3 DEF Panel!Square
<1>2. CASE px \notin Panel!Screen
  BY Zenon, <1>2 DEF Panel!Square
<1> QED
  BY <1>1, <1>2

\* A glyph stays in the cell of its character.
LEMMA GlyphInCell ==
    ASSUME NEW b \in \h20 .. \hFF, NEW x \in Nat, NEW y \in Nat, NEW scale \in Nat
    PROVE  /\ Panel!Advance(scale) \in Nat /\ FontHeight * scale \in Nat
           /\ Panel!GlyphAt(b, x, y, scale) \subseteq
                Panel!Square(x, y, Panel!Advance(scale), FontHeight * scale)
<1> DEFINE adv == Panel!Advance(scale)
           high == FontHeight * scale
<1>1. FontWidth * scale \in Nat /\ adv = FontWidth * scale + Kerning /\ adv \in Nat /\ high \in Nat
  BY Dimensions DEF Panel!Advance
<1>2. ASSUME NEW g \in Glyph[b], NEW px \in Panel!Square(x + g[1] * scale, y + g[2] * scale, scale, scale)
      PROVE  px \in Panel!Square(x, y, adv, high)
  <2>1. Glyph[b] \subseteq (0 .. FontWidth - 1) \X (0 .. FontHeight - 1)
    BY Dimensions
  <2>2. g[1] \in 0 .. FontWidth - 1 /\ g[2] \in 0 .. FontHeight - 1
    BY <2>1
  <2> DEFINE u == g[1]
             v == g[2]
  <2> HIDE DEF u, v
  <2>3. u \in Nat /\ v \in Nat /\ u + 1 <= FontWidth /\ v + 1 <= FontHeight
    BY <2>2, Dimensions DEF u, v
  <2>4. u * scale \in Nat /\ v * scale \in Nat /\ (u + 1) * scale = u * scale + scale
        /\ (v + 1) * scale = v * scale + scale
    BY <2>3
  <2>5. (u + 1) * scale <= FontWidth * scale /\ (v + 1) * scale <= high
    <3>1. u + 1 \in Nat /\ v + 1 \in Nat
      BY <2>3
    <3> QED
      BY <2>3, <3>1, Dimensions, TimesLeq
  <2> DEFINE us == u * scale
             vs == v * scale
             fw == FontWidth * scale
  <2>6. us \in Nat /\ vs \in Nat /\ us + scale <= fw /\ vs + scale <= high /\ fw \in Nat /\ high \in Nat
        /\ adv = fw + Kerning
    BY <1>1, <2>4, <2>5
  <2>7. px \in Panel!Square(x + us, y + vs, scale, scale)
    BY DEF u, v
  <2> HIDE DEF us, vs, fw, high, adv
  <2>8. x + us \in Nat /\ y + vs \in Nat
    BY <2>6
  <2>9. px \in Panel!Screen /\ x + us <= px[1] /\ px[1] < x + us + scale /\ y + vs <= px[2]
        /\ px[2] < y + vs + scale
    BY <2>7, <2>8, InSquare
  <2>10. px[1] \in Nat /\ px[2] \in Nat
    BY <2>9, ScreenPixels
  <2>11. x <= px[1] /\ px[1] < x + adv /\ y <= px[2] /\ px[2] < y + high
    BY <2>6, <2>9, <2>10, Dimensions
  <2> QED
    BY <1>1, <2>9, <2>11, InSquare
<1> QED
  BY <1>1, <1>2 DEF Panel!GlyphAt

LEMMA SquareSplits ==
    ASSUME NEW x \in Nat, NEW y \in Nat, NEW a \in Nat, NEW b \in Nat, NEW h \in Nat
    PROVE  /\ Panel!Square(x, y, a + b, h) = Panel!Square(x, y, a, h) \cup Panel!Square(x + a, y, b, h)
           /\ Panel!Square(x, y, a, h) \cap Panel!Square(x + a, y, b, h) = {}
<1>1. x + a \in Nat /\ a + b \in Nat
  OBVIOUS
<1>2. ASSUME NEW px
      PROVE  /\ px \in Panel!Square(x, y, a + b, h) <=>
                  px \in Panel!Square(x, y, a, h) \/ px \in Panel!Square(x + a, y, b, h)
             /\ ~(px \in Panel!Square(x, y, a, h) /\ px \in Panel!Square(x + a, y, b, h))
  <2>1. CASE px \in Panel!Screen
    <3>1. px[1] \in Nat /\ px[2] \in Nat
      BY <2>1, ScreenPixels
    <3>2. /\ px \in Panel!Square(x, y, a + b, h) <=>
               x <= px[1] /\ px[1] < x + (a + b) /\ y <= px[2] /\ px[2] < y + h
          /\ px \in Panel!Square(x, y, a, h) <=> x <= px[1] /\ px[1] < x + a /\ y <= px[2] /\ px[2] < y + h
          /\ px \in Panel!Square(x + a, y, b, h) <=>
               x + a <= px[1] /\ px[1] < x + a + b /\ y <= px[2] /\ px[2] < y + h
      BY <1>1, <2>1, InSquare
    <3> QED
      BY <3>1, <3>2
  <2>2. CASE px \notin Panel!Screen
    BY <2>2 DEF Panel!Square
  <2> QED
    BY <2>1, <2>2
<1> QED
  BY Zenon, <1>2

-------------------------------------------------------------------------------
(* The glyphs of a text, each a cell further than the one before. *)

GlyphOf(cps, k, left, y, scale) ==
    Panel!GlyphAt(Panel!FontByte(cps[k]), left + (k - 1) * Panel!Advance(scale), y, scale)
GlyphsOf(cps, k, left, y, scale) == UNION {GlyphOf(cps, j, left, y, scale) : j \in 1 .. k}

Pens == [x : Nat, buf : SUBSET Panel!Screen]

LEMMA FontByteRange ==
    ASSUME NEW cp PROVE Panel!FontByte(cp) \in \h20 .. \hFF
BY DEF Panel!FontByte

LEMMA OnScreen ==
    ASSUME NEW b, NEW x, NEW y, NEW w, NEW h, NEW scale
    PROVE  /\ Panel!Square(x, y, w, h) \subseteq Panel!Screen
           /\ Panel!GlyphAt(b, x, y, scale) \subseteq Panel!Screen
<1>1. \A u, v, a, c : Panel!Square(u, v, a, c) \subseteq Panel!Screen
  BY DEF Panel!Square
<1> QED
  BY <1>1 DEF Panel!GlyphAt

LEMMA InGlyphs ==
    ASSUME NEW cps, NEW k, NEW left, NEW y, NEW scale, NEW px
    PROVE  px \in GlyphsOf(cps, k, left, y, scale) <=>
             \E j \in 1 .. k : px \in GlyphOf(cps, j, left, y, scale)
BY DEF GlyphsOf

LEMMA MoreGlyphs ==
    ASSUME NEW cps, NEW k \in Nat, NEW left, NEW y, NEW scale
    PROVE  /\ GlyphsOf(cps, 0, left, y, scale) = {}
           /\ GlyphsOf(cps, k + 1, left, y, scale) =
                GlyphsOf(cps, k, left, y, scale) \cup GlyphOf(cps, k + 1, left, y, scale)
<1>1. 1 .. 0 = {} /\ \A j : j \in 1 .. k + 1 <=> j \in 1 .. k \/ j = k + 1
  OBVIOUS
<1>2. \A px : px \in GlyphsOf(cps, k + 1, left, y, scale) <=>
               px \in GlyphsOf(cps, k, left, y, scale) \/ px \in GlyphOf(cps, k + 1, left, y, scale)
  <2> SUFFICES ASSUME NEW px
               PROVE  px \in GlyphsOf(cps, k + 1, left, y, scale) <=>
                        px \in GlyphsOf(cps, k, left, y, scale) \/ px \in GlyphOf(cps, k + 1, left, y, scale)
    BY Zenon
  <2> DEFINE In(j) == px \in GlyphOf(cps, j, left, y, scale)
  <2>1. px \in GlyphsOf(cps, k + 1, left, y, scale) <=> \E j \in 1 .. k + 1 : In(j)
    BY InGlyphs
  <2>2. px \in GlyphsOf(cps, k, left, y, scale) <=> \E j \in 1 .. k : In(j)
    BY InGlyphs
  <2>3. In(k + 1) <=> px \in GlyphOf(cps, k + 1, left, y, scale)
    BY Zenon
  <2> HIDE DEF In
  <2>4. (\E j \in 1 .. k + 1 : In(j)) <=> (\E j \in 1 .. k : In(j)) \/ In(k + 1)
    BY Zenon, <1>1
  <2> QED
    BY Zenon, <2>1, <2>2, <2>3, <2>4
<1>3. \A px : px \notin GlyphsOf(cps, 0, left, y, scale)
  BY Zenon, <1>1, InGlyphs
<1> QED
  BY Zenon, <1>2, <1>3

LEMMA AdvanceIsNat ==
    ASSUME NEW scale \in Nat PROVE Panel!Advance(scale) \in Nat
BY Dimensions DEF Panel!Advance

LEMMA Further ==
    ASSUME NEW x \in Nat, NEW k \in Nat, NEW adv \in Nat
    PROVE  /\ x + 0 * adv = x /\ (k + 1) - 1 = k
           /\ k * adv \in Nat /\ x + k * adv \in Nat /\ x + k * adv + adv = x + (k + 1) * adv
OBVIOUS

LEMMA DrawnText ==
    ASSUME NEW s, NEW cps \in Seq(Nat), Panel!Chars(s) = cps,
           NEW x \in Nat, NEW y \in Nat, NEW scale \in Nat, NEW buf \in SUBSET Panel!Screen
    PROVE  Panel!DrawText(buf, s, x, y, scale) = buf \cup GlyphsOf(cps, Len(cps), x, y, scale)
<1> DEFINE n == Len(cps)
           adv == Panel!Advance(scale)
           base == [x |-> x, buf |-> buf]
           draw(at, cp) == [x |-> at.x + adv,
                            buf |-> at.buf \cup Panel!GlyphAt(Panel!FontByte(cp), at.x, y, scale)]
           it == CHOOSE iter : iter =
                   [S \in SUBSET DOMAIN cps |->
                      IF S = {} THEN base ELSE draw(iter[S \ {GreatestIn(S)}], cps[GreatestIn(S)])]
           step == [q \in (1 .. n) \X Pens |-> draw(q[2], cps[q[1]])]
<1>1. Panel!DrawText(buf, s, x, y, scale) = it[DOMAIN cps].buf
  <2>1. Panel!DrawText(buf, s, x, y, scale) =
          Panel!FoldLeft(LAMBDA at, cp : draw(at, cp), base, Panel!Chars(s)).buf
    BY DEF Panel!DrawText
  <2>2. Panel!FoldLeft(LAMBDA at, cp : draw(at, cp), base, cps) = it[DOMAIN cps]
    BY DEF Panel!FoldLeft, Panel!MapThenFoldSet, Panel!Max, GreatestIn
  <2> QED
    BY <2>1, <2>2
<1>2. n \in Nat /\ DOMAIN cps = 1 .. n /\ adv \in Nat
  BY AdvanceIsNat
<1> HIDE DEF n
<1>3. base \in Pens
  BY DEF Pens
<1>4. ASSUME NEW at \in Pens, NEW cp PROVE draw(at, cp) \in Pens
  <2> DEFINE g == Panel!GlyphAt(Panel!FontByte(cp), at.x, y, scale)
  <2>1. at.x \in Nat /\ at.buf \in SUBSET Panel!Screen
    BY DEF Pens
  <2>2. g \in SUBSET Panel!Screen
    BY OnScreen
  <2> HIDE DEF g, adv
  <2>3. at.x + adv \in Nat /\ at.buf \cup g \in SUBSET Panel!Screen
    BY <1>2, <2>1, <2>2
  <2>4. [x |-> at.x + adv, buf |-> at.buf \cup g] \in Pens
    BY <2>3 DEF Pens
  <2> QED
    BY <2>4 DEF g, adv
<1> HIDE DEF draw, base, adv
<1>5. step \in [(1 .. n) \X Pens -> Pens] /\ \A k \in 1 .. n, b \in Pens : step[<<k, b>>] = draw(b, cps[k])
  BY <1>4
<1> HIDE DEF step
<1>6. PICK h : Folds(n, Pens, base, step, h)
  BY <1>2, <1>3, <1>5, FoldExists
<1>7. h = [S \in SUBSET DOMAIN cps |->
             IF S = {} THEN base ELSE draw(h[S \ {GreatestIn(S)}], cps[GreatestIn(S)])]
  <2>1. ASSUME NEW S \in SUBSET (1 .. n)
        PROVE  h[S] = IF S = {} THEN base ELSE draw(h[S \ {GreatestIn(S)}], cps[GreatestIn(S)])
    <3>1. CASE S = {}
      BY <1>6, <3>1 DEF Folds
    <3>2. CASE S # {}
      <4>1. GreatestIn(S) \in 1 .. n
        BY <1>2, <3>2, GreatestOf
      <4>2. h[S \ {GreatestIn(S)}] \in Pens
        BY <1>6 DEF Folds
      <4>3. h[S] = step[<<GreatestIn(S), h[S \ {GreatestIn(S)}]>>]
        BY <1>6, <3>2 DEF Folds
      <4> QED
        BY <1>5, <3>2, <4>1, <4>2, <4>3
    <3> QED
      BY <3>1, <3>2
  <2> QED
    BY <1>2, <1>6, <2>1 DEF Folds
<1>8. it = [S \in SUBSET DOMAIN cps |->
             IF S = {} THEN base ELSE draw(it[S \ {GreatestIn(S)}], cps[GreatestIn(S)])]
  BY Zenon, <1>7
<1> HIDE DEF it
<1> DEFINE pen(k) == [x |-> x + k * adv, buf |-> buf \cup GlyphsOf(cps, k, x, y, scale)]
           G == {k \in 0 .. n : it[1 .. k] = pen(k)}
<1>9. 0 \in G
  <2>1. 1 .. 0 = {} /\ 0 \in 0 .. n /\ {} \in SUBSET (1 .. n)
    BY <1>2
  <2>2. it[{}] = base
    BY <1>2, <1>8, <2>1
  <2>3. pen(0) = base
    <3>1. x + 0 * adv = x
      BY <1>2, Further
    <3>2. GlyphsOf(cps, 0, x, y, scale) = {}
      BY MoreGlyphs
    <3> QED
      BY <3>1, <3>2 DEF base
  <2> QED
    BY <2>1, <2>2, <2>3
<1>10. \A k \in 0 .. n - 1 : k \in G => k + 1 \in G
  <2> SUFFICES ASSUME NEW k \in 0 .. n - 1, it[1 .. k] = pen(k)
               PROVE  k + 1 \in 0 .. n /\ it[1 .. k + 1] = pen(k + 1)
    BY Zenon
  <2>1. k + 1 \in 1 .. n /\ k + 1 \in 0 .. n /\ k \in Nat
    BY <1>2
  <2>2. 1 .. k + 1 \in SUBSET (1 .. n) /\ 1 .. k + 1 # {} /\ GreatestIn(1 .. k + 1) = k + 1
        /\ (1 .. k + 1) \ {k + 1} = 1 .. (k + 1) - 1
    BY <1>2, <2>1, FirstPlaces
  <2>3. (k + 1) - 1 = k /\ x + k * adv + adv = x + (k + 1) * adv
    <3>1. k \in Nat /\ adv \in Nat
      BY <1>2, <2>1
    <3> QED
      BY SMTT(20), <3>1, Further
  <2>4. it[1 .. k + 1] = draw(it[1 .. k], cps[k + 1])
    <3> HIDE DEF draw, base
    <3> DEFINE S == 1 .. k + 1
    <3>1. S \in SUBSET DOMAIN cps /\ S # {} /\ GreatestIn(S) = k + 1 /\ S \ {k + 1} = 1 .. k
      BY <1>2, <2>2, <2>3
    <3> HIDE DEF S
    <3>2. it[S] = IF S = {} THEN base ELSE draw(it[S \ {GreatestIn(S)}], cps[GreatestIn(S)])
      BY <1>8, <3>1
    <3> QED
      BY Zenon, <3>1, <3>2 DEF S
  <2>5. pen(k).x = x + k * adv /\ pen(k).buf = buf \cup GlyphsOf(cps, k, x, y, scale)
    OBVIOUS
  <2>6. Panel!GlyphAt(Panel!FontByte(cps[k + 1]), x + k * adv, y, scale) = GlyphOf(cps, k + 1, x, y, scale)
    BY Zenon, <2>3 DEF GlyphOf, adv
  <2>7. GlyphsOf(cps, k + 1, x, y, scale) =
          GlyphsOf(cps, k, x, y, scale) \cup GlyphOf(cps, k + 1, x, y, scale)
    BY <2>1, MoreGlyphs
  <2>8. draw(pen(k), cps[k + 1]) =
          [x |-> x + k * adv + adv,
           buf |-> (buf \cup GlyphsOf(cps, k, x, y, scale)) \cup GlyphOf(cps, k + 1, x, y, scale)]
    BY Zenon, <2>5, <2>6 DEF draw
  <2>9. (buf \cup GlyphsOf(cps, k, x, y, scale)) \cup GlyphOf(cps, k + 1, x, y, scale) =
          buf \cup GlyphsOf(cps, k + 1, x, y, scale)
    BY <2>7
  <2>10. draw(pen(k), cps[k + 1]) = pen(k + 1)
    BY Zenon, <2>3, <2>8, <2>9
  <2> QED
    BY Zenon, <2>1, <2>4, <2>10
<1> HIDE DEF G, pen
<1>11. n \in G
  <2>1. \A k \in 0 .. n : k \in G
    BY <1>2, <1>9, <1>10, UpTo
  <2> QED
    BY <1>2, <2>1
<1>12. it[1 .. n] = pen(n)
  BY Zenon, <1>11 DEF G
<1> QED
  BY <1>1, <1>2, <1>12 DEF pen, n

\* The glyphs of a line stay in the cells of the line.
LEMMA GlyphsInLine ==
    ASSUME NEW cps, NEW k \in Nat, NEW left \in Nat, NEW y \in Nat, NEW scale \in Nat
    PROVE  GlyphsOf(cps, k, left, y, scale) \subseteq
             Panel!Square(left, y, k * Panel!Advance(scale), FontHeight * scale)
<1> DEFINE adv == Panel!Advance(scale)
           high == FontHeight * scale
<1>1. adv \in Nat /\ high \in Nat
  BY Dimensions, AdvanceIsNat
<1> SUFFICES ASSUME NEW px, px \in GlyphsOf(cps, k, left, y, scale)
             PROVE  px \in Panel!Square(left, y, k * adv, high)
  BY Zenon
<1>2. PICK j \in 1 .. k : px \in GlyphOf(cps, j, left, y, scale)
  BY Zenon, InGlyphs
<1> DEFINE q == j - 1
           d == k - j
<1>3. q \in Nat /\ d \in Nat /\ k = q + 1 + d
  OBVIOUS
<1>4. px \in Panel!GlyphAt(Panel!FontByte(cps[j]), left + q * adv, y, scale)
  BY Zenon, <1>2 DEF GlyphOf
<1> HIDE DEF q, d, adv, high
<1> DEFINE u == q * adv
           v == d * adv
<1>5. u \in Nat /\ v \in Nat /\ k * adv = u + adv + v /\ left + u \in Nat
  BY <1>1, <1>3
<1>6. px \in Panel!Square(left + u, y, adv, high)
  <2>1. Panel!FontByte(cps[j]) \in \h20 .. \hFF
    BY FontByteRange
  <2> DEFINE b == Panel!FontByte(cps[j])
  <2> HIDE DEF b
  <2>2. Panel!GlyphAt(b, left + u, y, scale) \subseteq
          Panel!Square(left + u, y, Panel!Advance(scale), FontHeight * scale)
    BY <1>5, <2>1, GlyphInCell DEF b
  <2>3. px \in Panel!GlyphAt(b, left + u, y, scale)
    BY Zenon, <1>4 DEF b
  <2> QED
    BY Zenon, <2>2, <2>3 DEF adv, high
<1> HIDE DEF u, v
<1>7. px \in Panel!Screen /\ left + u <= px[1] /\ px[1] < left + u + adv /\ y <= px[2] /\ px[2] < y + high
  BY <1>1, <1>5, <1>6, InSquare
<1> DEFINE w == k * adv
<1>8. w = u + adv + v
  BY <1>5
<1> HIDE DEF w
<1>9. w \in Nat /\ px[1] \in Nat
  BY <1>1, <1>5, <1>7, <1>8, ScreenPixels
<1>10. left <= px[1] /\ px[1] < left + w
  BY <1>1, <1>5, <1>7, <1>8, <1>9
<1>11. px \in Panel!Square(left, y, w, high)
  BY <1>1, <1>7, <1>9, <1>10, InSquare
<1> QED
  BY <1>11 DEF w

Bar(x, k, y, scale) == Panel!Square(x, y, Kerning + k * Panel!Advance(scale), FontHeight * scale)

LEMMA DarkGlyph ==
    ASSUME NEW B, NEW bar, NEW cell, NEW G, NEW g, bar \cap cell = {}, G \subseteq bar
    PROVE  (((B \cup bar) \ G) \cup cell) \ g = (B \cup (bar \cup cell)) \ (G \cup g)
OBVIOUS

LEMMA DrawnDark ==
    ASSUME NEW s, NEW cps \in Seq(Nat), Panel!Chars(s) = cps,
           NEW x \in Nat, NEW y \in Nat, NEW scale \in Nat, NEW buf \in SUBSET Panel!Screen
    PROVE  Panel!DrawInverse(buf, s, x, y, scale) =
             (buf \cup Bar(x, Len(cps), y, scale)) \ GlyphsOf(cps, Len(cps), x + Kerning, y, scale)
<1> DEFINE n == Len(cps)
           adv == Panel!Advance(scale)
           high == FontHeight * scale
           left == x + Kerning
           base == [x |-> left, buf |-> buf \cup Panel!Square(x, y, Kerning, high)]
           draw(at, cp) == [x |-> at.x + adv,
                            buf |-> (at.buf \cup Panel!Square(at.x, y, adv, high))
                                      \ Panel!GlyphAt(Panel!FontByte(cp), at.x, y, scale)]
           it == CHOOSE iter : iter =
                   [S \in SUBSET DOMAIN cps |->
                      IF S = {} THEN base ELSE draw(iter[S \ {GreatestIn(S)}], cps[GreatestIn(S)])]
           step == [q \in (1 .. n) \X Pens |-> draw(q[2], cps[q[1]])]
<1>1. Panel!DrawInverse(buf, s, x, y, scale) = it[DOMAIN cps].buf
  <2>1. Panel!DrawInverse(buf, s, x, y, scale) =
          Panel!FoldLeft(LAMBDA at, cp : draw(at, cp), base, Panel!Chars(s)).buf
    BY DEF Panel!DrawInverse
  <2>2. Panel!FoldLeft(LAMBDA at, cp : draw(at, cp), base, cps) = it[DOMAIN cps]
    BY DEF Panel!FoldLeft, Panel!MapThenFoldSet, Panel!Max, GreatestIn
  <2> QED
    BY <2>1, <2>2
<1>2. n \in Nat /\ DOMAIN cps = 1 .. n /\ adv \in Nat /\ high \in Nat /\ left \in Nat /\ Kerning \in Nat
  BY AdvanceIsNat, Dimensions
<1> HIDE DEF n
<1>3. base \in Pens
  <2>1. Panel!Square(x, y, Kerning, high) \in SUBSET Panel!Screen
    BY OnScreen
  <2>2. buf \cup Panel!Square(x, y, Kerning, high) \in SUBSET Panel!Screen
    BY <2>1
  <2> QED
    BY <1>2, <2>2 DEF Pens
<1>4. ASSUME NEW at \in Pens, NEW cp PROVE draw(at, cp) \in Pens
  <2> DEFINE g == Panel!GlyphAt(Panel!FontByte(cp), at.x, y, scale)
             c == Panel!Square(at.x, y, adv, high)
  <2>1. at.x \in Nat /\ at.buf \in SUBSET Panel!Screen
    BY DEF Pens
  <2>2. c \in SUBSET Panel!Screen
    BY OnScreen
  <2> HIDE DEF g, c, adv
  <2>3. at.x + adv \in Nat /\ (at.buf \cup c) \ g \in SUBSET Panel!Screen
    BY <1>2, <2>1, <2>2
  <2>4. [x |-> at.x + adv, buf |-> (at.buf \cup c) \ g] \in Pens
    BY <2>3 DEF Pens
  <2> QED
    BY <2>4 DEF g, c, adv
<1> HIDE DEF draw, base, adv, high
<1>5. step \in [(1 .. n) \X Pens -> Pens] /\ \A k \in 1 .. n, b \in Pens : step[<<k, b>>] = draw(b, cps[k])
  BY <1>4
<1> HIDE DEF step
<1>6. PICK h : Folds(n, Pens, base, step, h)
  BY <1>2, <1>3, <1>5, FoldExists
<1>7. h = [S \in SUBSET DOMAIN cps |->
             IF S = {} THEN base ELSE draw(h[S \ {GreatestIn(S)}], cps[GreatestIn(S)])]
  <2>1. ASSUME NEW S \in SUBSET (1 .. n)
        PROVE  h[S] = IF S = {} THEN base ELSE draw(h[S \ {GreatestIn(S)}], cps[GreatestIn(S)])
    <3>1. CASE S = {}
      BY <1>6, <3>1 DEF Folds
    <3>2. CASE S # {}
      <4>1. GreatestIn(S) \in 1 .. n
        BY <1>2, <3>2, GreatestOf
      <4>2. h[S \ {GreatestIn(S)}] \in Pens
        BY <1>6 DEF Folds
      <4>3. h[S] = step[<<GreatestIn(S), h[S \ {GreatestIn(S)}]>>]
        BY <1>6, <3>2 DEF Folds
      <4> QED
        BY <1>5, <3>2, <4>1, <4>2, <4>3
    <3> QED
      BY <3>1, <3>2
  <2> QED
    BY <1>2, <1>6, <2>1 DEF Folds
<1>8. it = [S \in SUBSET DOMAIN cps |->
             IF S = {} THEN base ELSE draw(it[S \ {GreatestIn(S)}], cps[GreatestIn(S)])]
  BY Zenon, <1>7
<1> HIDE DEF it, left
<1> DEFINE glyphs(k) == GlyphsOf(cps, k, left, y, scale)
           pen(k) == [x |-> left + k * adv, buf |-> (buf \cup Bar(x, k, y, scale)) \ glyphs(k)]
           G == {k \in 0 .. n : it[1 .. k] = pen(k)}
<1>9. 0 \in G
  <2>1. 1 .. 0 = {} /\ 0 \in 0 .. n /\ {} \in SUBSET (1 .. n)
    BY <1>2
  <2>2. it[{}] = base
    BY <1>2, <1>8, <2>1
  <2>3. pen(0) = base
    <3>1. left + 0 * adv = left /\ Kerning + 0 * adv = Kerning
      BY <1>2
    <3>2. glyphs(0) = {}
      BY MoreGlyphs
    <3>3. Bar(x, 0, y, scale) = Panel!Square(x, y, Kerning, high)
      BY Zenon, <3>1 DEF Bar, adv, high
    <3>4. (buf \cup Bar(x, 0, y, scale)) \ glyphs(0) = buf \cup Panel!Square(x, y, Kerning, high)
      BY <3>2, <3>3
    <3> QED
      BY Zenon, <3>1, <3>4 DEF base
  <2> QED
    BY <2>1, <2>2, <2>3
<1>10. \A k \in 0 .. n - 1 : k \in G => k + 1 \in G
  <2> SUFFICES ASSUME NEW k \in 0 .. n - 1, it[1 .. k] = pen(k)
               PROVE  k + 1 \in 0 .. n /\ it[1 .. k + 1] = pen(k + 1)
    BY Zenon
  <2> DEFINE cell == Panel!Square(left + k * adv, y, adv, high)
             bar == Bar(x, k, y, scale)
  <2>1. k + 1 \in 1 .. n /\ k + 1 \in 0 .. n /\ k \in Nat
    BY <1>2
  <2>2. 1 .. k + 1 \in SUBSET (1 .. n) /\ 1 .. k + 1 # {} /\ GreatestIn(1 .. k + 1) = k + 1
        /\ (1 .. k + 1) \ {k + 1} = 1 .. (k + 1) - 1
    BY <1>2, <2>1, FirstPlaces
  <2>3. (k + 1) - 1 = k /\ left + k * adv + adv = left + (k + 1) * adv
    <3>1. k \in Nat /\ adv \in Nat /\ left \in Nat
      BY <1>2, <2>1
    <3> QED
      BY SMTT(20), <3>1, Further
  <2>4. it[1 .. k + 1] = draw(it[1 .. k], cps[k + 1])
    <3> HIDE DEF draw, base
    <3> DEFINE S == 1 .. k + 1
    <3>1. S \in SUBSET DOMAIN cps /\ S # {} /\ GreatestIn(S) = k + 1 /\ S \ {k + 1} = 1 .. k
      BY <1>2, <2>2, <2>3
    <3> HIDE DEF S
    <3>2. it[S] = IF S = {} THEN base ELSE draw(it[S \ {GreatestIn(S)}], cps[GreatestIn(S)])
      BY <1>8, <3>1
    <3> QED
      BY Zenon, <3>1, <3>2 DEF S
  <2>5. pen(k).x = left + k * adv /\ pen(k).buf = (buf \cup bar) \ glyphs(k)
    OBVIOUS
  <2>6. Panel!GlyphAt(Panel!FontByte(cps[k + 1]), left + k * adv, y, scale) =
          GlyphOf(cps, k + 1, left, y, scale)
    BY Zenon, <2>3 DEF GlyphOf, adv
  <2>7. glyphs(k + 1) = glyphs(k) \cup GlyphOf(cps, k + 1, left, y, scale)
    BY <2>1, MoreGlyphs
  <2>8. draw(pen(k), cps[k + 1]) =
          [x |-> left + k * adv + adv,
           buf |-> (((buf \cup bar) \ glyphs(k)) \cup cell) \ GlyphOf(cps, k + 1, left, y, scale)]
    BY Zenon, <2>5, <2>6 DEF draw
  <2> DEFINE w == k * adv
  <2>9. w \in Nat /\ (k + 1) * adv = w + adv /\ left = x + Kerning
    <3>1. adv \in Nat /\ 0 \in Nat /\ k \in Nat
      BY <1>2, <2>1
    <3>2. left = x + Kerning
      BY Zenon DEF left
    <3>3. w \in Nat /\ 0 + w + adv = 0 + (k + 1) * adv /\ (k + 1) * adv \in Nat
      BY SMTT(20), <3>1, Further
    <3> DEFINE v == (k + 1) * adv
    <3> HIDE DEF w, v
    <3>4. v = w + adv
      BY <3>1, <3>3 DEF v
    <3> QED
      BY Zenon, <3>2, <3>3, <3>4 DEF v
  <2>10. /\ bar = Panel!Square(x, y, Kerning + w, high)
         /\ Bar(x, k + 1, y, scale) = Panel!Square(x, y, Kerning + (w + adv), high)
    BY Zenon, <2>9 DEF Bar, adv, high
  <2>11. glyphs(k) \subseteq Panel!Square(left, y, w, high)
    BY <1>2, <2>1, GlyphsInLine DEF adv, high
  <2> HIDE DEF w
  <2>12. bar \cap cell = {} /\ Bar(x, k + 1, y, scale) = bar \cup cell
    <3>1. Kerning + w \in Nat /\ x + (Kerning + w) = left + w /\ Kerning + (w + adv) = (Kerning + w) + adv
      <4>1. Kerning \in Nat /\ adv \in Nat /\ w \in Nat
        BY <1>2, <2>9
      <4> QED
        BY <2>9, <4>1
    <3>2. cell = Panel!Square(x + (Kerning + w), y, adv, high)
      BY Zenon, <3>1 DEF w
    <3>3. /\ Panel!Square(x, y, (Kerning + w) + adv, high) =
               Panel!Square(x, y, Kerning + w, high) \cup Panel!Square(x + (Kerning + w), y, adv, high)
          /\ Panel!Square(x, y, Kerning + w, high) \cap Panel!Square(x + (Kerning + w), y, adv, high) = {}
      BY <1>2, <3>1, SquareSplits
    <3> QED
      BY Zenon, <2>10, <3>1, <3>2, <3>3
  <2>13. glyphs(k) \subseteq bar
    <3>1. Panel!Square(x, y, Kerning + w, high) =
            Panel!Square(x, y, Kerning, high) \cup Panel!Square(x + Kerning, y, w, high)
      <4>1. Kerning \in Nat /\ high \in Nat /\ w \in Nat
        BY <1>2, <2>9
      <4> QED
        BY Zenon, <4>1, SquareSplits
    <3> QED
      BY Zenon, <2>9, <2>10, <2>11, <3>1
  <2> HIDE DEF bar, cell, glyphs
  <2> DEFINE g == GlyphOf(cps, k + 1, left, y, scale)
  <2> HIDE DEF g
  <2>14. (((buf \cup bar) \ glyphs(k)) \cup cell) \ g = (buf \cup (bar \cup cell)) \ (glyphs(k) \cup g)
    BY Zenon, <2>12, <2>13, DarkGlyph
  <2>15. draw(pen(k), cps[k + 1]) = pen(k + 1)
    BY Zenon, <2>3, <2>7, <2>8, <2>12, <2>14 DEF g
  <2> QED
    BY Zenon, <2>1, <2>4, <2>15
<1> HIDE DEF G, pen
<1>11. n \in G
  <2>1. \A k \in 0 .. n : k \in G
    BY <1>2, <1>9, <1>10, UpTo
  <2> QED
    BY <1>2, <2>1
<1>12. it[1 .. n] = pen(n)
  BY Zenon, <1>11 DEF G
<1> QED
  BY <1>1, <1>2, <1>12 DEF pen, n, left

-------------------------------------------------------------------------------
(* Calls and pages. *)

Calls == [text : Seq(Units), x : Nat, y : Nat, scale : Nat, inverse : BOOLEAN]
DrawnOn(buf, c) ==
    IF c.inverse THEN Panel!DrawInverse(buf, Panel!Bytes(c.text), c.x, c.y, c.scale)
    ELSE Panel!DrawText(buf, Panel!Bytes(c.text), c.x, c.y, c.scale)

\* A call of either string function adds what it should to what is there, if
\* a bar of light is put where nothing is lit.
LEMMA CallDraws ==
    ASSUME NEW c \in Calls, Legible(c.text), NEW buf \in SUBSET Panel!Screen,
           c.inverse => buf \cap Cells(c) = {}
    PROVE  /\ DrawnOn(buf, c) = buf \cup Panel!Placed(c)
           /\ Panel!Placed(c) \subseteq Cells(c) /\ Cells(c) \subseteq Panel!Screen
<1> DEFINE text == c.text
           n == Len(text)
           x == c.x
           y == c.y
           scale == c.scale
           adv == Panel!Advance(scale)
           high == FontHeight * scale
           cps == [k \in 1 .. n |-> text[k].cp]
           s == Panel!Bytes(text)
           left == IF c.inverse THEN x + Kerning ELSE x
           glyphs == GlyphsOf(cps, n, left, y, scale)
           bar == Panel!Square(x, y, Kerning + n * adv, high)
<1>1. text \in Seq(Units) /\ x \in Nat /\ y \in Nat /\ scale \in Nat /\ c.inverse \in BOOLEAN /\ n \in Nat
      /\ DOMAIN text = 1 .. n
  BY DEF Calls
<1>2. Panel!Chars(s) = cps /\ \A k \in 1 .. n : text[k].cp \in Nat
  BY <1>1, TextIsRead
<1>3. cps \in Seq(Nat) /\ Len(cps) = n
  BY <1>1, <1>2
<1>4. adv \in Nat /\ high \in Nat /\ Kerning \in Nat /\ left \in Nat
  <2>1. adv \in Nat
    BY <1>1, AdvanceIsNat
  <2>2. Kerning \in Nat /\ FontHeight \in Nat
    BY Dimensions
  <2> QED
    BY <1>1, <2>1, <2>2
<1>5. glyphs = UNION {Panel!GlyphAt(Panel!FontByte(c.text[k].cp), left + (k - 1) * adv, y, scale)
                        : k \in DOMAIN c.text}
  <2> DEFINE at(k) == Panel!GlyphAt(Panel!FontByte(c.text[k].cp), left + (k - 1) * adv, y, scale)
  <2>1. \A k \in 1 .. n : GlyphOf(cps, k, left, y, scale) = at(k)
    <3> SUFFICES ASSUME NEW k \in 1 .. n PROVE GlyphOf(cps, k, left, y, scale) = at(k)
      BY Zenon
    <3>1. cps[k] = c.text[k].cp
      OBVIOUS
    <3> HIDE DEF cps
    <3> QED
      BY Zenon, <3>1 DEF GlyphOf
  <2> HIDE DEF at, n, cps, left
  <2>2. glyphs = UNION {at(k) : k \in 1 .. n}
    <3>1. \A px : px \in glyphs <=> \E k \in 1 .. n : px \in GlyphOf(cps, k, left, y, scale)
      BY InGlyphs
    <3>2. \A px : px \in UNION {at(k) : k \in 1 .. n} <=> \E k \in 1 .. n : px \in at(k)
      BY Zenon
    <3> HIDE DEF glyphs
    <3> QED
      BY Zenon, <2>1, <3>1, <3>2
  <2> QED
    BY Zenon, <1>1, <2>2 DEF at, n
<1>6. glyphs \subseteq Panel!Square(left, y, n * adv, high)
  BY <1>1, <1>4, GlyphsInLine
<1> HIDE DEF cps, s
<1>7. CASE c.inverse
  <2>1. left = x + Kerning /\ Cells(c) = bar /\ bar = Bar(x, n, y, scale)
    BY Zenon, <1>7 DEF Cells, Bar
  <2>2. Panel!Placed(c) = bar \ glyphs
    <3>1. left = c.x + (IF c.inverse THEN Kerning ELSE 0)
      BY Zenon, <1>7
    <3> QED
      BY Zenon, <1>5, <1>7, <3>1 DEF Panel!Placed
  <2>3. DrawnOn(buf, c) = (buf \cup bar) \ glyphs
    <3>1. Panel!DrawInverse(buf, s, x, y, scale) =
            (buf \cup Bar(x, Len(cps), y, scale)) \ GlyphsOf(cps, Len(cps), x + Kerning, y, scale)
      BY <1>1, <1>2, <1>3, DrawnDark
    <3> QED
      BY Zenon, <1>3, <1>7, <2>1, <3>1 DEF DrawnOn, s
  <2>4. glyphs \subseteq bar
    <3> DEFINE w == n * adv
    <3>1. w \in Nat
      BY <1>1, <1>4
    <3>1a. x \in Nat /\ y \in Nat /\ high \in Nat /\ Kerning \in Nat
      BY <1>1, <1>4
    <3> HIDE DEF w, x, y, high
    <3>2. Panel!Square(x, y, Kerning + w, high) =
            Panel!Square(x, y, Kerning, high) \cup Panel!Square(x + Kerning, y, w, high)
      BY <3>1, <3>1a, SquareSplits
    <3> QED
      BY Zenon, <1>6, <2>1, <3>2 DEF w, x, y, high
  <2>5. bar \subseteq Panel!Screen /\ buf \cap bar = {}
    BY Zenon, <1>7, <2>1, OnScreen
  <2> HIDE DEF bar, glyphs
  <2>6. (buf \cup bar) \ glyphs = buf \cup (bar \ glyphs)
    BY Zenon, <2>4, <2>5
  <2> QED
    BY Zenon, <2>1, <2>2, <2>3, <2>5, <2>6
<1>8. CASE ~c.inverse
  <2>1. left = x /\ Cells(c) = Panel!Square(x, y, 0 + n * adv, high)
    BY Zenon, <1>8 DEF Cells
  <2>2. Panel!Placed(c) = glyphs
    <3>1. left = c.x + (IF c.inverse THEN Kerning ELSE 0)
      BY <1>1, <1>8
    <3> QED
      BY Zenon, <1>5, <1>8, <3>1 DEF Panel!Placed
  <2>3. DrawnOn(buf, c) = buf \cup glyphs
    <3>1. Panel!DrawText(buf, s, x, y, scale) = buf \cup GlyphsOf(cps, Len(cps), x, y, scale)
      BY <1>1, <1>2, <1>3, DrawnText
    <3> QED
      BY Zenon, <1>3, <1>8, <2>1, <3>1 DEF DrawnOn, s
  <2>4. 0 + n * adv = n * adv
    BY <1>1, <1>4
  <2>5. glyphs \subseteq Cells(c) /\ Cells(c) \subseteq Panel!Screen
    BY Zenon, <1>6, <2>1, <2>4, OnScreen
  <2> QED
    BY Zenon, <2>2, <2>3, <2>5
<1> QED
  BY Zenon, <1>1, <1>7, <1>8

PlacedTo(calls, k) == UNION {Panel!Placed(calls[j]) : j \in 1 .. k}

LEMMA InPlaced ==
    ASSUME NEW calls, NEW k, NEW px
    PROVE  px \in PlacedTo(calls, k) <=> \E j \in 1 .. k : px \in Panel!Placed(calls[j])
BY DEF PlacedTo

LEMMA MorePlaced ==
    ASSUME NEW calls, NEW k \in Nat
    PROVE  /\ PlacedTo(calls, 0) = {}
           /\ PlacedTo(calls, k + 1) = PlacedTo(calls, k) \cup Panel!Placed(calls[k + 1])
<1>1. 1 .. 0 = {} /\ \A j : j \in 1 .. k + 1 <=> j \in 1 .. k \/ j = k + 1
  OBVIOUS
<1>2. \A px : px \in PlacedTo(calls, k + 1) <=>
               px \in PlacedTo(calls, k) \/ px \in Panel!Placed(calls[k + 1])
  <2> SUFFICES ASSUME NEW px
               PROVE  px \in PlacedTo(calls, k + 1) <=>
                        px \in PlacedTo(calls, k) \/ px \in Panel!Placed(calls[k + 1])
    BY Zenon
  <2> DEFINE In(j) == px \in Panel!Placed(calls[j])
  <2>1. px \in PlacedTo(calls, k + 1) <=> \E j \in 1 .. k + 1 : In(j)
    BY Zenon, InPlaced
  <2>2. px \in PlacedTo(calls, k) <=> \E j \in 1 .. k : In(j)
    BY Zenon, InPlaced
  <2>3. In(k + 1) <=> px \in Panel!Placed(calls[k + 1])
    BY Zenon
  <2> HIDE DEF In
  <2>4. (\E j \in 1 .. k + 1 : In(j)) <=> (\E j \in 1 .. k : In(j)) \/ In(k + 1)
    BY Zenon, <1>1
  <2> QED
    BY Zenon, <2>1, <2>2, <2>3, <2>4
<1>3. \A px : px \notin PlacedTo(calls, 0)
  BY Zenon, <1>1, InPlaced
<1> QED
  BY Zenon, <1>2, <1>3

LEMMA CallStays ==
    ASSUME NEW c \in Calls, Legible(c.text), NEW buf \in SUBSET Panel!Screen
    PROVE  DrawnOn(buf, c) \in SUBSET Panel!Screen
<1> DEFINE text == c.text
           cps == [k \in 1 .. Len(text) |-> text[k].cp]
           s == Panel!Bytes(text)
<1>1. text \in Seq(Units) /\ c.x \in Nat /\ c.y \in Nat /\ c.scale \in Nat /\ c.inverse \in BOOLEAN
      /\ Len(text) \in Nat
  BY DEF Calls
<1>2. Panel!Chars(s) = cps /\ \A k \in 1 .. Len(text) : text[k].cp \in Nat
  BY <1>1, TextIsRead
<1>3. cps \in Seq(Nat)
  BY <1>1, <1>2
<1> HIDE DEF cps, s
<1>4. Panel!DrawText(buf, s, c.x, c.y, c.scale) \in SUBSET Panel!Screen
  <2> DEFINE glyphs == GlyphsOf(cps, Len(cps), c.x, c.y, c.scale)
  <2>1. Panel!DrawText(buf, s, c.x, c.y, c.scale) = buf \cup glyphs
    BY <1>1, <1>2, <1>3, DrawnText
  <2>2. glyphs \subseteq Panel!Screen
    <3>1. Len(cps) \in Nat
      BY <1>3
    <3>2. glyphs \subseteq Panel!Square(c.x, c.y, Len(cps) * Panel!Advance(c.scale), FontHeight * c.scale)
      BY <1>1, <3>1, GlyphsInLine
    <3> QED
      BY Zenon, <3>2, OnScreen
  <2> QED
    BY Zenon, <2>1, <2>2
<1>5. Panel!DrawInverse(buf, s, c.x, c.y, c.scale) \in SUBSET Panel!Screen
  <2> DEFINE glyphs == GlyphsOf(cps, Len(cps), c.x + Kerning, c.y, c.scale)
             bar == Bar(c.x, Len(cps), c.y, c.scale)
  <2>1. Panel!DrawInverse(buf, s, c.x, c.y, c.scale) = (buf \cup bar) \ glyphs
    BY <1>1, <1>2, <1>3, DrawnDark
  <2>2. bar \subseteq Panel!Screen
    BY OnScreen DEF Bar
  <2> QED
    BY Zenon, <2>1, <2>2
<1> QED
  BY Zenon, <1>1, <1>4, <1>5 DEF DrawnOn, s

LEMMA PageCalls ==
    ASSUME NEW calls \in Drawings
    PROVE  /\ calls \in Seq(Calls)
           /\ \A k \in 1 .. Len(calls) : calls[k] \in Calls /\ Legible(calls[k].text)
           /\ \A k \in 1 .. Len(calls), j \in 1 .. Len(calls) :
                j < k /\ calls[k].inverse => Cells(calls[j]) \cap Cells(calls[k]) = {}
<1>1. Drawings \subseteq Seq([text : Seq(Units), x : Nat, y : Nat, scale : Nat, inverse : BOOLEAN])
  BY Zenon, PanelAssumption
<1>2. calls \in Seq(Calls)
  BY Zenon, <1>1 DEF Calls
<1>3. DOMAIN calls = 1 .. Len(calls)
  BY <1>2
<1>4. /\ \A k \in DOMAIN calls : Legible(calls[k].text)
      /\ \A k \in DOMAIN calls, j \in DOMAIN calls :
           j < k /\ calls[k].inverse => Cells(calls[j]) \cap Cells(calls[k]) = {}
  BY Zenon, PanelAssumption
<1>5. \A k \in 1 .. Len(calls) : calls[k] \in Calls
  BY <1>2
<1> QED
  BY Zenon, <1>2, <1>3, <1>4, <1>5

\* A page holds what its calls put there.
LEMMA DrawnPage ==
    ASSUME NEW calls \in Drawings
    PROVE  /\ Panel!Drawn(calls) = UNION {Panel!Placed(calls[k]) : k \in DOMAIN calls}
           /\ Panel!Drawn(calls) \subseteq Panel!Screen
<1> DEFINE n == Len(calls)
           Buffers == SUBSET Panel!Screen
           it == CHOOSE iter : iter =
                   [S \in SUBSET DOMAIN calls |->
                      IF S = {} THEN {} ELSE DrawnOn(iter[S \ {GreatestIn(S)}], calls[GreatestIn(S)])]
           step == [q \in (1 .. n) \X Buffers |-> DrawnOn(q[2], calls[q[1]])]
<1>1. Panel!Drawn(calls) = it[DOMAIN calls]
  BY DEF Panel!Drawn, Panel!FoldLeft, Panel!MapThenFoldSet, Panel!Max, GreatestIn, DrawnOn
<1>2. calls \in Seq(Calls) /\ n \in Nat /\ DOMAIN calls = 1 .. n
  BY PageCalls
<1>3. \A k \in 1 .. n : calls[k] \in Calls /\ Legible(calls[k].text)
  BY PageCalls
<1> HIDE DEF n, Buffers
<1>4. step \in [(1 .. n) \X Buffers -> Buffers]
      /\ \A k \in 1 .. n, b \in Buffers : step[<<k, b>>] = DrawnOn(b, calls[k])
  <2>1. \A k \in 1 .. n, b \in Buffers : DrawnOn(b, calls[k]) \in Buffers
    BY Zenon, <1>3, CallStays DEF Buffers
  <2> QED
    BY <2>1
<1>5. {} \in Buffers
  BY DEF Buffers
<1> HIDE DEF step
<1>6. PICK h : Folds(n, Buffers, {}, step, h)
  BY <1>2, <1>4, <1>5, FoldExists
<1>7. h = [S \in SUBSET DOMAIN calls |->
             IF S = {} THEN {} ELSE DrawnOn(h[S \ {GreatestIn(S)}], calls[GreatestIn(S)])]
  <2>1. ASSUME NEW S \in SUBSET (1 .. n)
        PROVE  h[S] = IF S = {} THEN {} ELSE DrawnOn(h[S \ {GreatestIn(S)}], calls[GreatestIn(S)])
    <3>1. CASE S = {}
      BY <1>6, <3>1 DEF Folds
    <3>2. CASE S # {}
      <4>1. GreatestIn(S) \in 1 .. n
        BY <1>2, <3>2, GreatestOf
      <4>2. h[S \ {GreatestIn(S)}] \in Buffers
        BY <1>6 DEF Folds
      <4>3. h[S] = step[<<GreatestIn(S), h[S \ {GreatestIn(S)}]>>]
        BY <1>6, <3>2 DEF Folds
      <4> QED
        BY <1>4, <3>2, <4>1, <4>2, <4>3
    <3> QED
      BY <3>1, <3>2
  <2> QED
    BY <1>2, <1>6, <2>1 DEF Folds
<1>8. it = [S \in SUBSET DOMAIN calls |->
             IF S = {} THEN {} ELSE DrawnOn(it[S \ {GreatestIn(S)}], calls[GreatestIn(S)])]
  BY Zenon, <1>7
<1> HIDE DEF it
<1> DEFINE G == {k \in 0 .. n : it[1 .. k] = PlacedTo(calls, k) /\ PlacedTo(calls, k) \subseteq Panel!Screen}
<1>9. 0 \in G
  <2>1. 1 .. 0 = {} /\ 0 \in 0 .. n /\ {} \in SUBSET (1 .. n)
    BY <1>2
  <2>2. it[{}] = {}
    BY <1>2, <1>8, <2>1
  <2>3. PlacedTo(calls, 0) = {}
    BY MorePlaced
  <2> QED
    BY <2>1, <2>2, <2>3
<1>10. \A k \in 0 .. n - 1 : k \in G => k + 1 \in G
  <2> SUFFICES ASSUME NEW k \in 0 .. n - 1, it[1 .. k] = PlacedTo(calls, k),
                      PlacedTo(calls, k) \subseteq Panel!Screen
               PROVE  /\ k + 1 \in 0 .. n /\ it[1 .. k + 1] = PlacedTo(calls, k + 1)
                      /\ PlacedTo(calls, k + 1) \subseteq Panel!Screen
    BY Zenon
  <2> DEFINE buf == PlacedTo(calls, k)
             c == calls[k + 1]
  <2>1. k + 1 \in 1 .. n /\ k + 1 \in 0 .. n /\ k \in Nat /\ (k + 1) - 1 = k
    BY <1>2
  <2>2. 1 .. k + 1 \in SUBSET (1 .. n) /\ 1 .. k + 1 # {} /\ GreatestIn(1 .. k + 1) = k + 1
        /\ (1 .. k + 1) \ {k + 1} = 1 .. (k + 1) - 1
    BY <1>2, <2>1, FirstPlaces
  <2>3. it[1 .. k + 1] = DrawnOn(it[1 .. k], c)
    BY <1>2, <1>8, <2>1, <2>2
  <2>4. PlacedTo(calls, k + 1) = buf \cup Panel!Placed(c)
    BY <2>1, MorePlaced
  <2>5. c \in Calls /\ Legible(c.text)
    BY Zenon, <1>3, <2>1
  <2>6. ASSUME c.inverse PROVE buf \cap Cells(c) = {}
    <3>1. ASSUME NEW j \in 1 .. k, NEW px \in Panel!Placed(calls[j]) PROVE px \notin Cells(c)
      <4>1. j \in 1 .. n /\ j < k + 1
        BY <1>2, <2>1
      <4>2. Cells(calls[j]) \cap Cells(c) = {}
        BY <2>1, <2>6, <4>1, PageCalls DEF n
      <4>3. calls[j] \in Calls /\ Legible(calls[j].text)
        BY Zenon, <1>3, <4>1
      <4>4. Panel!Placed(calls[j]) \subseteq Cells(calls[j])
        <5>1. {} \in SUBSET Panel!Screen /\ {} \cap Cells(calls[j]) = {}
          BY Zenon
        <5> QED
          BY Zenon, <4>3, <5>1, CallDraws
      <4> QED
        BY Zenon, <3>1, <4>2, <4>4
    <3>2. \A px : px \in buf => px \notin Cells(c)
      BY Zenon, <3>1, InPlaced
    <3> QED
      BY Zenon, <3>2
  <2> HIDE DEF buf, c
  <2>7. buf \in SUBSET Panel!Screen
    BY Zenon DEF buf
  <2>8. DrawnOn(buf, c) = buf \cup Panel!Placed(c) /\ Panel!Placed(c) \subseteq Panel!Screen
    <3>1. c.inverse => buf \cap Cells(c) = {}
      BY Zenon, <2>6
    <3>2. /\ DrawnOn(buf, c) = buf \cup Panel!Placed(c)
          /\ Panel!Placed(c) \subseteq Cells(c) /\ Cells(c) \subseteq Panel!Screen
      BY Zenon, <2>5, <2>7, <3>1, CallDraws
    <3> QED
      BY Zenon, <3>2
  <2>9. PlacedTo(calls, k + 1) \subseteq Panel!Screen
    BY Zenon, <2>4, <2>7, <2>8
  <2> QED
    BY Zenon, <2>1, <2>3, <2>4, <2>8, <2>9 DEF buf
<1> HIDE DEF G
<1>11. n \in G
  <2>1. \A k \in 0 .. n : k \in G
    BY <1>2, <1>9, <1>10, UpTo
  <2> QED
    BY <1>2, <2>1
<1>12. it[1 .. n] = PlacedTo(calls, n) /\ PlacedTo(calls, n) \subseteq Panel!Screen
  BY Zenon, <1>11 DEF G
<1> QED
  BY Zenon, <1>1, <1>2, <1>12 DEF PlacedTo

-------------------------------------------------------------------------------
(* From the text of a page to the dots of the panel. *)

\* A buffer that is remembered as sent is the one that was drawn last.
PanelInv ==
    /\ buffer \in SUBSET Panel!Screen /\ panel \in SUBSET Panel!Screen
    /\ Panel!TextShown /\ Panel!PanelCurrent
    /\ (shadow = <<>> /\ failed) \/ shadow = <<buffer>>

LEMMA PanelStarts ==
    ASSUME Panel!Init
    PROVE  PanelInv
<1>1. page = <<>> /\ buffer = {} /\ shadow = <<>> /\ panel \in {{}, Panel!Screen} /\ failed
  BY Zenon DEF Panel!Init
<1>2. UNION {Panel!Placed(page[k]) : k \in DOMAIN page} = {}
  BY <1>1
<1>3. panel \in SUBSET Panel!Screen
  BY Zenon, <1>1
<1> QED
  BY Zenon, <1>1, <1>2, <1>3 DEF PanelInv, Panel!TextShown, Panel!PanelCurrent

LEMMA PanelShows ==
    ASSUME PanelInv, NEW calls \in Drawings, Panel!Show(calls)
    PROVE  PanelInv'
<1>1. page' = calls /\ buffer' = Panel!Drawn(calls)
  BY Zenon DEF Panel!Show
<1>2. buffer' \in SUBSET Panel!Screen /\ Panel!TextShown'
  BY Zenon, <1>1, DrawnPage DEF Panel!TextShown
<1>3. CASE shadow = <<buffer'>>
  <2>1. UNCHANGED <<shadow, panel, failed>>
    BY Zenon, <1>3 DEF Panel!Show
  <2>2. shadow = <<buffer>>
    <3>1. shadow # <<>>
      BY <1>3
    <3> QED
      BY Zenon, <3>1 DEF PanelInv
  <2>3. buffer' = buffer
    BY <1>3, <2>2
  <2>4. Panel!PanelCurrent'
    BY Zenon, <2>1, <2>3 DEF PanelInv, Panel!PanelCurrent
  <2> QED
    BY Zenon, <1>2, <1>3, <2>1, <2>4 DEF PanelInv
<1>4. CASE shadow # <<buffer'>>
  <2>1. PICK k \in Stops : panel' = Panel!Partly(k) /\ failed' = (k # Width) /\ shadow' = <<buffer'>>
    BY Zenon, <1>4 DEF Panel!Show
  <2>2. panel' = {px \in buffer' : px[1] < k} \cup {px \in panel : px[1] >= k}
    BY Zenon, <2>1 DEF Panel!Partly
  <2>3. panel' \in SUBSET Panel!Screen
    BY Zenon, <1>2, <2>2 DEF PanelInv
  <2>4. ASSUME k = Width PROVE panel' = buffer'
    <3>1. \A px \in Panel!Screen : px[1] < k /\ ~(px[1] >= k)
      <4> SUFFICES ASSUME NEW px \in Panel!Screen PROVE px[1] < k /\ ~(px[1] >= k)
        OBVIOUS
      <4>1. px[1] \in 0 .. Width - 1 /\ Width \in Nat
        BY Dimensions DEF Panel!Screen
      <4> QED
        BY <2>4, <4>1
    <3>2. \A px \in panel : px \in Panel!Screen
      BY Zenon DEF PanelInv
    <3>3. \A px \in buffer' : px \in Panel!Screen
      BY Zenon, <1>2
    <3> QED
      BY Zenon, <2>2, <3>1, <3>2, <3>3
  <2>5. Panel!PanelCurrent'
    BY Zenon, <2>1, <2>4 DEF Panel!PanelCurrent
  <2> QED
    BY Zenon, <1>2, <2>1, <2>3, <2>5 DEF PanelInv
<1> QED
  BY Zenon, <1>3, <1>4

LEMMA PanelKeeps ==
    ASSUME PanelInv, Panel!Next \/ UNCHANGED displayVars
    PROVE  PanelInv'
<1>1. CASE Panel!Next
  <2>1. PICK calls \in Drawings : Panel!Show(calls)
    BY Zenon, <1>1 DEF Panel!Next
  <2> QED
    BY Zenon, <2>1, PanelShows
<1>2. CASE UNCHANGED displayVars
  BY <1>2 DEF displayVars, PanelInv, Panel!TextShown, Panel!PanelCurrent
<1> QED
  BY Zenon, <1>1, <1>2

-------------------------------------------------------------------------------
(* The live pages, for any depth of the log, any number of lines and any       *)
(* periods.  Serial and Test are two restrictions of one specification.        *)

Logs == {"sent", "received"}
Live == INSTANCE DebugPages WITH
    Pages <- {"serial", "mouse_debug", "other"}, Events <- Logs,
    Moves <- {Still, [x |-> 1, y |-> 0], [x |-> -1, y |-> -1]},
    Helds <- {"nothing", "a key"}, page <- livePage

\* t is the end of s.
Ends(s, t) ==
    /\ Len(t) <= Len(s)
    /\ \A i \in 1 .. Len(t) : t[i] = s[Len(s) - Len(t) + i]

LEMMA LastOfIs ==
    ASSUME NEW S, NEW s \in Seq(S), NEW n \in Nat
    PROVE  /\ Live!LastOf(s, n) \in Seq(S)
           /\ Len(Live!LastOf(s, n)) = IF Len(s) > n THEN n ELSE Len(s)
           /\ Ends(s, Live!LastOf(s, n))
<1> DEFINE m == IF Len(s) > n THEN Len(s) - n + 1 ELSE 1
           t == SubSeq(s, m, Len(s))
<1>1. Live!LastOf(s, n) = t
  BY DEF Live!LastOf
<1>2. Len(s) \in Nat /\ \A i \in 1 .. Len(s) : s[i] \in S
  OBVIOUS
<1>3. m \in Int /\ m >= 1 /\ m <= Len(s) + 1
  BY <1>2
<1>4. Len(s) - m + 1 = (IF Len(s) > n THEN n ELSE Len(s))
  BY <1>2
<1> HIDE DEF m
<1>5. /\ t \in Seq(S) /\ Len(t) = (IF m <= Len(s) THEN Len(s) - m + 1 ELSE 0)
      /\ \A i \in 1 .. Len(s) - m + 1 : t[i] = s[m + i - 1]
  <2>1. Len(s) \in Int /\ \A i \in m .. Len(s) : s[i] \in S
    BY <1>2, <1>3
  <2> QED
    BY <1>3, <2>1, SubSeqProperties
<1>6. Len(t) = Len(s) - m + 1
  BY <1>2, <1>3, <1>5
<1> HIDE DEF t
<1>7. Ends(s, t)
  <2>1. Len(t) <= Len(s)
    BY <1>2, <1>3, <1>6
  <2>2. ASSUME NEW i \in 1 .. Len(t) PROVE t[i] = s[Len(s) - Len(t) + i]
    <3>1. t[i] = s[m + i - 1]
      BY <1>5, <1>6
    <3>2. m + i - 1 = Len(s) - Len(t) + i
      BY <1>2, <1>3, <1>6
    <3> QED
      BY <3>1, <3>2
  <2> QED
    BY <2>1, <2>2 DEF Ends
<1> QED
  BY <1>1, <1>4, <1>5, <1>6, <1>7

\* Two ends of one length are one.
LEMMA EndsOnce ==
    ASSUME NEW S, NEW s \in Seq(S), NEW t \in Seq(S), NEW u \in Seq(S),
           Ends(s, t), Ends(s, u), Len(t) = Len(u)
    PROVE  t = u
<1>1. \A i \in 1 .. Len(t) : t[i] = u[i]
  BY DEF Ends
<1> QED
  BY <1>1, SeqEqual

LEMMA EndIsLast ==
    ASSUME NEW S, NEW s \in Seq(S), NEW t \in Seq(S), Ends(s, t)
    PROVE  t = Live!LastOf(s, Len(t))
<1> DEFINE u == Live!LastOf(s, Len(t))
<1>1. Len(t) \in Nat /\ Len(s) \in Nat /\ Len(t) <= Len(s)
  BY DEF Ends
<1>2. /\ u \in Seq(S) /\ Len(u) = (IF Len(s) > Len(t) THEN Len(t) ELSE Len(s)) /\ Ends(s, u)
  BY <1>1, LastOfIs
<1> HIDE DEF u
<1>3. Len(u) = Len(t)
  BY <1>1, <1>2
<1>4. t = u
  BY <1>2, <1>3, EndsOnce
<1> QED
  BY <1>4 DEF u

LEMMA EndOfEnd ==
    ASSUME NEW S, NEW s \in Seq(S), NEW t \in Seq(S), NEW u \in Seq(S), Ends(s, t), Ends(t, u)
    PROVE  Ends(s, u)
<1>1. Len(s) \in Nat /\ Len(t) \in Nat /\ Len(u) \in Nat /\ Len(t) <= Len(s) /\ Len(u) <= Len(t)
  BY DEF Ends
<1>2. ASSUME NEW i \in 1 .. Len(u) PROVE u[i] = s[Len(s) - Len(u) + i]
  <2> DEFINE j == Len(t) - Len(u) + i
  <2>1. u[i] = t[j] /\ j \in 1 .. Len(t)
    BY <1>1 DEF Ends
  <2> HIDE DEF j
  <2>2. t[j] = s[Len(s) - Len(t) + j]
    BY <2>1 DEF Ends
  <2>3. Len(s) - Len(t) + j = Len(s) - Len(u) + i
    BY <1>1 DEF j
  <2> QED
    BY <2>1, <2>2, <2>3
<1> QED
  BY <1>1, <1>2 DEF Ends

\* Of two ends the shorter is an end of the longer.
LEMMA EndInEnd ==
    ASSUME NEW S, NEW s \in Seq(S), NEW t \in Seq(S), NEW u \in Seq(S),
           Ends(s, t), Ends(s, u), Len(u) <= Len(t)
    PROVE  Ends(t, u)
<1>1. Len(s) \in Nat /\ Len(t) \in Nat /\ Len(u) \in Nat /\ Len(t) <= Len(s)
  BY DEF Ends
<1>2. ASSUME NEW i \in 1 .. Len(u) PROVE u[i] = t[Len(t) - Len(u) + i]
  <2> DEFINE j == Len(t) - Len(u) + i
  <2>1. j \in 1 .. Len(t)
    BY <1>1
  <2>2. u[i] = s[Len(s) - Len(u) + i]
    BY DEF Ends
  <2>3. Len(s) - Len(t) + j = Len(s) - Len(u) + i
    BY <1>1
  <2> HIDE DEF j
  <2>4. t[j] = s[Len(s) - Len(t) + j]
    BY <2>1 DEF Ends
  <2> QED
    BY <2>2, <2>3, <2>4 DEF j
<1> QED
  BY <1>2 DEF Ends

LEMMA EndsGrow ==
    ASSUME NEW S, NEW s \in Seq(S), NEW t \in Seq(S), Ends(s, t), NEW e \in S
    PROVE  Ends(Append(s, e), Append(t, e))
<1> DEFINE s1 == Append(s, e)
           t1 == Append(t, e)
<1>1. /\ Len(s) \in Nat /\ Len(t) \in Nat /\ Len(t) <= Len(s)
      /\ Len(s1) = Len(s) + 1 /\ Len(t1) = Len(t) + 1
      /\ s1[Len(s) + 1] = e /\ t1[Len(t) + 1] = e
      /\ \A i \in 1 .. Len(s) : s1[i] = s[i]
      /\ \A i \in 1 .. Len(t) : t1[i] = t[i]
  BY AppendProperties DEF Ends
<1> HIDE DEF s1, t1
<1>2. ASSUME NEW i \in 1 .. Len(t1) PROVE t1[i] = s1[Len(s1) - Len(t1) + i]
  <2>1. CASE i = Len(t) + 1
    BY <1>1, <2>1
  <2>2. CASE i \in 1 .. Len(t)
    <3> DEFINE j == Len(s) - Len(t) + i
    <3>1. t[i] = s[j]
      BY <2>2 DEF Ends
    <3>2. j \in 1 .. Len(s) /\ Len(s1) - Len(t1) + i = j
      BY <1>1, <2>2
    <3> HIDE DEF j
    <3> QED
      BY <1>1, <2>2, <3>1, <3>2
  <2> QED
    BY <1>1, <2>1, <2>2
<1>3. Ends(s1, t1)
  BY <1>1, <1>2 DEF Ends
<1> QED
  BY <1>3 DEF s1, t1

\* The lines and the queue behind them are the end of what was accepted, and all
\* of it until the lines are full.
LogTyped ==
    /\ log \in Seq(Logs) /\ lines \in Seq(Logs) /\ recent \in Seq(Logs)
    /\ Len(log) <= LogDepth /\ Len(lines) <= LogLines
LogInv ==
    /\ LogTyped
    /\ Ends(recent, lines \o log)
    /\ Len(lines) < LogLines => Len(recent) = Len(lines) + Len(log)

LEMMA LogInvOrder == LogInv => Live!LogInOrder
<1> SUFFICES ASSUME LogInv PROVE Live!LogInOrder
  OBVIOUS
<1>1. lines \o log \in Seq(Logs) /\ Len(lines \o log) = Len(lines) + Len(log)
  BY ConcatProperties DEF LogInv, LogTyped
<1>2. lines \o log = Live!LastOf(recent, Len(lines \o log))
  BY <1>1, EndIsLast DEF LogInv, LogTyped
<1> QED
  BY <1>1, <1>2 DEF Live!LogInOrder, LogInv

LEMMA LogAccepts ==
    ASSUME LogInv, NEW e \in Logs, Live!serial(e)
    PROVE  LogInv'
<1> DEFINE all == lines \o log
           n == LogDepth + LogLines
<1>1. /\ log \in Seq(Logs) /\ lines \in Seq(Logs) /\ recent \in Seq(Logs)
      /\ Len(log) \in Nat /\ Len(lines) \in Nat /\ Len(recent) \in Nat
      /\ Len(log) <= LogDepth /\ Len(lines) <= LogLines /\ LogDepth \in Nat /\ LogLines \in Nat
      /\ Ends(recent, all)
      /\ Len(lines) < LogLines => Len(recent) = Len(lines) + Len(log)
  BY LiveAssumption DEF LogInv, LogTyped
<1>2. all \in Seq(Logs) /\ Len(all) = Len(lines) + Len(log)
  BY <1>1, ConcatProperties
<1>3. CASE Len(log) < LogDepth
  <2> DEFINE r == Append(recent, e)
             g == Append(log, e)
             k == Live!LastOf(r, n)
  <2>1. log' = g /\ recent' = k /\ lines' = lines
    BY <1>3 DEF Live!serial
  <2>2. /\ g \in Seq(Logs) /\ Len(g) = Len(log) + 1
        /\ r \in Seq(Logs) /\ Len(r) = Len(recent) + 1
    BY <1>1, AppendProperties
  <2>3. lines \o g = Append(all, e)
    <3>1. <<e>> \in Seq(Logs) /\ g = log \o <<e>> /\ Append(all, e) = all \o <<e>>
      BY <1>1, <1>2, AppendIsConcat
    <3> HIDE DEF g
    <3> QED
      BY <1>1, <3>1, ConcatAssociative
  <2>4. Append(all, e) \in Seq(Logs) /\ Len(Append(all, e)) = Len(all) + 1 /\ Ends(r, Append(all, e))
    BY <1>1, <1>2, AppendProperties, EndsGrow, ZenonT(40)
  <2> DEFINE after == lines \o g
  <2>5. after \in Seq(Logs) /\ Len(after) = Len(lines) + Len(log) + 1 /\ Ends(r, after)
    BY <1>2, <2>3, <2>4
  <2> HIDE DEF r, g, all, after
  <2>6. k \in Seq(Logs) /\ Len(k) = (IF Len(r) > n THEN n ELSE Len(r)) /\ Ends(r, k)
    BY <1>1, <2>2, LastOfIs
  <2> HIDE DEF k
  <2>7. Len(after) <= Len(k)
    <3>1. Len(after) <= n
      BY <1>1, <1>3, <2>5
    <3>2. Len(after) <= Len(r)
      BY <2>5 DEF Ends
    <3> QED
      BY <2>6, <3>1, <3>2
  <2>8. Ends(k, after)
    BY <2>2, <2>5, <2>6, <2>7, EndInEnd
  <2>9. Ends(recent', lines' \o log')
    BY <2>1, <2>8 DEF after
  <2>10. Len(lines') < LogLines => Len(recent') = Len(lines') + Len(log')
    BY <1>1, <1>3, <2>1, <2>2, <2>6
  <2>11. LogTyped'
    BY <1>1, <1>3, <2>1, <2>2, <2>6 DEF LogTyped
  <2> QED
    BY <2>9, <2>10, <2>11 DEF LogInv
<1>4. CASE ~(Len(log) < LogDepth)
  BY <1>4 DEF Live!serial, LogInv, LogTyped
<1> QED
  BY <1>3, <1>4

LEMMA LogDrains ==
    ASSUME LogInv, Live!drain_serial_log, UNCHANGED recent
    PROVE  LogInv' /\ (log = <<>> => lines' = lines)
<1> DEFINE all == lines \o log
           k == Live!LastOf(all, LogLines)
<1>1. /\ log \in Seq(Logs) /\ lines \in Seq(Logs) /\ recent \in Seq(Logs)
      /\ Len(log) \in Nat /\ Len(lines) \in Nat /\ Len(recent) \in Nat
      /\ Len(log) <= LogDepth /\ Len(lines) <= LogLines /\ LogDepth \in Nat /\ LogLines \in Nat
      /\ Ends(recent, all)
      /\ Len(lines) < LogLines => Len(recent) = Len(lines) + Len(log)
  BY LiveAssumption DEF LogInv, LogTyped
<1>2. all \in Seq(Logs) /\ Len(all) = Len(lines) + Len(log)
  BY <1>1, ConcatProperties
<1>3. lines' = k /\ log' = <<>> /\ recent' = recent
  BY DEF Live!drain_serial_log
<1>4. log = <<>> => all = lines
  BY <1>1, ConcatEmptySeq
<1> HIDE DEF all
<1>5. k \in Seq(Logs) /\ Len(k) = (IF Len(all) > LogLines THEN LogLines ELSE Len(all)) /\ Ends(all, k)
  BY <1>1, <1>2, LastOfIs
<1> HIDE DEF k
<1>6. <<>> \in Seq(Logs) /\ Len(<<>>) = 0 /\ k \o <<>> = k
  BY <1>5, ConcatEmptySeq
<1>7. Ends(recent, k)
  BY <1>1, <1>2, <1>5, EndOfEnd
<1>8. LogTyped'
  BY <1>1, <1>2, <1>3, <1>5, <1>6 DEF LogTyped
<1>9. Ends(recent', lines' \o log')
  BY <1>3, <1>6, <1>7
<1>10. Len(lines') < LogLines => Len(recent') = Len(lines') + Len(log')
  BY <1>1, <1>2, <1>3, <1>5, <1>6
<1>11. LogInv'
  BY <1>8, <1>9, <1>10 DEF LogInv
<1>12. ASSUME log = <<>> PROVE lines' = lines
  <2>1. all = lines /\ Len(k) = Len(lines)
    BY <1>1, <1>4, <1>5, <1>12
  <2>2. Ends(lines, lines)
    BY <1>1 DEF Ends
  <2>3. k = lines
    BY <1>1, <1>5, <2>1, <2>2, EndsOnce
  <2> QED
    BY <1>3, <2>3
<1> QED
  BY <1>11, <1>12

\* The serial page asks to be drawn until it is, and the wait is part of its
\* period; what the test page lags for is part of the timer's.
SerialPaced ==
    /\ since \in 0 .. SerialPeriod /\ behind \in 0 .. since /\ behind < SerialPeriod
    /\ livePage = "serial" /\ ~asleep /\ ~dirty => shown = lines
TestPaced ==
    /\ elapsed \in 0 .. TimerPeriod /\ lag \in 0 .. (TimerPeriod - 1)
    /\ ~requested /\ ~dirty => lag < elapsed
TestDrawn == debug = moved /\ frame.arrow = due
PageInv ==
    /\ asleep \in BOOLEAN /\ dirty \in BOOLEAN /\ requested \in BOOLEAN
    /\ SerialPaced /\ TestPaced /\ TestDrawn
LiveInv == LogInv /\ PageInv

LEMMA LiveStarts == (Serial!Init \/ Test!Init) => LiveInv
<1> SUFFICES ASSUME Serial!Init \/ Test!Init PROVE LiveInv
  OBVIOUS
<1>1. /\ livePage = "other" /\ asleep = FALSE /\ dirty = TRUE
      /\ log = <<>> /\ lines = <<>> /\ shown = <<>> /\ since = 0
      /\ requested = FALSE /\ elapsed = 0
      /\ recent = <<>> /\ behind = 0 /\ lag = 0
  BY DEF Serial!Init, Test!Init
<1>5. debug = moved /\ frame.arrow = due
  <2>1. CASE Serial!Init
    BY <2>1 DEF Serial!Init
  <2>2. CASE Test!Init
    <3>1. debug = Test!Still /\ moved = Test!Still /\ due = Test!Still
          /\ frame = [arrow |-> Test!Still, held |-> held]
      BY <2>2 DEF Test!Init
    <3> QED
      BY <3>1
  <2> QED
    BY <2>1, <2>2
<1>2. SerialPaced /\ TestPaced /\ TestDrawn
  BY <1>1, <1>5, LiveAssumption DEF SerialPaced, TestPaced, TestDrawn
<1>3. <<>> \in Seq(Logs) /\ Len(<<>>) = 0 /\ <<>> \o <<>> = <<>>
  BY ConcatEmptySeq
<1>4. LogInv
  <2>1. LogTyped
    BY <1>1, <1>3, LiveAssumption DEF LogTyped
  <2>2. Ends(<<>>, <<>>)
    BY <1>3 DEF Ends
  <2>3. Ends(recent, lines \o log)
    BY <1>1, <1>3, <2>2
  <2>4. Len(recent) = Len(lines) + Len(log)
    BY <1>1, <1>3
  <2> QED
    BY <2>1, <2>3, <2>4 DEF LogInv
<1> QED
  BY <1>1, <1>2, <1>4 DEF LiveInv, PageInv

\* A step of either page is one of both together.
LEMMA LiveStep == (Serial!Next \/ Test!Next) => Live!Next
<1> SUFFICES ASSUME Serial!Next \/ Test!Next PROVE Live!Next
  OBVIOUS
<1>1. CASE Serial!update \/ Test!update
  <2>1. Serial!update => Live!update
    BY Zenon DEF Serial!update, Live!update, Serial!drain_serial_log, Live!drain_serial_log,
      Serial!LastOf, Live!LastOf, Serial!Rest, Live!Rest, Serial!Draw, Live!Draw,
      Serial!NoFrame, Live!NoFrame, Serial!Later, Live!Later, Serial!Logged, Live!Logged,
      Serial!Requested, Live!Requested, Serial!DrawSerial, Live!DrawSerial,
      Serial!update_serial, Live!update_serial, Serial!update_mouse_debug, Live!update_mouse_debug,
      Serial!Still, Live!Still
  <2>2. Test!update => Live!update
    BY Zenon DEF Test!update, Live!update, Test!drain_serial_log, Live!drain_serial_log,
      Test!LastOf, Live!LastOf, Test!Rest, Live!Rest, Test!Draw, Live!Draw,
      Test!NoFrame, Live!NoFrame, Test!Later, Live!Later, Test!Logged, Live!Logged,
      Test!Requested, Live!Requested, Test!DrawSerial, Live!DrawSerial,
      Test!update_serial, Live!update_serial, Test!update_mouse_debug, Live!update_mouse_debug,
      Test!Still, Live!Still
  <2> QED
    BY <1>1, <2>1, <2>2 DEF Live!Next
<1>2. CASE Serial!deadzone_timer_cb \/ Test!deadzone_timer_cb
  BY <1>2 DEF Serial!deadzone_timer_cb, Test!deadzone_timer_cb, Live!deadzone_timer_cb, Live!Next,
    Serial!logVars, Test!logVars, Live!logVars
<1>3. ASSUME NEW e \in Logs, Serial!serial(e) PROVE Live!Next
  <2>1. Live!serial(e)
    BY <1>3, Zenon DEF Serial!serial, Live!serial, Serial!LastOf, Live!LastOf, Serial!mouseVars, Live!mouseVars
  <2> QED
    BY <2>1, Zenon DEF Live!Next
<1>4. ASSUME NEW m \in {Still, [x |-> 1, y |-> 0], [x |-> -1, y |-> -1]}, Test!set_mouse_debug_delta(m)
      PROVE  Live!Next
  <2>1. Live!set_mouse_debug_delta(m)
    BY <1>4, Zenon DEF Test!set_mouse_debug_delta, Live!set_mouse_debug_delta, Test!logVars, Live!logVars
  <2> QED
    BY <2>1, Zenon DEF Live!Next
<1>5. ASSUME NEW h \in {"nothing", "a key"}, Serial!SetHeld(h) \/ Test!SetHeld(h) PROVE Live!Next
  <2>1. Live!SetHeld(h)
    BY <1>5, Zenon DEF Serial!SetHeld, Test!SetHeld, Live!SetHeld, Serial!logVars, Test!logVars, Live!logVars
  <2> QED
    BY <2>1, Zenon DEF Live!Next
<1>6. ASSUME NEW q \in {"serial", "mouse_debug", "other"}, Serial!Turn(q) \/ Test!Turn(q) PROVE Live!Next
  <2>1. Live!Turn(q)
    BY <1>6, Zenon DEF Serial!Turn, Test!Turn, Live!Turn
  <2> QED
    BY <2>1, Zenon DEF Live!Next
<1>7. "nothing" \in {"nothing", "a key"}
      /\ {"serial", "other"} \subseteq {"serial", "mouse_debug", "other"}
      /\ {"mouse_debug", "other"} \subseteq {"serial", "mouse_debug", "other"}
  OBVIOUS
<1>8. Serial!Next => Live!Next
  <2> SUFFICES ASSUME Serial!Next PROVE Live!Next
    OBVIOUS
  <2>1. \/ \E e \in Logs : Serial!serial(e)
        \/ \E h \in {"nothing"} : Serial!SetHeld(h)
        \/ Serial!deadzone_timer_cb
        \/ \E q \in {"serial", "other"} : Serial!Turn(q)
        \/ Serial!update
    BY DEF Serial!Next, Logs
  <2> QED
    BY <1>1, <1>2, <1>3, <1>5, <1>6, <1>7, <2>1
<1>9. Test!Next => Live!Next
  <2> SUFFICES ASSUME Test!Next PROVE Live!Next
    OBVIOUS
  <2>1. \/ \E m \in {Still, [x |-> 1, y |-> 0], [x |-> -1, y |-> -1]} : Test!set_mouse_debug_delta(m)
        \/ \E h \in {"nothing", "a key"} : Test!SetHeld(h)
        \/ Test!deadzone_timer_cb
        \/ \E q \in {"mouse_debug", "other"} : Test!Turn(q)
        \/ Test!update
    BY DEF Test!Next
  <2> QED
    BY <1>1, <1>2, <1>4, <1>5, <1>6, <1>7, <2>1
<1> QED
  BY <1>8, <1>9

LEMMA UpdatePaced ==
    ASSUME LiveInv, Live!update
    PROVE  LiveInv'
<1>1. /\ SerialPeriod \in Nat \ {0} /\ TimerPeriod \in Nat \ {0}
      /\ asleep \in BOOLEAN /\ dirty \in BOOLEAN /\ requested \in BOOLEAN
      /\ SerialPaced /\ TestPaced /\ TestDrawn
  BY LiveAssumption DEF LiveInv, PageInv
<1>2. LogInv' /\ (log = <<>> => lines' = lines)
  BY LogDrains DEF LiveInv, Live!update
<1>3. elapsed \in 0 .. TimerPeriod - 1 /\ elapsed' = elapsed + 1 /\ livePage' = livePage
  BY <1>1 DEF TestPaced, Live!update
<1>4. /\ behind' = IF livePage = "serial" /\ ~asleep' /\ shown' # lines' THEN behind + 1 ELSE 0
      /\ lag' = IF livePage = "mouse_debug" /\ ~asleep' /\ (debug' # Live!Still \/ frame'.held # held)
                THEN lag + 1 ELSE 0
  BY DEF Live!update
<1>5. CASE Live!Rest
  <2>1. /\ asleep' = TRUE /\ requested' = requested
        /\ debug' = debug /\ moved' = moved /\ frame' = frame /\ due' = due
        /\ since' = IF since < SerialPeriod THEN since + 1 ELSE since
        /\ dirty' \in BOOLEAN
    BY <1>1, <1>5 DEF Live!Rest, Live!NoFrame, Live!Later, Live!Logged
  <2>2. behind' = 0 /\ lag' = 0
    BY <1>4, <2>1
  <2>3. SerialPaced' /\ TestPaced' /\ TestDrawn'
    BY <1>1, <1>3, <2>1, <2>2 DEF SerialPaced, TestPaced, TestDrawn
  <2> QED
    BY <1>1, <1>2, <2>1, <2>3 DEF LiveInv, PageInv
<1>6. CASE Live!Draw
  <2>1. asleep = FALSE /\ asleep' = FALSE /\ requested' = FALSE
    BY <1>1, <1>6 DEF Live!Draw
  <2>2. since \in 0 .. SerialPeriod /\ behind \in 0 .. since /\ lag \in 0 .. TimerPeriod - 1
    BY <1>1 DEF SerialPaced, TestPaced
  <2>3. CASE ~(dirty \/ Live!Logged \/ Live!Requested)
    <3>1. /\ dirty = FALSE /\ dirty' = FALSE /\ shown' = shown
          /\ debug' = debug /\ moved' = moved /\ frame' = frame /\ due' = due
          /\ since' = IF since < SerialPeriod THEN since + 1 ELSE since
      BY <1>1, <1>6, <2>3 DEF Live!Draw, Live!NoFrame, Live!Later
    <3>2. livePage = "serial" => shown' = lines'
      BY <1>1, <1>2, <2>1, <2>3, <3>1 DEF SerialPaced, Live!Logged
    <3>3. behind' = 0
      BY <1>4, <3>2
    <3>4. lag' \in 0 .. TimerPeriod - 1 /\ lag' < elapsed'
      <4>1. CASE livePage = "mouse_debug"
        <5>1. lag < elapsed
          BY <1>1, <2>3, <4>1 DEF TestPaced, Live!Requested
        <5>2. lag' \in {0, lag + 1}
          BY <1>4
        <5> QED
          BY <1>1, <1>3, <2>2, <5>1, <5>2
      <4>2. CASE livePage # "mouse_debug"
        BY <1>1, <1>3, <1>4, <4>2
      <4> QED
        BY <4>1, <4>2
    <3>5. SerialPaced'
      BY <1>1, <1>3, <2>2, <3>1, <3>2, <3>3 DEF SerialPaced
    <3>6. TestPaced' /\ TestDrawn'
      BY <1>1, <1>3, <3>1, <3>4 DEF TestPaced, TestDrawn
    <3> QED
      BY <1>2, <2>1, <3>1, <3>5, <3>6 DEF LiveInv, PageInv
  <2>4. CASE livePage = "serial" /\ Live!DrawSerial
    <3>1. /\ debug' = debug /\ moved' = moved /\ frame' = frame /\ due' = due
          /\ dirty' \in BOOLEAN
          /\ IF since + 1 >= SerialPeriod
             THEN shown' = lines' /\ since' = 0
             ELSE since' = since + 1 /\ dirty' = TRUE
      BY <2>4 DEF Live!DrawSerial, Live!NoFrame, Live!update_serial
    <3>2. lag' = 0
      BY <1>4, <2>4
    <3>3. SerialPaced'
      <4>1. CASE since + 1 >= SerialPeriod
        <5>1. shown' = lines' /\ since' = 0 /\ behind' = 0
          BY <1>4, <3>1, <4>1
        <5> QED
          BY <1>1, <5>1 DEF SerialPaced
      <4>2. CASE ~(since + 1 >= SerialPeriod)
        <5>1. since' = since + 1 /\ dirty' = TRUE /\ behind' \in {0, behind + 1}
          BY <1>4, <3>1, <4>2
        <5> QED
          BY <1>1, <2>2, <4>2, <5>1 DEF SerialPaced
      <4> QED
        BY <4>1, <4>2
    <3>4. TestPaced' /\ TestDrawn'
      BY <1>1, <1>3, <3>1, <3>2 DEF TestPaced, TestDrawn
    <3> QED
      BY <1>2, <2>1, <3>1, <3>3, <3>4 DEF LiveInv, PageInv
  <2>5. CASE livePage = "mouse_debug" /\ Live!update_mouse_debug /\ Live!Later /\ dirty' = FALSE
             /\ UNCHANGED shown
    <3>1. /\ debug' = Live!Still /\ moved' = Live!Still /\ due' = moved
          /\ frame' = [arrow |-> debug, held |-> held]
          /\ since' = IF since < SerialPeriod THEN since + 1 ELSE since
      BY <2>5 DEF Live!update_mouse_debug, Live!Later
    <3>2. behind' = 0 /\ lag' = 0
      BY <1>4, <2>5, <3>1
    <3>3. debug' = moved' /\ frame'.arrow = due'
      BY <1>1, <3>1 DEF TestDrawn
    <3>4. SerialPaced' /\ TestPaced' /\ TestDrawn'
      BY <1>1, <1>3, <2>2, <2>5, <3>1, <3>2, <3>3 DEF SerialPaced, TestPaced, TestDrawn
    <3> QED
      BY <1>2, <2>1, <2>5, <3>4 DEF LiveInv, PageInv
  <2>6. CASE livePage = "other" /\ Live!NoFrame /\ Live!Later /\ dirty' = FALSE /\ UNCHANGED shown
    <3>1. /\ debug' = debug /\ moved' = moved /\ frame' = frame /\ due' = due
          /\ since' = IF since < SerialPeriod THEN since + 1 ELSE since
      BY <2>6 DEF Live!NoFrame, Live!Later
    <3>2. behind' = 0 /\ lag' = 0
      BY <1>4, <2>6
    <3>3. SerialPaced' /\ TestPaced' /\ TestDrawn'
      BY <1>1, <1>3, <2>2, <2>6, <3>1, <3>2 DEF SerialPaced, TestPaced, TestDrawn
    <3> QED
      BY <1>2, <2>1, <2>6, <3>3 DEF LiveInv, PageInv
  <2> QED
    BY <1>6, <2>3, <2>4, <2>5, <2>6 DEF Live!Draw
<1> QED
  BY <1>5, <1>6 DEF Live!update

LEMMA LiveKeeps == ASSUME LiveInv, Live!Next \/ UNCHANGED liveVars PROVE LiveInv'
<1>1. /\ SerialPeriod \in Nat \ {0} /\ TimerPeriod \in Nat \ {0}
      /\ asleep \in BOOLEAN /\ dirty \in BOOLEAN /\ requested \in BOOLEAN
      /\ LogInv /\ SerialPaced /\ TestPaced /\ TestDrawn
  BY LiveAssumption DEF LiveInv, PageInv
<1>2. ASSUME UNCHANGED <<log, lines, recent>> PROVE LogInv'
  BY <1>1, <1>2 DEF LogInv, LogTyped
<1>3. ASSUME UNCHANGED <<livePage, asleep, dirty, lines, shown, since, behind>> PROVE SerialPaced'
  BY <1>1, <1>3 DEF SerialPaced
<1>4. ASSUME UNCHANGED <<requested, elapsed, dirty, lag>> PROVE TestPaced'
  BY <1>1, <1>4 DEF TestPaced
<1>5. CASE UNCHANGED liveVars
  <2>1. UNCHANGED <<livePage, asleep, dirty, log, lines, shown, since, requested, elapsed, debug,
                    frame, recent, behind, moved, due, lag>>
    BY <1>5 DEF liveVars
  <2> QED
    BY <1>1, <1>2, <1>3, <1>4, <2>1 DEF LiveInv, PageInv, TestDrawn
<1>6. ASSUME NEW e \in Logs, Live!serial(e) PROVE LiveInv'
  <2>1. UNCHANGED <<livePage, asleep, dirty, lines, shown, since, requested, elapsed, debug,
                    frame, behind, moved, due, lag>>
    BY <1>6 DEF Live!serial, Live!mouseVars
  <2>2. LogInv'
    BY <1>1, <1>6, LogAccepts
  <2> QED
    BY <1>1, <1>3, <1>4, <2>1, <2>2 DEF LiveInv, PageInv, TestDrawn
<1>7. ASSUME NEW m, Live!set_mouse_debug_delta(m) PROVE LiveInv'
  <2>1. /\ UNCHANGED <<livePage, asleep, dirty, log, lines, shown, since, requested, elapsed,
                       frame, recent, behind, due, lag>>
        /\ debug' = [a \in {"x", "y"} |-> IF m[a] # 0 THEN m[a] ELSE debug[a]]
        /\ moved' = [a \in {"x", "y"} |-> IF m[a] # 0 THEN m[a] ELSE moved[a]]
    BY <1>7 DEF Live!set_mouse_debug_delta, Live!logVars
  <2>2. TestDrawn'
    BY <1>1, <2>1 DEF TestDrawn
  <2> QED
    BY <1>1, <1>2, <1>3, <1>4, <2>1, <2>2 DEF LiveInv, PageInv
<1>8. ASSUME NEW h, Live!SetHeld(h) PROVE LiveInv'
  <2>1. UNCHANGED <<livePage, asleep, dirty, log, lines, shown, since, requested, elapsed, debug,
                    frame, recent, behind, moved, due, lag>>
    BY <1>8 DEF Live!SetHeld, Live!logVars
  <2> QED
    BY <1>1, <1>2, <1>3, <1>4, <2>1 DEF LiveInv, PageInv, TestDrawn
<1>9. CASE Live!deadzone_timer_cb
  <2>1. /\ UNCHANGED <<livePage, asleep, dirty, log, lines, shown, since, debug,
                       frame, recent, behind, moved, due, lag>>
        /\ requested' = TRUE /\ elapsed' = 0
    BY <1>9 DEF Live!deadzone_timer_cb, Live!logVars
  <2>2. TestPaced'
    BY <1>1, <2>1 DEF TestPaced
  <2> QED
    BY <1>1, <1>2, <1>3, <2>1, <2>2 DEF LiveInv, PageInv, TestDrawn
<1>10. ASSUME NEW q, Live!Turn(q) PROVE LiveInv'
  <2>1. /\ UNCHANGED <<log, lines, shown, since, requested, elapsed, debug, frame, recent, moved, due>>
        /\ dirty' = TRUE /\ behind' = 0 /\ lag' = 0
        /\ asleep' \in BOOLEAN
    BY <1>1, <1>10 DEF Live!Turn
  <2>2. SerialPaced' /\ TestPaced' /\ TestDrawn'
    BY <1>1, <2>1 DEF SerialPaced, TestPaced, TestDrawn
  <2> QED
    BY <1>1, <1>2, <2>1, <2>2 DEF LiveInv, PageInv
<1> QED
  BY <1>5, <1>6, <1>7, <1>8, <1>9, <1>10, UpdatePaced DEF Live!Next

LEMMA LiveTrue == LiveInv => Serial!LivePagesTrue /\ Test!LivePagesTrue
<1> SUFFICES ASSUME LiveInv PROVE Serial!LivePagesTrue /\ Test!LivePagesTrue
  OBVIOUS
<1>1. Live!LogInOrder
  BY LogInvOrder DEF LiveInv
<1>2. Serial!LogInOrder /\ Test!LogInOrder
  BY <1>1, Zenon DEF Live!LogInOrder, Serial!LogInOrder, Test!LogInOrder,
    Live!LastOf, Serial!LastOf, Test!LastOf
<1>3. /\ behind < SerialPeriod
      /\ livePage = "serial" /\ ~asleep /\ ~dirty => shown = lines
      /\ frame.arrow = due
      /\ lag < TimerPeriod
  BY LiveAssumption DEF LiveInv, PageInv, SerialPaced, TestPaced, TestDrawn
<1>4. Serial!LogShown /\ Serial!FramesCurrent /\ Test!LogShown /\ Test!FramesCurrent
  BY <1>3 DEF Serial!LogShown, Serial!FramesCurrent, Test!LogShown, Test!FramesCurrent
<1> QED
  BY <1>2, <1>4 DEF Serial!LivePagesTrue, Test!LivePagesTrue

-------------------------------------------------------------------------------
(* The parser: its states, and what they have to do with the fields that the   *)
(* descriptor has declared so far.                                              *)

Rows == [page : Nat, size : Nat, count : Nat, id : Nat]
Uses == [page : Nat, usage : Nat]
Reports == [id : Nat, bits : [Parser!Types -> Nat]]
Found == [id : Nat, type : Parser!Types, offset : Nat, size : Nat, page : Nat, usage : Nat]
Declarations == [id : Nat, type : Parser!Types, size : Nat, page : Nat, usage : Nat,
                 constant : BOOLEAN, within : Seq(Uses)]
Errors == {"HIDStackOverflow", "HIDStackUnderflow", "InsufficientReportIDItems",
           "UsageListOverflow", "InsufficientCollectionPaths", "UnexpectedEndCollection",
           "InsufficientReportItems"}
Kinds == {"undefined", "mouse", "joystick"}
Results == {"parsing", "Successful", "NoUnfilteredReportItems"} \cup Errors
ParserStates ==
    [tables : Seq(Rows), usages : Seq(Nat), min : Nat, max : Nat,
     paths : [1 .. MaxPaths -> [page : Nat, usage : Nat, parent : 0 .. MaxPaths]],
     cur : 0 .. MaxPaths, sizes : Seq(Reports), report : Nat, usingIds : BOOLEAN,
     items : Seq(Found), filter : Kinds, result : Results]

\* Bounds of the tables (Parser!TypeOK), for any state of the parser.
Bounded(s) ==
    /\ Len(s.tables) \in 1 .. StackDepth /\ Len(s.usages) <= UsageDepth /\ Len(s.items) <= MaxItems
    /\ Len(s.sizes) \in 1 .. MaxReportIds /\ s.report \in 1 .. Len(s.sizes)

\* Paths are used in turn, and a path comes after its parent.
PathsWell(s) ==
    \E u \in 1 .. MaxPaths :
        /\ s.cur <= u
        /\ \A k \in 1 .. MaxPaths :
             IF k = 1 \/ k > u THEN s.paths[k].parent = 0 ELSE s.paths[k].parent \in 1 .. k - 1
NestedAs(s, o) ==
    LET chain == Parser!Chain(s, s.cur)
    IN  /\ Len(chain) = Len(o)
        /\ \A j \in DOMAIN chain :
             o[Len(o) + 1 - j] = [page |-> s.paths[chain[j]].page, usage |-> s.paths[chain[j]].usage]

ReportsWell(s) ==
    /\ \A j, k \in 1 .. Len(s.sizes) : s.sizes[j].id = s.sizes[k].id => j = k
    /\ ~s.usingIds => Len(s.sizes) = 1 /\ s.sizes[1].id = 0

\* The bits of the fields of a report.
Adds(f, id, type) == IF f.id = id /\ f.type = type THEN f.size ELSE 0
Sums(fs, id, type) ==
    LET sum[k \in 0 .. Len(fs)] == IF k = 0 THEN 0 ELSE sum[k - 1] + Adds(fs[k], id, type)
    IN  sum
\* A report has the bits of its fields, and each item lies in the bits of its
\* report, after the items before it.
Counted(s, fs) ==
    /\ s.sizes[s.report].id = Parser!Table(s).id
    /\ \A r \in 1 .. Len(s.sizes), t \in Parser!Types :
         s.sizes[r].bits[t] = Sums(fs, s.sizes[r].id, t)[Len(fs)]
    /\ \A k \in 1 .. Len(fs) : \E r \in 1 .. Len(s.sizes) : s.sizes[r].id = fs[k].id
    /\ fs = <<>> => s.items = <<>>
Inside(s) ==
    /\ \A j \in 1 .. Len(s.items) : \E r \in 1 .. Len(s.sizes) :
         /\ s.sizes[r].id = s.items[j].id
         /\ s.items[j].offset + s.items[j].size <= s.sizes[r].bits[s.items[j].type]
    /\ \A j, k \in 1 .. Len(s.items) :
         j < k /\ s.items[j].id = s.items[k].id /\ s.items[j].type = s.items[k].type =>
           s.items[j].offset + s.items[j].size <= s.items[k].offset
FoundAll(s, fs) ==
    \A k \in 1 .. Len(fs) : Parser!Control(fs[k]) =>
        \E j \in 1 .. Len(s.items) :
            s.items[j] = [id |-> fs[k].id, type |-> fs[k].type,
                          offset |-> Sums(fs, fs[k].id, fs[k].type)[k - 1], size |-> fs[k].size,
                          page |-> fs[k].page, usage |-> fs[k].usage]

\* The kind of interface follows from the first field that is not constant.
KindsOf(f) == {Parser!Decides(f.within[j].page, f.within[j].usage) : j \in DOMAIN f.within} \ {"undefined"}
FilterWell(s, fs) ==
    /\ (\A k \in 1 .. Len(fs) : fs[k].constant) => s.filter = "undefined"
    /\ \A k \in 1 .. Len(fs) :
         ~fs[k].constant /\ (\A j \in 1 .. k - 1 : fs[j].constant) /\ KindsOf(fs[k]) # {} =>
           s.filter \in KindsOf(fs[k])

\* An id is still to come only before the first field.
IdsFirst(s, fs) ==
    ~s.usingIds => Numbered(desc) /\ (fs # <<>> => \A k \in 1 .. Len(desc) : desc[k].op # "id")

Right(s, o, fs, restored) ==
    /\ PathsWell(s) /\ NestedAs(s, o) /\ ReportsWell(s) /\ FilterWell(s, fs)
    /\ ~restored => Counted(s, fs) /\ Inside(s) /\ FoundAll(s, fs)

ParserInv ==
    /\ p \in ParserStates /\ fields \in Seq(Declarations) /\ open \in Seq(Uses)
    /\ idRestored \in BOOLEAN /\ desc \in Seq(ShortItems)
    /\ Bounded(p)
    /\ Parser!Whole => Right(p, open, fields, idRestored) /\ IdsFirst(p, fields)

-------------------------------------------------------------------------------
(* The chain of paths. *)

ParentsBefore(s) == \A k \in 1 .. MaxPaths : s.paths[k].parent \in 0 .. k - 1

LEMMA ParserLimits ==
    /\ StackDepth \in Nat /\ StackDepth >= 1 /\ MaxPaths \in Nat /\ MaxPaths >= 1
    /\ MaxReportIds \in Nat /\ MaxReportIds >= 1 /\ UsageDepth \in Nat /\ MaxItems \in Nat
<1>1. {StackDepth, MaxPaths, MaxReportIds} \subseteq Nat \ {0} /\ {UsageDepth, MaxItems} \subseteq Nat
  BY Zenon, DescriptorAssumption
<1>2. StackDepth \in Nat \ {0} /\ MaxPaths \in Nat \ {0} /\ MaxReportIds \in Nat \ {0}
      /\ UsageDepth \in Nat /\ MaxItems \in Nat
  BY Zenon, <1>1
<1> QED
  BY <1>2

LEMMA WellIsBefore ==
    ASSUME NEW s, PathsWell(s)
    PROVE  ParentsBefore(s)
<1>1. PICK u \in 1 .. MaxPaths :
        \A k \in 1 .. MaxPaths :
          IF k = 1 \/ k > u THEN s.paths[k].parent = 0 ELSE s.paths[k].parent \in 1 .. k - 1
  BY Zenon DEF PathsWell
<1>2. \A k \in 1 .. MaxPaths : s.paths[k].parent \in 0 .. k - 1
  <2> SUFFICES ASSUME NEW k \in 1 .. MaxPaths PROVE s.paths[k].parent \in 0 .. k - 1
    OBVIOUS
  <2>1. s.paths[k].parent = 0 \/ s.paths[k].parent \in 1 .. k - 1
    BY Zenon, <1>1
  <2> QED
    BY <2>1
<1> QED
  BY Zenon, <1>2 DEF ParentsBefore

\* The chain of a path is the path and the chain of its parent.
LEMMA ChainIs ==
    ASSUME NEW s \in ParserStates, ParentsBefore(s)
    PROVE  /\ Parser!Chain(s, 0) = <<>>
           /\ \A k \in 1 .. MaxPaths : Parser!Chain(s, k) = <<k>> \o Parser!Chain(s, s.paths[k].parent)
           /\ \A k \in 0 .. MaxPaths : Parser!Chain(s, k) \in Seq(1 .. MaxPaths)
<1> DEFINE n == MaxPaths
           T == Seq(1 .. n)
           up(k) == s.paths[k].parent
           down == [k \in 1 .. n |-> up(k)]
           step == [q \in (1 .. n) \X T |-> <<q[1]>> \o q[2]]
           it == CHOOSE f : f = [j \in 0 .. n |-> IF j = 0 THEN <<>> ELSE <<j>> \o f[up(j)]]
<1>1. \A k : Parser!Chain(s, k) = it[k]
  BY Zenon DEF Parser!Chain
<1>2. n \in Nat
  BY ParserLimits
<1>3. \A k \in 1 .. n : up(k) \in 0 .. k - 1
  BY DEF ParentsBefore
<1> HIDE DEF up
<1>4. down \in [1 .. n -> Nat] /\ \A k \in 1 .. n : down[k] = up(k) /\ down[k] < k
  BY <1>2, <1>3
<1>5. <<>> \in T
  OBVIOUS
<1>6. \A k \in 1 .. n, r \in T : <<k>> \o r \in T
  OBVIOUS
<1> HIDE DEF T
<1>13. step \in [(1 .. n) \X T -> T] /\ \A k \in 1 .. n, r \in T : step[<<k, r>>] = <<k>> \o r
  BY <1>6
<1> HIDE DEF down, step
<1>7. PICK f : Recurs(n, T, <<>>, down, step, f)
  <2>1. \A k \in 1 .. n : down[k] < k
    BY <1>4
  <2>2. down \in [1 .. n -> Nat]
    BY <1>4
  <2>3. \E f : Recurs(n, T, <<>>, down, step, f)
    BY <1>2, <1>5, <1>13, <2>1, <2>2, RecursionExists
  <2> QED
    BY <2>3
<1>8. f \in [0 .. n -> T] /\ f[0] = <<>> /\ \A k \in 1 .. n : f[k] = <<k>> \o f[up(k)]
  <2>1. f \in [0 .. n -> T] /\ f[0] = <<>> /\ \A k \in 1 .. n : f[k] = step[<<k, f[down[k]]>>]
    BY Zenon, <1>7 DEF Recurs
  <2>2. ASSUME NEW k \in 1 .. n PROVE f[k] = <<k>> \o f[up(k)]
    <3>1. up(k) \in 0 .. n
      BY <1>2, <1>3
    <3>2. f[up(k)] \in T
      BY <2>1, <3>1
    <3> QED
      BY <1>4, <1>13, <2>1, <3>2
  <2> QED
    BY <2>1, <2>2
<1>9. f = [j \in 0 .. n |-> IF j = 0 THEN <<>> ELSE <<j>> \o f[up(j)]]
  <2>1. \A j \in 0 .. n : j # 0 => j \in 1 .. n
    BY <1>2
  <2>2. \A j \in 0 .. n : f[j] = IF j = 0 THEN <<>> ELSE <<j>> \o f[up(j)]
    BY Zenon, <1>8, <2>1
  <2>3. f = [j \in 0 .. n |-> f[j]]
    BY <1>8
  <2> QED
    BY Zenon, <2>2, <2>3
<1>10. it = [j \in 0 .. n |-> IF j = 0 THEN <<>> ELSE <<j>> \o it[up(j)]]
  BY Zenon, <1>9
<1> HIDE DEF it
<1>11. it[0] = <<>> /\ \A k \in 1 .. n : it[k] = <<k>> \o it[up(k)]
  <2>1. 0 \in 0 .. n /\ \A k \in 1 .. n : k \in 0 .. n /\ k # 0
    BY <1>2
  <2>2. \A k \in 0 .. n : it[k] = IF k = 0 THEN <<>> ELSE <<k>> \o it[up(k)]
    BY Zenon, <1>10
  <2> QED
    BY Zenon, <2>1, <2>2
<1>12. \A k \in 0 .. n : it[k] \in T
  <2> DEFINE Bad == {k \in 0 .. n : it[k] \notin T}
  <2> SUFFICES ASSUME Bad # {} PROVE FALSE
    OBVIOUS
  <2>1. Bad \in SUBSET Nat
    BY <1>2
  <2>2. PICK k \in Bad : \A j \in Bad : k <= j
    BY <2>1, Least
  <2>3. k \in 1 .. n
    BY <1>2, <1>5, <1>11, <2>2
  <2>4. up(k) \in 0 .. n /\ up(k) < k
    BY <1>2, <1>3, <2>3
  <2>5. it[up(k)] \in T
    BY <1>2, <2>2, <2>3, <2>4
  <2>6. it[k] = <<k>> \o it[up(k)]
    BY Zenon, <1>11, <2>3
  <2>7. it[k] \in T
    BY Zenon, <1>6, <2>3, <2>5, <2>6
  <2> QED
    BY Zenon, <2>2, <2>7
<1> QED
  BY Zenon, <1>1, <1>11, <1>12 DEF up, T

LEMMA Elements ==
    ASSUME NEW S, NEW w \in Seq(S), NEW i \in 1 .. Len(w)
    PROVE  i \in DOMAIN w /\ w[i] \in S
  OBVIOUS

Replaces(z, w, i, x) == z = [w EXCEPT ![i] = x]
LEMMA Replaced ==
    ASSUME NEW S, NEW w \in Seq(S), NEW i \in 1 .. Len(w), NEW x \in S, NEW z, Replaces(z, w, i, x)
    PROVE  z \in Seq(S) /\ Len(z) = Len(w) /\ z[i] = x
  BY DEF Replaces

LEMMA OnlyOne ==
    ASSUME NEW S, NEW w \in Seq(S), Len(w) = 1, NEW x \in S, NEW z, Replaces(z, w, 1, x)
    PROVE  z \in Seq(S) /\ Len(z) = 1 /\ z[1] = x
  BY DEF Replaces

LEMMA Spared ==
    ASSUME NEW S, NEW w \in Seq(S), NEW i \in 1 .. Len(w), NEW x \in S, NEW z, Replaces(z, w, i, x),
           NEW j \in 1 .. Len(w), j # i
    PROVE  z[j] = w[j]
  BY DEF Replaces

LEMMA SeqWider ==
    ASSUME NEW S, NEW T, \A x \in S : x \in T, NEW c \in Seq(S)
    PROVE  c \in Seq(T)
  OBVIOUS

\* No path of a chain comes after its first one.
LEMMA ChainWithin ==
    ASSUME NEW s \in ParserStates, ParentsBefore(s), NEW k \in 0 .. MaxPaths
    PROVE  Parser!Chain(s, k) \in Seq(1 .. k)
<1> DEFINE C(j) == Parser!Chain(s, j)
           Bad == {j \in 0 .. MaxPaths : C(j) \notin Seq(1 .. j)}
<1>1. MaxPaths \in Nat
  BY ParserLimits
<1>2. C(0) = <<>> /\ \A j \in 1 .. MaxPaths : C(j) = <<j>> \o C(s.paths[j].parent)
  BY ChainIs
<1> HIDE DEF C
<1>3. Bad = {}
  <2> SUFFICES ASSUME Bad # {} PROVE FALSE
    OBVIOUS
  <2>1. Bad \in SUBSET Nat
    BY <1>1
  <2>2. PICK j \in Bad : \A i \in Bad : j <= i
    BY <2>1, Least
  <2>3. j \in 1 .. MaxPaths
    <3>0. <<>> \in Seq(1 .. 0)
      OBVIOUS
    <3>1. C(0) \in Seq(1 .. 0)
      BY Zenon, <1>2, <3>0
    <3>2. j \in 0 .. MaxPaths /\ j # 0
      BY Zenon, <2>2, <3>1
    <3> QED
      BY <1>1, <3>2
  <2> DEFINE u == s.paths[j].parent
  <2>4. u \in 0 .. j - 1
    BY <2>3 DEF ParentsBefore
  <2> HIDE DEF u
  <2>5. C(u) \in Seq(1 .. u)
    <3>1. u \in 0 .. MaxPaths /\ ~(j <= u)
      BY <1>1, <2>3, <2>4
    <3> QED
      BY Zenon, <2>2, <3>1
  <2>6. C(u) \in Seq(1 .. j)
    <3>1. \A i \in 1 .. u : i \in 1 .. j
      BY <2>3, <2>4
    <3> QED
      BY Zenon, <2>5, <3>1, SeqWider
  <2>7. <<j>> \o C(u) \in Seq(1 .. j)
    <3>1. j \in 1 .. j
      BY <2>3
    <3> QED
      BY <2>6, <3>1
  <2>8. C(j) \in Seq(1 .. j)
    BY <1>2, <2>3, <2>7 DEF u
  <2> QED
    BY <2>2, <2>8
<1> QED
  BY Zenon, <1>3 DEF C

\* A chain does not depend on the paths after its first one.
LEMMA ChainKept ==
    ASSUME NEW s \in ParserStates, ParentsBefore(s), NEW r \in ParserStates, ParentsBefore(r),
           NEW c \in 0 .. MaxPaths, \A k \in 1 .. c : r.paths[k].parent = s.paths[k].parent
    PROVE  Parser!Chain(r, c) = Parser!Chain(s, c)
<1> DEFINE C(j) == Parser!Chain(s, j)
           D(j) == Parser!Chain(r, j)
           Bad == {j \in 0 .. c : C(j) # D(j)}
<1>1. MaxPaths \in Nat
  BY ParserLimits
<1>2. C(0) = <<>> /\ \A j \in 1 .. MaxPaths : C(j) = <<j>> \o C(s.paths[j].parent)
  BY ChainIs
<1>3. D(0) = <<>> /\ \A j \in 1 .. MaxPaths : D(j) = <<j>> \o D(r.paths[j].parent)
  BY ChainIs
<1> HIDE DEF C, D
<1>4. Bad = {}
  <2> SUFFICES ASSUME Bad # {} PROVE FALSE
    OBVIOUS
  <2>1. Bad \in SUBSET Nat
    BY <1>1
  <2>2. PICK j \in Bad : \A i \in Bad : j <= i
    BY <2>1, Least
  <2>3. j \in 1 .. c /\ j \in 1 .. MaxPaths
    BY <1>1, <1>2, <1>3, <2>2
  <2> DEFINE u == s.paths[j].parent
  <2>4. u \in 0 .. j - 1 /\ r.paths[j].parent = u
    BY <2>3 DEF ParentsBefore
  <2> HIDE DEF u
  <2>5. C(u) = D(u)
    <3>1. u \in 0 .. c /\ ~(j <= u)
      BY <1>1, <2>3, <2>4
    <3> QED
      BY Zenon, <2>2, <3>1
  <2>6. C(j) = D(j)
    BY Zenon, <1>2, <1>3, <2>3, <2>4, <2>5 DEF u
  <2> QED
    BY Zenon, <2>2, <2>6
<1>5. c \in 0 .. c
  BY <1>1
<1> QED
  BY Zenon, <1>4, <1>5 DEF C, D

-------------------------------------------------------------------------------
(* What an item leaves alone. *)

SamePaths(r, s) == r.paths = s.paths /\ r.cur = s.cur
SameReports(r, s) ==
    /\ r.sizes = s.sizes /\ r.report = s.report /\ r.usingIds = s.usingIds
    /\ r.items = s.items /\ r.filter = s.filter
Typed(s) == s \in ParserStates /\ Bounded(s)

\* What is said of the items and the reports stays true with them.
LEMMA SameItems ==
    ASSUME NEW s, NEW r, NEW fs, r.items = s.items, r.sizes = s.sizes, Inside(s), FoundAll(s, fs)
    PROVE  Inside(r) /\ FoundAll(r, fs)
<1> DEFINE a == s.items
           b == r.items
           y == s.sizes
           z == r.sizes
<1>1. b = a /\ z = y
  OBVIOUS
<1>2. /\ \A j \in 1 .. Len(a) : \E k \in 1 .. Len(y) :
            y[k].id = a[j].id /\ a[j].offset + a[j].size <= y[k].bits[a[j].type]
      /\ \A j, k \in 1 .. Len(a) :
            j < k /\ a[j].id = a[k].id /\ a[j].type = a[k].type => a[j].offset + a[j].size <= a[k].offset
  BY Zenon DEF Inside
<1>3. \A k \in 1 .. Len(fs) : Parser!Control(fs[k]) =>
        \E j \in 1 .. Len(a) :
            a[j] = [id |-> fs[k].id, type |-> fs[k].type,
                    offset |-> Sums(fs, fs[k].id, fs[k].type)[k - 1], size |-> fs[k].size,
                    page |-> fs[k].page, usage |-> fs[k].usage]
  BY Zenon DEF FoundAll
<1> HIDE DEF a, b, y, z
<1>4. /\ \A j \in 1 .. Len(b) : \E k \in 1 .. Len(z) :
            z[k].id = b[j].id /\ b[j].offset + b[j].size <= z[k].bits[b[j].type]
      /\ \A j, k \in 1 .. Len(b) :
            j < k /\ b[j].id = b[k].id /\ b[j].type = b[k].type => b[j].offset + b[j].size <= b[k].offset
  BY Zenon, <1>1, <1>2
<1>5. \A k \in 1 .. Len(fs) : Parser!Control(fs[k]) =>
        \E j \in 1 .. Len(b) :
            b[j] = [id |-> fs[k].id, type |-> fs[k].type,
                    offset |-> Sums(fs, fs[k].id, fs[k].type)[k - 1], size |-> fs[k].size,
                    page |-> fs[k].page, usage |-> fs[k].usage]
  BY Zenon, <1>1, <1>3
<1> QED
  BY Zenon, <1>4, <1>5 DEF Inside, FoundAll, b, z

LEMMA StateFields ==
    ASSUME NEW s \in ParserStates
    PROVE  /\ s.tables \in Seq(Rows) /\ s.usages \in Seq(Nat) /\ s.min \in Nat /\ s.max \in Nat
           /\ s.paths \in [1 .. MaxPaths -> [page : Nat, usage : Nat, parent : 0 .. MaxPaths]]
           /\ s.cur \in 0 .. MaxPaths /\ s.sizes \in Seq(Reports) /\ s.report \in Nat
           /\ s.usingIds \in BOOLEAN /\ s.items \in Seq(Found) /\ s.filter \in Kinds
           /\ s.result \in Results
  BY DEF ParserStates

LEMMA TableIs ==
    ASSUME NEW s, Typed(s)
    PROVE  Parser!Table(s) \in Rows /\ Parser!Table(s) = s.tables[Len(s.tables)]
<1>1. s.tables \in Seq(Rows) /\ Len(s.tables) \in 1 .. StackDepth
  BY StateFields DEF Typed, Bounded
<1>2. \A q \in Seq(Rows) : Len(q) \in 1 .. StackDepth => q[Len(q)] \in Rows
  <2>1. StackDepth \in Nat
    BY ParserLimits
  <2> QED
    BY <2>1
<1>3. Parser!Table(s) = s.tables[Len(s.tables)]
  BY DEF Parser!Table, Parser!Last
<1> QED
  BY Zenon, <1>1, <1>2, <1>3

LEMMA SameNesting ==
    ASSUME NEW s \in ParserStates, NEW r \in ParserStates, SamePaths(r, s), NEW o,
           PathsWell(s), NestedAs(s, o)
    PROVE  PathsWell(r) /\ NestedAs(r, o)
<1>1. PathsWell(r)
  BY Zenon DEF PathsWell, SamePaths
<1>2. ParentsBefore(r) /\ ParentsBefore(s)
  BY Zenon, <1>1, WellIsBefore
<1>3. s.cur \in 0 .. MaxPaths /\ \A k \in 1 .. s.cur : r.paths[k].parent = s.paths[k].parent
  BY StateFields DEF SamePaths
<1>4. Parser!Chain(r, s.cur) = Parser!Chain(s, s.cur)
  BY Zenon, <1>2, <1>3, ChainKept
<1>5. NestedAs(r, o)
  BY Zenon, <1>4 DEF NestedAs, SamePaths
<1> QED
  BY <1>1, <1>5

Keeps(r, s, o, fs, before, after) ==
    /\ s \in ParserStates /\ r \in ParserStates /\ SamePaths(r, s) /\ SameReports(r, s)
    /\ before \in BOOLEAN /\ after \in BOOLEAN
    /\ before \/ Parser!Table(r).id # Parser!Table(s).id => after
    /\ Right(s, o, fs, before)
LEMMA Kept ==
    ASSUME NEW s, NEW r, NEW o, NEW fs, NEW before, NEW after, Keeps(r, s, o, fs, before, after)
    PROVE  Right(r, o, fs, after)
<1>0. /\ s \in ParserStates /\ r \in ParserStates /\ SamePaths(r, s) /\ SameReports(r, s)
      /\ before \/ Parser!Table(r).id # Parser!Table(s).id => after
      /\ Right(s, o, fs, before)
  BY Zenon DEF Keeps
<1>1. PathsWell(r) /\ NestedAs(r, o)
  BY Zenon, <1>0, SameNesting DEF Right
<1>2. ReportsWell(r) /\ FilterWell(r, fs)
  BY Zenon, <1>0 DEF Right, ReportsWell, FilterWell, SameReports
<1>3. ASSUME ~after PROVE Counted(r, fs) /\ Inside(r) /\ FoundAll(r, fs)
  <2>1. Counted(s, fs) /\ Inside(s) /\ FoundAll(s, fs) /\ Parser!Table(r).id = Parser!Table(s).id
    BY Zenon, <1>0, <1>3 DEF Right
  <2>2. Counted(r, fs)
    BY Zenon, <1>0, <2>1 DEF Counted, SameReports
  <2>3. r.items = s.items /\ r.sizes = s.sizes
    BY Zenon, <1>0 DEF SameReports
  <2>4. Inside(r) /\ FoundAll(r, fs)
    BY Zenon, <2>1, <2>3, SameItems
  <2> QED
    BY Zenon, <2>2, <2>4
<1> QED
  BY Zenon, <1>1, <1>2, <1>3 DEF Right

-------------------------------------------------------------------------------
(* The items that change the table or the locals only. *)

Steps(r, s) ==
    /\ Typed(r) /\ SamePaths(r, s) /\ SameReports(r, s)
    /\ r.result \in {"parsing"} \cup Errors

LEMMA FailSteps ==
    ASSUME NEW s, Typed(s), NEW e \in Errors
    PROVE  /\ Steps(Parser!Fail(s, e), s) /\ Parser!Fail(s, e).result = e
<1> DEFINE r == [s EXCEPT !.result = e]
<1>1. s \in ParserStates /\ e \in Results
  BY Zenon DEF Typed, Results
<1>2. r \in ParserStates
  BY <1>1 DEF ParserStates
<1>3. /\ r.tables = s.tables /\ r.usages = s.usages /\ r.items = s.items /\ r.sizes = s.sizes
      /\ r.report = s.report /\ r.paths = s.paths /\ r.cur = s.cur /\ r.usingIds = s.usingIds
      /\ r.filter = s.filter /\ r.result = e
  BY <1>1 DEF ParserStates
<1> HIDE DEF r
<1>4. Steps(r, s)
  BY Zenon, <1>2, <1>3 DEF Steps, Typed, Bounded, SamePaths, SameReports
<1> QED
  BY Zenon, <1>3, <1>4 DEF r, Parser!Fail

\* Another table on top.
LEMMA TablesStep ==
    ASSUME NEW s, Typed(s), s.result = "parsing",
           NEW q \in Seq(Rows), Len(q) \in 1 .. StackDepth, NEW r, r = [s EXCEPT !.tables = q]
    PROVE  Steps(r, s) /\ Parser!Table(r) = q[Len(q)] /\ r.usages = s.usages /\ r.result = "parsing"
<1>1. s \in ParserStates
  BY DEF Typed
<1>2. r \in ParserStates
  BY <1>1 DEF ParserStates
<1>3. /\ r.tables = q /\ r.usages = s.usages /\ r.items = s.items /\ r.sizes = s.sizes
      /\ r.report = s.report /\ r.paths = s.paths /\ r.cur = s.cur /\ r.usingIds = s.usingIds
      /\ r.filter = s.filter /\ r.result = "parsing"
  BY <1>1 DEF ParserStates
<1>4. Steps(r, s)
  BY Zenon, <1>2, <1>3 DEF Steps, Typed, Bounded, SamePaths, SameReports
<1>5. Parser!Table(r) = q[Len(q)]
  BY <1>3 DEF Parser!Table, Parser!Last
<1> QED
  BY Zenon, <1>3, <1>4, <1>5

LEMMA SetTableStep ==
    ASSUME NEW s, Typed(s), s.result = "parsing", NEW t \in Rows
    PROVE  /\ Steps(Parser!SetTable(s, t), s) /\ Parser!Table(Parser!SetTable(s, t)) = t
           /\ Parser!SetTable(s, t).usages = s.usages /\ Parser!SetTable(s, t).result = "parsing"
<1> DEFINE f == SubSeq(s.tables, 1, Len(s.tables) - 1)
           q == Append(f, t)
<1>1. s.tables \in Seq(Rows) /\ Len(s.tables) \in 1 .. StackDepth
  BY StateFields DEF Typed, Bounded
<1>2. StackDepth \in Nat
  BY ParserLimits
<1>3. f \in Seq(Rows) /\ Len(f) = Len(s.tables) - 1
  BY <1>1, <1>2
<1>4. q \in Seq(Rows) /\ Len(q) \in 1 .. StackDepth /\ q[Len(q)] = t
  BY <1>1, <1>2, <1>3
<1> DEFINE r == Parser!SetTable(s, t)
<1>5. r = [s EXCEPT !.tables = q]
  BY Zenon DEF Parser!SetTable, Parser!Front
<1> HIDE DEF q, r
<1>6. Steps(r, s) /\ Parser!Table(r) = q[Len(q)] /\ r.usages = s.usages /\ r.result = "parsing"
  BY <1>4, <1>5, TablesStep
<1> QED
  BY Zenon, <1>4, <1>6 DEF r

LEMMA PushStep ==
    ASSUME NEW s, Typed(s), s.result = "parsing"
    PROVE  /\ Steps(Parser!Push(s), s)
           /\ Parser!Push(s).result = "parsing" => Parser!Table(Parser!Push(s)) = Parser!Table(s)
<1>1. s.tables \in Seq(Rows) /\ Len(s.tables) \in 1 .. StackDepth
  BY StateFields DEF Typed, Bounded
<1>2. StackDepth \in Nat
  BY ParserLimits
<1>3. CASE Len(s.tables) = StackDepth
  <2>1. Parser!Push(s) = Parser!Fail(s, "HIDStackOverflow")
    BY Zenon, <1>3 DEF Parser!Push
  <2>2. "HIDStackOverflow" \in Errors /\ "HIDStackOverflow" # "parsing"
    BY DEF Errors
  <2> QED
    BY Zenon, <2>1, <2>2, FailSteps
<1>4. CASE Len(s.tables) # StackDepth
  <2> DEFINE t == s.tables[Len(s.tables)]
             q == Append(s.tables, t)
  <2>1. t \in Rows /\ t = Parser!Table(s)
    BY Zenon, TableIs
  <2> HIDE DEF t
  <2>2. q \in Seq(Rows) /\ Len(q) \in 1 .. StackDepth /\ q[Len(q)] = t
    BY <1>1, <1>2, <1>4, <2>1
  <2> DEFINE r == Parser!Push(s)
  <2>3. r = [s EXCEPT !.tables = q]
    BY Zenon, <1>4 DEF Parser!Push, Parser!Last, t
  <2> HIDE DEF q, r
  <2>4. Steps(r, s) /\ Parser!Table(r) = q[Len(q)]
    BY <2>2, <2>3, TablesStep
  <2> QED
    BY Zenon, <2>1, <2>2, <2>4 DEF r
<1> QED
  BY <1>3, <1>4

LEMMA PopStep ==
    ASSUME NEW s, Typed(s), s.result = "parsing"
    PROVE  Steps(Parser!Pop(s), s)
<1>1. s.tables \in Seq(Rows) /\ Len(s.tables) \in 1 .. StackDepth
  BY StateFields DEF Typed, Bounded
<1>2. StackDepth \in Nat
  BY ParserLimits
<1>3. CASE Len(s.tables) = 1
  <2>1. Parser!Pop(s) = Parser!Fail(s, "HIDStackUnderflow")
    BY Zenon, <1>3 DEF Parser!Pop
  <2>2. "HIDStackUnderflow" \in Errors
    BY DEF Errors
  <2> QED
    BY Zenon, <2>1, <2>2, FailSteps
<1>4. CASE Len(s.tables) # 1
  <2> DEFINE q == SubSeq(s.tables, 1, Len(s.tables) - 1)
  <2>1. q \in Seq(Rows) /\ Len(q) \in 1 .. StackDepth
    <3> DEFINE n == Len(s.tables)
    <3>3. n \in 1 .. StackDepth /\ n # 1
      BY Zenon, <1>1, <1>4
    <3>1. n - 1 \in 1 .. StackDepth
      <4> HIDE DEF n
      <4> QED
        BY <1>2, <3>3
    <3>2. q \in Seq(Rows) /\ Len(q) = Len(s.tables) - 1
      BY <1>1, <1>2
    <3> QED
      BY Zenon, <3>1, <3>2
  <2> DEFINE r == Parser!Pop(s)
  <2>2. r = [s EXCEPT !.tables = q]
    BY Zenon, <1>4 DEF Parser!Pop, Parser!Front
  <2> HIDE DEF q, r
  <2>3. Steps(r, s)
    BY <2>1, <2>2, TablesStep
  <2> QED
    BY Zenon, <2>3 DEF r
<1> QED
  BY <1>3, <1>4

\* Other locals.
WithLocals(r, s, us, low, high) == r = [s EXCEPT !.usages = us, !.min = low, !.max = high]

LEMMA LocalsStep ==
    ASSUME NEW s, Typed(s), s.result \in {"parsing"} \cup Errors, NEW us \in Seq(Nat), Len(us) <= UsageDepth,
           NEW low \in Nat, NEW high \in Nat,
           NEW r, WithLocals(r, s, us, low, high)
    PROVE  Steps(r, s) /\ Parser!Table(r) = Parser!Table(s) /\ r.result = s.result
<1>1. s \in ParserStates
  BY DEF Typed
<1>2. r \in ParserStates
  BY <1>1 DEF ParserStates, WithLocals
<1>3. /\ r.tables = s.tables /\ r.usages = us /\ r.items = s.items /\ r.sizes = s.sizes
      /\ r.report = s.report /\ r.paths = s.paths /\ r.cur = s.cur /\ r.usingIds = s.usingIds
      /\ r.filter = s.filter /\ r.result = s.result
  BY <1>1 DEF ParserStates, WithLocals
<1>4. Steps(r, s)
  BY Zenon, <1>2, <1>3 DEF Steps, Typed, Bounded, SamePaths, SameReports
<1>5. Parser!Table(r) = Parser!Table(s)
  BY Zenon, <1>3 DEF Parser!Table
<1> QED
  BY Zenon, <1>3, <1>4, <1>5

LEMMA OneLocal ==
    ASSUME NEW s \in ParserStates, NEW us, NEW low, NEW high
    PROVE  /\ WithLocals([s EXCEPT !.usages = us], s, us, s.min, s.max)
           /\ WithLocals([s EXCEPT !.min = low], s, s.usages, low, s.max)
           /\ WithLocals([s EXCEPT !.max = high], s, s.usages, s.min, high)
BY DEF ParserStates, WithLocals

LEMMA ItemFields ==
    ASSUME NEW item \in ShortItems
    PROVE  /\ item.op \notin Parser!Types => item.v \in Nat
           /\ item.op = "usage" /\ "page" \in DOMAIN item => item.page \in Nat
           /\ item.op \in Parser!Types => item.constant \in BOOLEAN
           /\ item.op \in Parser!Types \cup {"push", "pop", "page", "size", "count", "id", "usage",
                                             "min", "max", "collection", "end"}
<1> DEFINE A == [op : {"push", "pop", "page", "size", "count", "id", "usage", "min", "max",
                        "collection", "end"}, v : Nat]
           B == [op : {"usage"}, v : Nat, page : Nat]
           C == [op : Parser!Types, constant : BOOLEAN]
<1>1. item \in A \/ item \in B \/ item \in C
  BY Zenon DEF ShortItems
<1>2. CASE item \in A
  BY <1>2 DEF Parser!Types
<1>3. CASE item \in B
  BY <1>3 DEF Parser!Types
<1>4. CASE item \in C
  BY <1>4 DEF Parser!Types
<1> QED
  BY Zenon, <1>1, <1>2, <1>3, <1>4

\* The case of the switch for each item.
LEMMA Dispatch ==
    ASSUME NEW s, NEW item, NEW r, r = Parser!Parsed(s, item)
    PROVE  /\ item.op = "push" => r = Parser!Push(s)
           /\ item.op = "pop" => r = Parser!Pop(s)
           /\ item.op = "page" => r = Parser!SetTable(s, [Parser!Table(s) EXCEPT !.page = item.v])
           /\ item.op = "size" => r = Parser!SetTable(s, [Parser!Table(s) EXCEPT !.size = item.v % 256])
           /\ item.op = "count" => r = Parser!SetTable(s, [Parser!Table(s) EXCEPT !.count = item.v % 256])
           /\ item.op = "id" => r = Parser!ReportId(s, item.v)
           /\ item.op = "usage" => r = Parser!Usage(s, item)
           /\ item.op = "min" => r = [s EXCEPT !.min = item.v]
           /\ item.op = "max" => r = [s EXCEPT !.max = item.v]
           /\ item.op = "collection" => r = Parser!Locals(Parser!Collection(s))
           /\ item.op = "end" => r = Parser!Locals(Parser!EndCollection(s))
           /\ item.op \in Parser!Types => r = Parser!Locals(Parser!Main(s, item))
<1>1. item.op = "push" => r = Parser!Push(s)
  BY SMT DEF Parser!Parsed, Parser!Types
<1>2. item.op = "pop" => r = Parser!Pop(s)
  BY SMT DEF Parser!Parsed, Parser!Types
<1>3. item.op = "page" => r = Parser!SetTable(s, [Parser!Table(s) EXCEPT !.page = item.v])
  BY SMT DEF Parser!Parsed, Parser!Types
<1>4. item.op = "size" => r = Parser!SetTable(s, [Parser!Table(s) EXCEPT !.size = item.v % 256])
  BY SMT DEF Parser!Parsed, Parser!Types
<1>5. item.op = "count" => r = Parser!SetTable(s, [Parser!Table(s) EXCEPT !.count = item.v % 256])
  BY SMT DEF Parser!Parsed, Parser!Types
<1>6. item.op = "id" => r = Parser!ReportId(s, item.v)
  BY SMT DEF Parser!Parsed, Parser!Types
<1>7. item.op = "usage" => r = Parser!Usage(s, item)
  BY SMT DEF Parser!Parsed, Parser!Types
<1>8. item.op = "min" => r = [s EXCEPT !.min = item.v]
  BY SMT DEF Parser!Parsed, Parser!Types
<1>9. item.op = "max" => r = [s EXCEPT !.max = item.v]
  BY SMT DEF Parser!Parsed, Parser!Types
<1>10. item.op = "collection" => r = Parser!Locals(Parser!Collection(s))
  BY SMT DEF Parser!Parsed, Parser!Types
<1>11. item.op = "end" => r = Parser!Locals(Parser!EndCollection(s))
  BY SMT DEF Parser!Parsed, Parser!Types
<1>12. item.op \in Parser!Types => r = Parser!Locals(Parser!Main(s, item))
  BY SMT DEF Parser!Parsed, Parser!Types
<1> QED
  BY Zenon, <1>1, <1>2, <1>3, <1>4, <1>5, <1>6, <1>7, <1>8, <1>9, <1>10, <1>11, <1>12

Quiet == {"push", "pop", "page", "size", "count", "usage", "min", "max"}

LEMMA UsageStep ==
    ASSUME NEW s, Typed(s), s.result = "parsing", NEW item \in ShortItems, item.op = "usage",
           NEW r, r = Parser!Usage(s, item)
    PROVE  Steps(r, s) /\ (r.result = "parsing" => Parser!Table(r).id = Parser!Table(s).id)
<1>1. CASE Len(s.usages) = UsageDepth
  <2>1. r = Parser!Fail(s, "UsageListOverflow")
    BY Zenon, <1>1 DEF Parser!Usage
  <2>2. "UsageListOverflow" \in Errors /\ "UsageListOverflow" # "parsing"
    BY DEF Errors
  <2>3. Steps(r, s) /\ r.result # "parsing"
    BY Zenon, <2>1, <2>2, FailSteps
  <2> QED
    BY Zenon, <2>3
<1>2. CASE Len(s.usages) # UsageDepth
  <2> DEFINE t == [Parser!Table(s) EXCEPT !.page = IF "page" \in DOMAIN item THEN item.page ELSE @]
             a == Parser!SetTable(s, t)
             us == Append(a.usages, item.v)
  <2>1. r = [a EXCEPT !.usages = us]
    BY Zenon, <1>2 DEF Parser!Usage
  <2>2. item.v \in Nat /\ ("page" \in DOMAIN item => item.page \in Nat)
    BY ItemFields DEF Parser!Types
  <2>3. Parser!Table(s) \in Rows
    BY Zenon, TableIs
  <2>4. t \in Rows /\ t.id = Parser!Table(s).id
    BY <2>2, <2>3 DEF Rows
  <2> HIDE DEF t
  <2>5. Steps(a, s) /\ Parser!Table(a) = t /\ a.usages = s.usages /\ a.result = "parsing"
    BY Zenon, <2>4, SetTableStep
  <2> HIDE DEF a
  <2>6. Typed(a) /\ a \in ParserStates
    BY Zenon, <2>5 DEF Steps, Typed
  <2>7. us \in Seq(Nat) /\ Len(us) <= UsageDepth
    <3>1. s.usages \in Seq(Nat) /\ Len(s.usages) <= UsageDepth /\ UsageDepth \in Nat
      BY StateFields, ParserLimits DEF Typed, Bounded
    <3> QED
      BY <1>2, <2>2, <2>5, <3>1
  <2> HIDE DEF us
  <2>8. WithLocals(r, a, us, a.min, a.max) /\ a.min \in Nat /\ a.max \in Nat
    <3>1. WithLocals(r, a, us, a.min, a.max)
      BY Zenon, <2>1, <2>6, OneLocal
    <3>2. a.min \in Nat /\ a.max \in Nat
      BY Zenon, <2>6, StateFields
    <3> QED
      BY <3>1, <3>2
  <2>9. Steps(r, a) /\ Parser!Table(r) = Parser!Table(a) /\ r.result = "parsing"
    <3>1. a.result \in {"parsing"} \cup Errors
      BY Zenon, <2>5
    <3> QED
      BY <2>5, <2>6, <2>7, <2>8, <3>1, LocalsStep
  <2>10. Steps(r, s)
    BY Zenon, <2>5, <2>9 DEF Steps, SamePaths, SameReports
  <2> QED
    BY Zenon, <2>4, <2>5, <2>9, <2>10
<1> QED
  BY <1>1, <1>2

LEMMA QuietStep ==
    ASSUME NEW s, Typed(s), s.result = "parsing", NEW item \in ShortItems, item.op \in Quiet,
           NEW r, r = Parser!Parsed(s, item)
    PROVE  /\ Steps(r, s)
           /\ r.result = "parsing" /\ item.op # "pop" => Parser!Table(r).id = Parser!Table(s).id
<1> DEFINE t == Parser!Table(s)
           paged == [t EXCEPT !.page = item.v]
           sized == [t EXCEPT !.size = item.v % 256]
           counted == [t EXCEPT !.count = item.v % 256]
<1>1. item.v \in Nat
  BY ItemFields DEF Parser!Types, Quiet
<1>2. t \in Rows /\ s \in ParserStates
  BY Zenon, TableIs DEF Typed
<1>3. item.v % 256 \in Nat
  BY <1>1
<1> HIDE DEF t
<1>4. /\ paged \in Rows /\ paged.id = t.id /\ sized \in Rows /\ sized.id = t.id
      /\ counted \in Rows /\ counted.id = t.id
  <2> DEFINE low == item.v % 256
  <2> HIDE DEF low
  <2>1. /\ [t EXCEPT !.page = item.v] \in Rows /\ [t EXCEPT !.page = item.v].id = t.id
        /\ [t EXCEPT !.size = low] \in Rows /\ [t EXCEPT !.size = low].id = t.id
        /\ [t EXCEPT !.count = low] \in Rows /\ [t EXCEPT !.count = low].id = t.id
    BY <1>1, <1>2, <1>3 DEF Rows, low
  <2> QED
    BY Zenon, <2>1 DEF low
<1>14. /\ item.op = "push" => r = Parser!Push(s)
       /\ item.op = "pop" => r = Parser!Pop(s)
       /\ item.op = "page" => r = Parser!SetTable(s, paged)
       /\ item.op = "size" => r = Parser!SetTable(s, sized)
       /\ item.op = "count" => r = Parser!SetTable(s, counted)
       /\ item.op = "usage" => r = Parser!Usage(s, item)
       /\ item.op = "min" => r = [s EXCEPT !.min = item.v]
       /\ item.op = "max" => r = [s EXCEPT !.max = item.v]
  BY Zenon, Dispatch DEF t
<1> HIDE DEF paged, sized, counted
<1>5. CASE item.op = "push"
  <2>1. r = Parser!Push(s)
    BY Zenon, <1>5, <1>14
  <2> QED
    BY Zenon, <2>1, PushStep
<1>6. CASE item.op = "pop"
  <2>1. r = Parser!Pop(s)
    BY Zenon, <1>6, <1>14
  <2> QED
    BY Zenon, <1>6, <2>1, PopStep
<1>7. CASE item.op = "page"
  <2>1. r = Parser!SetTable(s, paged)
    BY Zenon, <1>7, <1>14
  <2> QED
    BY Zenon, <1>4, <2>1, SetTableStep DEF t
<1>8. CASE item.op = "size"
  <2>1. r = Parser!SetTable(s, sized)
    BY Zenon, <1>8, <1>14
  <2> QED
    BY Zenon, <1>4, <2>1, SetTableStep DEF t
<1>9. CASE item.op = "count"
  <2>1. r = Parser!SetTable(s, counted)
    BY Zenon, <1>9, <1>14
  <2> QED
    BY Zenon, <1>4, <2>1, SetTableStep DEF t
<1>10. CASE item.op = "usage"
  <2>1. r = Parser!Usage(s, item)
    BY Zenon, <1>10, <1>14
  <2> QED
    BY Zenon, <1>10, <2>1, UsageStep
<1>11. /\ s.usages \in Seq(Nat) /\ Len(s.usages) <= UsageDepth /\ s.min \in Nat /\ s.max \in Nat
  BY Zenon, <1>2, StateFields DEF Typed, Bounded
<1>16. s.result \in {"parsing"} \cup Errors
  BY Zenon
<1>12. CASE item.op = "min"
  <2>1. r = [s EXCEPT !.min = item.v]
    BY Zenon, <1>12, <1>14
  <2>2. WithLocals(r, s, s.usages, item.v, s.max)
    BY Zenon, <1>2, <2>1, OneLocal
  <2>3. Steps(r, s) /\ Parser!Table(r) = Parser!Table(s)
    BY <1>1, <1>11, <1>16, <2>2, LocalsStep
  <2> QED
    BY Zenon, <2>3
<1>13. CASE item.op = "max"
  <2>1. r = [s EXCEPT !.max = item.v]
    BY Zenon, <1>13, <1>14
  <2>2. WithLocals(r, s, s.usages, s.min, item.v)
    BY Zenon, <1>2, <2>1, OneLocal
  <2>3. Steps(r, s) /\ Parser!Table(r) = Parser!Table(s)
    BY <1>1, <1>11, <1>16, <2>2, LocalsStep
  <2> QED
    BY Zenon, <2>3
<1> QED
  BY Zenon, <1>5, <1>6, <1>7, <1>8, <1>9, <1>10, <1>12, <1>13 DEF Quiet

-------------------------------------------------------------------------------
(* Usages that are taken, and locals that are forgotten. *)

UsagesLeft(s) == IF s.usages # <<>> THEN Tail(s.usages) ELSE s.usages
MinLeft(s) == IF s.usages = <<>> /\ s.min <= s.max THEN s.min + 1 ELSE s.min

LEMMA TakeStep ==
    ASSUME NEW s, Typed(s), s.result = "parsing", NEW r, r = Parser!TakeUsage(s)
    PROVE  /\ Steps(r, s) /\ Parser!Table(r) = Parser!Table(s) /\ r.result = "parsing"
           /\ r.usages = UsagesLeft(s) /\ r.min = MinLeft(s) /\ r.max = s.max
<1>1. s \in ParserStates
  BY Zenon DEF Typed
<1>2. /\ s.usages \in Seq(Nat) /\ Len(s.usages) <= UsageDepth /\ s.min \in Nat /\ s.max \in Nat
  BY Zenon, <1>1, StateFields DEF Typed, Bounded
<1>3. UsagesLeft(s) \in Seq(Nat) /\ Len(UsagesLeft(s)) <= UsageDepth
  <2>1. UsageDepth \in Nat
    BY ParserLimits
  <2>2. CASE s.usages = <<>>
    BY Zenon, <1>2, <2>2 DEF UsagesLeft
  <2>3. CASE s.usages # <<>>
    <3> DEFINE us == s.usages
    <3>1. us \in Seq(Nat) /\ us # <<>> /\ Len(us) <= UsageDepth
      BY Zenon, <1>2, <2>3
    <3> HIDE DEF us
    <3>2. Tail(us) \in Seq(Nat) /\ Len(Tail(us)) = Len(us) - 1 /\ Len(us) \in Nat
      BY <3>1
    <3>3. Len(Tail(us)) <= UsageDepth
      BY <2>1, <3>1, <3>2
    <3> QED
      BY Zenon, <2>3, <3>2, <3>3 DEF UsagesLeft, us
  <2> QED
    BY Zenon, <2>2, <2>3
<1>4. MinLeft(s) \in Nat
  BY <1>2 DEF MinLeft
<1>5. WithLocals(r, s, UsagesLeft(s), MinLeft(s), s.max)
  <2>1. CASE s.usages # <<>>
    <3>1. r = [s EXCEPT !.usages = UsagesLeft(s)] /\ MinLeft(s) = s.min
      BY Zenon, <2>1 DEF Parser!TakeUsage, UsagesLeft, MinLeft
    <3> QED
      BY Zenon, <1>1, <3>1, OneLocal
  <2>2. CASE s.usages = <<>> /\ s.min <= s.max
    <3>1. r = [s EXCEPT !.min = MinLeft(s)] /\ UsagesLeft(s) = s.usages
      BY Zenon, <2>2 DEF Parser!TakeUsage, UsagesLeft, MinLeft
    <3> QED
      BY Zenon, <1>1, <3>1, OneLocal
  <2>3. CASE s.usages = <<>> /\ ~(s.min <= s.max)
    <3>1. r = s /\ UsagesLeft(s) = s.usages /\ MinLeft(s) = s.min
      BY Zenon, <2>3 DEF Parser!TakeUsage, UsagesLeft, MinLeft
    <3>2. s = [s EXCEPT !.min = s.min]
      BY <1>1 DEF ParserStates
    <3> QED
      BY Zenon, <1>1, <3>1, <3>2, OneLocal
  <2> QED
    BY Zenon, <2>1, <2>2, <2>3
<1>6. Steps(r, s) /\ Parser!Table(r) = Parser!Table(s) /\ r.result = "parsing"
  <2>1. s.result \in {"parsing"} \cup Errors
    BY Zenon
  <2> HIDE DEF UsagesLeft, MinLeft
  <2> QED
    BY <1>2, <1>3, <1>4, <1>5, <2>1, LocalsStep
<1>7. r.usages = UsagesLeft(s) /\ r.min = MinLeft(s) /\ r.max = s.max
  BY <1>1, <1>5 DEF WithLocals, ParserStates
<1> QED
  BY <1>6, <1>7

LEMMA ForgetStep ==
    ASSUME NEW s, Typed(s), s.result \in {"parsing"} \cup Errors, NEW r, r = Parser!Locals(s)
    PROVE  Steps(r, s) /\ Parser!Table(r) = Parser!Table(s) /\ r.result = s.result
<1> DEFINE us == <<>>
           zero == 0
<1>1. WithLocals(r, s, us, zero, zero)
  BY Zenon DEF WithLocals, Parser!Locals
<1>2. us \in Seq(Nat) /\ Len(us) <= UsageDepth /\ zero \in Nat
  BY ParserLimits
<1> HIDE DEF us, zero
<1> QED
  BY <1>1, <1>2, LocalsStep

LEMMA NextUsageIs ==
    ASSUME NEW s, Typed(s)
    PROVE  Parser!NextUsage(s) \in Nat
<1>1. s.usages \in Seq(Nat) /\ s.min \in Nat
  BY Zenon, StateFields DEF Typed
<1>2. CASE s.usages # <<>>
  <2>1. \A us \in Seq(Nat) : us # <<>> => Head(us) \in Nat
    OBVIOUS
  <2> QED
    BY Zenon, <1>1, <1>2, <2>1 DEF Parser!NextUsage
<1>3. CASE s.usages = <<>>
  <2>1. Parser!NextUsage(s) = IF s.min <= s.max THEN s.min ELSE 0
    BY Zenon, <1>3 DEF Parser!NextUsage
  <2>2. 0 \in Nat
    OBVIOUS
  <2> QED
    BY Zenon, <1>1, <2>1, <2>2
<1> QED
  BY Zenon, <1>2, <1>3

-------------------------------------------------------------------------------
(* Collections. *)

\* A path is taken into use below the current one.
Opens(r, s, k, path) ==
    /\ Typed(r) /\ SameReports(r, s) /\ Parser!Table(r) = Parser!Table(s) /\ r.result = "parsing"
    /\ r.cur = k /\ r.paths = [s.paths EXCEPT ![k] = path]

LEMMA PathTaken ==
    ASSUME NEW s, Typed(s), NEW k \in 1 .. MaxPaths,
           NEW use \in Uses,
           NEW a, Steps(a, s), Parser!Table(a) = Parser!Table(s), a.result = "parsing",
           NEW path, path = [page |-> use.page, usage |-> use.usage, parent |-> s.cur],
           NEW r, r = [a EXCEPT !.cur = k, !.paths[k] = path]
    PROVE  Opens(r, s, k, path)
<1>1. a \in ParserStates /\ Typed(a)
  BY Zenon DEF Steps, Typed
<1>2. s.cur \in 0 .. MaxPaths /\ MaxPaths \in Nat
  BY StateFields, ParserLimits DEF Typed
<1>3. path \in [page : Nat, usage : Nat, parent : 0 .. MaxPaths]
  BY <1>2 DEF Uses
<1> DEFINE paths == [a.paths EXCEPT ![k] = path]
<1>4. paths \in [1 .. MaxPaths -> [page : Nat, usage : Nat, parent : 0 .. MaxPaths]]
  <2>1. a.paths \in [1 .. MaxPaths -> [page : Nat, usage : Nat, parent : 0 .. MaxPaths]]
    BY Zenon, <1>1, StateFields
  <2> QED
    BY Zenon, <1>3, <2>1
<1>5. r = [a EXCEPT !.cur = k, !.paths = paths]
  BY <1>1 DEF ParserStates
<1> HIDE DEF paths
<1>6. k \in 0 .. MaxPaths
  BY <1>2
<1>7. r \in ParserStates
  BY <1>1, <1>4, <1>5, <1>6 DEF ParserStates
<1>8. /\ r.tables = a.tables /\ r.usages = a.usages /\ r.items = a.items /\ r.sizes = a.sizes
      /\ r.report = a.report /\ r.paths = paths /\ r.cur = k /\ r.usingIds = a.usingIds
      /\ r.filter = a.filter /\ r.result = a.result
  BY <1>1, <1>5 DEF ParserStates
<1>9. Typed(r)
  BY Zenon, <1>1, <1>7, <1>8 DEF Typed, Bounded
<1>10. Parser!Table(r) = Parser!Table(s)
  BY Zenon, <1>8 DEF Parser!Table
<1>11. SameReports(r, s)
  BY Zenon, <1>8 DEF SameReports, Steps
<1>12. r.paths = [s.paths EXCEPT ![k] = path]
  BY Zenon, <1>8 DEF paths, Steps, SamePaths
<1> QED
  BY Zenon, <1>8, <1>9, <1>10, <1>11, <1>12 DEF Opens

\* The path after the ones in use.
InTurn(s, u, free) ==
    /\ Typed(s) /\ u \in 1 .. MaxPaths /\ s.cur <= u
    /\ \A k \in 1 .. MaxPaths :
         IF k = 1 \/ k > u THEN s.paths[k].parent = 0 ELSE s.paths[k].parent \in 1 .. k - 1
    /\ free = {k \in 2 .. MaxPaths : s.paths[k].parent = 0} /\ free # {}
LEMMA FirstFree ==
    ASSUME NEW s, NEW u, NEW free, InTurn(s, u, free)
    PROVE  u + 1 \in 1 .. MaxPaths /\ (CHOOSE k \in free : \A j \in free : k <= j) = u + 1
<1>0. /\ Typed(s) /\ u \in 1 .. MaxPaths /\ s.cur <= u
      /\ \A k \in 1 .. MaxPaths :
           IF k = 1 \/ k > u THEN s.paths[k].parent = 0 ELSE s.paths[k].parent \in 1 .. k - 1
      /\ free = {k \in 2 .. MaxPaths : s.paths[k].parent = 0} /\ free # {}
  BY Zenon DEF InTurn
<1>1. MaxPaths \in Nat
  BY ParserLimits
<1>2. \A k \in free : k \in 2 .. MaxPaths /\ k > u
  <2> SUFFICES ASSUME NEW k \in free PROVE k \in 2 .. MaxPaths /\ k > u
    BY Zenon
  <2>1. k \in 2 .. MaxPaths /\ s.paths[k].parent = 0
    BY Zenon, <1>0
  <2>2. k \in 1 .. MaxPaths /\ k # 1 /\ 0 \notin 1 .. k - 1
    BY <2>1
  <2>3. k > u
    BY Zenon, <1>0, <2>1, <2>2
  <2> QED
    BY <2>1, <2>3
<1>3. PICK f \in free : TRUE
  BY Zenon, <1>0
<1>4. u + 1 \in 2 .. MaxPaths /\ u + 1 \in 1 .. MaxPaths /\ u + 1 > u
  <2>1. u \in Nat /\ u >= 1 /\ f \in 2 .. MaxPaths /\ f > u
    <3>1. u \in 1 .. MaxPaths
      BY Zenon, <1>0
    <3>2. f \in 2 .. MaxPaths /\ f > u
      BY Zenon, <1>2, <1>3
    <3> QED
      BY <1>1, <3>1, <3>2
  <2> QED
    BY <1>1, <2>1
<1>5. u + 1 \in free
  BY Zenon, <1>0, <1>4
<1> DEFINE c == CHOOSE k \in free : \A j \in free : k <= j
<1>6. \A j \in free : u + 1 <= j
  <2> SUFFICES ASSUME NEW j \in free PROVE u + 1 <= j
    BY Zenon
  <2>1. j \in 2 .. MaxPaths /\ j > u /\ u \in 1 .. MaxPaths
    BY Zenon, <1>0, <1>2
  <2> QED
    BY <1>1, <2>1
<1>7. c \in free /\ \A j \in free : c <= j
  BY Zenon, <1>5, <1>6
<1>8. c <= u + 1 /\ u + 1 <= c /\ c \in 2 .. MaxPaths
  BY Zenon, <1>2, <1>5, <1>6, <1>7
<1> HIDE DEF c
<1>10. u \in 1 .. MaxPaths
  BY Zenon, <1>0
<1>9. c = u + 1
  BY <1>10, <1>1, <1>8
<1> QED
  BY Zenon, <1>4, <1>9 DEF c

\* The nesting grows by the path that is opened.
LEMMA OpensNesting ==
    ASSUME NEW s, Typed(s), NEW o \in Seq(Uses), NestedAs(s, o), ParentsBefore(s),
           NEW k \in 1 .. MaxPaths, s.cur < k, NEW use \in Uses,
           NEW path, path = [page |-> use.page, usage |-> use.usage, parent |-> s.cur],
           NEW r, Opens(r, s, k, path), ParentsBefore(r)
    PROVE  NestedAs(r, Append(o, use))
<1> DEFINE c == s.cur
           old == Parser!Chain(s, c)
           new == Parser!Chain(r, k)
           q == Append(o, use)
           told(t, j) == [page |-> t.paths[j].page, usage |-> t.paths[j].usage]
<1>1. s \in ParserStates /\ r \in ParserStates /\ r.cur = k /\ MaxPaths \in Nat /\ c \in 0 .. MaxPaths
  BY StateFields, ParserLimits DEF Typed, Opens
<1>2. /\ r.paths[k] = path
      /\ \A j \in 1 .. MaxPaths : j # k => r.paths[j] = s.paths[j]
  <2>1. s.paths \in [1 .. MaxPaths -> [page : Nat, usage : Nat, parent : 0 .. MaxPaths]]
    BY Zenon, <1>1, StateFields
  <2> QED
    BY <2>1 DEF Opens
<1>3. r.paths[k].parent = c /\ told(r, k) = use
  <2>1. use = [page |-> use.page, usage |-> use.usage]
    BY DEF Uses
  <2>2. path.page = use.page /\ path.usage = use.usage /\ path.parent = c
    OBVIOUS
  <2> QED
    BY Zenon, <1>2, <2>1, <2>2
<1>4. Parser!Chain(r, c) = old
  <2>1. \A j \in 1 .. c : j \in 1 .. MaxPaths /\ j # k
    BY <1>1
  <2>2. \A j \in 1 .. c : r.paths[j].parent = s.paths[j].parent
    BY Zenon, <1>2, <2>1
  <2> QED
    BY Zenon, <1>1, <2>2, ChainKept
<1>5. new = <<k>> \o old
  <2>1. Parser!Chain(r, k) = <<k>> \o Parser!Chain(r, r.paths[k].parent)
    BY Zenon, <1>1, ChainIs
  <2> QED
    BY Zenon, <1>3, <1>4, <2>1
<1>6. old \in Seq(1 .. c)
  BY Zenon, <1>1, ChainWithin
<1>7. Len(old) = Len(o) /\ \A j \in DOMAIN old : o[Len(o) + 1 - j] = told(s, old[j])
  BY Zenon DEF NestedAs
<1> HIDE DEF old, new, c, q, told
<1>8. Len(new) = Len(o) + 1 /\ new[1] = k /\ Len(o) \in Nat
      /\ \A j \in 2 .. Len(o) + 1 : new[j] = old[j - 1]
  BY <1>5, <1>6, <1>7
<1>9. /\ Len(q) = Len(o) + 1 /\ q[Len(o) + 1] = use
      /\ \A j \in 1 .. Len(o) : q[j] = o[j]
  BY DEF q
<1>10. ASSUME NEW j \in DOMAIN new PROVE q[Len(q) + 1 - j] = told(r, new[j])
  <2>1. j \in 1 .. Len(o) + 1
    BY <1>5, <1>6, <1>8
  <2>2. CASE j = 1
    <3>1. Len(q) + 1 - 1 = Len(o) + 1
      BY <1>8, <1>9
    <3> QED
      BY Zenon, <1>3, <1>8, <1>9, <2>2, <3>1
  <2>3. CASE j # 1
    <3>1. j \in 2 .. Len(o) + 1 /\ j - 1 \in 1 .. Len(old) /\ Len(q) + 1 - j = Len(o) + 1 - (j - 1)
          /\ Len(o) + 1 - (j - 1) \in 1 .. Len(o)
      BY <1>7, <1>8, <1>9, <2>1, <2>3
    <3>2. j - 1 \in DOMAIN old /\ old[j - 1] \in 1 .. c
      BY Zenon, <1>6, <3>1, Elements
    <3>3. old[j - 1] \in 1 .. MaxPaths /\ old[j - 1] # k
      BY <1>1, <3>2 DEF c
    <3>4. o[Len(o) + 1 - (j - 1)] = told(s, old[j - 1])
      BY Zenon, <1>7, <3>2
    <3>5. told(r, old[j - 1]) = told(s, old[j - 1])
      BY Zenon, <1>2, <3>3 DEF told
    <3> QED
      BY Zenon, <1>8, <1>9, <3>1, <3>4, <3>5
  <2> QED
    BY Zenon, <2>2, <2>3
<1>11. Len(new) = Len(q) /\ \A j \in DOMAIN new : q[Len(q) + 1 - j] = told(r, new[j])
  BY <1>8, <1>9, <1>10
<1> QED
  BY Zenon, <1>1, <1>11 DEF NestedAs, new, q, told

\* What a step leaves and what it makes of the nesting.
Nests(r, s, o) ==
    /\ Typed(r) /\ r.result \in {"parsing"} \cup Errors
    /\ r.result = "parsing" =>
         /\ SameReports(r, s) /\ Parser!Table(r) = Parser!Table(s)
         /\ PathsWell(r) /\ NestedAs(r, o)

LEMMA CollectionStep ==
    ASSUME NEW s, Typed(s), s.result = "parsing", NEW o \in Seq(Uses), PathsWell(s), NestedAs(s, o),
           NEW use, use = [page |-> Parser!Table(s).page, usage |-> Parser!NextUsage(s)],
           NEW r, r = Parser!Collection(s)
    PROVE  Nests(r, s, Append(o, use)) /\ use \in Uses
<1> DEFINE free == {k \in 2 .. MaxPaths : s.paths[k].parent = 0}
           next == CHOOSE k \in free : \A j \in free : k <= j
           c == IF s.cur = 0 THEN 1 ELSE next
           path == [page |-> use.page, usage |-> use.usage, parent |-> s.cur]
           a == Parser!TakeUsage(s)
           q == Append(o, use)
<1>1. PICK u \in 1 .. MaxPaths :
        /\ s.cur <= u
        /\ \A k \in 1 .. MaxPaths :
             IF k = 1 \/ k > u THEN s.paths[k].parent = 0 ELSE s.paths[k].parent \in 1 .. k - 1
  BY Zenon DEF PathsWell
<1>2. s \in ParserStates /\ s.cur \in 0 .. MaxPaths /\ MaxPaths \in Nat /\ MaxPaths >= 1
  BY StateFields, ParserLimits DEF Typed
<1>3. use \in Uses /\ use.page = Parser!Table(s).page /\ use.usage = Parser!NextUsage(s)
  <2>1. Parser!Table(s) \in Rows /\ Parser!NextUsage(s) \in Nat
    BY Zenon, TableIs, NextUsageIs
  <2> QED
    BY <2>1 DEF Uses, Rows
<1>4. CASE s.cur # 0 /\ free = {}
  <2>1. r = Parser!Fail(s, "InsufficientCollectionPaths")
    BY Zenon, <1>4 DEF Parser!Collection
  <2>2. "InsufficientCollectionPaths" \in Errors /\ "InsufficientCollectionPaths" # "parsing"
    BY DEF Errors
  <2>3. Typed(r) /\ r.result \in {"parsing"} \cup Errors /\ r.result # "parsing"
    BY Zenon, <2>1, <2>2, FailSteps DEF Steps
  <2> QED
    BY Zenon, <1>3, <2>3 DEF Nests
<1>5. CASE ~(s.cur # 0 /\ free = {})
  <2>1. r = [a EXCEPT !.cur = c, !.paths[c] = path]
    <3>1. r = [a EXCEPT !.cur = c,
                        !.paths[c] = [page |-> Parser!Table(s).page,
                                      usage |-> Parser!NextUsage(s), parent |-> s.cur]]
      BY Zenon, <1>5 DEF Parser!Collection
    <3>2. path = [page |-> Parser!Table(s).page, usage |-> Parser!NextUsage(s), parent |-> s.cur]
      BY Zenon, <1>3
    <3> QED
      BY Zenon, <3>1, <3>2
  <2>2. s.cur # 0 => u + 1 \in 1 .. MaxPaths /\ c = u + 1
    <3> SUFFICES ASSUME s.cur # 0 PROVE u + 1 \in 1 .. MaxPaths /\ c = u + 1
      BY Zenon
    <3>1. free # {} /\ c = next
      BY Zenon, <1>5
    <3>2. free = {k \in 2 .. MaxPaths : s.paths[k].parent = 0}
      BY Zenon
    <3> HIDE DEF c, free
    <3>3. InTurn(s, u, free)
      BY Zenon, <1>1, <3>1, <3>2 DEF InTurn
    <3>4. u + 1 \in 1 .. MaxPaths /\ next = u + 1
      BY Zenon, <3>3, FirstFree
    <3> QED
      BY Zenon, <3>1, <3>4
  <2>3. s.cur = 0 => c = 1
    BY Zenon
  <2> HIDE DEF c
  <2>4. c \in 1 .. MaxPaths /\ s.cur < c
    BY <1>1, <1>2, <2>2, <2>3
  <2>5. Steps(a, s) /\ Parser!Table(a) = Parser!Table(s) /\ a.result = "parsing"
    BY Zenon, TakeStep
  <2> HIDE DEF a, path
  <2>6. path = [page |-> use.page, usage |-> use.usage, parent |-> s.cur]
    BY Zenon DEF path
  <2>7. Opens(r, s, c, path)
    BY <1>3, <2>1, <2>4, <2>5, <2>6, PathTaken
  <2>8. s.paths \in [1 .. MaxPaths -> [page : Nat, usage : Nat, parent : 0 .. MaxPaths]]
    BY Zenon, <1>2, StateFields
  <2>9. r.paths[c].parent = s.cur /\ r.cur = c
        /\ \A k \in 1 .. MaxPaths : k # c => r.paths[k].parent = s.paths[k].parent
    <3>1. r.paths = [s.paths EXCEPT ![c] = path] /\ r.cur = c
      BY Zenon, <2>7 DEF Opens
    <3>2. path.parent = s.cur
      BY <2>6
    <3>3. r.paths[c] = path /\ \A k \in 1 .. MaxPaths : k # c => r.paths[k] = s.paths[k]
      BY Zenon, <2>4, <2>8, <3>1
    <3> QED
      BY Zenon, <3>1, <3>2, <3>3
  <2> DEFINE v == IF s.cur = 0 THEN u ELSE u + 1
  <2>10. v \in 1 .. MaxPaths /\ r.cur <= v
    BY <1>1, <1>2, <2>2, <2>3, <2>9
  <2>11. ASSUME NEW k \in 1 .. MaxPaths
         PROVE  IF k = 1 \/ k > v THEN r.paths[k].parent = 0 ELSE r.paths[k].parent \in 1 .. k - 1
    <3>1. IF k = 1 \/ k > u THEN s.paths[k].parent = 0 ELSE s.paths[k].parent \in 1 .. k - 1
      BY Zenon, <1>1
    <3>2. CASE s.cur = 0
      <4>1. r.paths[k].parent = s.paths[k].parent
        <5>1. CASE k = c
          BY Zenon, <2>3, <2>9, <3>1, <3>2, <5>1
        <5>2. CASE k # c
          BY Zenon, <2>9, <5>2
        <5> QED
          BY <5>1, <5>2
      <4> QED
        BY Zenon, <3>1, <3>2, <4>1
    <3>3. CASE s.cur # 0 /\ k = c
      <4>1. s.cur \in 1 .. k - 1 /\ ~(k = 1 \/ k > v)
        BY <1>1, <1>2, <2>2, <3>3
      <4> QED
        BY Zenon, <2>9, <3>3, <4>1
    <3>4. CASE s.cur # 0 /\ k # c
      <4>1. (k > v) <=> (k > u)
        BY <1>1, <1>2, <2>2, <3>4
      <4> QED
        BY Zenon, <2>9, <3>1, <3>4, <4>1
    <3> QED
      BY Zenon, <3>2, <3>3, <3>4
  <2> HIDE DEF v
  <2>12. PathsWell(r)
    BY Zenon, <2>10, <2>11 DEF PathsWell
  <2>13. ParentsBefore(r) /\ ParentsBefore(s)
    BY Zenon, <2>12, WellIsBefore
  <2>14. NestedAs(r, q)
    BY Zenon, <1>3, <2>4, <2>6, <2>7, <2>13, OpensNesting
  <2> QED
    BY Zenon, <1>3, <2>7, <2>12, <2>14 DEF Nests, Opens
<1> QED
  BY Zenon, <1>4, <1>5

LEMMA EndStep ==
    ASSUME NEW s, Typed(s), s.result = "parsing", NEW o \in Seq(Uses), PathsWell(s), NestedAs(s, o),
           NEW r, r = Parser!EndCollection(s)
    PROVE  /\ Nests(r, s, IF o # <<>> THEN SubSeq(o, 1, Len(o) - 1) ELSE o)
<1> DEFINE c == s.cur
           d == s.paths[c].parent
           old == Parser!Chain(s, c)
           new == Parser!Chain(r, d)
           q == SubSeq(o, 1, Len(o) - 1)
           told(t, j) == [page |-> t.paths[j].page, usage |-> t.paths[j].usage]
<1>1. s \in ParserStates /\ c \in 0 .. MaxPaths /\ MaxPaths \in Nat
  BY StateFields, ParserLimits DEF Typed
<1>2. CASE c = 0
  <2>1. r = Parser!Fail(s, "UnexpectedEndCollection")
    BY Zenon, <1>2 DEF Parser!EndCollection
  <2>2. "UnexpectedEndCollection" \in Errors /\ "UnexpectedEndCollection" # "parsing"
    BY DEF Errors
  <2>3. Typed(r) /\ r.result \in {"parsing"} \cup Errors /\ r.result # "parsing"
    BY Zenon, <2>1, <2>2, FailSteps DEF Steps
  <2> QED
    BY Zenon, <2>3 DEF Nests
<1>3. CASE c # 0
  <2>1. r = [s EXCEPT !.cur = d]
    <3>1. r = [s EXCEPT !.cur = s.paths[@].parent]
      BY Zenon, <1>3 DEF Parser!EndCollection
    <3> QED
      BY Zenon, <1>1, <3>1
  <2>2. ParentsBefore(s) /\ c \in 1 .. MaxPaths
    BY <1>1, <1>3, WellIsBefore
  <2>3. d \in 0 .. c - 1 /\ d \in 0 .. MaxPaths
    <3>1. d \in 0 .. c - 1
      BY Zenon, <2>2 DEF ParentsBefore
    <3> QED
      BY <1>1, <3>1
  <2> HIDE DEF d
  <2>4. r \in ParserStates
    BY <1>1, <2>1, <2>3 DEF ParserStates
  <2>5. /\ r.tables = s.tables /\ r.usages = s.usages /\ r.items = s.items /\ r.sizes = s.sizes
        /\ r.report = s.report /\ r.paths = s.paths /\ r.cur = d /\ r.usingIds = s.usingIds
        /\ r.filter = s.filter /\ r.result = s.result
    BY <1>1, <2>1 DEF ParserStates
  <2>6. Typed(r) /\ SameReports(r, s) /\ Parser!Table(r) = Parser!Table(s)
    BY Zenon, <2>4, <2>5 DEF Typed, Bounded, SameReports, Parser!Table
  <2>7. PathsWell(r)
    <3>1. PICK u \in 1 .. MaxPaths :
            /\ c <= u
            /\ \A k \in 1 .. MaxPaths :
                 IF k = 1 \/ k > u THEN s.paths[k].parent = 0 ELSE s.paths[k].parent \in 1 .. k - 1
      BY Zenon DEF PathsWell
    <3>2. d <= u
      BY <1>1, <2>3, <3>1
    <3> QED
      BY Zenon, <2>5, <3>1, <3>2 DEF PathsWell
  <2>8. ParentsBefore(r)
    BY Zenon, <2>7, WellIsBefore
  <2>9. new = Parser!Chain(s, d)
    <3>1. \A k \in 1 .. d : r.paths[k].parent = s.paths[k].parent
      BY Zenon, <2>5
    <3> QED
      BY Zenon, <1>1, <2>2, <2>3, <2>4, <2>8, <3>1, ChainKept
  <2>10. old = <<c>> \o new
    BY Zenon, <1>1, <2>2, <2>9, ChainIs DEF d
  <2>11. new \in Seq(1 .. d)
    BY Zenon, <1>1, <2>2, <2>3, <2>9, ChainWithin
  <2>12. Len(old) = Len(o) /\ \A j \in DOMAIN old : o[Len(o) + 1 - j] = told(s, old[j])
    BY Zenon DEF NestedAs
  <2>13. \A j \in 1 .. MaxPaths : told(r, j) = told(s, j)
    BY Zenon, <2>5
  <2> HIDE DEF old, new, told
  <2>14. Len(old) = Len(new) + 1 /\ Len(new) \in Nat
         /\ \A j \in 1 .. Len(new) : old[j + 1] = new[j] /\ j + 1 \in DOMAIN old
    BY <2>10, <2>11
  <2>15. o # <<>>
    <3> DEFINE m == Len(new)
               n == Len(o)
    <3>1. n = m + 1 /\ m \in Nat
      BY Zenon, <2>12, <2>14
    <3>2. n # 0
      <4> HIDE DEF m, n
      <4> QED
        BY <3>1
    <3>3. Len(<<>>) = 0
      OBVIOUS
    <3> QED
      BY Zenon, <3>2, <3>3
  <2>16. Len(q) = Len(new) /\ \A j \in 1 .. Len(q) : q[j] = o[j]
    BY <2>12, <2>14
  <2> HIDE DEF q
  <2>17. ASSUME NEW j \in DOMAIN new PROVE q[Len(q) + 1 - j] = told(r, new[j])
    <3>1. j \in 1 .. Len(new)
      BY <2>11
    <3>2. Len(q) + 1 - j \in 1 .. Len(q) /\ Len(q) + 1 - j = Len(o) + 1 - (j + 1)
      BY <2>12, <2>14, <2>16, <3>1
    <3>3. q[Len(q) + 1 - j] = told(s, new[j])
      BY Zenon, <2>12, <2>14, <2>16, <3>1, <3>2
    <3>4. new[j] \in 1 .. d
      BY Zenon, <2>11, <3>1, Elements
    <3>5. new[j] \in 1 .. MaxPaths
      BY <1>1, <2>3, <3>4
    <3> QED
      BY Zenon, <2>13, <3>3, <3>5
  <2>18. NestedAs(r, q)
    BY Zenon, <2>5, <2>16, <2>17 DEF NestedAs, new, told
  <2>19. r.result = "parsing"
    BY Zenon, <2>5
  <2> QED
    BY Zenon, <2>6, <2>7, <2>15, <2>18, <2>19 DEF Nests, q
<1> QED
  BY Zenon, <1>2, <1>3

-------------------------------------------------------------------------------
(* The bits of a report. *)

LEMMA AddsIs ==
    ASSUME NEW fs \in Seq(Declarations), NEW k \in 1 .. Len(fs), NEW id, NEW type
    PROVE  Adds(fs[k], id, type) \in Nat
<1>1. fs[k] \in Declarations
  BY Zenon, Elements
<1>2. fs[k].size \in Nat /\ 0 \in Nat
  BY <1>1 DEF Declarations
<1> QED
  BY Zenon, <1>2 DEF Adds

LEMMA SumsAre ==
    ASSUME NEW fs \in Seq(Declarations), NEW id, NEW type
    PROVE  /\ Sums(fs, id, type) \in [0 .. Len(fs) -> Nat] /\ Sums(fs, id, type)[0] = 0
           /\ \A k \in 1 .. Len(fs) :
                Sums(fs, id, type)[k] = Sums(fs, id, type)[k - 1] + Adds(fs[k], id, type)
<1> DEFINE n == Len(fs)
           add(k) == Adds(fs[k], id, type)
           down == [k \in 1 .. n |-> k - 1]
           step == [q \in (1 .. n) \X Nat |-> q[2] + add(q[1])]
           it == Sums(fs, id, type)
<1>1. it = CHOOSE f : f = [k \in 0 .. n |-> IF k = 0 THEN 0 ELSE f[k - 1] + add(k)]
  BY Zenon DEF Sums
<1>2. n \in Nat
  OBVIOUS
<1>3. \A k \in 1 .. n : add(k) \in Nat
  BY Zenon, AddsIs
<1> HIDE DEF n, add, it
<1>4. down \in [1 .. n -> Nat] /\ \A k \in 1 .. n : down[k] = k - 1 /\ down[k] < k
  BY <1>2
<1>5. step \in [(1 .. n) \X Nat -> Nat] /\ \A k \in 1 .. n, r \in Nat : step[<<k, r>>] = r + add(k)
  BY <1>3
<1> HIDE DEF down, step
<1>6. PICK f : Recurs(n, Nat, 0, down, step, f)
  <2>1. \A k \in 1 .. n : down[k] < k
    BY Zenon, <1>4
  <2>2. down \in [1 .. n -> Nat] /\ step \in [(1 .. n) \X Nat -> Nat]
    BY Zenon, <1>4, <1>5
  <2>3. \E f : Recurs(n, Nat, 0, down, step, f)
    BY <1>2, <2>1, <2>2, RecursionExists
  <2> QED
    BY <2>3
<1>7. f \in [0 .. n -> Nat] /\ f[0] = 0 /\ \A k \in 1 .. n : f[k] = f[k - 1] + add(k)
  <2>1. f \in [0 .. n -> Nat] /\ f[0] = 0 /\ \A k \in 1 .. n : f[k] = step[<<k, f[down[k]]>>]
    BY Zenon, <1>6 DEF Recurs
  <2>2. ASSUME NEW k \in 1 .. n PROVE f[k] = f[k - 1] + add(k)
    <3>1. k - 1 \in 0 .. n
      BY <1>2
    <3>2. f[k - 1] \in Nat
      BY <2>1, <3>1
    <3> QED
      BY <1>4, <1>5, <2>1, <3>2
  <2> QED
    BY <2>1, <2>2
<1>8. f = [k \in 0 .. n |-> IF k = 0 THEN 0 ELSE f[k - 1] + add(k)]
  <2>1. \A k \in 0 .. n : k # 0 => k \in 1 .. n
    BY <1>2
  <2>2. \A k \in 0 .. n : f[k] = IF k = 0 THEN 0 ELSE f[k - 1] + add(k)
    BY Zenon, <1>7, <2>1
  <2>3. f = [k \in 0 .. n |-> f[k]]
    BY <1>7
  <2> QED
    BY Zenon, <2>2, <2>3
<1>9. it = [k \in 0 .. n |-> IF k = 0 THEN 0 ELSE it[k - 1] + add(k)]
  BY Zenon, <1>1, <1>8
<1>10. it[0] = 0 /\ \A k \in 1 .. n : it[k] = it[k - 1] + add(k)
  <2>1. 0 \in 0 .. n /\ \A k \in 1 .. n : k \in 0 .. n /\ k # 0
    BY <1>2
  <2>2. \A k \in 0 .. n : it[k] = IF k = 0 THEN 0 ELSE it[k - 1] + add(k)
    BY Zenon, <1>9
  <2> QED
    BY Zenon, <2>1, <2>2
<1>11. \A k \in 0 .. n : it[k] \in Nat
  <2> DEFINE S == {k \in 0 .. n : it[k] \in Nat}
  <2>1. 0 \in S
    BY <1>2, <1>10
  <2>2. \A k \in 0 .. n - 1 : k \in S => k + 1 \in S
    <3> SUFFICES ASSUME NEW k \in 0 .. n - 1, it[k] \in Nat PROVE k + 1 \in 0 .. n /\ it[k + 1] \in Nat
      OBVIOUS
    <3>1. k + 1 \in 1 .. n /\ k + 1 \in 0 .. n /\ (k + 1) - 1 = k
      BY <1>2
    <3>2. it[k + 1] = it[k] + add(k + 1) /\ add(k + 1) \in Nat
      BY Zenon, <1>3, <1>10, <3>1
    <3> QED
      BY <3>1, <3>2
  <2> HIDE DEF S
  <2>3. \A k \in 0 .. n : k \in S
    BY <1>2, <2>1, <2>2, UpTo
  <2> QED
    BY Zenon, <2>3 DEF S
<1>12. it \in [0 .. n -> Nat]
  BY <1>9, <1>11
<1> QED
  BY Zenon, <1>10, <1>12 DEF n, add, it

\* Fields that are the same add up to the same.
LEMMA SumsSame ==
    ASSUME NEW fs \in Seq(Declarations), NEW gs \in Seq(Declarations), NEW id, NEW type,
           NEW m \in Nat, m <= Len(fs), m <= Len(gs),
           \A k \in 1 .. m : Adds(fs[k], id, type) = Adds(gs[k], id, type)
    PROVE  \A k \in 0 .. m : Sums(fs, id, type)[k] = Sums(gs, id, type)[k]
<1> DEFINE f == Sums(fs, id, type)
           g == Sums(gs, id, type)
           S == {k \in 0 .. m : f[k] = g[k]}
<1>a. /\ Sums(fs, id, type)[0] = 0
      /\ \A k \in 1 .. Len(fs) :
           Sums(fs, id, type)[k] = Sums(fs, id, type)[k - 1] + Adds(fs[k], id, type)
  BY SumsAre
<1>b. /\ Sums(gs, id, type)[0] = 0
      /\ \A k \in 1 .. Len(gs) :
           Sums(gs, id, type)[k] = Sums(gs, id, type)[k - 1] + Adds(gs[k], id, type)
  BY SumsAre
<1>1. f[0] = 0 /\ g[0] = 0
  BY Zenon, <1>a, <1>b
<1>2. \A k \in 1 .. m : k \in 1 .. Len(fs) /\ k \in 1 .. Len(gs)
  OBVIOUS
<1>3. \A k \in 1 .. m : f[k] = f[k - 1] + Adds(fs[k], id, type) /\ g[k] = g[k - 1] + Adds(gs[k], id, type)
  <2>1. \A k \in 1 .. Len(fs) : f[k] = f[k - 1] + Adds(fs[k], id, type)
    BY Zenon, <1>a
  <2>2. \A k \in 1 .. Len(gs) : g[k] = g[k - 1] + Adds(gs[k], id, type)
    BY Zenon, <1>b
  <2> HIDE DEF f, g
  <2> QED
    BY Zenon, <1>2, <2>1, <2>2
<1> HIDE DEF f, g
<1>4. 0 \in S
  BY <1>1
<1>5. \A k \in 0 .. m - 1 : k \in S => k + 1 \in S
  <2> SUFFICES ASSUME NEW k \in 0 .. m - 1, f[k] = g[k] PROVE k + 1 \in 0 .. m /\ f[k + 1] = g[k + 1]
    BY Zenon
  <2>1. k + 1 \in 1 .. m /\ k + 1 \in 0 .. m /\ (k + 1) - 1 = k
    OBVIOUS
  <2> QED
    BY Zenon, <1>3, <2>1
<1> HIDE DEF S
<1>6. \A k \in 0 .. m : k \in S
  BY <1>4, <1>5, UpTo
<1> QED
  BY Zenon, <1>6 DEF S, f, g

LEMMA SumsAppend ==
    ASSUME NEW fs \in Seq(Declarations), NEW d \in Declarations, NEW id, NEW type
    PROVE  /\ \A k \in 0 .. Len(fs) : Sums(Append(fs, d), id, type)[k] = Sums(fs, id, type)[k]
           /\ Sums(Append(fs, d), id, type)[Len(fs) + 1] =
                Sums(fs, id, type)[Len(fs)] + Adds(d, id, type)
<1> DEFINE gs == Append(fs, d)
           n == Len(fs)
<1>1. gs \in Seq(Declarations) /\ Len(gs) = n + 1 /\ n \in Nat /\ gs[n + 1] = d
      /\ \A k \in 1 .. n : gs[k] = fs[k]
  OBVIOUS
<1> HIDE DEF gs
<1>2. n <= Len(fs) /\ n <= Len(gs) /\ n + 1 \in 1 .. Len(gs) /\ (n + 1) - 1 = n /\ n \in 0 .. n
  BY <1>1
<1>3. \A k \in 0 .. n : Sums(fs, id, type)[k] = Sums(gs, id, type)[k]
  <2>1. \A k \in 1 .. n : Adds(fs[k], id, type) = Adds(gs[k], id, type)
    BY Zenon, <1>1
  <2> HIDE DEF n
  <2> QED
    BY <1>1, <1>2, <2>1, SumsSame
<1>4. Sums(gs, id, type)[n + 1] = Sums(gs, id, type)[n] + Adds(d, id, type)
  <2> DEFINE g == Sums(gs, id, type)
  <2>1. \A k \in 1 .. Len(gs) : g[k] = g[k - 1] + Adds(gs[k], id, type)
    <3>1. gs \in Seq(Declarations)
      BY Zenon, <1>1
    <3> QED
      BY Zenon, <3>1, SumsAre
  <2> HIDE DEF g
  <2>2. g[n + 1] = g[n] + Adds(d, id, type)
    BY Zenon, <1>1, <1>2, <2>1
  <2> QED
    BY Zenon, <2>2 DEF g
<1> QED
  BY Zenon, <1>2, <1>3, <1>4 DEF gs, n

LEMMA SumsNone ==
    ASSUME NEW fs \in Seq(Declarations), NEW id, NEW type,
           \A k \in 1 .. Len(fs) : fs[k].id # id
    PROVE  Sums(fs, id, type)[Len(fs)] = 0
<1> DEFINE f == Sums(fs, id, type)
           n == Len(fs)
           S == {k \in 0 .. n : f[k] = 0}
<1>0. /\ Sums(fs, id, type)[0] = 0
      /\ \A k \in 1 .. Len(fs) :
           Sums(fs, id, type)[k] = Sums(fs, id, type)[k - 1] + Adds(fs[k], id, type)
  BY SumsAre
<1>1. f[0] = 0 /\ \A k \in 1 .. n : f[k] = f[k - 1] + Adds(fs[k], id, type)
  BY Zenon, <1>0
<1>2. \A k \in 1 .. n : Adds(fs[k], id, type) = 0
  BY Zenon DEF Adds
<1>3. n \in Nat
  OBVIOUS
<1> HIDE DEF f, n
<1>4. 0 \in S
  BY <1>1, <1>3
<1>5. \A k \in 0 .. n - 1 : k \in S => k + 1 \in S
  <2> SUFFICES ASSUME NEW k \in 0 .. n - 1, f[k] = 0 PROVE k + 1 \in 0 .. n /\ f[k + 1] = 0
    BY Zenon
  <2>1. k + 1 \in 1 .. n /\ k + 1 \in 0 .. n /\ (k + 1) - 1 = k /\ 0 + 0 = 0
    BY <1>3
  <2> QED
    BY Zenon, <1>1, <1>2, <2>1
<1> HIDE DEF S
<1>6. \A k \in 0 .. n : k \in S
  BY <1>3, <1>4, <1>5, UpTo
<1>7. n \in 0 .. n
  BY <1>3
<1> QED
  BY Zenon, <1>6, <1>7 DEF S, f, n

Counts(sum, f, id, type) == IF f.id = id /\ f.type = type THEN sum + f.size ELSE sum

LEMMA CountsAre ==
    ASSUME NEW fs \in Seq(Declarations), NEW k \in 1 .. Len(fs), NEW id, NEW type, NEW sum \in Nat
    PROVE  Counts(sum, fs[k], id, type) = sum + Adds(fs[k], id, type)
           /\ Counts(sum, fs[k], id, type) \in Nat
<1>1. fs[k] \in Declarations
  BY Zenon, Elements
<1> DEFINE f == fs[k]
<1> HIDE DEF f
<1>2. f.size \in Nat
  BY <1>1 DEF f, Declarations
<1>3. Counts(sum, f, id, type) = sum + Adds(f, id, type) /\ Counts(sum, f, id, type) \in Nat
  BY <1>2 DEF Counts, Adds
<1> QED
  BY Zenon, <1>3 DEF f

FoldedBits(seq, id, type) ==
    CHOOSE iter : iter =
      [S \in SUBSET DOMAIN seq |->
         IF S = {} THEN 0 ELSE Counts(iter[S \ {GreatestIn(S)}], seq[GreatestIn(S)], id, type)]

LEMMA FoldedBitsAre ==
    ASSUME NEW seq \in Seq(Declarations), NEW id, NEW type
    PROVE  FoldedBits(seq, id, type)[DOMAIN seq] = Sums(seq, id, type)[Len(seq)]
<1> DEFINE n == Len(seq)
           it == FoldedBits(seq, id, type)
           step == [q \in (1 .. n) \X Nat |-> Counts(q[2], seq[q[1]], id, type)]
           sums == Sums(seq, id, type)
<1>1. n \in Nat /\ DOMAIN seq = 1 .. n
  OBVIOUS
<1>2. \A j \in 1 .. n, b \in Nat :
        /\ Counts(b, seq[j], id, type) = b + Adds(seq[j], id, type)
        /\ Counts(b, seq[j], id, type) \in Nat
  BY Zenon, CountsAre
<1>3. /\ Sums(seq, id, type) \in [0 .. Len(seq) -> Nat] /\ Sums(seq, id, type)[0] = 0
      /\ \A k \in 1 .. Len(seq) :
           Sums(seq, id, type)[k] = Sums(seq, id, type)[k - 1] + Adds(seq[k], id, type)
  BY SumsAre
<1>5. sums[0] = 0 /\ (\A j \in 1 .. n : sums[j] = sums[j - 1] + Adds(seq[j], id, type))
      /\ sums \in [0 .. n -> Nat]
  BY Zenon, <1>3
<1> HIDE DEF n, sums
<1>4. step \in [(1 .. n) \X Nat -> Nat]
      /\ \A j \in 1 .. n, b \in Nat : step[<<j, b>>] = Counts(b, seq[j], id, type)
  <2>1. \A j \in 1 .. n, b \in Nat : Counts(b, seq[j], id, type) \in Nat
    BY Zenon, <1>1, <1>2
  <2> QED
    BY <2>1
<1> HIDE DEF step
<1>6. PICK h : Folds(n, Nat, 0, step, h)
  <2>1. 0 \in Nat
    OBVIOUS
  <2> QED
    BY <1>1, <1>2, <1>4, <2>1, FoldExists
<1>7. h = [S \in SUBSET DOMAIN seq |->
             IF S = {} THEN 0 ELSE Counts(h[S \ {GreatestIn(S)}], seq[GreatestIn(S)], id, type)]
  <2>1. ASSUME NEW S \in SUBSET (1 .. n)
        PROVE  h[S] = IF S = {} THEN 0 ELSE Counts(h[S \ {GreatestIn(S)}], seq[GreatestIn(S)], id, type)
    <3>1. CASE S = {}
      BY <1>6, <3>1 DEF Folds
    <3>2. CASE S # {}
      <4>1. GreatestIn(S) \in 1 .. n
        BY <1>1, <1>2, <3>2, GreatestOf
      <4>2. h[S \ {GreatestIn(S)}] \in Nat
        BY <1>6 DEF Folds
      <4>3. h[S] = step[<<GreatestIn(S), h[S \ {GreatestIn(S)}]>>]
        BY <1>6, <3>2 DEF Folds
      <4> QED
        BY <1>4, <3>2, <4>1, <4>2, <4>3
    <3> QED
      BY <3>1, <3>2
  <2> QED
    BY <1>1, <1>2, <1>6, <2>1 DEF Folds
<1>8. it = [S \in SUBSET DOMAIN seq |->
             IF S = {} THEN 0 ELSE Counts(it[S \ {GreatestIn(S)}], seq[GreatestIn(S)], id, type)]
  BY Zenon, <1>7 DEF FoldedBits
<1> HIDE DEF it
<1> DEFINE G == {j \in 0 .. n : it[1 .. j] = sums[j]}
<1>9. 0 \in G
  <2>1. 1 .. 0 = {} /\ 0 \in 0 .. n /\ {} \in SUBSET (1 .. n)
    BY <1>1, <1>2
  <2>2. it[{}] = 0
    BY <1>1, <1>2, <1>8, <2>1
  <2> QED
    BY Zenon, <1>5, <2>1, <2>2
<1>10. \A j \in 0 .. n - 1 : j \in G => j + 1 \in G
  <2> SUFFICES ASSUME NEW j \in 0 .. n - 1, it[1 .. j] = sums[j]
               PROVE  j + 1 \in 0 .. n /\ it[1 .. j + 1] = sums[j + 1]
    BY Zenon
  <2>1. j + 1 \in 1 .. n /\ j + 1 \in 0 .. n /\ j \in Nat /\ (j + 1) - 1 = j /\ j \in 0 .. n
    BY <1>1, <1>2
  <2>2. 1 .. j + 1 \in SUBSET (1 .. n) /\ 1 .. j + 1 # {} /\ GreatestIn(1 .. j + 1) = j + 1
        /\ (1 .. j + 1) \ {j + 1} = 1 .. (j + 1) - 1
    BY <1>1, <1>2, <2>1, FirstPlaces
  <2>3. it[1 .. j + 1] = Counts(it[1 .. j], seq[j + 1], id, type)
    <3>1. 1 .. j + 1 \in SUBSET DOMAIN seq
      BY Zenon, <1>1, <1>2, <2>2
    <3>2. it[1 .. j + 1] =
            IF 1 .. j + 1 = {} THEN 0
            ELSE Counts(it[(1 .. j + 1) \ {GreatestIn(1 .. j + 1)}], seq[GreatestIn(1 .. j + 1)], id, type)
      BY Zenon, <1>8, <3>1
    <3> QED
      BY Zenon, <2>1, <2>2, <3>2
  <2>4. sums[j] \in Nat
    BY <1>5, <2>1
  <2>5. Counts(sums[j], seq[j + 1], id, type) = sums[j] + Adds(seq[j + 1], id, type)
    BY Zenon, <1>1, <1>2, <2>1, <2>4
  <2> QED
    BY Zenon, <1>5, <2>1, <2>3, <2>5
<1> HIDE DEF G
<1>11. n \in G
  <2>1. \A j \in 0 .. n : j \in G
    BY <1>1, <1>2, <1>9, <1>10, UpTo
  <2> QED
    BY <1>1, <1>2, <2>1
<1>12. it[1 .. n] = sums[n]
  BY Zenon, <1>11 DEF G
<1> QED
  BY Zenon, <1>1, <1>12 DEF n, it, sums

\* The bits that the descriptor declares before a field.
LEMMA BitsAre ==
    ASSUME fields \in Seq(Declarations), NEW k \in 1 .. Len(fields)
    PROVE  Parser!BitsBefore(k) = Sums(fields, fields[k].id, fields[k].type)[k - 1]
<1> DEFINE seq == SubSeq(fields, 1, k - 1)
           n == k - 1
           id == fields[k].id
           type == fields[k].type
<1>1. Parser!BitsBefore(k) = FoldedBits(seq, id, type)[DOMAIN seq]
  BY DEF Parser!BitsBefore, Parser!FoldLeft, Parser!MapThenFoldSet, Parser!Max, GreatestIn, Counts, FoldedBits
<1>2. seq \in Seq(Declarations) /\ n \in Nat /\ Len(seq) = n /\ \A j \in 1 .. n : seq[j] = fields[j]
  OBVIOUS
<1>3. n <= Len(seq) /\ n <= Len(fields) /\ n \in 0 .. n
  BY <1>2
<1> HIDE DEF seq, n, id, type
<1>4. FoldedBits(seq, id, type)[DOMAIN seq] = Sums(seq, id, type)[Len(seq)]
  BY <1>2, FoldedBitsAre
<1>5. Sums(seq, id, type)[n] = Sums(fields, id, type)[n]
  <2>1. \A j \in 1 .. n : Adds(seq[j], id, type) = Adds(fields[j], id, type)
    BY Zenon, <1>2
  <2>2. \A j \in 0 .. n : Sums(seq, id, type)[j] = Sums(fields, id, type)[j]
    BY <1>2, <1>3, <2>1, SumsSame
  <2> QED
    BY Zenon, <1>3, <2>2
<1> QED
  BY Zenon, <1>1, <1>2, <1>4, <1>5 DEF n, id, type

-------------------------------------------------------------------------------
(* The report that a field belongs to. *)

\* Other reports.
Reported(r, s, z, k, using) ==
    /\ Typed(r) /\ SamePaths(r, s) /\ r.items = s.items /\ r.filter = s.filter
    /\ r.sizes = z /\ r.report = k /\ r.usingIds = using /\ r.result = "parsing"
    /\ Parser!Table(r) = Parser!Table(s)
WithReports(r, s, z, k, using) == r = [s EXCEPT !.sizes = z, !.report = k, !.usingIds = using]

LEMMA ReportsStep ==
    ASSUME NEW s, Typed(s), s.result = "parsing", NEW z \in Seq(Reports), Len(z) \in 1 .. MaxReportIds,
           NEW k \in 1 .. Len(z), NEW using \in BOOLEAN, NEW r, WithReports(r, s, z, k, using)
    PROVE  Reported(r, s, z, k, using)
<1>1. s \in ParserStates /\ k \in Nat
  BY DEF Typed
<1>2. r \in ParserStates
  BY <1>1 DEF ParserStates, WithReports
<1>3. /\ r.tables = s.tables /\ r.usages = s.usages /\ r.items = s.items /\ r.sizes = z
      /\ r.report = k /\ r.paths = s.paths /\ r.cur = s.cur /\ r.usingIds = using
      /\ r.filter = s.filter /\ r.result = "parsing"
  BY <1>1 DEF ParserStates, WithReports
<1>4. Typed(r)
  BY Zenon, <1>2, <1>3 DEF Typed, Bounded
<1> QED
  BY Zenon, <1>3, <1>4 DEF Reported, SamePaths, Parser!Table

LEMMA ReportsWith ==
    ASSUME NEW s \in ParserStates, NEW z, NEW k, NEW using, NEW id
    PROVE  /\ WithReports([s EXCEPT !.usingIds = using, !.sizes[k].id = id], s,
                          [s.sizes EXCEPT ![k].id = id], s.report, using)
           /\ WithReports([s EXCEPT !.report = k], s, s.sizes, k, s.usingIds)
           /\ WithReports([s EXCEPT !.sizes = z, !.report = k], s, z, k, s.usingIds)
<1>1. WithReports([s EXCEPT !.usingIds = using, !.sizes[k].id = id], s,
                  [s.sizes EXCEPT ![k].id = id], s.report, using)
  BY DEF ParserStates, WithReports
<1>2. WithReports([s EXCEPT !.report = k], s, s.sizes, k, s.usingIds)
  BY DEF ParserStates, WithReports
<1>3. WithReports([s EXCEPT !.sizes = z, !.report = k], s, z, k, s.usingIds)
  BY DEF ParserStates, WithReports
<1> QED
  BY <1>1, <1>2, <1>3

LEMMA ReportFields ==
    ASSUME NEW s, Typed(s)
    PROVE  /\ s.sizes \in Seq(Reports) /\ Len(s.sizes) \in 1 .. MaxReportIds
           /\ s.report \in 1 .. Len(s.sizes) /\ DOMAIN s.sizes = 1 .. Len(s.sizes)
           /\ \A k \in 1 .. Len(s.sizes) :
                s.sizes[k] \in Reports /\ s.sizes[k].id \in Nat /\ s.sizes[k].bits \in [Parser!Types -> Nat]
<1>1. s.sizes \in Seq(Reports) /\ Len(s.sizes) \in 1 .. MaxReportIds /\ s.report \in 1 .. Len(s.sizes)
  BY Zenon, StateFields DEF Typed, Bounded
<1>2. \A k \in 1 .. Len(s.sizes) : s.sizes[k] \in Reports
  BY Zenon, <1>1, Elements
<1>3. \A q \in Reports : q.id \in Nat /\ q.bits \in [Parser!Types -> Nat]
  BY DEF Reports
<1>4. DOMAIN s.sizes = 1 .. Len(s.sizes)
  BY <1>1
<1> QED
  BY Zenon, <1>1, <1>2, <1>3, <1>4

\* The first id takes the place of the report without one.
GivesFirst(r, t, id) == r = [t EXCEPT !.usingIds = TRUE, !.sizes[t.report].id = id]
\* t is s with the id in its table.
Restart(s, id, o, fs, restored, t) ==
    /\ Typed(s) /\ s.result = "parsing" /\ id \in Nat /\ fs \in Seq(Declarations)
    /\ restored \in BOOLEAN /\ Right(s, o, fs, restored)
    /\ Steps(t, s) /\ t.result = "parsing" /\ Parser!Table(t).id = id

LEMMA FirstId ==
    ASSUME NEW s, NEW id, NEW o, NEW fs, NEW restored, NEW t, NEW r,
           Restart(s, id, o, fs, restored, t), GivesFirst(r, t, id), ~s.usingIds, fs = <<>>
    PROVE  Typed(r) /\ r.result = "parsing" /\ r.usingIds = TRUE /\ Right(r, o, fs, restored)
<1> DEFINE k == t.report
           z == [t.sizes EXCEPT ![k].id = id]
<1>0. /\ Typed(s) /\ s.result = "parsing" /\ id \in Nat /\ restored \in BOOLEAN
      /\ Right(s, o, fs, restored) /\ Steps(t, s) /\ t.result = "parsing" /\ Parser!Table(t).id = id
  BY Zenon DEF Restart
<1>1. t \in ParserStates /\ Typed(t) /\ t.sizes = s.sizes /\ k = s.report
  BY Zenon, <1>0 DEF Steps, Typed, SameReports
<1>2. WithReports(r, t, z, k, TRUE)
  BY Zenon, <1>0, <1>1, ReportsWith DEF GivesFirst
<1>3. s.sizes \in Seq(Reports) /\ Len(s.sizes) \in 1 .. MaxReportIds /\ s.report \in 1 .. Len(s.sizes)
      /\ s.sizes[1] \in Reports
  <2>1. s.sizes \in Seq(Reports) /\ Len(s.sizes) \in 1 .. MaxReportIds /\ s.report \in 1 .. Len(s.sizes)
        /\ \A j \in 1 .. Len(s.sizes) : s.sizes[j] \in Reports
    BY Zenon, <1>0, ReportFields
  <2>2. 1 \in 1 .. Len(s.sizes)
    BY <1>0, <2>1
  <2> QED
    BY Zenon, <1>0, <2>1, <2>2
<1>4. Len(s.sizes) = 1 /\ s.sizes[1].id = 0 /\ k = 1
  <2>1. Len(s.sizes) = 1 /\ s.sizes[1].id = 0
    BY Zenon, <1>0 DEF Right, ReportsWell
  <2> QED
    BY <1>0, <1>1, <1>3, <2>1
<1>5. z \in Seq(Reports) /\ Len(z) = 1 /\ z[1].id = id /\ z[1].bits = s.sizes[1].bits
  <2> DEFINE w == t.sizes
  <2>1. w \in Seq(Reports) /\ Len(w) = 1 /\ w[1] \in Reports
    BY Zenon, <1>0, <1>1, <1>3, <1>4
  <2> HIDE DEF w
  <2>2. [w[1] EXCEPT !.id = id] \in Reports /\ [w[1] EXCEPT !.id = id].id = id
        /\ [w[1] EXCEPT !.id = id].bits = w[1].bits
    BY <1>0, <2>1 DEF Reports
  <2> DEFINE x == [w[1] EXCEPT !.id = id]
  <2>3. z = [w EXCEPT ![1] = x]
    BY Zenon, <1>0, <1>4 DEF w
  <2> HIDE DEF x, z
  <2>4. z \in Seq(Reports) /\ Len(z) = 1 /\ z[1] = x
    <3>2. x \in Reports
      BY Zenon, <1>0, <2>2 DEF x
    <3>3. Replaces(z, w, 1, x)
      BY Zenon, <1>0, <2>3 DEF Replaces
    <3>4. z \in Seq(Reports) /\ Len(z) = 1 /\ z[1] = x
      BY SMT, <2>1, <3>2, <3>3, OnlyOne
    <3> QED
      BY Zenon, <1>0, <3>4
  <2> QED
    BY Zenon, <1>0, <1>1, <2>2, <2>4 DEF x, w
<1> HIDE DEF z, k
<1>6. Reported(r, t, z, k, TRUE)
  <2>1. Len(z) \in 1 .. MaxReportIds /\ k \in 1 .. Len(z) /\ TRUE \in BOOLEAN
    BY <1>0, <1>3, <1>4, <1>5
  <2> QED
    BY <1>0, <1>1, <1>2, <1>5, <2>1, ReportsStep
<1>7. /\ Typed(r) /\ SamePaths(r, s) /\ r.items = s.items /\ r.filter = s.filter
      /\ r.sizes = z /\ r.report = k /\ r.usingIds = TRUE /\ r.result = "parsing"
      /\ Parser!Table(r).id = id
  BY Zenon, <1>0, <1>6 DEF Reported, Steps, SamePaths, SameReports
<1>8. PathsWell(r) /\ NestedAs(r, o)
  BY Zenon, <1>0, <1>7, SameNesting DEF Right, Typed
<1>9. ReportsWell(r)
  <2>1. \A i, j \in 1 .. Len(r.sizes) : i = j
    <3>1. Len(r.sizes) = 1
      BY Zenon, <1>0, <1>5, <1>7
    <3>2. \A i, j \in 1 .. 1 : i = j
      OBVIOUS
    <3> QED
      BY Zenon, <1>0, <3>1, <3>2
  <2> QED
    BY Zenon, <1>0, <1>7, <2>1 DEF ReportsWell
<1>10. FilterWell(r, fs)
  BY Zenon, <1>0, <1>7 DEF Right, FilterWell
<1>11. ASSUME ~restored PROVE Counted(r, fs) /\ Inside(r) /\ FoundAll(r, fs)
  <2>1. Counted(s, fs)
    BY Zenon, <1>0, <1>11 DEF Right
  <2>2. r.items = <<>>
    BY Zenon, <1>0, <1>7, <2>1 DEF Counted
  <2>3. Len(fs) = 0 /\ fs \in Seq(Declarations) /\ Len(r.items) = 0
    BY <1>0, <2>2
  <2>4. \A w, type : Sums(fs, w, type)[Len(fs)] = 0
    BY Zenon, <1>0, <2>3, SumsAre
  <2>5. ASSUME NEW j \in 1 .. Len(r.sizes), NEW type \in Parser!Types
        PROVE  r.sizes[j].bits[type] = Sums(fs, r.sizes[j].id, type)[Len(fs)]
    <3>0. Len(r.sizes) = 1 /\ Len(s.sizes) = 1
      BY Zenon, <1>0, <1>4, <1>5, <1>7
    <3>1. j = 1 /\ 1 \in 1 .. Len(s.sizes)
      <4>1. 1 \in 1 .. 1 /\ \A i \in 1 .. 1 : i = 1
        OBVIOUS
      <4> QED
        BY Zenon, <1>0, <3>0, <4>1
    <3>2. s.sizes[1].bits[type] = Sums(fs, s.sizes[1].id, type)[Len(fs)]
      BY Zenon, <1>0, <2>1, <3>1 DEF Counted
    <3>3. r.sizes[j].bits[type] = s.sizes[1].bits[type]
      BY Zenon, <1>0, <1>5, <1>7, <3>1
    <3>4. s.sizes[1].bits[type] = 0
      BY Zenon, <1>0, <2>4, <3>2
    <3> QED
      BY Zenon, <1>0, <2>4, <3>3, <3>4
  <2>6. ~ \E j : j \in 1 .. Len(fs)
    BY <1>0, <2>3
  <2>7. ~ \E j : j \in 1 .. Len(r.items)
    BY <1>0, <2>3
  <2>8. r.sizes[r.report].id = Parser!Table(r).id
    BY Zenon, <1>0, <1>4, <1>5, <1>7
  <2>9. Counted(r, fs)
    BY Zenon, <1>0, <2>2, <2>5, <2>6, <2>8 DEF Counted
  <2>10. Inside(r)
    BY Zenon, <1>0, <2>7 DEF Inside
  <2>11. FoundAll(r, fs)
    BY Zenon, <1>0, <2>6 DEF FoundAll
  <2> QED
    BY <1>0, <2>9, <2>10, <2>11
<1> QED
  BY Zenon, <1>0, <1>7, <1>8, <1>9, <1>10, <1>11 DEF Right

\* An id that was given before.
LEMMA KnownId ==
    ASSUME NEW s, Typed(s), s.result = "parsing", NEW id \in Nat, NEW o, NEW fs,
           NEW restored \in BOOLEAN, Right(s, o, fs, restored),
           NEW t, Steps(t, s), t.result = "parsing", Parser!Table(t).id = id,
           NEW k \in 1 .. Len(s.sizes), s.sizes[k].id = id,
           NEW r, WithReports(r, t, t.sizes, k, t.usingIds)
    PROVE  Typed(r) /\ r.result = "parsing" /\ r.usingIds = s.usingIds /\ Right(r, o, fs, restored)
<1>1. /\ t \in ParserStates /\ Typed(t) /\ t.sizes = s.sizes /\ t.usingIds = s.usingIds
      /\ t.sizes \in Seq(Reports) /\ Len(t.sizes) \in 1 .. MaxReportIds /\ t.usingIds \in BOOLEAN
      /\ k \in 1 .. Len(t.sizes)
  BY Zenon, StateFields, ReportFields DEF Steps, Typed, SameReports
<1>2. Reported(r, t, t.sizes, k, t.usingIds)
  BY <1>1, ReportsStep
<1>3. /\ Typed(r) /\ SamePaths(r, s) /\ r.items = s.items /\ r.filter = s.filter
      /\ r.sizes = s.sizes /\ r.report = k /\ r.usingIds = s.usingIds /\ r.result = "parsing"
      /\ Parser!Table(r).id = id
  BY Zenon, <1>1, <1>2 DEF Reported, Steps, SamePaths, SameReports
<1>4. PathsWell(r) /\ NestedAs(r, o)
  BY Zenon, <1>3, SameNesting DEF Right, Typed
<1>5. ReportsWell(r) /\ FilterWell(r, fs)
  BY Zenon, <1>3 DEF Right, ReportsWell, FilterWell
<1>6. ASSUME ~restored PROVE Counted(r, fs) /\ Inside(r) /\ FoundAll(r, fs)
  <2>1. Counted(s, fs) /\ Inside(s) /\ FoundAll(s, fs)
    BY Zenon, <1>6 DEF Right
  <2>2. Counted(r, fs)
    BY Zenon, <1>3, <2>1 DEF Counted
  <2>3. r.items = s.items /\ r.sizes = s.sizes
    BY Zenon, <1>3
  <2>4. Inside(r) /\ FoundAll(r, fs)
    BY Zenon, <2>1, <2>3, SameItems
  <2> QED
    BY Zenon, <2>2, <2>4
<1> QED
  BY Zenon, <1>3, <1>4, <1>5, <1>6 DEF Right

\* An id that was not given before.
Appends(z, w, x) == z = Append(w, x)
LEMMA Appended ==
    ASSUME NEW S, NEW w \in Seq(S), NEW x \in S, NEW z, Appends(z, w, x)
    PROVE  /\ z \in Seq(S) /\ Len(z) = Len(w) + 1 /\ z[Len(w) + 1] = x
           /\ \A j \in 1 .. Len(w) : z[j] = w[j]
           /\ \A j \in 1 .. Len(z) : j = Len(w) + 1 \/ j \in 1 .. Len(w)
  BY DEF Appends

\* z are the reports with one for the id.
NewOne(s, id, x, z) ==
    /\ \A k \in 1 .. Len(s.sizes) : s.sizes[k].id # id
    /\ Len(s.sizes) # MaxReportIds
    /\ x \in Reports /\ x.id = id /\ \A type \in Parser!Types : x.bits[type] = 0
    /\ Appends(z, s.sizes, x)

LEMMA NewId ==
    ASSUME NEW s, NEW id, NEW o, NEW fs, NEW restored, NEW t, NEW r, NEW x, NEW z,
           Restart(s, id, o, fs, restored, t), NewOne(s, id, x, z), s.usingIds,
           WithReports(r, t, z, Len(s.sizes) + 1, t.usingIds)
    PROVE  Typed(r) /\ r.result = "parsing" /\ r.usingIds = s.usingIds /\ Right(r, o, fs, restored)
<1> DEFINE n == Len(s.sizes)
<1>0. /\ Typed(s) /\ s.result = "parsing" /\ id \in Nat /\ fs \in Seq(Declarations)
      /\ restored \in BOOLEAN /\ Right(s, o, fs, restored)
      /\ Steps(t, s) /\ t.result = "parsing" /\ Parser!Table(t).id = id
  BY Zenon DEF Restart
<1>10. /\ \A k \in 1 .. n : s.sizes[k].id # id
       /\ n # MaxReportIds /\ x \in Reports /\ x.id = id
       /\ \A type \in Parser!Types : x.bits[type] = 0
       /\ Appends(z, s.sizes, x)
  BY Zenon DEF NewOne
<1>1. /\ t \in ParserStates /\ Typed(t) /\ t.sizes = s.sizes /\ t.usingIds = s.usingIds
      /\ s.sizes \in Seq(Reports) /\ n \in 1 .. MaxReportIds /\ t.usingIds \in BOOLEAN
      /\ s.report \in 1 .. n
  BY Zenon, <1>0, <1>10, StateFields, ReportFields DEF Steps, Typed, SameReports
<1>2. /\ z \in Seq(Reports) /\ Len(z) = n + 1 /\ z[n + 1] = x
      /\ \A j \in 1 .. n : z[j] = s.sizes[j]
      /\ \A j \in 1 .. Len(z) : j = n + 1 \/ j \in 1 .. n
  BY <1>0, <1>10, <1>1, Appended
<1> HIDE DEF n
<1>3. n + 1 \in 1 .. MaxReportIds /\ n + 1 \in 1 .. Len(z) /\ \A j \in 1 .. n : j \in 1 .. Len(z)
  <2>1. n # MaxReportIds /\ MaxReportIds \in Nat
    BY <1>0, <1>10, ParserLimits DEF n
  <2> QED
    BY <1>0, <1>10, <1>1, <1>2, <2>1
<1>4. Reported(r, t, z, n + 1, t.usingIds)
  <2>1. Len(z) \in 1 .. MaxReportIds /\ WithReports(r, t, z, n + 1, t.usingIds)
    BY Zenon, <1>0, <1>10, <1>2, <1>3 DEF n
  <2> QED
    BY <1>0, <1>10, <1>1, <1>2, <1>3, <2>1, ReportsStep
<1>5. /\ Typed(r) /\ SamePaths(r, s) /\ r.items = s.items /\ r.filter = s.filter
      /\ r.sizes = z /\ r.report = n + 1 /\ r.usingIds = s.usingIds /\ r.result = "parsing"
      /\ Parser!Table(r).id = id
  BY Zenon, <1>0, <1>10, <1>1, <1>4 DEF Reported, Steps, SamePaths, SameReports
<1>6. PathsWell(r) /\ NestedAs(r, o)
  BY Zenon, <1>0, <1>10, <1>5, SameNesting DEF Right, Typed
<1>7. FilterWell(r, fs)
  BY Zenon, <1>0, <1>10, <1>5 DEF Right, FilterWell
<1>8. ReportsWell(r)
  <2>1. ASSUME NEW j \in 1 .. Len(z), NEW k \in 1 .. Len(z), z[j].id = z[k].id PROVE j = k
    <3>1. \A i \in 1 .. n : z[i].id # id /\ z[i].id = s.sizes[i].id
      BY Zenon, <1>0, <1>10, <1>2 DEF n
    <3>2. j = n + 1 \/ j \in 1 .. n
      BY Zenon, <1>0, <1>10, <1>2
    <3>3. k = n + 1 \/ k \in 1 .. n
      BY Zenon, <1>0, <1>10, <1>2
    <3>4. \A i, h \in 1 .. n : s.sizes[i].id = s.sizes[h].id => i = h
      BY Zenon, <1>0, <1>10 DEF Right, ReportsWell, n
    <3>5. z[n + 1].id = id
      BY Zenon, <1>0, <1>10, <1>2
    <3>6. CASE j = n + 1 /\ k = n + 1
      BY Zenon, <1>0, <1>10, <3>6
    <3>7. CASE j = n + 1 /\ k \in 1 .. n
      BY Zenon, <1>0, <1>10, <2>1, <3>1, <3>5, <3>7
    <3>8. CASE j \in 1 .. n /\ k = n + 1
      BY Zenon, <1>0, <1>10, <2>1, <3>1, <3>5, <3>8
    <3>9. CASE j \in 1 .. n /\ k \in 1 .. n
      BY Zenon, <1>0, <1>10, <2>1, <3>1, <3>4, <3>9
    <3> QED
      BY Zenon, <1>0, <1>10, <3>2, <3>3, <3>6, <3>7, <3>8, <3>9
  <2> QED
    BY Zenon, <1>0, <1>10, <1>5, <2>1 DEF ReportsWell
<1>9. ASSUME ~restored PROVE Counted(r, fs) /\ Inside(r) /\ FoundAll(r, fs)
  <2>1. Counted(s, fs) /\ Inside(s) /\ FoundAll(s, fs)
    BY Zenon, <1>0, <1>10, <1>9 DEF Right
  <2>2. ASSUME NEW k \in 1 .. Len(fs) PROVE fs[k].id # id
    <3>1. \E j \in 1 .. n : s.sizes[j].id = fs[k].id
      BY Zenon, <1>0, <1>10, <2>1 DEF Counted, n
    <3> QED
      BY Zenon, <1>0, <1>10, <3>1 DEF n
  <2>3. \A type : Sums(fs, id, type)[Len(fs)] = 0
    BY Zenon, <1>0, <1>10, <2>2, SumsNone
  <2>4. ASSUME NEW j \in 1 .. Len(z), NEW type \in Parser!Types
        PROVE  z[j].bits[type] = Sums(fs, z[j].id, type)[Len(fs)]
    <3>1. CASE j = n + 1
      BY Zenon, <1>0, <1>10, <1>2, <2>3, <3>1
    <3>2. CASE j \in 1 .. n
      <4>1. s.sizes[j].bits[type] = Sums(fs, s.sizes[j].id, type)[Len(fs)]
        BY Zenon, <1>0, <1>10, <2>1, <3>2 DEF Counted, n
      <4> QED
        BY Zenon, <1>0, <1>10, <1>2, <3>2, <4>1
    <3> QED
      BY Zenon, <1>0, <1>10, <1>2, <3>1, <3>2
  <2>5. ASSUME NEW k \in 1 .. Len(fs) PROVE \E j \in 1 .. Len(z) : z[j].id = fs[k].id
    <3>1. PICK j \in 1 .. n : s.sizes[j].id = fs[k].id
      BY Zenon, <1>0, <1>10, <2>1 DEF Counted, n
    <3> QED
      BY Zenon, <1>0, <1>10, <1>2, <1>3, <3>1
  <2>6. Counted(r, fs)
    BY Zenon, <1>0, <1>10, <1>2, <1>5, <2>1, <2>4, <2>5 DEF Counted
  <2>7. ASSUME NEW j \in 1 .. Len(s.items)
        PROVE  \E k \in 1 .. Len(z) :
                 /\ z[k].id = s.items[j].id
                 /\ s.items[j].offset + s.items[j].size <= z[k].bits[s.items[j].type]
    <3>1. PICK k \in 1 .. n :
            /\ s.sizes[k].id = s.items[j].id
            /\ s.items[j].offset + s.items[j].size <= s.sizes[k].bits[s.items[j].type]
      BY Zenon, <1>0, <1>10, <2>1 DEF Inside, n
    <3>2. k \in 1 .. Len(z) /\ z[k] = s.sizes[k]
      BY Zenon, <1>0, <1>10, <1>2, <1>3
    <3> QED
      BY Zenon, <1>0, <1>10, <3>1, <3>2
  <2>8. Inside(r)
    <3>1. r.items = s.items /\ r.sizes = z
      BY Zenon, <1>0, <1>10, <1>5
    <3>2. \A j, k \in 1 .. Len(s.items) :
            j < k /\ s.items[j].id = s.items[k].id /\ s.items[j].type = s.items[k].type =>
              s.items[j].offset + s.items[j].size <= s.items[k].offset
      BY Zenon, <1>0, <1>10, <2>1 DEF Inside
    <3>3. ASSUME NEW j \in 1 .. Len(r.items)
          PROVE  \E k \in 1 .. Len(r.sizes) :
                   /\ r.sizes[k].id = r.items[j].id
                   /\ r.items[j].offset + r.items[j].size <= r.sizes[k].bits[r.items[j].type]
      <4>1. j \in 1 .. Len(s.items) /\ r.items[j] = s.items[j]
        BY Zenon, <3>1
      <4>2. PICK k \in 1 .. Len(z) :
              /\ z[k].id = s.items[j].id
              /\ s.items[j].offset + s.items[j].size <= z[k].bits[s.items[j].type]
        BY Zenon, <2>7, <4>1
      <4>3. k \in 1 .. Len(r.sizes) /\ r.sizes[k] = z[k]
        BY Zenon, <3>1
      <4> QED
        BY Zenon, <4>1, <4>2, <4>3
    <3>4. \A j, k \in 1 .. Len(r.items) :
            j < k /\ r.items[j].id = r.items[k].id /\ r.items[j].type = r.items[k].type =>
              r.items[j].offset + r.items[j].size <= r.items[k].offset
      BY Zenon, <1>0, <1>10, <3>1, <3>2
    <3> QED
      BY Zenon, <1>0, <1>10, <3>3, <3>4 DEF Inside
  <2>9. FoundAll(r, fs)
    <3>1. r.items = s.items /\ FoundAll(s, fs)
      BY Zenon, <1>0, <1>10, <1>5, <2>1
    <3> QED
      BY Zenon, <3>1 DEF FoundAll
  <2> QED
    BY <1>0, <1>10, <2>6, <2>8, <2>9
<1> QED
  BY Zenon, <1>0, <1>10, <1>5, <1>6, <1>7, <1>8, <1>9 DEF Right

Stands(s, o, fs, restored) ==
    /\ Typed(s) /\ s.result = "parsing" /\ fs \in Seq(Declarations) /\ restored \in BOOLEAN
    /\ Right(s, o, fs, restored)
LEMMA IdStep ==
    ASSUME NEW s, NEW o, NEW fs, NEW restored, Stands(s, o, fs, restored), NEW id, id \in Nat,
           ~s.usingIds => fs = <<>>, NEW r, r = Parser!ReportId(s, id)
    PROVE  /\ Typed(r) /\ r.result \in {"parsing"} \cup Errors
           /\ r.result = "parsing" => Right(r, o, fs, restored) /\ r.usingIds = TRUE
<1> DEFINE row == [Parser!Table(s) EXCEPT !.id = id]
           t == Parser!SetTable(s, row)
           known == {k \in DOMAIN s.sizes : s.sizes[k].id = id}
           least == CHOOSE k \in known : \A j \in known : k <= j
           x == [id |-> id, bits |-> [type \in Parser!Types |-> 0]]
           z == Append(s.sizes, x)
<1>0. /\ Typed(s) /\ s.result = "parsing" /\ fs \in Seq(Declarations) /\ restored \in BOOLEAN
      /\ Right(s, o, fs, restored)
  BY Zenon DEF Stands
<1>1. row \in Rows /\ row.id = id
  <2>1. Parser!Table(s) \in Rows
    BY Zenon, <1>0, TableIs
  <2> QED
    BY <2>1 DEF Rows
<1> HIDE DEF row
<1>2. Steps(t, s) /\ Parser!Table(t).id = id /\ t.result = "parsing"
  BY Zenon, <1>0, <1>1, SetTableStep
<1>3. t \in ParserStates /\ Typed(t) /\ t.sizes = s.sizes /\ t.usingIds = s.usingIds /\ s.usingIds \in BOOLEAN
  BY Zenon, <1>0, <1>2, StateFields DEF Steps, Typed, SameReports
<1>4. DOMAIN s.sizes = 1 .. Len(s.sizes)
  BY Zenon, <1>0, ReportFields
<1>9. Restart(s, id, o, fs, restored, t)
  BY Zenon, <1>0, <1>2 DEF Restart
<1>5. CASE ~s.usingIds
  <2>1. GivesFirst(r, t, id)
    BY Zenon, <1>5 DEF Parser!ReportId, GivesFirst, row
  <2>2. fs = <<>> /\ ~s.usingIds
    BY Zenon, <1>5
  <2> HIDE DEF t
  <2>3. Typed(r) /\ r.result = "parsing" /\ r.usingIds = TRUE /\ Right(r, o, fs, restored)
    BY Zenon, <1>9, <2>1, <2>2, FirstId
  <2> QED
    BY Zenon, <2>3
<1>6. CASE s.usingIds /\ known # {}
  <2>1. r = [t EXCEPT !.report = least]
    BY Zenon, <1>6 DEF Parser!ReportId, row
  <2>2. least \in known
    <3>1. known \in SUBSET Nat
      BY <1>4
    <3>2. \E k \in known : \A j \in known : k <= j
      BY <1>6, <3>1, Least
    <3> QED
      BY Zenon, <3>2
  <2>3. least \in 1 .. Len(s.sizes) /\ s.sizes[least].id = id
    BY Zenon, <1>4, <2>2
  <2> HIDE DEF least, t
  <2>4. WithReports(r, t, t.sizes, least, t.usingIds)
    BY Zenon, <1>3, <2>1, ReportsWith
  <2>5. Typed(r) /\ r.result = "parsing" /\ r.usingIds = s.usingIds /\ Right(r, o, fs, restored)
    BY <1>0, <1>2, <2>3, <2>4, KnownId
  <2> QED
    BY Zenon, <1>3, <1>6, <2>5
<1>7. CASE s.usingIds /\ known = {} /\ Len(s.sizes) = MaxReportIds
  <2>1. r = Parser!Fail(t, "InsufficientReportIDItems")
    BY Zenon, <1>7 DEF Parser!ReportId, row
  <2>2. "InsufficientReportIDItems" \in Errors /\ "InsufficientReportIDItems" # "parsing"
    BY DEF Errors
  <2>3. Typed(r) /\ r.result \in {"parsing"} \cup Errors /\ r.result # "parsing"
    BY Zenon, <1>3, <2>1, <2>2, FailSteps DEF Steps
  <2> QED
    BY Zenon, <2>3
<1>8. CASE s.usingIds /\ known = {} /\ Len(s.sizes) # MaxReportIds
  <2>1. r = [t EXCEPT !.sizes = z, !.report = Len(s.sizes) + 1]
    <3>1. r = [t EXCEPT !.sizes = Append(@, x), !.report = Len(s.sizes) + 1]
      BY Zenon, <1>8 DEF Parser!ReportId, row
    <3>2. t.sizes = s.sizes
      BY Zenon, <1>3
    <3> HIDE DEF t, x
    <3> QED
      BY Zenon, <3>1, <3>2
  <2>2. \A k \in 1 .. Len(s.sizes) : s.sizes[k].id # id
    BY Zenon, <1>4, <1>8
  <2>3. x \in Reports /\ x.id = id /\ \A type \in Parser!Types : x.bits[type] = 0
    BY DEF Reports
  <2> HIDE DEF t, x
  <2>4. Appends(z, s.sizes, x)
    BY Zenon DEF Appends
  <2>7. NewOne(s, id, x, z)
    BY Zenon, <1>8, <2>2, <2>3, <2>4 DEF NewOne
  <2> HIDE DEF z
  <2>5. WithReports(r, t, z, Len(s.sizes) + 1, t.usingIds)
    BY <2>1 DEF WithReports
  <2>6. Typed(r) /\ r.result = "parsing" /\ r.usingIds = s.usingIds /\ Right(r, o, fs, restored)
    BY Zenon, <1>8, <1>9, <2>5, <2>7, NewId
  <2> QED
    BY Zenon, <1>3, <1>8, <2>6
<1> QED
  BY Zenon, <1>5, <1>6, <1>7, <1>8

-------------------------------------------------------------------------------
(* One field. *)

KindsIn(o) == {Parser!Decides(o[j].page, o[j].usage) : j \in DOMAIN o} \ {"undefined"}

LEMMA DecidesIs ==
    ASSUME NEW page0, NEW usage0
    PROVE  Parser!Decides(page0, usage0) \in Kinds
  BY DEF Parser!Decides, Kinds

LEMMA FilterKind ==
    ASSUME NEW s, s.filter \in Kinds, NEW item
    PROVE  Parser!Filter(s, item) \in Kinds
<1> DEFINE chain == Parser!Chain(s, s.cur)
           kind(j) == Parser!Decides(s.paths[chain[j]].page, s.paths[chain[j]].usage)
           known == {j \in DOMAIN chain : kind(j) # "undefined"}
           decision == kind(CHOOSE j \in known : \A k \in known : j <= k)
           axis == item.page = Parser!Desktop /\ item.usage \in {Parser!XUsage, Parser!YUsage}
<1>1. decision \in Kinds
  BY Zenon, DecidesIs
<1>2. Parser!Filter(s, item) = IF s.filter # "undefined" THEN s.filter
        ELSE IF known # {} THEN decision ELSE IF axis THEN "mouse" ELSE "undefined"
  BY Zenon DEF Parser!Filter
<1> HIDE DEF known, decision, axis
<1>3. "mouse" \in Kinds /\ "undefined" \in Kinds
  BY DEF Kinds
<1> QED
  BY Zenon, <1>1, <1>2, <1>3

LEMMA ChainIsNesting ==
    ASSUME NEW s, Typed(s), NEW o \in Seq(Uses), PathsWell(s), NestedAs(s, o),
           NEW chain, chain = Parser!Chain(s, s.cur)
    PROVE  /\ DOMAIN chain = 1 .. Len(o) /\ DOMAIN o = 1 .. Len(o)
           /\ \A j \in 1 .. Len(o) :
                /\ Len(o) + 1 - j \in 1 .. Len(o)
                /\ s.paths[chain[j]].page = o[Len(o) + 1 - j].page
                /\ s.paths[chain[j]].usage = o[Len(o) + 1 - j].usage
<1>1. s \in ParserStates /\ ParentsBefore(s)
  BY Zenon, WellIsBefore DEF Typed
<1>2. s.cur \in 0 .. MaxPaths
  BY Zenon, <1>1, StateFields
<1>3. chain \in Seq(1 .. MaxPaths)
  BY Zenon, <1>1, <1>2, ChainIs
<1>4. /\ Len(chain) = Len(o)
      /\ \A j \in DOMAIN chain :
           o[Len(o) + 1 - j] = [page |-> s.paths[chain[j]].page, usage |-> s.paths[chain[j]].usage]
  BY Zenon DEF NestedAs
<1>5. DOMAIN chain = 1 .. Len(o) /\ DOMAIN o = 1 .. Len(o)
  BY <1>3, <1>4
<1>6. ASSUME NEW j \in 1 .. Len(o)
      PROVE  /\ Len(o) + 1 - j \in 1 .. Len(o)
             /\ s.paths[chain[j]].page = o[Len(o) + 1 - j].page
             /\ s.paths[chain[j]].usage = o[Len(o) + 1 - j].usage
  <2>1. Len(o) \in Nat
    OBVIOUS
  <2>2. Len(o) + 1 - j \in 1 .. Len(o)
    <3> DEFINE n == Len(o)
    <3> HIDE DEF n
    <3>1. n \in Nat /\ j \in 1 .. n
      BY Zenon, <2>1 DEF n
    <3>2. n + 1 - j \in 1 .. n
      BY <3>1
    <3> QED
      BY Zenon, <3>2 DEF n
  <2>3. o[Len(o) + 1 - j] = [page |-> s.paths[chain[j]].page, usage |-> s.paths[chain[j]].usage]
    BY Zenon, <1>4, <1>5
  <2>4. /\ s.paths[chain[j]].page = o[Len(o) + 1 - j].page
        /\ s.paths[chain[j]].usage = o[Len(o) + 1 - j].usage
    BY SMT, <2>3
  <2> QED
    BY <2>2, <2>4
<1> QED
  BY <1>5, <1>6

\* What an interface is taken for is decided once, and by an open collection if
\* there is one that decides.
LEMMA FilterIs ==
    ASSUME NEW s, Typed(s), NEW o \in Seq(Uses), PathsWell(s), NestedAs(s, o), NEW item,
           NEW flt, flt = Parser!Filter(s, item)
    PROVE  /\ flt \in Kinds
           /\ s.filter # "undefined" => flt = s.filter
           /\ s.filter = "undefined" /\ KindsIn(o) # {} => flt \in KindsIn(o)
<1> DEFINE chain == Parser!Chain(s, s.cur)
           kind(j) == Parser!Decides(s.paths[chain[j]].page, s.paths[chain[j]].usage)
           known == {j \in DOMAIN chain : kind(j) # "undefined"}
           least == CHOOSE j \in known : \A k \in known : j <= k
<1>1. flt = IF s.filter # "undefined" THEN s.filter
            ELSE IF known # {} THEN kind(least)
            ELSE IF item.page = Parser!Desktop /\ item.usage \in {Parser!XUsage, Parser!YUsage} THEN "mouse"
            ELSE "undefined"
  BY Zenon DEF Parser!Filter
<1>2. /\ DOMAIN chain = 1 .. Len(o) /\ DOMAIN o = 1 .. Len(o) /\ Len(o) \in Nat
      /\ \A j \in 1 .. Len(o) :
           /\ Len(o) + 1 - j \in 1 .. Len(o)
           /\ s.paths[chain[j]].page = o[Len(o) + 1 - j].page
           /\ s.paths[chain[j]].usage = o[Len(o) + 1 - j].usage
  <2> HIDE DEF chain
  <2>1. chain = Parser!Chain(s, s.cur)
    BY Zenon DEF chain
  <2>2. Len(o) \in Nat
    OBVIOUS
  <2> QED
    BY <2>1, <2>2, ChainIsNesting
<1> HIDE DEF chain
<1>3. \A j \in 1 .. Len(o) :
        kind(j) = Parser!Decides(o[Len(o) + 1 - j].page, o[Len(o) + 1 - j].usage)
  BY Zenon, <1>2
<1>4. ASSUME NEW j \in known PROVE kind(j) \in KindsIn(o)
  <2>1. j \in 1 .. Len(o) /\ kind(j) # "undefined" /\ Len(o) + 1 - j \in DOMAIN o
    BY Zenon, <1>2
  <2> QED
    BY Zenon, <1>3, <2>1 DEF KindsIn
<1>5. ASSUME KindsIn(o) # {} PROVE known # {}
  <2>1. PICK i \in DOMAIN o : Parser!Decides(o[i].page, o[i].usage) # "undefined"
    BY Zenon, <1>5 DEF KindsIn
  <2>2. Len(o) + 1 - i \in 1 .. Len(o) /\ Len(o) + 1 - (Len(o) + 1 - i) = i
    BY <1>2, <2>1
  <2>3. kind(Len(o) + 1 - i) # "undefined"
    BY Zenon, <1>3, <2>1, <2>2
  <2> QED
    BY Zenon, <1>2, <2>2, <2>3
<1>6. ASSUME known # {} PROVE least \in known
  <2>1. known \in SUBSET Nat
    BY <1>2
  <2> HIDE DEF known
  <2>2. \E j \in known : \A k \in known : j <= k
    BY <1>6, <2>1, Least
  <2> QED
    BY Zenon, <2>2
<1> HIDE DEF known, least
<1>7. s.filter \in Kinds
  BY Zenon, StateFields DEF Typed
<1>8. flt \in Kinds
  <2>1. kind(least) \in Kinds
    BY Zenon, DecidesIs
  <2> HIDE DEF kind
  <2> QED
    BY <1>1, <1>7, <2>1 DEF Kinds
<1> HIDE DEF kind
<1>9. s.filter = "undefined" /\ KindsIn(o) # {} => flt \in KindsIn(o)
  BY Zenon, <1>1, <1>4, <1>5, <1>6
<1> QED
  BY Zenon, <1>1, <1>8, <1>9

\* The reports with the bits of one more field.
Raised(z, w, k, type, n) ==
    /\ z \in Seq(Reports) /\ Len(z) = Len(w)
    /\ \A j \in 1 .. Len(w) : z[j].id = w[j].id
    /\ z[k].bits[type] = w[k].bits[type] + n
    /\ \A j \in 1 .. Len(w), u \in Parser!Types :
         j # k \/ u # type => z[j].bits[u] = w[j].bits[u]

Raises(z, w, k, type, n) == z = [w EXCEPT ![k].bits[type] = @ + n]
LEMMA RaisedIs ==
    ASSUME NEW w \in Seq(Reports), NEW k \in 1 .. Len(w), NEW type \in Parser!Types, NEW n \in Nat,
           NEW z, Raises(z, w, k, type, n)
    PROVE  Raised(z, w, k, type, n)
<1> DEFINE b == [w[k].bits EXCEPT ![type] = w[k].bits[type] + n]
           x == [w[k] EXCEPT !.bits = b]
<1>1. w[k] \in Reports
  BY Elements
<1>2. w[k].bits \in [Parser!Types -> Nat] /\ w[k].id \in Nat
  BY Zenon, <1>1 DEF Reports
<1>3. b \in [Parser!Types -> Nat] /\ b[type] = w[k].bits[type] + n
      /\ \A u \in Parser!Types : u # type => b[u] = w[k].bits[u]
  BY <1>2
<1> HIDE DEF b
<1>4. x \in Reports /\ x.id = w[k].id /\ x.bits = b
  BY <1>1, <1>3 DEF Reports
<1>5. Replaces(z, w, k, x)
  BY Zenon DEF Raises, Replaces, b
<1> HIDE DEF x
<1>6. z \in Seq(Reports) /\ Len(z) = Len(w) /\ z[k] = x
  BY <1>4, <1>5, Replaced
<1>7. \A j \in 1 .. Len(w) : j # k => z[j] = w[j]
  BY <1>4, <1>5, Spared
<1> QED
  BY Zenon, <1>3, <1>4, <1>6, <1>7 DEF Raised

LEMMA ReportBits ==
    ASSUME NEW w \in Seq(Reports), NEW j \in 1 .. Len(w), NEW u \in Parser!Types
    PROVE  w[j].bits[u] \in Nat
<1>1. w[j] \in Reports
  BY Elements
<1>2. w[j].bits \in [Parser!Types -> Nat]
  BY <1>1 DEF Reports
<1> QED
  BY <1>2

LEMMA RaisesMore ==
    ASSUME NEW w \in Seq(Reports), NEW k \in 1 .. Len(w), NEW type \in Parser!Types, NEW n \in Nat,
           NEW z, Raised(z, w, k, type, n)
    PROVE  \A j \in 1 .. Len(w), u \in Parser!Types :
             w[j].bits[u] \in Nat /\ z[j].bits[u] \in Nat /\ w[j].bits[u] <= z[j].bits[u]
<1>1. z \in Seq(Reports) /\ Len(z) = Len(w)
  BY Zenon DEF Raised
<1>2. \A q \in Seq(Reports) : \A j \in 1 .. Len(q), u \in Parser!Types : q[j].bits[u] \in Nat
  BY Zenon, ReportBits
<1>3. ASSUME NEW j \in 1 .. Len(w), NEW u \in Parser!Types PROVE w[j].bits[u] <= z[j].bits[u]
  <2>1. w[j].bits[u] \in Nat
    BY Zenon, <1>2
  <2>2. CASE j = k /\ u = type
    <3>1. z[j].bits[u] = w[j].bits[u] + n
      BY Zenon, <2>2 DEF Raised
    <3> DEFINE x == w[j].bits[u]
               y == z[j].bits[u]
    <3> HIDE DEF x, y
    <3>2. x \in Nat /\ y = x + n
      BY Zenon, <2>1, <3>1 DEF x, y
    <3>3. x <= y
      BY <3>2
    <3> QED
      BY Zenon, <3>3 DEF x, y
  <2>3. CASE j # k \/ u # type
    <3>1. z[j].bits[u] = w[j].bits[u]
      BY Zenon, <2>3 DEF Raised
    <3>2. w[j].bits[u] <= w[j].bits[u]
      BY <2>1
    <3> QED
      BY Zenon, <3>1, <3>2
  <2> QED
    BY Zenon, <2>2, <2>3
<1> QED
  BY Zenon, <1>1, <1>2, <1>3

\* What a field leaves, and what it changes.
Fielded(r, s, z, flt, its) ==
    /\ Typed(r) /\ SamePaths(r, s) /\ Parser!Table(r) = Parser!Table(s) /\ r.result = "parsing"
    /\ r.report = s.report /\ r.usingIds = s.usingIds
    /\ r.sizes = z /\ r.filter = flt /\ r.items = its
    /\ r.usages = UsagesLeft(s) /\ r.min = MinLeft(s) /\ r.max = s.max
WithField(r, a, z, flt, its) == r = [a EXCEPT !.sizes = z, !.filter = flt, !.items = its]

LEMMA WithFieldStep ==
    ASSUME NEW s, NEW a, Steps(a, s), Parser!Table(a) = Parser!Table(s), a.result = "parsing",
           a.usages = UsagesLeft(s), a.min = MinLeft(s), a.max = s.max,
           NEW z \in Seq(Reports), Len(z) = Len(s.sizes),
           NEW flt \in Kinds, NEW its \in Seq(Found), Len(its) <= MaxItems,
           NEW r, WithField(r, a, z, flt, its)
    PROVE  Fielded(r, s, z, flt, its)
<1>1. /\ a \in ParserStates /\ Bounded(a) /\ a.sizes = s.sizes /\ a.report = s.report
      /\ a.usingIds = s.usingIds /\ a.paths = s.paths /\ a.cur = s.cur
  BY Zenon DEF Steps, Typed, SamePaths, SameReports
<1>2. r \in ParserStates
  BY <1>1 DEF ParserStates, WithField
<1>3. /\ r.tables = a.tables /\ r.usages = a.usages /\ r.min = a.min /\ r.max = a.max
      /\ r.items = its /\ r.sizes = z /\ r.report = a.report /\ r.paths = a.paths /\ r.cur = a.cur
      /\ r.usingIds = a.usingIds /\ r.filter = flt /\ r.result = "parsing"
  BY <1>1 DEF ParserStates, WithField
<1>4. Bounded(r)
  BY Zenon, <1>1, <1>3 DEF Bounded
<1>5. Parser!Table(r) = Parser!Table(a)
  BY Zenon, <1>3 DEF Parser!Table
<1> QED
  BY Zenon, <1>1, <1>2, <1>3, <1>4, <1>5 DEF Fielded, Typed, SamePaths

Takes(r, a, k, type, n, flt, wanted, item) ==
    r = [a EXCEPT !.sizes[k].bits[type] = @ + n, !.filter = flt,
                  !.items = IF wanted THEN Append(@, item) ELSE @]
LEMMA FieldWith ==
    ASSUME NEW a \in ParserStates, NEW k, NEW type, NEW n, NEW flt, NEW wanted, NEW item,
           NEW r, Takes(r, a, k, type, n, flt, wanted, item),
           NEW z, Raises(z, a.sizes, k, type, n)
    PROVE  WithField(r, a, z, flt, IF wanted THEN Append(a.items, item) ELSE a.items)
  BY DEF ParserStates, WithField, Raises, Takes

-------------------------------------------------------------------------------
(* What is true of the fields is true with one more. *)

\* The field f that is declared next, in a state with the fields fs.
Comes(f, s, type, o) ==
    /\ f \in Declarations /\ f.id = Parser!Table(s).id /\ f.type = type
    /\ f.size = Parser!Table(s).size /\ f.page = Parser!Table(s).page
    /\ f.usage = Parser!NextUsage(s) /\ f.within = o

\* A field and the fields before it.
Longer(gs, fs, f) ==
    /\ gs \in Seq(Declarations) /\ Len(fs) \in Nat /\ Len(gs) = Len(fs) + 1 /\ gs[Len(fs) + 1] = f
    /\ gs # <<>> /\ Len(fs) + 1 \in 1 .. Len(gs) /\ Len(fs) + 1 - 1 = Len(fs)
    /\ \A k \in 1 .. Len(fs) : gs[k] = fs[k] /\ k \in 1 .. Len(gs) /\ k - 1 \in 0 .. Len(fs)
    /\ \A k \in 1 .. Len(gs) : k = Len(fs) + 1 \/ k \in 1 .. Len(fs)
    /\ \A id, type :
         /\ \A k \in 0 .. Len(fs) : Sums(gs, id, type)[k] = Sums(fs, id, type)[k]
         /\ Sums(gs, id, type)[Len(gs)] = Sums(fs, id, type)[Len(fs)] + Adds(f, id, type)

LEMMA OneMore ==
    ASSUME NEW fs \in Seq(Declarations), NEW f \in Declarations, NEW gs, Appends(gs, fs, f)
    PROVE  Longer(gs, fs, f)
<1>1. /\ gs \in Seq(Declarations) /\ Len(gs) = Len(fs) + 1 /\ gs[Len(fs) + 1] = f
      /\ \A k \in 1 .. Len(fs) : gs[k] = fs[k]
      /\ \A k \in 1 .. Len(gs) : k = Len(fs) + 1 \/ k \in 1 .. Len(fs)
  BY Appended
<1>2. Len(fs) \in Nat
  OBVIOUS
<1>3. /\ Len(fs) + 1 \in 1 .. Len(gs) /\ Len(fs) + 1 - 1 = Len(fs)
      /\ \A k \in 1 .. Len(fs) : k \in 1 .. Len(gs) /\ k - 1 \in 0 .. Len(fs)
  <2> DEFINE n == Len(fs)
             m == Len(gs)
  <2>1. n \in Nat /\ m = n + 1
    BY Zenon, <1>1, <1>2
  <2> HIDE DEF n, m
  <2>2. n + 1 \in 1 .. m /\ n + 1 - 1 = n /\ \A k \in 1 .. n : k \in 1 .. m /\ k - 1 \in 0 .. n
    BY <2>1
  <2> QED
    BY Zenon, <2>2 DEF n, m
<1>4. gs # <<>>
  <2>1. Len(gs) # 0
    <3> DEFINE n == Len(fs)
               m == Len(gs)
    <3>1. n \in Nat /\ m = n + 1
      BY Zenon, <1>1, <1>2
    <3> HIDE DEF n, m
    <3>2. m # 0
      BY <3>1
    <3> QED
      BY Zenon, <3>2 DEF m
  <2> QED
    BY <2>1
<1>5. gs = Append(fs, f)
  BY Zenon DEF Appends
<1>6. ASSUME NEW id, NEW type
      PROVE  /\ \A k \in 0 .. Len(fs) : Sums(gs, id, type)[k] = Sums(fs, id, type)[k]
             /\ Sums(gs, id, type)[Len(gs)] = Sums(fs, id, type)[Len(fs)] + Adds(f, id, type)
  <2>1. /\ \A k \in 0 .. Len(fs) : Sums(Append(fs, f), id, type)[k] = Sums(fs, id, type)[k]
        /\ Sums(Append(fs, f), id, type)[Len(fs) + 1] = Sums(fs, id, type)[Len(fs)] + Adds(f, id, type)
    BY SumsAppend
  <2> QED
    BY Zenon, <1>1, <1>5, <2>1
<1> QED
  BY Zenon, <1>1, <1>2, <1>3, <1>4, <1>6 DEF Longer

LEMMA CountedMore ==
    ASSUME NEW s, Typed(s), ReportsWell(s), NEW fs \in Seq(Declarations), Counted(s, fs),
           NEW type \in Parser!Types, NEW o, NEW f, Comes(f, s, type, o), NEW gs, Appends(gs, fs, f),
           NEW z, Raised(z, s.sizes, s.report, type, f.size),
           NEW flt, NEW its, NEW r, Fielded(r, s, z, flt, its)
    PROVE  Counted(r, gs)
<1> DEFINE k == s.report
           w == s.sizes
<1>1. /\ w \in Seq(Reports) /\ k \in 1 .. Len(w) /\ f \in Declarations /\ f.id = Parser!Table(s).id
      /\ f.type = type
  BY Zenon, ReportFields DEF Comes
<1>2. /\ gs \in Seq(Declarations) /\ Len(gs) = Len(fs) + 1 /\ gs[Len(fs) + 1] = f /\ gs # <<>>
      /\ \A j \in 1 .. Len(fs) : gs[j] = fs[j]
      /\ \A j \in 1 .. Len(gs) : j = Len(fs) + 1 \/ j \in 1 .. Len(fs)
      /\ \A id, u : Sums(gs, id, u)[Len(gs)] = Sums(fs, id, u)[Len(fs)] + Adds(f, id, u)
  <2>1. Longer(gs, fs, f)
    BY Zenon, <1>1, OneMore
  <2> QED
    BY Zenon, <2>1 DEF Longer
<1>3. /\ r.sizes = z /\ r.report = k /\ Parser!Table(r) = Parser!Table(s) /\ Len(z) = Len(w)
      /\ \A j \in 1 .. Len(w) : z[j].id = w[j].id
  BY Zenon DEF Fielded, Raised
<1>4. /\ w[k].id = f.id
      /\ \A j \in 1 .. Len(w), u \in Parser!Types : w[j].bits[u] = Sums(fs, w[j].id, u)[Len(fs)]
      /\ \A j \in 1 .. Len(fs) : \E i \in 1 .. Len(w) : w[i].id = fs[j].id
  BY Zenon, <1>1 DEF Counted
<1>5. ASSUME NEW j \in 1 .. Len(w), NEW u \in Parser!Types
      PROVE  z[j].bits[u] = Sums(gs, z[j].id, u)[Len(gs)]
  <2>1. Sums(gs, z[j].id, u)[Len(gs)] = w[j].bits[u] + Adds(f, w[j].id, u)
    <3>1. z[j].id = w[j].id /\ w[j].bits[u] = Sums(fs, w[j].id, u)[Len(fs)]
      BY Zenon, <1>3, <1>4
    <3>2. Sums(gs, w[j].id, u)[Len(gs)] = Sums(fs, w[j].id, u)[Len(fs)] + Adds(f, w[j].id, u)
      BY Zenon, <1>2
    <3> QED
      BY Zenon, <3>1, <3>2
  <2>2. w[j].bits[u] \in Nat
    BY Zenon, <1>1, ReportBits
  <2>3. CASE j = k /\ u = type
    <3>1. Adds(f, w[j].id, u) = f.size
      BY Zenon, <1>1, <1>4, <2>3 DEF Adds
    <3>2. z[j].bits[u] = w[j].bits[u] + f.size
      BY Zenon, <2>3 DEF Raised
    <3> QED
      BY Zenon, <2>1, <3>1, <3>2
  <2>4. CASE j # k \/ u # type
    <3>1. z[j].bits[u] = w[j].bits[u]
      BY Zenon, <2>4 DEF Raised
    <3>2. j # k => w[j].id # w[k].id
      BY Zenon, <1>1 DEF ReportsWell
    <3>3. Adds(f, w[j].id, u) = 0
      BY Zenon, <1>1, <1>4, <2>4, <3>2 DEF Adds
    <3>4. w[j].bits[u] + 0 = w[j].bits[u]
      BY <2>2
    <3> QED
      BY Zenon, <2>1, <3>1, <3>3, <3>4
  <2> QED
    BY Zenon, <2>3, <2>4
<1>6. ASSUME NEW j \in 1 .. Len(gs) PROVE \E i \in 1 .. Len(z) : z[i].id = gs[j].id
  <2>1. CASE j = Len(fs) + 1
    BY Zenon, <1>1, <1>2, <1>3, <1>4, <2>1
  <2>2. CASE j \in 1 .. Len(fs)
    <3>1. PICK i \in 1 .. Len(w) : w[i].id = fs[j].id
      BY Zenon, <1>4, <2>2
    <3> QED
      BY Zenon, <1>2, <1>3, <2>2, <3>1
  <2> QED
    BY Zenon, <1>2, <2>1, <2>2
<1>7. r.sizes[r.report].id = Parser!Table(r).id
  BY Zenon, <1>1, <1>3, <1>4
<1>8. \A j \in 1 .. Len(r.sizes), u \in Parser!Types :
        r.sizes[j].bits[u] = Sums(gs, r.sizes[j].id, u)[Len(gs)]
  BY Zenon, <1>3, <1>5
<1>9. \A j \in 1 .. Len(gs) : \E i \in 1 .. Len(r.sizes) : r.sizes[i].id = gs[j].id
  BY Zenon, <1>3, <1>6
<1> QED
  BY Zenon, <1>2, <1>7, <1>8, <1>9 DEF Counted

\* The item that a field is kept as, and the items with or without it.
Places(x, f, s) ==
    x = [id |-> f.id, type |-> f.type, offset |-> s.sizes[s.report].bits[f.type], size |-> f.size,
         page |-> f.page, usage |-> f.usage]
Grows(its, items, x) == its = items \/ Appends(its, items, x)
Fits(i, z) ==
    \E k \in 1 .. Len(z) : z[k].id = i.id /\ i.offset + i.size <= z[k].bits[i.type]

LEMMA FoundNumbers ==
    ASSUME NEW its \in Seq(Found), NEW j \in 1 .. Len(its)
    PROVE  /\ its[j].id \in Nat /\ its[j].type \in Parser!Types
           /\ its[j].offset \in Nat /\ its[j].size \in Nat
<1>1. its[j] \in Found
  BY Elements
<1> QED
  BY <1>1 DEF Found

LEMMA PlacesIs ==
    ASSUME NEW s, Typed(s), NEW type \in Parser!Types, NEW o, NEW f, Comes(f, s, type, o),
           NEW x, Places(x, f, s)
    PROVE  /\ x \in Found /\ x.id = f.id /\ x.type = type /\ x.size = f.size
           /\ x.offset = s.sizes[s.report].bits[type]
<1>1. s.sizes \in Seq(Reports) /\ s.report \in 1 .. Len(s.sizes) /\ f \in Declarations /\ f.type = type
  BY Zenon, ReportFields DEF Comes
<1> DEFINE n == s.sizes[s.report].bits[type]
<1>2. n \in Nat
  BY Zenon, <1>1, ReportBits
<1>3. x = [id |-> f.id, type |-> f.type, offset |-> n, size |-> f.size, page |-> f.page, usage |-> f.usage]
  BY Zenon, <1>1 DEF Places
<1> HIDE DEF n
<1>4. x \in Found /\ x.id = f.id /\ x.type = type /\ x.size = f.size /\ x.offset = n
  BY <1>1, <1>2, <1>3 DEF Declarations, Found
<1> QED
  BY Zenon, <1>4 DEF n

\* What fits goes on fitting.
LEMMA FitsStill ==
    ASSUME NEW w \in Seq(Reports), NEW k \in 1 .. Len(w), NEW type \in Parser!Types, NEW n \in Nat,
           NEW z, Raised(z, w, k, type, n), NEW i, i.type \in Parser!Types, i.offset + i.size \in Nat,
           Fits(i, w)
    PROVE  Fits(i, z)
<1>1. PICK j \in 1 .. Len(w) : w[j].id = i.id /\ i.offset + i.size <= w[j].bits[i.type]
  BY Zenon DEF Fits
<1>2. /\ w[j].bits[i.type] \in Nat /\ z[j].bits[i.type] \in Nat
      /\ w[j].bits[i.type] <= z[j].bits[i.type]
  BY Zenon, RaisesMore
<1>3. j \in 1 .. Len(z) /\ z[j].id = i.id
  BY Zenon, <1>1 DEF Raised
<1>4. i.offset + i.size <= z[j].bits[i.type]
  <2> DEFINE u == i.offset + i.size
             v == w[j].bits[i.type]
             y == z[j].bits[i.type]
  <2>1. u \in Nat /\ v \in Nat /\ y \in Nat /\ u <= v /\ v <= y
    BY Zenon, <1>1, <1>2
  <2> HIDE DEF u, v, y
  <2>2. u <= y
    BY <2>1
  <2> QED
    BY Zenon, <2>2 DEF u, y
<1> QED
  BY Zenon, <1>3, <1>4 DEF Fits

LEMMA InsideIs ==
    ASSUME NEW r
    PROVE  Inside(r) <=>
             /\ \A j \in 1 .. Len(r.items) : Fits(r.items[j], r.sizes)
             /\ \A j, k \in 1 .. Len(r.items) :
                  j < k /\ r.items[j].id = r.items[k].id /\ r.items[j].type = r.items[k].type =>
                    r.items[j].offset + r.items[j].size <= r.items[k].offset
  BY Zenon DEF Inside, Fits

LEMMA InsideMore ==
    ASSUME NEW s, Typed(s), ReportsWell(s), Inside(s), s.sizes[s.report].id = Parser!Table(s).id,
           NEW type \in Parser!Types, NEW o, NEW f, Comes(f, s, type, o), NEW x, Places(x, f, s),
           NEW z, Raised(z, s.sizes, s.report, type, f.size),
           NEW flt, NEW its, Grows(its, s.items, x), NEW r, Fielded(r, s, z, flt, its)
    PROVE  Inside(r)
<1> DEFINE k == s.report
           w == s.sizes
           m == Len(s.items)
<1>1. /\ w \in Seq(Reports) /\ k \in 1 .. Len(w) /\ s.items \in Seq(Found) /\ f \in Declarations
      /\ f.id = Parser!Table(s).id
  BY Zenon, ReportFields, StateFields DEF Typed, Comes
<1>2. /\ x \in Found /\ x.id = w[k].id /\ x.type = type /\ x.size = f.size
      /\ x.offset = w[k].bits[type]
  <2>1. /\ x \in Found /\ x.id = f.id /\ x.type = type /\ x.size = f.size
        /\ x.offset = w[k].bits[type]
    BY PlacesIs
  <2> QED
    BY Zenon, <1>1, <2>1
<1>3. r.items = its /\ r.sizes = z
  BY Zenon DEF Fielded
<1>4. f.size \in Nat
  BY <1>1 DEF Declarations
<1>5. ASSUME NEW j \in 1 .. m
      PROVE  /\ s.items[j].id \in Nat /\ s.items[j].type \in Parser!Types
             /\ s.items[j].offset \in Nat /\ s.items[j].size \in Nat
             /\ s.items[j].offset + s.items[j].size \in Nat
  <2>1. /\ s.items[j].id \in Nat /\ s.items[j].type \in Parser!Types
        /\ s.items[j].offset \in Nat /\ s.items[j].size \in Nat
    BY Zenon, <1>1, FoundNumbers
  <2> QED
    BY <2>1
<1>6. /\ \A j \in 1 .. m : Fits(s.items[j], w)
      /\ \A j, i \in 1 .. m :
           j < i /\ s.items[j].id = s.items[i].id /\ s.items[j].type = s.items[i].type =>
             s.items[j].offset + s.items[j].size <= s.items[i].offset
  BY Zenon, InsideIs
<1>7. \A j \in 1 .. m : Fits(s.items[j], z)
  BY Zenon, <1>1, <1>4, <1>5, <1>6, FitsStill
<1>8. Fits(x, z)
  <2>1. k \in 1 .. Len(z) /\ z[k].id = x.id /\ z[k].bits[type] = x.offset + x.size
    BY Zenon, <1>1, <1>2 DEF Raised
  <2>2. x.offset \in Nat /\ x.size \in Nat
    BY <1>2 DEF Found
  <2>3. x.offset + x.size <= x.offset + x.size
    BY <2>2
  <2> QED
    BY Zenon, <1>2, <2>1, <2>3 DEF Fits
\* An item of the report of x ends where x begins.
<1>9. ASSUME NEW j \in 1 .. m, s.items[j].id = x.id, s.items[j].type = x.type
      PROVE  s.items[j].offset + s.items[j].size <= x.offset
  <2>1. PICK i \in 1 .. Len(w) :
          w[i].id = s.items[j].id /\ s.items[j].offset + s.items[j].size <= w[i].bits[s.items[j].type]
    BY Zenon, <1>6 DEF Fits
  <2>2. i = k
    BY Zenon, <1>1, <1>2, <1>9, <2>1 DEF ReportsWell
  <2> QED
    BY Zenon, <1>2, <1>9, <2>1, <2>2
<1>10. CASE its = s.items
  BY Zenon, <1>3, <1>6, <1>7, <1>10, InsideIs
<1>11. CASE Appends(its, s.items, x)
  <2>1. /\ Len(its) = m + 1 /\ its[m + 1] = x
        /\ \A j \in 1 .. m : its[j] = s.items[j]
        /\ \A j \in 1 .. Len(its) : j = m + 1 \/ j \in 1 .. m
    BY <1>1, <1>2, <1>11, Appended
  <2>2. \A j \in 1 .. Len(its) : Fits(its[j], z)
    BY Zenon, <1>7, <1>8, <2>1
  <2>3. ASSUME NEW j \in 1 .. Len(its), NEW i \in 1 .. Len(its),
               j < i, its[j].id = its[i].id, its[j].type = its[i].type
        PROVE  its[j].offset + its[j].size <= its[i].offset
    <3>1. (j = m + 1 \/ j \in 1 .. m) /\ (i = m + 1 \/ i \in 1 .. m)
      BY Zenon, <2>1
    <3>2. CASE j \in 1 .. m /\ i \in 1 .. m
      BY Zenon, <1>6, <2>1, <2>3, <3>2
    <3>3. CASE j \in 1 .. m /\ i = m + 1
      <4>1. its[j] = s.items[j] /\ its[i] = x
        BY Zenon, <2>1, <3>3
      <4> QED
        BY Zenon, <1>9, <2>3, <3>3, <4>1
    <3>4. CASE j = m + 1
      <4>1. m \in Nat
        BY <1>1
      <4> HIDE DEF m
      <4>2. ~ (j < i)
        BY <3>1, <3>4, <4>1
      <4> QED
        BY Zenon, <2>3, <4>2
    <3> QED
      BY Zenon, <3>1, <3>2, <3>3, <3>4
  <2>4. \A j, i \in 1 .. Len(its) :
          j < i /\ its[j].id = its[i].id /\ its[j].type = its[i].type =>
            its[j].offset + its[j].size <= its[i].offset
    BY Zenon, <2>3
  <2> QED
    BY Zenon, <1>3, <2>2, <2>4, InsideIs
<1> QED
  BY Zenon, <1>10, <1>11 DEF Grows

LEMMA FoundMore ==
    ASSUME NEW s, Typed(s), NEW fs \in Seq(Declarations), Counted(s, fs), FoundAll(s, fs),
           NEW type \in Parser!Types, NEW o, NEW f, Comes(f, s, type, o), NEW gs, Appends(gs, fs, f),
           NEW x, Places(x, f, s), NEW z, NEW flt, NEW its, Grows(its, s.items, x),
           Parser!Control(f) => Appends(its, s.items, x),
           NEW r, Fielded(r, s, z, flt, its)
    PROVE  FoundAll(r, gs)
<1> DEFINE k == s.report
           w == s.sizes
           m == Len(s.items)
           As(d, sum) == [id |-> d.id, type |-> d.type, offset |-> sum, size |-> d.size,
                          page |-> d.page, usage |-> d.usage]
<1>1. /\ s.items \in Seq(Found) /\ f \in Declarations /\ f.id = Parser!Table(s).id /\ f.type = type
      /\ x \in Found /\ x = As(f, w[k].bits[type]) /\ k \in 1 .. Len(w)
  <2>1. /\ s.items \in Seq(Found) /\ f \in Declarations /\ f.id = Parser!Table(s).id /\ f.type = type
        /\ k \in 1 .. Len(w)
    BY Zenon, StateFields, ReportFields DEF Typed, Comes
  <2>2. x = As(f, w[k].bits[type])
    BY Zenon, <2>1 DEF Places
  <2>3. x \in Found
    BY Zenon, PlacesIs
  <2> QED
    BY Zenon, <2>1, <2>2, <2>3
<1>2. /\ Len(fs) \in Nat /\ gs[Len(fs) + 1] = f /\ Len(fs) + 1 - 1 = Len(fs)
      /\ \A j \in 1 .. Len(fs) : gs[j] = fs[j] /\ j \in 1 .. Len(gs) /\ j - 1 \in 0 .. Len(fs)
      /\ \A j \in 1 .. Len(gs) : j = Len(fs) + 1 \/ j \in 1 .. Len(fs)
  <2>1. Longer(gs, fs, f)
    BY Zenon, <1>1, OneMore
  <2> QED
    BY Zenon, <2>1 DEF Longer
<1>7. \A id, u : \A j \in 0 .. Len(fs) : Sums(gs, id, u)[j] = Sums(fs, id, u)[j]
  <2>1. Longer(gs, fs, f)
    BY Zenon, <1>1, OneMore
  <2> QED
    BY Zenon, <2>1 DEF Longer
<1>3. r.items = its
  BY Zenon DEF Fielded
<1> HIDE DEF As
<1>4. /\ m \in Nat /\ m + 1 \in 1 .. m + 1
      /\ \A j \in 1 .. m : j \in 1 .. m + 1
  <2>1. m \in Nat
    BY <1>1
  <2> HIDE DEF m
  <2> QED
    BY <2>1
<1>5. /\ \A j \in 1 .. m : j \in 1 .. Len(its) /\ its[j] = s.items[j]
      /\ Appends(its, s.items, x) => m + 1 \in 1 .. Len(its) /\ its[m + 1] = x
  <2>1. CASE its = s.items /\ ~ Appends(its, s.items, x)
    BY Zenon, <2>1
  <2>2. CASE Appends(its, s.items, x)
    <3>1. /\ Len(its) = m + 1 /\ its[m + 1] = x
          /\ \A j \in 1 .. m : its[j] = s.items[j]
      BY <1>1, <2>2, Appended
    <3> QED
      BY Zenon, <1>4, <3>1
  <2> QED
    BY Zenon, <2>1, <2>2 DEF Grows
<1>6. ASSUME NEW d \in 1 .. Len(gs), Parser!Control(gs[d])
      PROVE  \E j \in 1 .. Len(its) : its[j] = As(gs[d], Sums(gs, gs[d].id, gs[d].type)[d - 1])
  <2>1. CASE d \in 1 .. Len(fs)
    <3>1. /\ gs[d] = fs[d]
          /\ Sums(gs, fs[d].id, fs[d].type)[d - 1] = Sums(fs, fs[d].id, fs[d].type)[d - 1]
      <4>1. gs[d] = fs[d] /\ d - 1 \in 0 .. Len(fs)
        BY Zenon, <1>2, <2>1
      <4> QED
        BY Zenon, <1>7, <4>1
    <3>2. PICK j \in 1 .. m : s.items[j] = As(fs[d], Sums(fs, fs[d].id, fs[d].type)[d - 1])
      BY Zenon, <1>6, <2>1, <3>1 DEF FoundAll, As
    <3> QED
      BY Zenon, <1>5, <3>1, <3>2
  <2>2. CASE d = Len(fs) + 1
    <3>1. gs[d] = f /\ d - 1 = Len(fs) /\ Len(fs) \in Nat
      <4>1. gs[d] = f /\ Len(fs) \in Nat
        BY Zenon, <1>2, <2>2
      <4>2. d - 1 = Len(fs)
        BY <2>2, <4>1
      <4> QED
        BY Zenon, <4>1, <4>2
    <3>2. Sums(gs, f.id, f.type)[Len(fs)] = Sums(fs, f.id, f.type)[Len(fs)]
      <4>1. Len(fs) \in 0 .. Len(fs)
        BY <3>1
      <4> QED
        BY Zenon, <1>7, <4>1
    <3>3. w[k].bits[type] = Sums(fs, f.id, f.type)[Len(fs)]
      BY Zenon, <1>1 DEF Counted
    <3>4. x = As(gs[d], Sums(gs, gs[d].id, gs[d].type)[d - 1])
      BY Zenon, <1>1, <3>1, <3>2, <3>3
    <3>5. Appends(its, s.items, x)
      BY Zenon, <1>6, <3>1
    <3> QED
      BY Zenon, <1>5, <3>4, <3>5
  <2> QED
    BY Zenon, <1>2, <2>1, <2>2
<1> QED
  BY Zenon, <1>3, <1>6 DEF FoundAll, As

LEMMA FilterMore ==
    ASSUME NEW s, Typed(s), NEW fs \in Seq(Declarations), FilterWell(s, fs),
           PathsWell(s), NEW o \in Seq(Uses), NestedAs(s, o),
           NEW type, NEW f, Comes(f, s, type, o), NEW gs, Appends(gs, fs, f), NEW item,
           NEW flt, flt = IF f.constant THEN s.filter ELSE Parser!Filter(s, item),
           NEW r, r.filter = flt
    PROVE  /\ FilterWell(r, gs)
           /\ Parser!Control(f) => flt # "undefined"
<1>1. f \in Declarations /\ f.constant \in BOOLEAN /\ f.within = o
  <2>1. f \in Declarations /\ f.within = o
    BY Zenon DEF Comes
  <2> QED
    BY <2>1 DEF Declarations
<1>2. /\ gs[Len(fs) + 1] = f /\ Len(fs) + 1 \in 1 .. Len(gs)
      /\ \A j \in 1 .. Len(fs) : gs[j] = fs[j] /\ j \in 1 .. Len(gs) /\ j - 1 \in 0 .. Len(fs)
      /\ \A j \in 1 .. Len(gs) : j = Len(fs) + 1 \/ j \in 1 .. Len(fs)
  <2>1. Longer(gs, fs, f)
    BY Zenon, <1>1, OneMore
  <2> QED
    BY Zenon, <2>1 DEF Longer
<1>3. f.constant => flt = s.filter
  BY Zenon
<1>4. ~ f.constant =>
        /\ s.filter # "undefined" => flt = s.filter
        /\ s.filter = "undefined" /\ KindsIn(o) # {} => flt \in KindsIn(o)
  <2>1. SUFFICES ASSUME ~ f.constant
                 PROVE  /\ s.filter # "undefined" => flt = s.filter
                        /\ s.filter = "undefined" /\ KindsIn(o) # {} => flt \in KindsIn(o)
    BY Zenon
  <2>2. flt = Parser!Filter(s, item)
    BY Zenon, <2>1
  <2> QED
    BY <2>2, FilterIs
<1>5. KindsOf(f) = KindsIn(o)
  BY Zenon, <1>1 DEF KindsOf, KindsIn
<1>6. ASSUME \A k \in 1 .. Len(gs) : gs[k].constant PROVE flt = "undefined"
  <2>1. \A k \in 1 .. Len(fs) : fs[k].constant
    BY Zenon, <1>2, <1>6
  <2>2. f.constant
    BY Zenon, <1>2, <1>6
  <2> QED
    BY Zenon, <1>3, <2>1, <2>2 DEF FilterWell
<1>7. ASSUME NEW k \in 1 .. Len(gs), ~ gs[k].constant, \A j \in 1 .. k - 1 : gs[j].constant,
             KindsOf(gs[k]) # {}
      PROVE  flt \in KindsOf(gs[k])
  <2>1. CASE k \in 1 .. Len(fs)
    <3>1. \A j \in 1 .. k - 1 : j \in 1 .. Len(fs)
      BY <2>1
    <3>2. ~ fs[k].constant /\ (\A j \in 1 .. k - 1 : fs[j].constant) /\ KindsOf(fs[k]) # {}
          /\ gs[k] = fs[k]
      BY Zenon, <1>2, <1>7, <2>1, <3>1
    <3>3. s.filter \in KindsOf(fs[k])
      BY Zenon, <2>1, <3>2 DEF FilterWell
    <3>4. s.filter # "undefined"
      BY Zenon, <3>3 DEF KindsOf
    <3> QED
      BY Zenon, <1>3, <1>4, <3>2, <3>3, <3>4
  <2>2. CASE k = Len(fs) + 1
    <3>1. gs[k] = f
      BY Zenon, <1>2, <2>2
    <3>2. \A j \in 1 .. Len(fs) : j \in 1 .. k - 1
      BY <2>2
    <3>3. \A j \in 1 .. Len(fs) : fs[j].constant
      BY Zenon, <1>2, <1>7, <3>2
    <3>4. s.filter = "undefined"
      BY Zenon, <3>3 DEF FilterWell
    <3> QED
      BY Zenon, <1>4, <1>5, <1>7, <3>1, <3>4
  <2> QED
    BY Zenon, <1>2, <2>1, <2>2
<1>8. Parser!Control(f) => flt # "undefined"
  <2>1. SUFFICES ASSUME Parser!Control(f) PROVE flt # "undefined"
    BY Zenon
  <2>2. ~ f.constant /\ KindsIn(o) # {}
    BY Zenon, <1>1, <2>1 DEF Parser!Control, KindsIn
  <2>3. "undefined" \notin KindsIn(o)
    BY Zenon DEF KindsIn
  <2> QED
    BY Zenon, <1>4, <2>2, <2>3
<1>9. FilterWell(r, gs)
  <2>1. (\A k \in 1 .. Len(gs) : gs[k].constant) => r.filter = "undefined"
    BY Zenon, <1>6
  <2>2. \A k \in 1 .. Len(gs) :
          ~ gs[k].constant /\ (\A j \in 1 .. k - 1 : gs[j].constant) /\ KindsOf(gs[k]) # {} =>
            r.filter \in KindsOf(gs[k])
    BY Zenon, <1>7
  <2> QED
    BY Zenon, <2>1, <2>2 DEF FilterWell
<1> QED
  BY <1>8, <1>9

\* What one field makes of a state.
After(r, s, o, gs, restored) ==
    /\ Typed(r) /\ r.result \in {"parsing"} \cup Errors
    /\ r.result = "parsing" =>
         /\ Right(r, o, gs, restored)
         /\ Parser!Table(r) = Parser!Table(s) /\ r.usingIds = s.usingIds
         /\ r.usages = UsagesLeft(s) /\ r.min = MinLeft(s) /\ r.max = s.max

LEMMA RightMore ==
    ASSUME NEW s, Typed(s), NEW o \in Seq(Uses), NEW fs \in Seq(Declarations), NEW restored \in BOOLEAN,
           Right(s, o, fs, restored), NEW type \in Parser!Types, NEW f, Comes(f, s, type, o),
           NEW gs, Appends(gs, fs, f), NEW x, Places(x, f, s),
           NEW flt, flt = IF f.constant THEN s.filter ELSE Parser!Filter(s, x),
           NEW z, Raised(z, s.sizes, s.report, type, f.size),
           NEW its, Grows(its, s.items, x),
           ~ f.constant /\ Parser!Wanted(flt, x) => Appends(its, s.items, x),
           NEW r, Fielded(r, s, z, flt, its)
    PROVE  Right(r, o, gs, restored)
<1>1. /\ s \in ParserStates /\ r \in ParserStates /\ SamePaths(r, s) /\ r.filter = flt /\ r.items = its
      /\ r.sizes = z /\ r.report = s.report /\ r.usingIds = s.usingIds
  BY Zenon DEF Fielded, Typed
<1>2. PathsWell(s) /\ NestedAs(s, o) /\ ReportsWell(s) /\ FilterWell(s, fs)
  BY Zenon DEF Right
<1>3. PathsWell(r) /\ NestedAs(r, o)
  BY Zenon, <1>1, <1>2, SameNesting
<1>4. ReportsWell(r)
  <2>1. Len(z) = Len(s.sizes) /\ \A j \in 1 .. Len(s.sizes) : z[j].id = s.sizes[j].id
    BY Zenon DEF Raised
  <2>2. \A j, k \in 1 .. Len(z) : z[j].id = z[k].id => j = k
    BY Zenon, <1>2, <2>1 DEF ReportsWell
  <2>3. s.report \in 1 .. Len(s.sizes)
    BY Zenon, ReportFields
  <2>4. ASSUME ~ r.usingIds PROVE Len(z) = 1 /\ z[1].id = 0
    <3>1. Len(s.sizes) = 1 /\ s.sizes[1].id = 0
      BY Zenon, <1>1, <1>2, <2>4 DEF ReportsWell
    <3>2. 1 \in 1 .. Len(s.sizes)
      BY <3>1
    <3> QED
      BY Zenon, <2>1, <3>1, <3>2
  <2> QED
    BY Zenon, <1>1, <2>2, <2>4 DEF ReportsWell
<1>5. FilterWell(r, gs) /\ (Parser!Control(f) => flt # "undefined")
  BY <1>1, <1>2, FilterMore
<1>6. ASSUME ~ restored PROVE Counted(r, gs) /\ Inside(r) /\ FoundAll(r, gs)
  <2>1. Counted(s, fs) /\ Inside(s) /\ FoundAll(s, fs)
    BY Zenon, <1>6 DEF Right
  <2>2. Counted(r, gs)
    BY Zenon, <1>2, <2>1, CountedMore
  <2>3. s.sizes[s.report].id = Parser!Table(s).id
    BY Zenon, <2>1 DEF Counted
  <2>4. Inside(r)
    BY Zenon, <1>2, <2>1, <2>3, InsideMore
  <2>5. Parser!Control(f) => Appends(its, s.items, x)
    <3>1. x.page = f.page
      BY DEF Places
    <3>2. SUFFICES ASSUME Parser!Control(f) PROVE Appends(its, s.items, x)
      BY Zenon
    <3>3. ~ f.constant /\ f.page \in {Parser!Button, Parser!Desktop} /\ flt # "undefined"
      BY Zenon, <1>5, <3>2 DEF Parser!Control
    <3>4. Parser!Wanted(flt, x)
      BY Zenon, <3>1, <3>3 DEF Parser!Wanted
    <3> QED
      BY Zenon, <3>3, <3>4
  <2>6. FoundAll(r, gs)
    BY Zenon, <2>1, <2>5, FoundMore
  <2> QED
    BY <2>2, <2>4, <2>6
<1> QED
  BY Zenon, <1>3, <1>4, <1>5, <1>6 DEF Right

\* What a field does, whatever was before it.
Item(s, type) ==
    [id |-> Parser!Table(s).id, type |-> type, offset |-> s.sizes[s.report].bits[type],
     size |-> Parser!Table(s).size, page |-> Parser!Table(s).page, usage |-> Parser!NextUsage(s)]
Decided(s, type, constant) == IF constant THEN s.filter ELSE Parser!Filter(s, Item(s, type))

LEMMA FieldMade ==
    ASSUME NEW s, Typed(s), s.result = "parsing", Len(s.items) # MaxItems,
           NEW type \in Parser!Types, NEW constant \in BOOLEAN,
           NEW x, x = Item(s, type), NEW flt, flt = Decided(s, type, constant)
    PROVE  \E z, its :
             /\ Raised(z, s.sizes, s.report, type, Parser!Table(s).size)
             /\ Grows(its, s.items, x)
             /\ ~ constant /\ Parser!Wanted(flt, x) => Appends(its, s.items, x)
             /\ Fielded(Parser!Field(s, type, constant), s, z, flt, its)
<1> DEFINE k == s.report
           n == Parser!Table(s).size
           a == Parser!TakeUsage(s)
           wanted == ~ constant /\ Parser!Wanted(flt, x)
           its == IF wanted THEN Append(s.items, x) ELSE s.items
           z == [s.sizes EXCEPT ![k].bits[type] = @ + n]
           r == Parser!Field(s, type, constant)
<1>1. Takes(r, a, k, type, n, flt, wanted, x)
  BY Zenon DEF Parser!Field, Takes, Item, Decided
<1>2. /\ Steps(a, s) /\ Parser!Table(a) = Parser!Table(s) /\ a.result = "parsing"
      /\ a.usages = UsagesLeft(s) /\ a.min = MinLeft(s) /\ a.max = s.max
  BY TakeStep
<1> HIDE DEF a, n, r
<1>3. /\ a \in ParserStates /\ a.sizes = s.sizes /\ a.items = s.items
      /\ k \in 1 .. Len(s.sizes) /\ s.sizes \in Seq(Reports) /\ s.items \in Seq(Found)
      /\ Len(s.items) <= MaxItems /\ n \in Nat /\ s.filter \in Kinds
  <2>1. a \in ParserStates /\ a.sizes = s.sizes /\ a.items = s.items /\ Len(s.items) <= MaxItems
    BY Zenon, <1>2 DEF Steps, Typed, SameReports, Bounded
  <2>2. k \in 1 .. Len(s.sizes) /\ s.sizes \in Seq(Reports) /\ s.items \in Seq(Found) /\ s.filter \in Kinds
    BY Zenon, ReportFields, StateFields DEF Typed
  <2>3. n \in Nat
    <3>1. Parser!Table(s) \in Rows
      BY Zenon, TableIs
    <3> QED
      BY <3>1 DEF Rows, n
  <2> QED
    BY Zenon, <2>1, <2>2, <2>3
<1>4. x \in Found
  <2> DEFINE t == Parser!Table(s)
             b == s.sizes[k].bits[type]
             u == Parser!NextUsage(s)
  <2>1. t \in Rows /\ b \in Nat /\ u \in Nat
    BY Zenon, <1>3, TableIs, ReportBits, NextUsageIs
  <2>2. x = [id |-> t.id, type |-> type, offset |-> b, size |-> t.size, page |-> t.page, usage |-> u]
    BY Zenon DEF Item
  <2> HIDE DEF t, b, u
  <2> QED
    BY <2>1, <2>2 DEF Rows, Found
<1>5. flt \in Kinds
  BY Zenon, <1>3, FilterKind DEF Decided
<1>6. its \in Seq(Found) /\ Len(its) <= MaxItems
  <2>1. MaxItems \in Nat
    BY ParserLimits
  <2>2. Append(s.items, x) \in Seq(Found) /\ Len(Append(s.items, x)) = Len(s.items) + 1
        /\ Len(s.items) \in Nat
    BY <1>3, <1>4
  <2>3. Len(s.items) + 1 <= MaxItems
    <3> DEFINE m == Len(s.items)
    <3> HIDE DEF m
    <3>1. m \in Nat /\ m <= MaxItems /\ m # MaxItems
      BY Zenon, <1>3, <2>2 DEF m
    <3>2. m + 1 <= MaxItems
      BY <2>1, <3>1
    <3> QED
      BY Zenon, <3>2 DEF m
  <2> HIDE DEF wanted
  <2> QED
    BY Zenon, <1>3, <2>2, <2>3
<1>7. Grows(its, s.items, x) /\ (wanted => Appends(its, s.items, x))
  BY Zenon DEF Grows, Appends
<1>8. its = IF wanted THEN Append(a.items, x) ELSE a.items
  BY Zenon, <1>3
<1>9. Raises(z, s.sizes, k, type, n) /\ Raises(z, a.sizes, k, type, n)
  BY Zenon, <1>3 DEF Raises
<1>10. ~ constant /\ Parser!Wanted(flt, x) => Appends(its, s.items, x)
  BY Zenon, <1>7
<1> HIDE DEF z, its, wanted
<1>11. Raised(z, s.sizes, k, type, n)
  BY Zenon, <1>3, <1>9, RaisedIs
<1>12. WithField(r, a, z, flt, its)
  <2>1. WithField(r, a, z, flt, IF wanted THEN Append(a.items, x) ELSE a.items)
    BY Zenon, <1>1, <1>3, <1>9, FieldWith
  <2> QED
    BY Zenon, <1>8, <2>1
<1>13. Fielded(r, s, z, flt, its)
  <2>1. z \in Seq(Reports) /\ Len(z) = Len(s.sizes)
    BY Zenon, <1>11 DEF Raised
  <2> QED
    BY <1>2, <1>5, <1>6, <1>12, <2>1, WithFieldStep
<1> QED
  BY Zenon, <1>7, <1>10, <1>11, <1>13 DEF n, r

\* A field that finds no room, and a field after a failure.
LEMMA FieldFails ==
    ASSUME NEW s, Typed(s), s.result \in {"parsing"} \cup Errors, NEW type, NEW constant,
           s.result # "parsing" \/ Len(s.items) = MaxItems,
           NEW r, r = Parser!Field(s, type, constant)
    PROVE  Typed(r) /\ r.result \in Errors /\ r.result # "parsing"
<1>1. CASE s.result # "parsing"
  BY Zenon, <1>1 DEF Parser!Field
<1>2. CASE s.result = "parsing" /\ Len(s.items) = MaxItems
  <2>1. r = Parser!Fail(s, "InsufficientReportItems")
    BY Zenon, <1>2 DEF Parser!Field
  <2>2. "InsufficientReportItems" \in Errors /\ "InsufficientReportItems" # "parsing"
    BY DEF Errors
  <2> QED
    BY Zenon, <2>1, <2>2, FailSteps DEF Steps
<1> QED
  BY Zenon, <1>1, <1>2

LEMMA FieldTyped ==
    ASSUME NEW s, Typed(s), s.result \in {"parsing"} \cup Errors,
           NEW type \in Parser!Types, NEW constant \in BOOLEAN, NEW r, r = Parser!Field(s, type, constant)
    PROVE  Typed(r) /\ r.result \in {"parsing"} \cup Errors
<1>1. CASE s.result # "parsing" \/ Len(s.items) = MaxItems
  BY Zenon, <1>1, FieldFails
<1>2. CASE s.result = "parsing" /\ Len(s.items) # MaxItems
  <2>1. PICK z, its : Fielded(r, s, z, Decided(s, type, constant), its)
    BY Zenon, <1>2, FieldMade
  <2> QED
    BY Zenon, <2>1 DEF Fielded
<1> QED
  BY Zenon, <1>1, <1>2

LEMMA FieldStep ==
    ASSUME NEW s, Typed(s), s.result = "parsing", NEW o \in Seq(Uses), NEW fs \in Seq(Declarations),
           NEW restored \in BOOLEAN, Right(s, o, fs, restored), NEW type \in Parser!Types,
           NEW f, Comes(f, s, type, o), NEW gs, Appends(gs, fs, f),
           NEW r, r = Parser!Field(s, type, f.constant)
    PROVE  After(r, s, o, gs, restored)
<1>1. CASE Len(s.items) = MaxItems
  <2>1. Typed(r) /\ r.result \in Errors /\ r.result # "parsing"
    BY Zenon, <1>1, FieldFails
  <2> QED
    BY Zenon, <2>1 DEF After
<1>2. CASE Len(s.items) # MaxItems
  <2>1. f \in Declarations /\ f.size = Parser!Table(s).size
    BY Zenon DEF Comes
  <2>2. f.constant \in BOOLEAN
    BY <2>1 DEF Declarations
  <2> DEFINE x == Item(s, type)
             flt == Decided(s, type, f.constant)
  <2>3. PICK z, its :
          /\ Raised(z, s.sizes, s.report, type, f.size)
          /\ Grows(its, s.items, x)
          /\ ~ f.constant /\ Parser!Wanted(flt, x) => Appends(its, s.items, x)
          /\ Fielded(r, s, z, flt, its)
    BY Zenon, <1>2, <2>1, <2>2, FieldMade
  <2>4. Places(x, f, s)
    BY Zenon DEF Places, Comes, Item
  <2>5. flt = IF f.constant THEN s.filter ELSE Parser!Filter(s, x)
    BY Zenon DEF Decided
  <2> HIDE DEF x, flt
  <2>6. Right(r, o, gs, restored)
    BY Zenon, <2>3, <2>4, <2>5, RightMore
  <2> QED
    BY Zenon, <2>3, <2>6 DEF After, Fielded
<1> QED
  BY Zenon, <1>1, <1>2

-------------------------------------------------------------------------------
(* The fields of an item, one after the other. *)

\* The usages that are left after j fields: u of us, and a range that begins at m
\* of the range from low to high.
Left(us, low, high, j, u, m) ==
    /\ u \in Seq(Nat) /\ m \in Nat
    /\ Len(u) = IF j <= Len(us) THEN Len(us) - j ELSE 0
    /\ \A i \in 1 .. Len(u) : u[i] = us[j + i]
    /\ j <= Len(us) => m = low
    /\ j > Len(us) =>
         IF low + (j - Len(us)) <= high + 1 THEN m = low + (j - Len(us)) ELSE m > high
UsageOf(us, low, high, k) ==
    IF k <= Len(us) THEN us[k]
    ELSE IF low + k - 1 - Len(us) <= high THEN low + k - 1 - Len(us) ELSE 0

LEMMA LeftFirst ==
    ASSUME NEW us \in Seq(Nat), NEW low \in Nat, NEW high \in Nat
    PROVE  Left(us, low, high, 0, us, low)
<1>1. Len(us) \in Nat /\ \A i \in 1 .. Len(us) : us[i] = us[0 + i]
  OBVIOUS
<1> DEFINE n == Len(us)
<1>2. (IF 0 <= n THEN n - 0 ELSE 0) = n /\ 0 <= n
  <2> HIDE DEF n
  <2>1. n \in Nat
    BY Zenon, <1>1 DEF n
  <2> QED
    BY <2>1
<1> QED
  BY <1>1, <1>2 DEF Left

LEMMA LeftNext ==
    ASSUME NEW us \in Seq(Nat), NEW low \in Nat, NEW high \in Nat, NEW j \in Nat,
           NEW u, NEW m, Left(us, low, high, j, u, m),
           NEW v, v = IF u # <<>> THEN Tail(u) ELSE u,
           NEW l, l = IF u = <<>> /\ m <= high THEN m + 1 ELSE m
    PROVE  Left(us, low, high, j + 1, v, l)
<1> DEFINE n == Len(us)
<1>1. /\ u \in Seq(Nat) /\ m \in Nat /\ n \in Nat
      /\ Len(u) = IF j <= n THEN n - j ELSE 0
      /\ \A i \in 1 .. Len(u) : u[i] = us[j + i]
      /\ j <= n => m = low
      /\ j > n => IF low + (j - n) <= high + 1 THEN m = low + (j - n) ELSE m > high
  <2>1. n \in Nat
    OBVIOUS
  <2> QED
    BY Zenon, <2>1 DEF Left
<1>2. CASE u # <<>>
  <2>1. Len(u) \in Nat /\ Len(u) # 0 /\ v \in Seq(Nat) /\ Len(v) = Len(u) - 1 /\ l = m
        /\ \A i \in 1 .. Len(v) : v[i] = u[i + 1]
    BY <1>1, <1>2
  <2>2. j < n /\ Len(u) = n - j
    <3> DEFINE x == Len(u)
    <3> HIDE DEF x, n
    <3>1. x \in Nat /\ x # 0 /\ x = IF j <= n THEN n - j ELSE 0
      BY Zenon, <1>1, <2>1 DEF x
    <3>2. j < n /\ x = n - j
      BY <1>1, <3>1
    <3> QED
      BY Zenon, <3>2 DEF x
  <2>3. ASSUME NEW i \in 1 .. Len(v) PROVE v[i] = us[(j + 1) + i]
    <3>1. i + 1 \in 1 .. Len(u) /\ j + (i + 1) = (j + 1) + i
      BY <2>1
    <3> QED
      BY Zenon, <1>1, <2>1, <3>1
  <2>4. j + 1 <= n /\ Len(v) = n - (j + 1) /\ ~ (j + 1 > n) /\ j <= n
    <3> DEFINE x == Len(u)
               y == Len(v)
    <3>1. x \in Nat /\ y = x - 1 /\ j < n /\ x = n - j
      BY Zenon, <2>1, <2>2 DEF x
    <3> HIDE DEF x, y, n
    <3>2. j + 1 <= n /\ y = n - (j + 1) /\ ~ (j + 1 > n) /\ j <= n
      BY <1>1, <3>1
    <3> QED
      BY Zenon, <3>2 DEF y
  <2>5. m = low
    BY Zenon, <1>1, <2>4
  <2> HIDE DEF n
  <2>6. /\ j + 1 <= n => l = low
        /\ j + 1 > n => IF low + ((j + 1) - n) <= high + 1 THEN l = low + ((j + 1) - n) ELSE l > high
    BY Zenon, <2>1, <2>4, <2>5
  <2> QED
    BY Zenon, <1>1, <2>1, <2>3, <2>4, <2>6 DEF Left, n
<1>3. CASE u = <<>>
  <2>1. Len(u) = 0 /\ v = u /\ v \in Seq(Nat) /\ l = IF m <= high THEN m + 1 ELSE m
    BY <1>1, <1>3
  <2> DEFINE x == Len(u)
  <2>2. x = 0 /\ x = IF j <= n THEN n - j ELSE 0
    BY Zenon, <1>1, <2>1
  <2> HIDE DEF x, n
  <2>3. j >= n /\ j + 1 > n /\ ~ (j + 1 <= n)
    BY <1>1, <2>2
  <2>4. l \in Nat /\ IF low + ((j + 1) - n) <= high + 1 THEN l = low + ((j + 1) - n) ELSE l > high
    <3>1. m \in Nat /\ n \in Nat /\ (j <= n => m = low)
          /\ (j > n => IF low + (j - n) <= high + 1 THEN m = low + (j - n) ELSE m > high)
      BY Zenon, <1>1
    <3>2. l = IF m <= high THEN m + 1 ELSE m
      BY Zenon, <2>1
    <3> QED
      BY <2>3, <3>1, <3>2
  <2>5. Len(v) = 0 /\ \A i \in 1 .. Len(v) : FALSE
    BY <2>1
  <2> QED
    BY Zenon, <2>1, <2>3, <2>4, <2>5 DEF Left, n
<1> QED
  BY Zenon, <1>2, <1>3

LEMMA LeftUsage ==
    ASSUME NEW us \in Seq(Nat), NEW low \in Nat, NEW high \in Nat, NEW j \in Nat,
           NEW s, Left(us, low, high, j, s.usages, s.min), s.max = high
    PROVE  Parser!NextUsage(s) = UsageOf(us, low, high, j + 1)
<1> DEFINE n == Len(us)
           u == s.usages
           m == s.min
           x == Len(u)
<1>1. /\ u \in Seq(Nat) /\ m \in Nat /\ n \in Nat
      /\ x = IF j <= n THEN n - j ELSE 0
      /\ \A i \in 1 .. x : u[i] = us[j + i]
      /\ j <= n => m = low
      /\ j > n => IF low + (j - n) <= high + 1 THEN m = low + (j - n) ELSE m > high
  <2>1. n \in Nat
    OBVIOUS
  <2> QED
    BY Zenon, <2>1 DEF Left
<1>2. CASE u # <<>>
  <2>1. Parser!NextUsage(s) = u[1] /\ x \in Nat /\ x # 0 /\ 1 \in 1 .. x
    <3>1. Parser!NextUsage(s) = Head(u)
      BY Zenon, <1>2 DEF Parser!NextUsage
    <3> HIDE DEF u
    <3>2. Head(u) = u[1] /\ Len(u) \in Nat /\ Len(u) # 0
      BY <1>1, <1>2
    <3>3. 1 \in 1 .. Len(u)
      BY <3>2
    <3> QED
      BY Zenon, <3>1, <3>2, <3>3
  <2> HIDE DEF x, n, u, m
  <2>2. j + 1 <= n
    BY <1>1, <2>1
  <2>3. u[1] = us[j + 1]
    BY Zenon, <1>1, <2>1
  <2> QED
    BY Zenon, <2>1, <2>2, <2>3 DEF UsageOf, n
<1>3. CASE u = <<>>
  <2>1. Parser!NextUsage(s) = IF m <= high THEN m ELSE 0
    BY Zenon, <1>3 DEF Parser!NextUsage
  <2>2. x = 0
    BY <1>3
  <2> HIDE DEF x, n, u, m
  <2>3. j >= n /\ ~ (j + 1 <= n)
    BY <1>1, <2>2
  <2>4. (IF m <= high THEN m ELSE 0) = IF low + (j + 1) - 1 - n <= high THEN low + (j + 1) - 1 - n ELSE 0
    BY <1>1, <2>3
  <2> QED
    BY Zenon, <2>1, <2>3, <2>4 DEF UsageOf, n
<1> QED
  BY Zenon, <1>2, <1>3

\* The fields of an item as a fold over their count.
Running == {q \in ParserStates : Bounded(q) /\ q.result \in {"parsing"} \cup Errors}
FoldedFields(s, seq, type, constant) ==
    CHOOSE iter : iter =
      [S \in SUBSET DOMAIN seq |->
         IF S = {} THEN s ELSE Parser!Field(iter[S \ {GreatestIn(S)}], type, constant)]

LEMMA FoldedFieldsAre ==
    ASSUME NEW s \in Running, NEW n \in Nat, NEW seq, DOMAIN seq = 1 .. n,
           NEW type \in Parser!Types, NEW constant \in BOOLEAN,
           NEW it, it = FoldedFields(s, seq, type, constant)
    PROVE  /\ it[1 .. 0] = s
           /\ \A j \in 0 .. n : it[1 .. j] \in Running
           /\ \A j \in 0 .. n - 1 : it[1 .. j + 1] = Parser!Field(it[1 .. j], type, constant)
<1> DEFINE step == [q \in (1 .. n) \X Running |-> Parser!Field(q[2], type, constant)]
<1>1. \A q \in Running : Parser!Field(q, type, constant) \in Running
  BY Zenon, FieldTyped DEF Running, Typed
<1>2. step \in [(1 .. n) \X Running -> Running]
      /\ \A j \in 1 .. n, q \in Running : step[<<j, q>>] = Parser!Field(q, type, constant)
  BY <1>1
<1> HIDE DEF step
<1>3. PICK h : Folds(n, Running, s, step, h)
  BY <1>2, FoldExists
<1>4. h = [S \in SUBSET DOMAIN seq |->
             IF S = {} THEN s ELSE Parser!Field(h[S \ {GreatestIn(S)}], type, constant)]
  <2>1. ASSUME NEW S \in SUBSET (1 .. n)
        PROVE  h[S] = IF S = {} THEN s ELSE Parser!Field(h[S \ {GreatestIn(S)}], type, constant)
    <3>1. CASE S = {}
      BY <1>3, <3>1 DEF Folds
    <3>2. CASE S # {}
      <4>1. GreatestIn(S) \in 1 .. n
        BY <3>2, GreatestOf
      <4>2. h[S \ {GreatestIn(S)}] \in Running
        BY <1>3 DEF Folds
      <4>3. h[S] = step[<<GreatestIn(S), h[S \ {GreatestIn(S)}]>>]
        BY <1>3, <3>2 DEF Folds
      <4> QED
        BY Zenon, <1>2, <3>2, <4>1, <4>2, <4>3
    <3> QED
      BY <3>1, <3>2
  <2>2. h \in [SUBSET (1 .. n) -> Running]
    BY Zenon, <1>3 DEF Folds
  <2> QED
    BY <2>1, <2>2
<1>5. it = [S \in SUBSET DOMAIN seq |->
              IF S = {} THEN s ELSE Parser!Field(it[S \ {GreatestIn(S)}], type, constant)]
  <2> DEFINE P(g) == g = [S \in SUBSET DOMAIN seq |->
                            IF S = {} THEN s ELSE Parser!Field(g[S \ {GreatestIn(S)}], type, constant)]
  <2>1. it = CHOOSE g : P(g)
    BY Zenon DEF FoldedFields
  <2>2. \E g : P(g)
    BY Zenon, <1>4
  <2> HIDE DEF P
  <2>3. P(it)
    BY Zenon, <2>1, <2>2
  <2> QED
    BY Zenon, <2>3 DEF P
<1>6. it[1 .. 0] = s
  <2>1. 1 .. 0 = {} /\ {} \in SUBSET (1 .. n)
    OBVIOUS
  <2> QED
    BY Zenon, <1>5, <2>1
<1>7. ASSUME NEW j \in 0 .. n - 1 PROVE it[1 .. j + 1] = Parser!Field(it[1 .. j], type, constant)
  <2>1. j + 1 \in 1 .. n /\ j \in Nat /\ (j + 1) - 1 = j
    OBVIOUS
  <2>2. 1 .. j + 1 \in SUBSET (1 .. n) /\ 1 .. j + 1 # {} /\ GreatestIn(1 .. j + 1) = j + 1
        /\ (1 .. j + 1) \ {j + 1} = 1 .. (j + 1) - 1
    BY <2>1, FirstPlaces
  <2>3. 1 .. j + 1 \in SUBSET DOMAIN seq
    BY Zenon, <2>2
  <2>4. it[1 .. j + 1] =
          IF 1 .. j + 1 = {} THEN s
          ELSE Parser!Field(it[(1 .. j + 1) \ {GreatestIn(1 .. j + 1)}], type, constant)
    BY Zenon, <1>5, <2>3
  <2> QED
    BY Zenon, <2>1, <2>2, <2>4
<1>8. \A j \in 0 .. n : it[1 .. j] \in Running
  <2> DEFINE G == {j \in 0 .. n : it[1 .. j] \in Running}
  <2>1. 0 \in G
    <3>1. 0 \in 0 .. n
      OBVIOUS
    <3> QED
      BY Zenon, <1>6, <3>1
  <2>2. ASSUME NEW j \in 0 .. n - 1, j \in G PROVE j + 1 \in G
    <3>1. j + 1 \in 0 .. n
      OBVIOUS
    <3> QED
      BY Zenon, <1>1, <1>7, <2>2, <3>1
  <2> HIDE DEF G
  <2>3. \A j \in 0 .. n : j \in G
    BY <2>1, <2>2, UpTo
  <2> QED
    BY Zenon, <2>3 DEF G
<1> QED
  BY Zenon, <1>6, <1>7, <1>8

LEMMA OneLonger ==
    ASSUME NEW S, NEW a \in Seq(S), NEW d \in Seq(S), NEW j \in 0 .. Len(d) - 1
    PROVE  Appends(a \o SubSeq(d, 1, j + 1), a \o SubSeq(d, 1, j), d[j + 1])
<1> DEFINE b == SubSeq(d, 1, j)
           c == SubSeq(d, 1, j + 1)
           y == d[j + 1]
<1>1. y \in S /\ b \in Seq(S) /\ <<y>> \in Seq(S) /\ a \o b \in Seq(S)
  <2>1. j + 1 \in 1 .. Len(d)
    OBVIOUS
  <2>2. y \in S
    BY <2>1, Elements
  <2>3. b \in Seq(S)
    OBVIOUS
  <2> HIDE DEF b, y
  <2>4. a \o b \in Seq(S)
    BY Zenon, <2>3, ConcatProperties
  <2> QED
    BY <2>2, <2>3, <2>4
<1>2. c = b \o <<y>>
  <2>1. SubSeq(d, j + 1, j + 1) = <<y>>
    <3> DEFINE v == SubSeq(d, j + 1, j + 1)
    <3>0. Len(d) \in Nat /\ j \in 0 .. Len(d) - 1
      OBVIOUS
    <3>1. v \in Seq(S) /\ Len(v) = 1 /\ v[1] = y
      <4>1. v \in Seq(S)
        OBVIOUS
      <4>2. Len(v) = (j + 1) - (j + 1) + 1 /\ v[1] = d[(j + 1) + 1 - 1]
        OBVIOUS
      <4>3. (j + 1) - (j + 1) + 1 = 1 /\ (j + 1) + 1 - 1 = j + 1
        OBVIOUS
      <4> HIDE DEF v
      <4> QED
        BY Zenon, <4>1, <4>2, <4>3
    <3> HIDE DEF v
    <3>2. Len(<<y>>) = 1 /\ <<y>>[1] = y /\ \A i \in 1 .. 1 : i = 1
      OBVIOUS
    <3>3. v = <<y>>
      BY <1>1, <3>1, <3>2, SeqEqual
    <3> QED
      BY Zenon, <3>3 DEF v
  <2>2. SubSeq(d, 1, j) \o SubSeq(d, j + 1, j + 1) = SubSeq(d, 1, j + 1)
    <3>1. 1 \in 1 .. Len(d) + 1 /\ j \in 1 - 1 .. Len(d) /\ j + 1 \in j .. Len(d)
      OBVIOUS
    <3> QED
      BY <3>1, ConcatAdjacentSubSeq
  <2> QED
    BY Zenon, <2>1, <2>2
<1> HIDE DEF b, c, y
<1>3. a \o c = (a \o b) \o <<y>>
  <2> DEFINE l == <<y>>
  <2>1. b \in Seq(S) /\ l \in Seq(S) /\ c = b \o l
    BY Zenon, <1>1, <1>2
  <2> HIDE DEF l
  <2>2. (a \o b) \o l = a \o (b \o l)
    BY <2>1, ConcatAssociative
  <2> QED
    BY Zenon, <2>1, <2>2 DEF l
<1>4. Append(a \o b, y) = (a \o b) \o <<y>>
  BY Zenon, <1>1, AppendIsConcat
<1> QED
  BY Zenon, <1>3, <1>4 DEF Appends, b, c, y

LEMMA UsageOfIs ==
    ASSUME NEW us \in Seq(Nat), NEW low \in Nat, NEW high \in Nat, NEW k \in Nat \ {0}
    PROVE  UsageOf(us, low, high, k) \in Nat
<1>1. k <= Len(us) => us[k] \in Nat
  OBVIOUS
<1> DEFINE n == Len(us)
<1>2. n \in Nat
  OBVIOUS
<1> HIDE DEF n
<1>3. k > n => low + k - 1 - n \in Nat
  BY <1>2
<1>4. k <= n \/ k > n
  BY <1>2
<1> QED
  BY Zenon, <1>1, <1>3, <1>4 DEF UsageOf, n

LEMMA DeclaredIs ==
    ASSUME open \in Seq(Uses), NEW s, Typed(s), NEW item \in ShortItems, item.op \in Parser!Types,
           NEW d, d = Parser!Declared(s, item)
    PROVE  /\ d \in Seq(Declarations) /\ Len(d) = Parser!Table(s).count /\ Len(d) \in Nat
           /\ \A k \in 1 .. Len(d) :
                /\ d[k] \in Declarations
                /\ d[k].id = Parser!Table(s).id /\ d[k].type = item.op /\ d[k].size = Parser!Table(s).size
                /\ d[k].page = Parser!Table(s).page /\ d[k].constant = item.constant
                /\ d[k].usage = UsageOf(s.usages, s.min, s.max, k) /\ d[k].within = open
<1> DEFINE t == Parser!Table(s)
           f(k) == [id |-> t.id, type |-> item.op, size |-> t.size, page |-> t.page,
                    usage |-> UsageOf(s.usages, s.min, s.max, k), constant |-> item.constant,
                    within |-> open]
<1>1. d = [k \in 1 .. t.count |-> f(k)]
  BY Zenon DEF Parser!Declared, UsageOf
<1>2. t \in Rows /\ s.usages \in Seq(Nat) /\ s.min \in Nat /\ s.max \in Nat /\ item.constant \in BOOLEAN
  BY Zenon, TableIs, StateFields, ItemFields DEF Typed
<1> HIDE DEF t
<1>3. t.count \in Nat /\ t.id \in Nat /\ t.size \in Nat /\ t.page \in Nat
  BY <1>2 DEF Rows
<1>4. ASSUME NEW k \in 1 .. t.count
      PROVE  /\ f(k) \in Declarations
             /\ f(k).id = t.id /\ f(k).type = item.op /\ f(k).size = t.size
             /\ f(k).page = t.page /\ f(k).constant = item.constant
             /\ f(k).usage = UsageOf(s.usages, s.min, s.max, k) /\ f(k).within = open
  <2> DEFINE u == UsageOf(s.usages, s.min, s.max, k)
  <2>1. u \in Nat
    <3>1. k \in Nat \ {0}
      BY <1>3
    <3> QED
      BY Zenon, <1>2, <3>1, UsageOfIs
  <2> HIDE DEF u
  <2>2. /\ [id |-> t.id, type |-> item.op, size |-> t.size, page |-> t.page,
            usage |-> u, constant |-> item.constant, within |-> open] \in Declarations
    BY <1>2, <1>3, <2>1 DEF Declarations
  <2>3. /\ f(k).id = t.id /\ f(k).type = item.op /\ f(k).size = t.size
        /\ f(k).page = t.page /\ f(k).constant = item.constant
        /\ f(k).usage = u /\ f(k).within = open
    BY DEF u
  <2> QED
    BY Zenon, <2>2, <2>3 DEF u
<1>7. \A k \in 1 .. t.count :
        /\ f(k) \in Declarations
        /\ f(k).id = t.id /\ f(k).type = item.op /\ f(k).size = t.size
        /\ f(k).page = t.page /\ f(k).constant = item.constant
        /\ f(k).usage = UsageOf(s.usages, s.min, s.max, k) /\ f(k).within = open
  BY Zenon, <1>4
<1> HIDE DEF f
<1>5. d \in Seq(Declarations) /\ Len(d) = t.count /\ DOMAIN d = 1 .. t.count
  <2> DEFINE n == t.count
  <2>1. n \in Nat
    BY Zenon, <1>3
  <2>2. d = [k \in 1 .. n |-> f(k)]
    BY Zenon, <1>1
  <2>3. \A k \in 1 .. n : f(k) \in Declarations
    BY Zenon, <1>4
  <2> HIDE DEF n
  <2>4. d \in [1 .. n -> Declarations]
    BY <2>2, <2>3
  <2>5. d \in Seq(Declarations)
    BY Zenon, <2>1, <2>4, SeqDef
  <2>6. Len(d) = n /\ DOMAIN d = 1 .. n
    BY <2>1, <2>4, <2>5
  <2> QED
    BY Zenon, <2>5, <2>6 DEF n
<1>6. \A k \in 1 .. t.count : d[k] = f(k)
  BY <1>1
<1>8. \A k \in 1 .. t.count :
        /\ d[k] \in Declarations
        /\ d[k].id = t.id /\ d[k].type = item.op /\ d[k].size = t.size
        /\ d[k].page = t.page /\ d[k].constant = item.constant
        /\ d[k].usage = UsageOf(s.usages, s.min, s.max, k) /\ d[k].within = open
  BY Zenon, <1>6, <1>7
<1> QED
  BY Zenon, <1>3, <1>5, <1>8 DEF t

\* After j of the fields that an item declares.
Along(q, s, j, fs, d, restored) ==
    /\ q \in Running
    /\ q.result = "parsing" =>
         /\ Right(q, open, fs \o SubSeq(d, 1, j), restored)
         /\ Parser!Table(q) = Parser!Table(s) /\ q.usingIds = s.usingIds /\ q.max = s.max
         /\ Left(s.usages, s.min, s.max, j, q.usages, q.min)

LEMMA AlongNext ==
    ASSUME open \in Seq(Uses), NEW s, Typed(s), NEW item \in ShortItems, item.op \in Parser!Types,
           NEW fs \in Seq(Declarations), NEW restored \in BOOLEAN,
           NEW d, d = Parser!Declared(s, item), NEW j \in 0 .. Len(d) - 1,
           NEW q, Along(q, s, j, fs, d, restored),
           NEW r, r = Parser!Field(q, item.op, item.constant), r \in Running
    PROVE  Along(r, s, j + 1, fs, d, restored)
<1> DEFINE f == d[j + 1]
           gs == fs \o SubSeq(d, 1, j)
           hs == fs \o SubSeq(d, 1, j + 1)
<1>1. j \in Nat /\ j + 1 \in 1 .. Len(d) /\ d \in Seq(Declarations)
  <2>1. d \in Seq(Declarations) /\ Len(d) \in Nat
    BY Zenon, DeclaredIs
  <2> QED
    BY <2>1
<1>2. /\ f \in Declarations
      /\ f.id = Parser!Table(s).id /\ f.type = item.op /\ f.size = Parser!Table(s).size
      /\ f.page = Parser!Table(s).page /\ f.constant = item.constant
      /\ f.usage = UsageOf(s.usages, s.min, s.max, j + 1) /\ f.within = open
  <2>1. \A k \in 1 .. Len(d) :
          /\ d[k] \in Declarations
          /\ d[k].id = Parser!Table(s).id /\ d[k].type = item.op /\ d[k].size = Parser!Table(s).size
          /\ d[k].page = Parser!Table(s).page /\ d[k].constant = item.constant
          /\ d[k].usage = UsageOf(s.usages, s.min, s.max, k) /\ d[k].within = open
    BY DeclaredIs
  <2> QED
    BY Zenon, <1>1, <2>1
<1>3. Appends(hs, gs, f)
  BY <1>1, OneLonger
<1>4. gs \in Seq(Declarations)
  <2>1. SubSeq(d, 1, j) \in Seq(Declarations)
    BY <1>1
  <2> HIDE DEF gs
  <2> DEFINE b == SubSeq(d, 1, j)
  <2>2. b \in Seq(Declarations)
    BY Zenon, <2>1
  <2> HIDE DEF b
  <2>3. fs \o b \in Seq(Declarations)
    BY <2>2
  <2> QED
    BY Zenon, <2>3 DEF gs, b
<1> HIDE DEF f, gs, hs
<1>5. q \in Running /\ Typed(q)
  BY Zenon DEF Along, Running, Typed
<1>6. CASE r.result # "parsing"
  BY Zenon, <1>6 DEF Along
<1>7. CASE r.result = "parsing"
  <2>1. q.result = "parsing"
    BY Zenon, <1>5, <1>7, FieldFails DEF Running
  <2>2. /\ Right(q, open, gs, restored) /\ Parser!Table(q) = Parser!Table(s)
        /\ q.usingIds = s.usingIds /\ q.max = s.max
        /\ Left(s.usages, s.min, s.max, j, q.usages, q.min)
    BY Zenon, <2>1 DEF Along, gs
  <2>3. s.usages \in Seq(Nat) /\ s.min \in Nat /\ s.max \in Nat
    BY Zenon, StateFields DEF Typed
  <2>4. Parser!NextUsage(q) = UsageOf(s.usages, s.min, s.max, j + 1)
    BY <1>1, <2>2, <2>3, LeftUsage
  <2>5. Comes(f, q, item.op, open)
    BY Zenon, <1>2, <2>2, <2>4 DEF Comes
  <2>6. r = Parser!Field(q, item.op, f.constant)
    BY Zenon, <1>2
  <2>7. After(r, q, open, hs, restored)
    BY Zenon, <1>3, <1>4, <1>5, <2>1, <2>2, <2>5, <2>6, FieldStep
  <2>8. /\ Right(r, open, hs, restored) /\ Parser!Table(r) = Parser!Table(s)
        /\ r.usingIds = s.usingIds /\ r.max = s.max
        /\ r.usages = UsagesLeft(q) /\ r.min = MinLeft(q)
    BY Zenon, <1>7, <2>2, <2>7 DEF After
  <2>9. Left(s.usages, s.min, s.max, j + 1, r.usages, r.min)
    <3>1. /\ r.usages = IF q.usages # <<>> THEN Tail(q.usages) ELSE q.usages
          /\ r.min = IF q.usages = <<>> /\ q.min <= s.max THEN q.min + 1 ELSE q.min
      BY Zenon, <2>2, <2>8 DEF UsagesLeft, MinLeft
    <3> QED
      BY Zenon, <1>1, <2>2, <2>3, <3>1, LeftNext
  <2> QED
    BY Zenon, <2>8, <2>9 DEF Along, hs
<1> QED
  BY Zenon, <1>6, <1>7

LEMMA MainStep ==
    ASSUME open \in Seq(Uses), NEW s, Typed(s), s.result = "parsing",
           NEW item \in ShortItems, item.op \in Parser!Types,
           NEW fs \in Seq(Declarations), NEW restored \in BOOLEAN, Right(s, open, fs, restored),
           NEW d, d = Parser!Declared(s, item), NEW r, r = Parser!Main(s, item)
    PROVE  /\ Typed(r) /\ r.result \in {"parsing"} \cup Errors
           /\ r.result = "parsing" =>
                /\ Right(r, open, fs \o d, restored)
                /\ Parser!Table(r) = Parser!Table(s) /\ r.usingIds = s.usingIds
<1> DEFINE n == Parser!Table(s).count
           seq == [k \in 1 .. n |-> k]
           it == FoldedFields(s, seq, item.op, item.constant)
<1>1. r = it[DOMAIN seq]
  BY DEF Parser!Main, Parser!FoldLeft, Parser!MapThenFoldSet, Parser!Max, GreatestIn, FoldedFields
<1>2. n \in Nat /\ Len(d) = n /\ d \in Seq(Declarations) /\ item.constant \in BOOLEAN /\ s \in Running
  BY Zenon, DeclaredIs, ItemFields DEF Running, Typed
<1>3. DOMAIN seq = 1 .. n
  OBVIOUS
<1> HIDE DEF n, seq
<1>4. /\ it[1 .. 0] = s
      /\ \A j \in 0 .. n : it[1 .. j] \in Running
      /\ \A j \in 0 .. n - 1 : it[1 .. j + 1] = Parser!Field(it[1 .. j], item.op, item.constant)
  BY <1>2, <1>3, FoldedFieldsAre
<1> HIDE DEF it
<1> DEFINE G == {j \in 0 .. n : Along(it[1 .. j], s, j, fs, d, restored)}
<1>5. 0 \in G
  <2>1. 0 \in 0 .. n
    BY <1>2
  <2>2. fs \o SubSeq(d, 1, 0) = fs
    <3>1. SubSeq(d, 1, 0) = <<>>
      BY <1>2
    <3>2. fs \o <<>> = fs
      BY ConcatEmptySeq
    <3> QED
      BY Zenon, <3>1, <3>2
  <2>3. Left(s.usages, s.min, s.max, 0, s.usages, s.min)
    BY Zenon, LeftFirst, StateFields DEF Typed
  <2>4. Along(s, s, 0, fs, d, restored)
    BY Zenon, <1>2, <2>2, <2>3 DEF Along
  <2> QED
    BY Zenon, <1>4, <2>1, <2>4
<1>6. ASSUME NEW j \in 0 .. n - 1, j \in G PROVE j + 1 \in G
  <2>1. j + 1 \in 0 .. n /\ j \in 0 .. Len(d) - 1
    BY <1>2
  <2>2. Along(it[1 .. j + 1], s, j + 1, fs, d, restored)
    <3> DEFINE q == it[1 .. j]
               x == it[1 .. j + 1]
    <3>1. Along(q, s, j, fs, d, restored) /\ x = Parser!Field(q, item.op, item.constant) /\ x \in Running
      BY Zenon, <1>4, <1>6, <2>1
    <3> HIDE DEF q, x, G
    <3>2. Along(x, s, j + 1, fs, d, restored)
      BY <2>1, <3>1, AlongNext
    <3> QED
      BY Zenon, <3>2 DEF x
  <2> QED
    BY Zenon, <2>1, <2>2
<1> HIDE DEF G
<1>7. n \in G
  <2>1. \A j \in 0 .. n : j \in G
    BY <1>2, <1>5, <1>6, UpTo
  <2> QED
    BY <1>2, <2>1
<1>8. Along(r, s, n, fs, d, restored)
  BY Zenon, <1>1, <1>3, <1>7 DEF G
<1>9. SubSeq(d, 1, n) = d
  BY <1>2
<1> QED
  BY Zenon, <1>8, <1>9 DEF Along, Running, Typed

-------------------------------------------------------------------------------
(* One item of the descriptor. *)

LEMMA NestsRight ==
    ASSUME NEW s, NEW r, NEW o, NEW q, NEW fs, NEW restored, Nests(r, s, q),
           Stands(s, o, fs, restored), r.result = "parsing"
    PROVE  Right(r, q, fs, restored)
<1>1. SameReports(r, s) /\ Parser!Table(r) = Parser!Table(s) /\ PathsWell(r) /\ NestedAs(r, q)
  BY Zenon DEF Nests
<1>2. ReportsWell(r) /\ FilterWell(r, fs)
  BY Zenon, <1>1 DEF Stands, Right, ReportsWell, FilterWell, SameReports
<1>3. ASSUME ~ restored PROVE Counted(r, fs) /\ Inside(r) /\ FoundAll(r, fs)
  <2>1. Counted(s, fs) /\ Inside(s) /\ FoundAll(s, fs)
    BY Zenon, <1>3 DEF Stands, Right
  <2>2. Counted(r, fs)
    BY Zenon, <1>1, <2>1 DEF Counted, SameReports
  <2>3. r.items = s.items /\ r.sizes = s.sizes
    BY Zenon, <1>1 DEF SameReports
  <2>4. Inside(r) /\ FoundAll(r, fs)
    BY Zenon, <2>1, <2>3, SameItems
  <2> QED
    BY Zenon, <2>2, <2>4
<1> QED
  BY Zenon, <1>1, <1>2, <1>3 DEF Right

\* What the parser has made of an item, and what a reader has.
Understood(r, s, item, o, fs, restored) ==
    /\ Typed(r) /\ r.result \in {"parsing"} \cup Errors /\ o \in Seq(Uses) /\ fs \in Seq(Declarations)
    /\ r.result = "parsing" =>
         /\ Right(r, o, fs, restored)
         /\ r.usingIds \/ (r.usingIds = s.usingIds /\ item.op # "id")

\* The step of each kind of item, with s for the state of the parser.
Reads(s, item, fs, restored) ==
    item \in ShortItems /\ open \in Seq(Uses) /\ Stands(s, open, fs, restored)

Restores(restored, after, r, s, item) ==
    /\ after \in BOOLEAN
    /\ restored \/ (item.op = "pop" /\ Parser!Table(r).id # Parser!Table(s).id) => after
LEMMA QuietRead ==
    ASSUME NEW s, NEW item, NEW fs, NEW restored, Reads(s, item, fs, restored), item.op \in Quiet,
           NEW r, r = Parser!Parsed(s, item),
           NEW after, Restores(restored, after, r, s, item)
    PROVE  Understood(r, s, item, open, fs, after)
<1>1. /\ Typed(s) /\ s \in ParserStates /\ s.result = "parsing" /\ item \in ShortItems
      /\ open \in Seq(Uses) /\ fs \in Seq(Declarations) /\ restored \in BOOLEAN
      /\ Right(s, open, fs, restored)
  BY Zenon DEF Reads, Stands, Typed
<1>6. /\ after \in BOOLEAN
      /\ restored \/ (item.op = "pop" /\ Parser!Table(r).id # Parser!Table(s).id) => after
  BY Zenon DEF Restores
<1>2. /\ Steps(r, s)
      /\ r.result = "parsing" /\ item.op # "pop" => Parser!Table(r).id = Parser!Table(s).id
  BY <1>1, QuietStep
<1>3. item.op # "id"
  BY DEF Quiet
<1>4. /\ Typed(r) /\ r \in ParserStates /\ SamePaths(r, s) /\ SameReports(r, s)
      /\ r.result \in {"parsing"} \cup Errors /\ r.usingIds = s.usingIds
  BY Zenon, <1>2 DEF Steps, Typed, SameReports
<1>5. r.result = "parsing" => Right(r, open, fs, after)
  <2>1. SUFFICES ASSUME r.result = "parsing" PROVE Right(r, open, fs, after)
    BY Zenon
  <2>2. restored \/ Parser!Table(r).id # Parser!Table(s).id => after
    BY Zenon, <1>2, <1>6, <2>1
  <2> QED
    BY Zenon, <1>1, <1>4, <1>6, <2>2, Kept DEF Keeps
<1> QED
  BY Zenon, <1>1, <1>3, <1>4, <1>5 DEF Understood

\* Locals are forgotten after a main item.
Forgets(q, o, fs, restored) ==
    /\ Typed(q) /\ q.result \in {"parsing"} \cup Errors /\ restored \in BOOLEAN
    /\ q.result = "parsing" => Right(q, o, fs, restored)
LEMMA Forgotten ==
    ASSUME NEW q, NEW o, NEW fs, NEW restored, Forgets(q, o, fs, restored),
           NEW r, r = Parser!Locals(q)
    PROVE  /\ Typed(r) /\ r.result \in {"parsing"} \cup Errors /\ r.usingIds = q.usingIds
           /\ r.result = "parsing" => Right(r, o, fs, restored)
<1>0. /\ Typed(q) /\ q.result \in {"parsing"} \cup Errors /\ restored \in BOOLEAN
      /\ q.result = "parsing" => Right(q, o, fs, restored)
  BY Zenon DEF Forgets
<1>1. Steps(r, q) /\ Parser!Table(r) = Parser!Table(q) /\ r.result = q.result
  BY <1>0, ForgetStep
<1>2. /\ r \in ParserStates /\ q \in ParserStates /\ SamePaths(r, q) /\ SameReports(r, q) /\ Typed(r)
      /\ r.usingIds = q.usingIds
  BY Zenon, <1>0, <1>1 DEF Steps, Typed, SameReports
<1>3. restored \/ Parser!Table(r).id # Parser!Table(q).id => restored
  BY Zenon, <1>1
<1>4. r.result = "parsing" => Right(r, o, fs, restored)
  <2>1. SUFFICES ASSUME Right(q, o, fs, restored) PROVE Right(r, o, fs, restored)
    BY Zenon, <1>0, <1>1
  <2> QED
    BY Zenon, <1>0, <1>2, <1>3, <2>1, Kept DEF Keeps
<1> QED
  BY Zenon, <1>0, <1>1, <1>2, <1>4

LEMMA CollectionRead ==
    ASSUME NEW s, NEW item, NEW fs, NEW restored, Reads(s, item, fs, restored), item.op = "collection",
           NEW r, r = Parser!Parsed(s, item),
           NEW o, o = Append(open, [page |-> Parser!Table(s).page, usage |-> Parser!NextUsage(s)])
    PROVE  Understood(r, s, item, o, fs, restored)
<1> DEFINE q == Parser!Collection(s)
           use == [page |-> Parser!Table(s).page, usage |-> Parser!NextUsage(s)]
<1>1. /\ Typed(s) /\ s \in ParserStates /\ s.result = "parsing"
      /\ open \in Seq(Uses) /\ fs \in Seq(Declarations) /\ restored \in BOOLEAN
      /\ Right(s, open, fs, restored) /\ PathsWell(s) /\ NestedAs(s, open)
  BY Zenon DEF Reads, Stands, Typed, Right
<1>2. r = Parser!Locals(q)
  BY Zenon, Dispatch
<1>3. Nests(q, s, Append(open, use)) /\ use \in Uses
  <2> HIDE DEF q, use
  <2>1. q = Parser!Collection(s) /\ use = [page |-> Parser!Table(s).page, usage |-> Parser!NextUsage(s)]
    BY Zenon DEF q, use
  <2> QED
    BY <1>1, <2>1, CollectionStep
<1> HIDE DEF q
<1>4. Nests(q, s, o) /\ o = Append(open, use)
  BY Zenon, <1>3
<1> HIDE DEF use
<1>5. o \in Seq(Uses)
  BY <1>1, <1>3, <1>4
<1>6. /\ Typed(q) /\ q.result \in {"parsing"} \cup Errors
      /\ q.result = "parsing" => q.usingIds = s.usingIds
  BY Zenon, <1>4 DEF Nests, SameReports
<1>7. q.result = "parsing" => Right(q, o, fs, restored)
  BY Zenon, <1>1, <1>4, NestsRight DEF Stands
<1>8. /\ Typed(r) /\ r.result \in {"parsing"} \cup Errors /\ r.usingIds = q.usingIds
      /\ r.result = "parsing" => Right(r, o, fs, restored)
      /\ r.result = q.result
  <2>1. /\ Typed(r) /\ r.result \in {"parsing"} \cup Errors /\ r.usingIds = q.usingIds
        /\ r.result = "parsing" => Right(r, o, fs, restored)
    <3>1. Forgets(q, o, fs, restored)
      BY Zenon, <1>1, <1>6, <1>7 DEF Forgets
    <3> QED
      BY <1>2, <3>1, Forgotten
  <2>2. r.result = q.result
    BY Zenon, <1>2, <1>6, ForgetStep
  <2> QED
    BY Zenon, <2>1, <2>2
<1>9. item.op # "id"
  BY DEF Quiet
<1> QED
  BY Zenon, <1>1, <1>5, <1>6, <1>8, <1>9 DEF Understood

LEMMA EndRead ==
    ASSUME NEW s, NEW item, NEW fs, NEW restored, Reads(s, item, fs, restored), item.op = "end",
           NEW r, r = Parser!Parsed(s, item),
           NEW o, o = IF open # <<>> THEN SubSeq(open, 1, Len(open) - 1) ELSE open
    PROVE  Understood(r, s, item, o, fs, restored)
<1> DEFINE q == Parser!EndCollection(s)
<1>1. /\ Typed(s) /\ s \in ParserStates /\ s.result = "parsing"
      /\ open \in Seq(Uses) /\ fs \in Seq(Declarations) /\ restored \in BOOLEAN
      /\ Right(s, open, fs, restored) /\ PathsWell(s) /\ NestedAs(s, open)
  BY Zenon DEF Reads, Stands, Typed, Right
<1>2. r = Parser!Locals(q)
  BY Zenon, Dispatch
<1>3. Nests(q, s, o)
  <2> HIDE DEF q
  <2>1. q = Parser!EndCollection(s)
    BY Zenon DEF q
  <2>2. Nests(q, s, IF open # <<>> THEN SubSeq(open, 1, Len(open) - 1) ELSE open)
    BY <1>1, <2>1, EndStep
  <2> QED
    BY Zenon, <2>2
<1> HIDE DEF q
<1>5. o \in Seq(Uses)
  BY <1>1
<1>6. /\ Typed(q) /\ q.result \in {"parsing"} \cup Errors
      /\ q.result = "parsing" => q.usingIds = s.usingIds
  BY Zenon, <1>3 DEF Nests, SameReports
<1>7. q.result = "parsing" => Right(q, o, fs, restored)
  BY Zenon, <1>1, <1>3, NestsRight DEF Stands
<1>8. /\ Typed(r) /\ r.result \in {"parsing"} \cup Errors /\ r.usingIds = q.usingIds
      /\ r.result = "parsing" => Right(r, o, fs, restored)
      /\ r.result = q.result
  <2>1. /\ Typed(r) /\ r.result \in {"parsing"} \cup Errors /\ r.usingIds = q.usingIds
        /\ r.result = "parsing" => Right(r, o, fs, restored)
    <3>1. Forgets(q, o, fs, restored)
      BY Zenon, <1>1, <1>6, <1>7 DEF Forgets
    <3> QED
      BY <1>2, <3>1, Forgotten
  <2>2. r.result = q.result
    BY Zenon, <1>2, <1>6, ForgetStep
  <2> QED
    BY Zenon, <2>1, <2>2
<1>9. item.op # "id"
  BY DEF Quiet
<1> QED
  BY Zenon, <1>1, <1>5, <1>6, <1>8, <1>9 DEF Understood

LEMMA IdRead ==
    ASSUME NEW s, NEW item, NEW fs, NEW restored, Reads(s, item, fs, restored), item.op = "id",
           ~ s.usingIds => fs = <<>>, NEW r, r = Parser!Parsed(s, item)
    PROVE  Understood(r, s, item, open, fs, restored)
<1>1. /\ Typed(s) /\ s.result = "parsing" /\ item \in ShortItems
      /\ open \in Seq(Uses) /\ fs \in Seq(Declarations) /\ restored \in BOOLEAN
      /\ Right(s, open, fs, restored)
  BY Zenon DEF Reads, Stands
<1>2. r = Parser!ReportId(s, item.v)
  BY Zenon, Dispatch
<1>3. item.v \in Nat
  <2>1. "id" \notin Parser!Types
    BY DEF Parser!Types
  <2> QED
    BY Zenon, <1>1, <2>1, ItemFields
<1>4. /\ Typed(r) /\ r.result \in {"parsing"} \cup Errors
      /\ r.result = "parsing" => Right(r, open, fs, restored) /\ r.usingIds = TRUE
  BY Zenon, <1>1, <1>2, <1>3, IdStep DEF Stands
<1> QED
  BY Zenon, <1>1, <1>4 DEF Understood

LEMMA MainRead ==
    ASSUME NEW s, NEW item, NEW fs, NEW restored, Reads(s, item, fs, restored), item.op \in Parser!Types,
           NEW r, r = Parser!Parsed(s, item), NEW gs, gs = fs \o Parser!Declared(s, item)
    PROVE  Understood(r, s, item, open, gs, restored)
<1> DEFINE q == Parser!Main(s, item)
           d == Parser!Declared(s, item)
<1>1. /\ Typed(s) /\ s \in ParserStates /\ s.result = "parsing" /\ item \in ShortItems
      /\ open \in Seq(Uses) /\ fs \in Seq(Declarations) /\ restored \in BOOLEAN
      /\ Right(s, open, fs, restored)
  BY Zenon DEF Reads, Stands, Typed
<1>2. r = Parser!Locals(q)
  BY Zenon, Dispatch
<1>3. q = Parser!Main(s, item) /\ d = Parser!Declared(s, item) /\ gs = fs \o d
  BY Zenon
<1> HIDE DEF q, d
<1>4. /\ Typed(q) /\ q.result \in {"parsing"} \cup Errors
      /\ q.result = "parsing" => Right(q, open, fs \o d, restored) /\ q.usingIds = s.usingIds
  BY <1>1, <1>3, MainStep
<1>5. gs \in Seq(Declarations)
  <2>1. d \in Seq(Declarations)
    BY Zenon, <1>1, <1>3, DeclaredIs
  <2> QED
    BY Zenon, <1>1, <1>3, <2>1, ConcatProperties
<1>6. q.result = "parsing" => Right(q, open, gs, restored)
  BY Zenon, <1>3, <1>4
<1>7. /\ Typed(r) /\ r.result \in {"parsing"} \cup Errors /\ r.usingIds = q.usingIds
      /\ r.result = "parsing" => Right(r, open, gs, restored)
      /\ r.result = q.result
  <2>1. /\ Typed(r) /\ r.result \in {"parsing"} \cup Errors /\ r.usingIds = q.usingIds
        /\ r.result = "parsing" => Right(r, open, gs, restored)
    <3>1. Forgets(q, open, gs, restored)
      BY Zenon, <1>1, <1>4, <1>6 DEF Forgets
    <3> QED
      BY <1>2, <3>1, Forgotten
  <2>2. r.result = q.result
    BY Zenon, <1>2, <1>4, ForgetStep
  <2> QED
    BY Zenon, <2>1, <2>2
<1>8. item.op # "id"
  BY DEF Parser!Types
<1> QED
  BY Zenon, <1>1, <1>4, <1>5, <1>7, <1>8 DEF Understood

-------------------------------------------------------------------------------
(* The parser, from its start to the end of the descriptor. *)

LEMMA StartStands == Stands(Parser!Start, <<>>, <<>>, FALSE) /\ Parser!Start.usingIds = FALSE
<1> DEFINE s == Parser!Start
<1>1. /\ s.tables = <<[page |-> 0, size |-> 0, count |-> 0, id |-> 0]>>
      /\ s.usages = <<>> /\ s.cur = 0 /\ s.report = 1 /\ s.usingIds = FALSE /\ s.items = <<>>
      /\ s.sizes = <<[id |-> 0, bits |-> [t \in Parser!Types |-> 0]]>>
      /\ s.paths = [k \in 1 .. MaxPaths |-> [page |-> 0, usage |-> 0, parent |-> 0]]
      /\ s.filter = "undefined" /\ s.result = "parsing"
  BY DEF Parser!Start
<1>2. s \in ParserStates
  <2> DEFINE row == [page |-> 0, size |-> 0, count |-> 0, id |-> 0]
             rep == [id |-> 0, bits |-> [t \in Parser!Types |-> 0]]
             paths0 == [k \in 1 .. MaxPaths |-> [page |-> 0, usage |-> 0, parent |-> 0]]
  <2>1. row \in Rows /\ rep \in Reports
    BY DEF Rows, Reports
  <2>2. paths0 \in [1 .. MaxPaths -> [page : Nat, usage : Nat, parent : 0 .. MaxPaths]]
        /\ 0 \in 0 .. MaxPaths
    BY ParserLimits
  <2>3. "undefined" \in Kinds /\ "parsing" \in Results
    BY DEF Kinds, Results
  <2>4. s = [tables |-> <<row>>, usages |-> <<>>, min |-> 0, max |-> 0, paths |-> paths0, cur |-> 0,
             sizes |-> <<rep>>, report |-> 1, usingIds |-> FALSE, items |-> <<>>,
             filter |-> "undefined", result |-> "parsing"]
    BY Zenon DEF Parser!Start
  <2> HIDE DEF s, row, rep, paths0
  <2>5. <<row>> \in Seq(Rows) /\ <<rep>> \in Seq(Reports) /\ <<>> \in Seq(Nat) /\ <<>> \in Seq(Found)
    BY <2>1
  <2> QED
    BY <2>2, <2>3, <2>4, <2>5 DEF ParserStates
<1> HIDE DEF s
<1>3. /\ Len(s.tables) = 1 /\ Len(s.usages) = 0 /\ Len(s.items) = 0 /\ Len(s.sizes) = 1
      /\ s.sizes[1].id = 0 /\ (\A t \in Parser!Types : s.sizes[1].bits[t] = 0)
      /\ s.tables[1].id = 0
  BY <1>1
<1>4. Bounded(s)
  BY <1>1, <1>3, ParserLimits DEF Bounded
<1>5. Typed(s)
  BY <1>2, <1>4 DEF Typed
<1>6. PathsWell(s)
  <2>1. 1 \in 1 .. MaxPaths /\ s.cur <= 1
    BY <1>1, ParserLimits
  <2>2. \A k \in 1 .. MaxPaths : s.paths[k].parent = 0
    BY <1>1
  <2>3. \A k \in 1 .. MaxPaths : k = 1 \/ k > 1
    BY ParserLimits
  <2> QED
    BY Zenon, <2>1, <2>2, <2>3 DEF PathsWell
<1>7. NestedAs(s, <<>>)
  <2>1. Parser!Chain(s, s.cur) = <<>>
    BY Zenon, <1>1, <1>2, <1>6, WellIsBefore, ChainIs
  <2>2. ~ \E j : j \in DOMAIN <<>>
    OBVIOUS
  <2> QED
    BY Zenon, <2>1, <2>2 DEF NestedAs
<1>8. \A j \in 1 .. Len(s.sizes) : j = 1
  BY <1>3
<1>9. ReportsWell(s)
  BY Zenon, <1>3, <1>8 DEF ReportsWell
<1> DEFINE fs == <<>>
<1>10. fs \in Seq(Declarations) /\ Len(fs) = 0 /\ (~ \E j : j \in 1 .. Len(fs))
       /\ (~ \E j : j \in 1 .. Len(s.items))
  BY <1>3
<1>11. fs = <<>>
  OBVIOUS
<1> HIDE DEF fs
<1>12. FilterWell(s, fs)
  BY Zenon, <1>1, <1>10 DEF FilterWell
<1>13. Counted(s, fs)
  <2>1. s.sizes[s.report].id = Parser!Table(s).id
    <3>1. Parser!Table(s) = s.tables[Len(s.tables)]
      BY Zenon, <1>5, TableIs
    <3> QED
      BY Zenon, <1>1, <1>3, <3>1
  <2>2. ASSUME NEW j \in 1 .. Len(s.sizes), NEW t \in Parser!Types
        PROVE  s.sizes[j].bits[t] = Sums(fs, s.sizes[j].id, t)[Len(fs)]
    <3>1. Sums(fs, s.sizes[j].id, t)[Len(fs)] = 0
      BY Zenon, <1>10, SumsNone
    <3> QED
      BY Zenon, <1>3, <1>8, <3>1
  <2> QED
    BY Zenon, <1>1, <1>10, <2>1, <2>2 DEF Counted
<1>14. Inside(s) /\ FoundAll(s, fs)
  BY Zenon, <1>10 DEF Inside, FoundAll
<1>15. Right(s, <<>>, fs, FALSE)
  BY Zenon, <1>6, <1>7, <1>9, <1>12, <1>13, <1>14 DEF Right
<1> QED
  BY Zenon, <1>1, <1>5, <1>10, <1>11, <1>15 DEF Stands, s

\* An end of the descriptor changes the result alone.
LEMMA FinishedStep ==
    ASSUME NEW q, NEW o, NEW fs, NEW restored, Stands(q, o, fs, restored),
           NEW r, r = Parser!Fail(q, Parser!Finished(q))
    PROVE  /\ Typed(r) /\ Right(r, o, fs, restored) /\ r.usingIds = q.usingIds
           /\ r.result \in {"Successful", "NoUnfilteredReportItems"}
<1> DEFINE e == Parser!Finished(q)
<1>1. e \in Results /\ e \in {"Successful", "NoUnfilteredReportItems"}
  BY Zenon DEF Parser!Finished, Results
<1>2. r = [q EXCEPT !.result = e]
  BY Zenon DEF Parser!Fail
<1>3. q \in ParserStates /\ Bounded(q) /\ restored \in BOOLEAN /\ Right(q, o, fs, restored)
  BY Zenon DEF Stands, Typed
<1> HIDE DEF e
<1>4. r \in ParserStates
  BY <1>1, <1>2, <1>3 DEF ParserStates
<1>5. /\ r.tables = q.tables /\ r.usages = q.usages /\ r.items = q.items /\ r.sizes = q.sizes
      /\ r.report = q.report /\ r.paths = q.paths /\ r.cur = q.cur /\ r.usingIds = q.usingIds
      /\ r.filter = q.filter /\ r.result = e
  BY <1>2, <1>3 DEF ParserStates
<1>6. Bounded(r) /\ SamePaths(r, q) /\ SameReports(r, q) /\ Parser!Table(r) = Parser!Table(q)
  BY Zenon, <1>3, <1>5 DEF Bounded, SamePaths, SameReports, Parser!Table
<1>7. Keeps(r, q, o, fs, restored, restored)
  BY Zenon, <1>3, <1>4, <1>6 DEF Keeps
<1> QED
  BY Zenon, <1>1, <1>4, <1>5, <1>6, <1>7, Kept DEF Typed

\* The items that are left are numbered as the whole.
LEMMA NumberedTail ==
    ASSUME NEW w \in Seq(ShortItems), w # <<>>, Numbered(w), w[1].op # "id"
    PROVE  /\ Numbered(Tail(w))
           /\ w[1].op \in Parser!Types => \A k \in 1 .. Len(Tail(w)) : Tail(w)[k].op # "id"
<1> DEFINE n == Len(w)
           v == Tail(w)
<1>1. /\ n \in Nat /\ 1 \in 1 .. n /\ v \in Seq(ShortItems) /\ Len(v) = n - 1
      /\ \A k \in 1 .. Len(v) : v[k] = w[k + 1]
      /\ DOMAIN w = 1 .. n /\ DOMAIN v = 1 .. Len(v)
  OBVIOUS
<1> HIDE DEF n, v
<1>2. \A k \in 1 .. Len(v) : k + 1 \in 1 .. n /\ 1 < k + 1
  BY <1>1
<1>3. \A j, k \in 1 .. n : j < k /\ w[j].op \in Parser!Types /\ w[k].op = "id" =>
        \E i \in 1 .. j - 1 : w[i].op = "id"
  BY Zenon, <1>1 DEF Numbered
<1>4. ASSUME NEW j \in 1 .. Len(v), NEW k \in 1 .. Len(v),
             j < k, v[j].op \in Parser!Types, v[k].op = "id"
      PROVE  \E i \in 1 .. j - 1 : v[i].op = "id"
  <2>1. j + 1 < k + 1
    BY <1>1, <1>4
  <2>2. PICK i \in 1 .. (j + 1) - 1 : w[i].op = "id"
    BY Zenon, <1>1, <1>2, <1>3, <1>4, <2>1
  <2>3. i # 1
    BY Zenon, <2>2
  <2>4. i - 1 \in 1 .. j - 1 /\ i - 1 \in 1 .. Len(v) /\ (i - 1) + 1 = i
    BY <1>1, <2>3
  <2> QED
    BY Zenon, <1>1, <2>2, <2>4
<1>5. Numbered(v)
  BY Zenon, <1>1, <1>4 DEF Numbered
<1>6. ASSUME w[1].op \in Parser!Types, NEW k \in 1 .. Len(v) PROVE v[k].op # "id"
  <2>1. SUFFICES ASSUME v[k].op = "id" PROVE FALSE
    BY Zenon
  <2>2. w[k + 1].op = "id"
    BY Zenon, <1>1, <2>1
  <2>3. \E i \in 1 .. 1 - 1 : w[i].op = "id"
    BY Zenon, <1>1, <1>2, <1>3, <1>6, <2>2
  <2> QED
    BY <2>3
<1> QED
  BY Zenon, <1>5, <1>6 DEF v

LEMMA ParserStarts ==
    ASSUME device \in HidDevices \/ desc = <<>>, device \in HidDevices => desc = device.items,
           p = Parser!Start, open = <<>>, fields = <<>>, idRestored = FALSE
    PROVE  ParserInv
<1>1. desc \in Seq(ShortItems) /\ Numbered(desc)
  <2>1. CASE device \in HidDevices
    BY Zenon, <2>1, DescriptorAssumption
  <2>2. CASE desc = <<>>
    <3>1. desc \in Seq(ShortItems) /\ DOMAIN desc = 1 .. 0 /\ ~ \E j : j \in 1 .. 0
      BY <2>2
    <3>2. Numbered(desc)
      BY Zenon, <3>1 DEF Numbered
    <3> QED
      BY <3>1, <3>2
  <2> QED
    BY Zenon, <2>1, <2>2
<1>2. Stands(p, open, fields, idRestored)
  BY Zenon, StartStands
<1>3. open \in Seq(Uses) /\ fields = <<>> /\ idRestored \in BOOLEAN
  <2>1. <<>> \in Seq(Uses) /\ FALSE \in BOOLEAN
    OBVIOUS
  <2> QED
    BY Zenon, <2>1
<1> QED
  BY Zenon, <1>1, <1>2, <1>3 DEF ParserInv, Stands, Typed, IdsFirst

\* What an item makes of the history, in the cases of its kind.
LEMMA OpensAs ==
    ASSUME NEW item \in ShortItems
    PROVE  /\ item.op = "collection" =>
                Parser!Opened(item) =
                    Append(open, [page |-> Parser!Table(p).page, usage |-> Parser!NextUsage(p)])
           /\ item.op = "end" =>
                Parser!Opened(item) = IF open # <<>> THEN SubSeq(open, 1, Len(open) - 1) ELSE open
           /\ item.op \notin {"collection", "end"} => Parser!Opened(item) = open
  BY DEF Parser!Opened, Parser!Front

LEMMA ReadStep ==
    ASSUME NEW item, Reads(p, item, fields, idRestored), item.op = "id" /\ ~ p.usingIds => fields = <<>>,
           NEW r, r = Parser!Parsed(p, item),
           NEW o, o = Parser!Opened(item),
           NEW fs, fs = IF item.op \in Parser!Types THEN fields \o Parser!Declared(p, item) ELSE fields,
           NEW after \in BOOLEAN,
           after <=> idRestored \/ (item.op = "pop" /\ Parser!Table(r).id # Parser!Table(p).id)
    PROVE  Understood(r, p, item, o, fs, after)
<1>1. item \in ShortItems /\ idRestored \in BOOLEAN
  BY Zenon DEF Reads, Stands
<1>2. /\ item.op # "pop" => after = idRestored
      /\ idRestored \/ (item.op = "pop" /\ Parser!Table(r).id # Parser!Table(p).id) => after
  <2>1. \A a, b \in BOOLEAN : (a <=> b) => a = b
    OBVIOUS
  <2> QED
    BY Zenon, <1>1, <2>1
<1>3. /\ item.op = "collection" =>
           o = Append(open, [page |-> Parser!Table(p).page, usage |-> Parser!NextUsage(p)])
      /\ item.op = "end" => o = IF open # <<>> THEN SubSeq(open, 1, Len(open) - 1) ELSE open
      /\ item.op \notin {"collection", "end"} => o = open
  BY Zenon, <1>1, OpensAs
<1>4. /\ "collection" \notin Quiet \cup Parser!Types /\ "end" \notin Quiet \cup Parser!Types
      /\ "id" \notin Quiet \cup Parser!Types /\ "pop" \notin Parser!Types
      /\ \A t \in Quiet : t \notin Parser!Types
  BY DEF Quiet, Parser!Types
<1>5. CASE item.op \in Quiet
  <2>1. o = open /\ fs = fields
    <3>1. item.op \notin {"collection", "end"} /\ item.op \notin Parser!Types
      BY Zenon, <1>4, <1>5
    <3> QED
      BY Zenon, <1>3, <3>1
  <2>2. Restores(idRestored, after, r, p, item)
    BY Zenon, <1>2 DEF Restores
  <2>3. Understood(r, p, item, open, fields, after)
    BY Zenon, <1>5, <2>2, QuietRead
  <2> QED
    BY Zenon, <2>1, <2>3
<1>6. CASE item.op = "collection"
  <2>1. fs = fields /\ after = idRestored
    BY Zenon, <1>2, <1>4, <1>6
  <2>2. Understood(r, p, item, o, fields, idRestored)
    BY Zenon, <1>3, <1>6, CollectionRead
  <2> QED
    BY Zenon, <1>2, <2>1, <2>2
<1>7. CASE item.op = "end"
  <2>1. fs = fields /\ after = idRestored
    BY Zenon, <1>2, <1>4, <1>7
  <2>2. Understood(r, p, item, o, fields, idRestored)
    BY Zenon, <1>3, <1>7, EndRead
  <2> QED
    BY Zenon, <1>2, <2>1, <2>2
<1>8. CASE item.op = "id"
  <2>1. fs = fields /\ after = idRestored /\ o = open
    BY Zenon, <1>2, <1>3, <1>4, <1>8
  <2>2. ~ p.usingIds => fields = <<>>
    BY Zenon, <1>8
  <2>3. Understood(r, p, item, open, fields, idRestored)
    BY Zenon, <1>8, <2>2, IdRead
  <2> QED
    BY Zenon, <1>2, <2>1, <2>3
<1>9. CASE item.op \in Parser!Types
  <2>1. fs = fields \o Parser!Declared(p, item) /\ after = idRestored /\ o = open
    BY Zenon, <1>2, <1>3, <1>4, <1>9
  <2>2. Understood(r, p, item, open, fs, idRestored)
    BY Zenon, <1>9, <2>1, MainRead
  <2> QED
    BY Zenon, <1>2, <2>1, <2>2
<1>10. item.op \in Parser!Types \/ item.op \in Quiet \/ item.op \in {"id", "collection", "end"}
  <2>1. item.op \in Parser!Types \cup {"push", "pop", "page", "size", "count", "id", "usage",
                                       "min", "max", "collection", "end"}
    BY Zenon, <1>1, ItemFields
  <2> QED
    BY Zenon, <2>1 DEF Quiet
<1> QED
  BY Zenon, <1>5, <1>6, <1>7, <1>8, <1>9, <1>10

-------------------------------------------------------------------------------
(* The invariant of the parser. *)

LEMMA ParserStep ==
    ASSUME ParserInv, Parser!ParseItem
    PROVE  ParserInv'
<1> DEFINE item == desc[1]
           next == Parser!Parsed(p, item)
           left == IF next.result = "parsing" THEN Tail(desc) ELSE <<>>
           restores == item.op = "pop" /\ Parser!Table(next).id # Parser!Table(p).id
<1>1. /\ p \in ParserStates /\ fields \in Seq(Declarations) /\ open \in Seq(Uses)
      /\ idRestored \in BOOLEAN /\ desc \in Seq(ShortItems)
      /\ Bounded(p) /\ (Parser!Whole => Right(p, open, fields, idRestored) /\ IdsFirst(p, fields))
  BY Zenon DEF ParserInv
<1>2. Head(desc) = item /\ (desc # <<>> => item \in ShortItems /\ 1 \in 1 .. Len(desc))
  BY <1>1
<1>3. /\ p.result = "parsing" /\ desc # <<>> /\ desc' = left
      /\ p' = IF next.result = "parsing" /\ left = <<>>
              THEN Parser!Fail(next, Parser!Finished(next)) ELSE next
      /\ open' = Parser!Opened(item)
      /\ fields' = IF item.op \in Parser!Types THEN fields \o Parser!Declared(p, item) ELSE fields
      /\ idRestored' = (idRestored \/ restores)
  BY Zenon, <1>2 DEF Parser!ParseItem
<1> HIDE DEF item, next
<1>4. Parser!Whole
  BY Zenon, <1>3 DEF Parser!Whole
<1>5. Stands(p, open, fields, idRestored) /\ IdsFirst(p, fields)
  BY Zenon, <1>1, <1>3, <1>4 DEF Stands, Typed
<1>6. item.op = "id" /\ ~ p.usingIds => fields = <<>>
  <2>1. ASSUME ~ p.usingIds, fields # <<>> PROVE item.op # "id"
    BY Zenon, <1>2, <1>3, <1>5, <2>1 DEF IdsFirst, item
  <2> QED
    BY Zenon, <2>1
<1>7. idRestored' \in BOOLEAN /\ (idRestored' <=> idRestored \/ restores)
  <2> HIDE DEF restores
  <2> QED
    BY <1>3
<1>8. Understood(next, p, item, open', fields', idRestored')
  <2>1. Reads(p, item, fields, idRestored)
    BY Zenon, <1>1, <1>2, <1>3, <1>5 DEF Reads
  <2>2. next = Parser!Parsed(p, item)
    BY Zenon DEF next
  <2> QED
    BY Zenon, <1>3, <1>6, <1>7, <2>1, <2>2, ReadStep
<1>9. /\ Typed(next) /\ open' \in Seq(Uses) /\ fields' \in Seq(Declarations)
      /\ next.result \in {"parsing"} \cup Errors
      /\ next.result = "parsing" =>
           /\ Right(next, open', fields', idRestored')
           /\ next.usingIds \/ (next.usingIds = p.usingIds /\ item.op # "id")
  BY Zenon, <1>8 DEF Understood
<1>10. desc' \in Seq(ShortItems)
  BY <1>1, <1>3
<1>11. ASSUME next.result = "parsing", ~ next.usingIds
       PROVE  Numbered(desc') /\ (fields' # <<>> => \A k \in 1 .. Len(desc') : desc'[k].op # "id")
  <2>1. /\ ~ p.usingIds /\ item.op # "id" /\ desc' = Tail(desc)
        /\ desc \in Seq(ShortItems) /\ desc # <<>> /\ desc[1] = item
    BY Zenon, <1>1, <1>3, <1>9, <1>11 DEF item
  <2>2. Numbered(desc) /\ (fields # <<>> => \A k \in 1 .. Len(desc) : desc[k].op # "id")
    BY Zenon, <1>5, <2>1 DEF IdsFirst
  <2>3. /\ Numbered(Tail(desc))
        /\ item.op \in Parser!Types => \A k \in 1 .. Len(Tail(desc)) : Tail(desc)[k].op # "id"
    BY Zenon, <2>1, <2>2, NumberedTail
  <2>4. ASSUME fields' # <<>>, NEW k \in 1 .. Len(desc') PROVE desc'[k].op # "id"
    <3>1. CASE item.op \in Parser!Types
      BY Zenon, <2>1, <2>3, <2>4, <3>1
    <3>2. CASE item.op \notin Parser!Types
      <4>1. fields # <<>>
        BY Zenon, <1>3, <2>4, <3>2
      <4>2. \A j \in 1 .. Len(desc) : desc[j].op # "id"
        BY Zenon, <2>2, <4>1
      <4>3. k + 1 \in 1 .. Len(desc) /\ Tail(desc)[k] = desc[k + 1]
        <5> DEFINE d == desc
        <5>1. d \in Seq(ShortItems) /\ d # <<>> /\ k \in 1 .. Len(Tail(d))
          BY Zenon, <2>1, <2>4
        <5> HIDE DEF d
        <5>2. k + 1 \in 1 .. Len(d) /\ Tail(d)[k] = d[k + 1]
          BY <5>1
        <5> QED
          BY Zenon, <5>2 DEF d
      <4> QED
        BY Zenon, <2>1, <4>2, <4>3
    <3> QED
      BY Zenon, <3>1, <3>2
  <2> QED
    BY Zenon, <2>1, <2>3, <2>4
<1>12. /\ Typed(p') /\ p'.usingIds = next.usingIds
       /\ p'.result \in {"parsing", "Successful", "NoUnfilteredReportItems"} =>
            next.result = "parsing" /\ Right(p', open', fields', idRestored')
  <2>1. CASE next.result = "parsing" /\ left = <<>>
    <3>1. p' = Parser!Fail(next, Parser!Finished(next))
      BY Zenon, <1>3, <2>1
    <3>2. Stands(next, open', fields', idRestored')
      BY Zenon, <1>7, <1>9, <2>1 DEF Stands
    <3> QED
      BY Zenon, <2>1, <3>1, <3>2, FinishedStep
  <2>2. CASE ~ (next.result = "parsing" /\ left = <<>>)
    <3>1. p' = next
      BY Zenon, <1>3, <2>2
    <3>2. ~ \E e \in Errors : e \in {"parsing", "Successful", "NoUnfilteredReportItems"}
      BY DEF Errors
    <3> QED
      BY Zenon, <1>9, <3>1, <3>2
  <2> QED
    BY Zenon, <2>1, <2>2
<1>13. /\ p' \in ParserStates /\ Bounded(p')
       /\ (Parser!Whole)' => Right(p', open', fields', idRestored')
       /\ (Parser!Whole)' /\ ~ p'.usingIds =>
            Numbered(desc') /\ (fields' # <<>> => \A k \in 1 .. Len(desc') : desc'[k].op # "id")
  BY Zenon, <1>11, <1>12 DEF Typed, Parser!Whole
<1> HIDE DEF left, restores
<1> QED
  BY Zenon, <1>7, <1>9, <1>10, <1>13 DEF ParserInv, IdsFirst

LEMMA ParserKeeps ==
    ASSUME ParserInv, Parser!Next \/ UNCHANGED parserVars
    PROVE  ParserInv'
<1>1. CASE Parser!Next
  BY Zenon, <1>1, ParserStep DEF Parser!Next
<1>2. CASE UNCHANGED parserVars
  BY <1>2 DEF ParserInv, Parser!Whole, IdsFirst, parserVars
<1> QED
  BY <1>1, <1>2

-------------------------------------------------------------------------------
(* What the invariant says of the tables. *)

\* The parser has not failed.
Read == ParserInv /\ Parser!Whole

LEMMA ReadGives ==
    ASSUME Read
    PROVE  /\ Typed(p) /\ p \in ParserStates /\ fields \in Seq(Declarations) /\ open \in Seq(Uses)
           /\ PathsWell(p) /\ NestedAs(p, open) /\ ReportsWell(p) /\ FilterWell(p, fields)
           /\ ~ idRestored => Counted(p, fields) /\ Inside(p) /\ FoundAll(p, fields)
  BY Zenon DEF Read, ParserInv, Right, Typed

LEMMA ReadTyped == ParserInv => Parser!TypeOK
<1> SUFFICES ASSUME ParserInv PROVE Parser!TypeOK
  OBVIOUS
<1>1. p \in ParserStates /\ Bounded(p)
  BY Zenon DEF ParserInv
<1>2. p.cur \in 0 .. MaxPaths /\ p.filter \in Kinds /\ p.sizes \in Seq(Reports)
  BY <1>1 DEF ParserStates
<1>3. DOMAIN p.sizes = 1 .. Len(p.sizes)
  BY <1>2
<1> QED
  BY Zenon, <1>1, <1>2, <1>3 DEF Bounded, Kinds, Parser!TypeOK

LEMMA ReadNested == ParserInv => Parser!PathIsNesting
<1> SUFFICES ASSUME ParserInv, Parser!Whole PROVE Parser!PathIsNesting
  BY Zenon DEF Parser!PathIsNesting
<1>1. NestedAs(p, open)
  BY Zenon, ReadGives DEF Read
<1> QED
  BY Zenon, <1>1 DEF NestedAs, Parser!PathIsNesting

LEMMA ReadFound == ParserInv => Parser!ControlsFound
<1> SUFFICES ASSUME ParserInv, Parser!Whole, ~ idRestored PROVE Parser!ControlsFound
  BY Zenon DEF Parser!ControlsFound
<1>1. FoundAll(p, fields) /\ fields \in Seq(Declarations) /\ p \in ParserStates
  BY Zenon, ReadGives DEF Read
<1>2. p.items \in Seq(Found)
  BY Zenon, <1>1, StateFields
<1>3. DOMAIN fields = 1 .. Len(fields) /\ DOMAIN p.items = 1 .. Len(p.items)
  BY <1>1, <1>2
<1>4. ASSUME NEW k \in DOMAIN fields, Parser!Control(fields[k])
      PROVE  \E j \in DOMAIN p.items :
               p.items[j] = [id |-> fields[k].id, type |-> fields[k].type,
                             offset |-> Parser!BitsBefore(k), size |-> fields[k].size,
                             page |-> fields[k].page, usage |-> fields[k].usage]
  <2>1. k \in 1 .. Len(fields)
    BY Zenon, <1>3
  <2>2. Parser!BitsBefore(k) = Sums(fields, fields[k].id, fields[k].type)[k - 1]
    BY Zenon, <1>1, <2>1, BitsAre
  <2> QED
    BY Zenon, <1>1, <1>3, <1>4, <2>1, <2>2 DEF FoundAll
<1> QED
  BY Zenon, <1>4 DEF Parser!ControlsFound

LEMMA SizeHolds ==
    ASSUME NEW s \in ParserStates, ReportsWell(s), NEW r \in 1 .. Len(s.sizes), NEW t \in Parser!Types
    PROVE  /\ s.sizes[r].bits[t] <= 8 * Parser!ReportSize(s, s.sizes[r].id, t)
           /\ s.sizes[r].bits[t] \in Nat /\ Parser!ReportSize(s, s.sizes[r].id, t) \in Int
<1> DEFINE id == s.sizes[r].id
           known == {k \in DOMAIN s.sizes : s.sizes[k].id = id}
           bits == s.sizes[r].bits[t]
<1>1. s.sizes \in Seq(Reports) /\ r \in Nat
  <2>1. s.sizes \in Seq(Reports)
    BY Zenon, StateFields
  <2> QED
    BY <2>1
<1>2. DOMAIN s.sizes = 1 .. Len(s.sizes) /\ s.sizes[r] \in Reports /\ r <= r
  BY <1>1
<1>3. bits \in Nat
  BY <1>2 DEF Reports
<1>4. \A k \in 1 .. Len(s.sizes) : s.sizes[k].id = id => k = r
  BY Zenon DEF ReportsWell
<1>5. known = {r}
  BY Zenon, <1>2, <1>4
<1>6. (CHOOSE k \in known : \A j \in known : k <= j) = r
  <2> HIDE DEF known
  <2>1. \A k : k \in known /\ (\A j \in known : k <= j) <=> k = r
    BY Zenon, <1>2, <1>5
  <2> QED
    BY Zenon, <2>1
<1>7. Parser!ReportSize(s, id, t) = (bits + 7) \div 8
  BY Zenon, <1>5, <1>6 DEF Parser!ReportSize
<1> HIDE DEF bits, id
<1>8. bits <= 8 * ((bits + 7) \div 8) /\ (bits + 7) \div 8 \in Int
  BY <1>3
<1> QED
  BY Zenon, <1>3, <1>7, <1>8 DEF bits, id

LEMMA ReadApart == ParserInv => Parser!ItemsApart
<1> SUFFICES ASSUME ParserInv, p.result = "Successful", ~ idRestored PROVE Parser!ItemsApart
  BY Zenon DEF Parser!ItemsApart
<1>1. Inside(p) /\ ReportsWell(p) /\ p \in ParserStates
  BY Zenon, ReadGives DEF Read, Parser!Whole
<1>2. p.items \in Seq(Found)
  BY Zenon, <1>1, StateFields
<1>3. /\ DOMAIN p.items = 1 .. Len(p.items)
      /\ \A j \in 1 .. Len(p.items) : p.items[j] \in Found
  BY <1>2
<1> SUFFICES ASSUME NEW j \in DOMAIN p.items,
                    NEW others, others = {k \in DOMAIN p.items \ {j} :
                                            p.items[k].id = p.items[j].id /\ p.items[k].type = p.items[j].type},
                    NEW full, full = UNION {Parser!SetItem({}, p.items[k], 0 .. (p.items[k].size - 1)) : k \in others}
             PROVE  /\ Parser!GetItem(full, p.items[j]) = {}
                    /\ p.items[j].offset + p.items[j].size <= 8 * Parser!ReportSize(p, p.items[j].id, p.items[j].type)
  BY Zenon DEF Parser!ItemsApart
<1> DEFINE x == p.items[j]
<1>4. j \in 1 .. Len(p.items) /\ x \in Found
  BY Zenon, <1>3
<1>5. x.offset \in Nat /\ x.size \in Nat /\ x.type \in Parser!Types
  BY <1>4 DEF Found
<1>6. ASSUME NEW b \in Parser!GetItem(full, x) PROVE FALSE
  <2>1. b \in 0 .. (x.size - 1) /\ x.offset + b \in full
    BY Zenon DEF Parser!GetItem
  <2>2. PICK k \in others : x.offset + b \in Parser!SetItem({}, p.items[k], 0 .. (p.items[k].size - 1))
    BY Zenon, <2>1
  <2> DEFINE y == p.items[k]
  <2>3. k \in 1 .. Len(p.items) /\ k # j /\ y.id = x.id /\ y.type = x.type /\ y \in Found
    BY Zenon, <1>3, <2>2
  <2>4. y.offset \in Nat /\ y.size \in Nat
    BY <2>3 DEF Found
  <2>5. PICK c \in 0 .. (y.size - 1) : x.offset + b = y.offset + c
    BY Zenon, <2>2 DEF Parser!SetItem
  <2>6. j < k \/ k < j
    BY <1>4, <2>3
  <2>7. x.offset + x.size <= y.offset \/ y.offset + y.size <= x.offset
    BY Zenon, <1>1, <1>4, <2>3, <2>6 DEF Inside
  <2> HIDE DEF x, y
  <2> QED
    BY <1>5, <2>1, <2>4, <2>5, <2>7
<1>7. x.offset + x.size <= 8 * Parser!ReportSize(p, x.id, x.type)
  <2>1. PICK r \in 1 .. Len(p.sizes) : p.sizes[r].id = x.id /\ x.offset + x.size <= p.sizes[r].bits[x.type]
    BY Zenon, <1>1, <1>4 DEF Inside
  <2>2. p.sizes[r].bits[x.type] <= 8 * Parser!ReportSize(p, x.id, x.type)
    BY Zenon, <1>1, <1>5, <2>1, SizeHolds
  <2> DEFINE bits == p.sizes[r].bits[x.type]
             room == Parser!ReportSize(p, x.id, x.type)
  <2>3. x.offset + x.size <= bits /\ bits <= 8 * room
    BY Zenon, <2>1, <2>2
  <2>4. bits \in Nat /\ room \in Int
    BY Zenon, <1>1, <1>5, <2>1, SizeHolds
  <2> HIDE DEF x, bits, room
  <2>5. x.offset + x.size <= 8 * room
    BY <1>5, <2>3, <2>4
  <2> QED
    BY Zenon, <2>5 DEF room
<1>8. Parser!GetItem(full, x) = {}
  BY Zenon, <1>6
<1> QED
  BY Zenon, <1>7, <1>8

LEMMA ReadDeclared == ParserInv => Parser!TypeDeclared
<1> SUFFICES ASSUME ParserInv, p.result = "Successful", device.protocol = "none" PROVE Parser!TypeDeclared
  BY Zenon DEF Parser!TypeDeclared
<1>1. FilterWell(p, fields) /\ fields \in Seq(Declarations)
  BY Zenon, ReadGives DEF Read, Parser!Whole
<1>2. DOMAIN fields = 1 .. Len(fields)
  BY <1>1
<1> DEFINE varying == {k \in DOMAIN fields : ~ fields[k].constant}
           least == CHOOSE k \in varying : \A j \in varying : k <= j
<1>3. ASSUME varying # {}, KindsOf(fields[least]) # {} PROVE p.filter \in KindsOf(fields[least])
  <2>1. varying \in SUBSET Nat
    BY <1>2
  <2>2. least \in varying /\ \A j \in varying : least <= j
    <3> HIDE DEF varying
    <3>1. \E k \in varying : \A j \in varying : k <= j
      BY Zenon, <1>3, <2>1, Least
    <3> QED
      BY Zenon, <3>1
  <2> HIDE DEF least
  <2>3. least \in 1 .. Len(fields) /\ ~ fields[least].constant
    BY Zenon, <1>2, <2>2
  <2>4. ASSUME NEW j \in 1 .. least - 1 PROVE fields[j].constant
    <3>1. j \in 1 .. Len(fields) /\ ~ (least <= j)
      BY <2>3
    <3> QED
      BY Zenon, <1>2, <2>2, <3>1
  <2> QED
    BY Zenon, <1>1, <1>3, <2>3, <2>4 DEF FilterWell
<1>4. Parser!MountedAs("none", p) = p.filter
  BY DEF Parser!MountedAs
<1>5. Parser!MountedAs(device.protocol, p) = p.filter
  BY Zenon, <1>4
<1> QED
  BY Zenon, <1>3, <1>5 DEF Parser!TypeDeclared, KindsOf
===============================================================================
