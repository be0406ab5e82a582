---------------------------- MODULE SharedLemmas ----------------------------
(***************************************************************************)
(* Facts that the proofs of several components use: induction and          *)
(* recursion on natural numbers, remainders, sequences and their           *)
(* concatenation.  The library's induction theorems have a predicate as a  *)
(* parameter; here induction takes the set of the numbers that satisfy it. *)
(***************************************************************************)
EXTENDS Integers, Sequences, SequencesExt, SequenceTheorems, WellFoundedInduction, TLAPS

-----------------------------------------------------------------------------
(***************************************************************************)
(* Induction.  Every set of naturals that is not empty has a least element.*)
(***************************************************************************)
LEMMA LeastNatural ==
  ASSUME NEW T \in SUBSET Nat, T # {}
  PROVE  \E x \in T : \A y \in T : x <= y
<1> DEFINE R == OpToRel(<, Nat)
<1>1. IsWellFoundedOn(R, Nat)
  BY NatLessThanWellFounded, Zenon
<1>2. PICK x \in T : \A y \in T : ~(<<y, x>> \in R)
  BY <1>1, WFMin, Zenon
<1>3. \A y \in T : ~(y < x)
  BY <1>2 DEF OpToRel
<1> HIDE DEF R
<1> QED
  BY <1>2, <1>3

(***************************************************************************)
(* The same with a set Good of naturals that holds 0 and, below n, the     *)
(* successor of each of its members.                                       *)
(***************************************************************************)
LEMMA UpTo ==
  ASSUME NEW n \in Nat, NEW Good, 0 \in Good,
         \A k \in 0..(n - 1) : k \in Good => k + 1 \in Good
  PROVE  \A k \in 0..n : k \in Good
<1> DEFINE Bad == {k \in 0..n : k \notin Good}
<1>1. SUFFICES ASSUME Bad # {} PROVE FALSE
  OBVIOUS
<1>2. PICK x \in Bad : \A y \in Bad : x <= y
  <2> Bad \in SUBSET Nat
    OBVIOUS
  <2> HIDE DEF Bad
  <2> QED BY <1>1, LeastNatural
<1>3. x \in 0..n /\ x # 0 /\ x \notin Good
  BY <1>2
<1>4. x - 1 \in 0..n /\ x - 1 \notin Bad
  BY <1>2, <1>3
<1> QED
  BY <1>3, <1>4

-----------------------------------------------------------------------------
(***************************************************************************)
(* Arithmetic of counters that are cut to their width, as the uint16_t     *)
(* session_ is.  A remainder is in range.                                  *)
(***************************************************************************)
LEMMA ModRange ==
  ASSUME NEW M \in Nat \ {0}, NEW a \in Nat
  PROVE  a % M \in 0..(M - 1)
OBVIOUS

(***************************************************************************)
(* A number is a multiple of the modulus and its remainder.                *)
(***************************************************************************)
LEMMA DivMod ==
  ASSUME NEW M \in Nat \ {0}, NEW a \in Nat
  PROVE  \E q \in Nat : a = M * q + (a % M)
<1>1. a \div M \in Nat
  OBVIOUS
<1>2. a = M * (a \div M) + (a % M)
  OBVIOUS
<1> QED BY <1>1, <1>2

(***************************************************************************)
(* The only multiple of M between -M and M is zero.                        *)
(***************************************************************************)
LEMMA SmallMultiple ==
  ASSUME NEW M \in Nat \ {0}, NEW k \in Int, M * k < M, -M < M * k
  PROVE  k = 0
<1>1. CASE k >= 1
  <2>1. PICK j \in Nat : k = j + 1
    <3>1. k - 1 \in Nat /\ k = (k - 1) + 1
      BY <1>1
    <3> QED BY <3>1
  <2>2. M * k = M * j + M /\ M * j >= 0
    BY <2>1, Z3
  <2> QED BY <2>2
<1>2. CASE k <= -1
  <2>1. PICK j \in Nat : k = -1 - j
    <3>1. -1 - k \in Nat /\ k = -1 - (-1 - k)
      BY <1>2
    <3> QED BY <3>1
  <2>2. M * k = -M - M * j /\ M * j >= 0
    BY <2>1, Z3
  <2> QED BY <2>2
<1> QED BY <1>1, <1>2

(***************************************************************************)
(* Cutting a counter after every increment gives the same as cutting it    *)
(* once, at the end.                                                       *)
(***************************************************************************)
LEMMA ModAdd ==
  ASSUME NEW M \in Nat \ {0}, NEW a \in Nat, NEW n \in Nat
  PROVE  ((a % M) + n) % M = (a + n) % M
<1>1. PICK r \in 0..(M - 1) : r = a % M
  BY ModRange
<1>2. r + n \in Nat /\ a + n \in Nat
  OBVIOUS
<1>3. PICK s \in 0..(M - 1) : s = (r + n) % M
  BY <1>2, ModRange
<1>4. PICK u \in 0..(M - 1) : u = (a + n) % M
  BY <1>2, ModRange
<1>5. PICK q \in Nat : a = M * q + r
  BY <1>1, DivMod
<1>6. PICK p \in Nat : r + n = M * p + s
  BY <1>2, <1>3, DivMod
<1>7. PICK t \in Nat : a + n = M * t + u
  BY <1>2, <1>4, DivMod
<1>8. M * (q + p - t) = u - s
  BY <1>5, <1>6, <1>7, Z3
<1>9. q + p - t = 0
  BY <1>8, SmallMultiple
<1> QED BY <1>1, <1>3, <1>4, <1>8, <1>9

(***************************************************************************)
(* Below its modulus a number is its own remainder, and at it zero.        *)
(***************************************************************************)
LEMMA ModSmall ==
  ASSUME NEW M \in Nat \ {0}, NEW a \in 0..M
  PROVE  a % M = IF a = M THEN 0 ELSE a
<1>1. PICK r \in 0..(M - 1) : r = a % M
  BY ModRange
<1>2. PICK q \in Int : q = a \div M
  OBVIOUS
<1>3. a = M * q + r
  BY <1>1, <1>2
<1>4. q \in {0, 1}
  <2>1. CASE q < 0
    <3>1. PICK j \in Nat : q = -1 - j
      <4>1. -1 - q \in Nat /\ q = -1 - (-1 - q)
        BY <2>1
      <4> QED BY <4>1
    <3>2. M * q = -M - M * j /\ M * j >= 0
      BY <3>1, Z3
    <3> QED BY <1>3, <3>2
  <2>2. CASE q > 1
    <3>1. PICK j \in Nat : q = 2 + j
      <4>1. q - 2 \in Nat /\ q = 2 + (q - 2)
        BY <2>2
      <4> QED BY <4>1
    <3>2. M * q = 2 * M + M * j /\ M * j >= 0
      BY <3>1, Z3
    <3> QED BY <1>3, <3>2
  <2> QED BY <2>1, <2>2
<1> QED
  BY <1>1, <1>3, <1>4

-----------------------------------------------------------------------------
(***************************************************************************)
(* Sequences, and the sets of their elements.                              *)
(***************************************************************************)
LEMMA ShortSeq ==
  ASSUME NEW S
  PROVE  <<>> \in Seq(S) /\ \A x \in S : <<x>> \in Seq(S)
OBVIOUS

LEMMA SeqWider ==
  ASSUME NEW S, NEW T, S \subseteq T, NEW s \in Seq(S)
  PROVE  s \in Seq(T)
<1>1. Len(s) \in Nat /\ s \in [1..Len(s) -> S]
  BY LenProperties
<1>2. s \in [1..Len(s) -> T]
  BY <1>1
<1> QED
  BY <1>1, <1>2

LEMMA SeqByDomain ==
  ASSUME NEW S, NEW n \in Nat, NEW f \in [1..n -> S]
  PROVE  f \in Seq(S) /\ Len(f) = n
OBVIOUS

LEMMA EmptyToSet ==
  ASSUME NEW S, NEW s \in Seq(S), ToSet(s) = {}
  PROVE  s = <<>>
<1>1. Len(s) \in Nat /\ DOMAIN s = 1..Len(s)
  BY LenProperties
<1>2. Len(s) = 0
  <2>1. Len(s) # 0 => s[1] \in ToSet(s)
    BY <1>1 DEF ToSet
  <2> QED BY <2>1
<1> QED
  BY <1>2, EmptySeq

LEMMA ConcatSet ==
  ASSUME NEW S, NEW s \in Seq(S), NEW t \in Seq(S)
  PROVE  ToSet(s \o t) = ToSet(s) \cup ToSet(t)
<1>1. /\ DOMAIN s = 1..Len(s) /\ DOMAIN t = 1..Len(t) /\ Len(s) \in Nat /\ Len(t) \in Nat
      /\ DOMAIN (s \o t) = 1..(Len(s) + Len(t))
  BY LenProperties, ConcatProperties
<1>2. \A i \in 1..(Len(s) + Len(t)) : (s \o t)[i] = IF i <= Len(s) THEN s[i] ELSE t[i - Len(s)]
  BY ConcatProperties
<1>3. ASSUME NEW x \in ToSet(s \o t) PROVE x \in ToSet(s) \cup ToSet(t)
  <2>1. PICK i \in 1..(Len(s) + Len(t)) : x = (s \o t)[i]
    BY <1>1 DEF ToSet
  <2>2. CASE i <= Len(s)
    BY <1>1, <1>2, <2>1, <2>2 DEF ToSet
  <2>3. CASE ~(i <= Len(s))
    <3>1. i - Len(s) \in DOMAIN t /\ x = t[i - Len(s)]
      BY <1>1, <1>2, <2>1, <2>3
    <3> QED BY <3>1 DEF ToSet
  <2> QED BY <2>2, <2>3
<1>4. ASSUME NEW x \in ToSet(s) PROVE x \in ToSet(s \o t)
  <2>1. PICK i \in 1..Len(s) : x = s[i]
    BY <1>1 DEF ToSet
  <2>2. i \in DOMAIN (s \o t) /\ x = (s \o t)[i]
    BY <1>1, <1>2, <2>1
  <2> QED BY <2>2 DEF ToSet
<1>5. ASSUME NEW x \in ToSet(t) PROVE x \in ToSet(s \o t)
  <2>1. PICK i \in 1..Len(t) : x = t[i]
    BY <1>1 DEF ToSet
  <2>2. i + Len(s) \in DOMAIN (s \o t) /\ x = (s \o t)[i + Len(s)]
    BY <1>1, <1>2, <2>1
  <2> QED BY <2>2 DEF ToSet
<1> QED
  BY <1>3, <1>4, <1>5

-----------------------------------------------------------------------------
(***************************************************************************)
(* FlattenSeq.  IsFlat(p, f): f holds the concatenations of the first 1,   *)
(* 2, ... sequences of p.                                                  *)
(***************************************************************************)
IsFlat(p, f) ==
  f = [i \in 1..Len(p) |-> IF i = 1 THEN p[i] ELSE f[i - 1] \o p[i]]

LEMMA FlattenSeqChoice ==
  ASSUME NEW p
  PROVE  FlattenSeq(p) = IF Len(p) = 0 THEN p ELSE (CHOOSE f : IsFlat(p, f))[Len(p)]
BY Zenon DEF FlattenSeq, IsFlat

LEMMA FlatExists ==
  ASSUME NEW S, NEW p \in Seq(Seq(S))
  PROVE  \E f : IsFlat(p, f)
<1> DEFINE n == Len(p)
           Value(f, i) == IF i = 1 THEN p[i] ELSE f[i - 1] \o p[i]
           Partial(k, f) == DOMAIN f = 1..k /\ f = [i \in 1..k |-> f[i]] /\ \A i \in 1..k : f[i] = Value(f, i)
           Good == {k \in 0..n : \E f : Partial(k, f)}
<1>1. n \in Nat
  BY LenProperties
<1>2. 0 \in Good
  <2> DEFINE f == [i \in 1..0 |-> <<>>]
  <2>1. Partial(0, f)
    OBVIOUS
  <2> HIDE DEF f, Partial
  <2> QED BY <1>1, <2>1
<1>3. ASSUME NEW k \in 0..(n - 1), k \in Good PROVE k + 1 \in Good
  <2>1. PICK f : Partial(k, f)
    BY <1>3
  <2> DEFINE g == [i \in 1..(k + 1) |-> IF i = k + 1 THEN Value(f, i) ELSE f[i]]
  <2>2. ASSUME NEW i \in 1..(k + 1) PROVE g[i] = Value(g, i)
    <3>1. k \in Nat /\ (i # k + 1 => i \in 1..k) /\ (i # 1 => i - 1 \in 1..k /\ i - 1 # k + 1)
      BY <1>1
    <3>2. g[i] = Value(f, i)
      <4> HIDE DEF Value
      <4>1. CASE i = k + 1
        BY <4>1
      <4>2. CASE i # k + 1
        BY <2>1, <3>1, <4>2
      <4> QED BY <4>1, <4>2
    <3>3. i # 1 => g[i - 1] = f[i - 1]
      BY <3>1
    <3> HIDE DEF g
    <3> QED BY <3>2, <3>3
  <2>3. Partial(k + 1, g)
    <3>1. DOMAIN g = 1..(k + 1) /\ g = [i \in 1..(k + 1) |-> g[i]]
      OBVIOUS
    <3> HIDE DEF g, Value
    <3> QED BY <2>2, <3>1
  <2> HIDE DEF g, Partial
  <2> QED BY <1>1, <2>3
<1>4. n \in Good
  <2> HIDE DEF Good, n
  <2>1. \A k \in 0..n : k \in Good
    BY <1>1, <1>2, <1>3, UpTo
  <2> QED BY <1>1, <2>1
<1>5. PICK f : Partial(n, f)
  BY <1>4
<1>6. IsFlat(p, f)
  <2> DEFINE v(i) == Value(f, i)
  <2>1. f = [i \in 1..n |-> f[i]] /\ \A i \in 1..n : f[i] = v(i)
    BY <1>5
  <2> HIDE DEF v, n
  <2>2. f = [i \in 1..n |-> v(i)]
    BY <2>1
  <2> QED BY <2>2, Zenon DEF IsFlat, v, n
<1> QED
  BY <1>6

(***************************************************************************)
(* FlattenSeq by its steps, and the only function with these steps.        *)
(***************************************************************************)
Steps(p, f) ==
  /\ f[1] = p[1]
  /\ \A i \in 2..Len(p) : f[i] = f[i - 1] \o p[i]

LEMMA FlattenSteps ==
  ASSUME NEW S, NEW p \in Seq(Seq(S)), p # <<>>
  PROVE  \E f \in [1..Len(p) -> Seq(S)] : Steps(p, f) /\ FlattenSeq(p) = f[Len(p)]
<1> DEFINE f == CHOOSE f : IsFlat(p, f)
           n == Len(p)
           Value(i) == IF i = 1 THEN p[i] ELSE f[i - 1] \o p[i]
<1>1. n \in Nat /\ n # 0 /\ \A i \in 1..n : p[i] \in Seq(S)
  BY LenProperties, ElementOfSeq, EmptySeq
<1>2. IsFlat(p, f)
  BY FlatExists, Zenon
<1>3. f = [i \in 1..n |-> Value(i)]
  BY <1>2, Zenon DEF IsFlat
<1>4. FlattenSeq(p) = f[n]
  BY <1>1, FlattenSeqChoice, Zenon
<1> HIDE DEF f
<1>5. DOMAIN f = 1..n /\ \A i \in 1..n : f[i] = Value(i)
  <2> HIDE DEF Value
  <2> QED BY <1>3
<1>6. Steps(p, f)
  <2>1. 1 \in 1..n /\ f[1] = p[1]
    <3>1. 1 \in 1..n
      BY <1>1
    <3> QED BY <1>5, <3>1
  <2>2. ASSUME NEW i \in 2..n PROVE f[i] = f[i - 1] \o p[i]
    <3>1. i \in 1..n /\ i # 1
      BY <1>1
    <3> QED BY <1>5, <3>1
  <2> QED BY <2>1, <2>2 DEF Steps
<1>7. \A i \in 1..n : f[i] \in Seq(S)
  <2> DEFINE Good == {k \in 0..n : k = 0 \/ f[k] \in Seq(S)}
  <2>1. 0 \in Good
    BY <1>1
  <2>2. ASSUME NEW k \in 0..(n - 1), k \in Good PROVE k + 1 \in Good
    <3>1. k + 1 \in 1..n /\ k + 1 \in 0..n /\ (k + 1) - 1 = k
      BY <1>1
    <3>2. CASE k = 0
      <4>1. 1 \in 1..n /\ k + 1 = 1
        BY <3>1, <3>2
      <4>2. f[1] = p[1] /\ p[1] \in Seq(S)
        BY <1>1, <1>5, <4>1
      <4> QED BY <3>1, <4>1, <4>2
    <3>3. CASE k # 0
      <4>1. f[k + 1] = f[(k + 1) - 1] \o p[k + 1]
        <5>1. k + 1 # 1
          BY <3>3
        <5> QED BY <1>5, <3>1, <5>1
      <4>2. f[k] \in Seq(S) /\ p[k + 1] \in Seq(S) /\ f[k + 1] = f[k] \o p[k + 1]
        BY <1>1, <2>2, <3>1, <3>3, <4>1
      <4> QED BY <3>1, <4>2, ConcatProperties
    <3> QED BY <3>2, <3>3
  <2>3. \A k \in 0..n : k \in Good
    <3> HIDE DEF Good
    <3> QED BY <1>1, <2>1, <2>2, UpTo
  <2> QED BY <1>1, <2>3
<1>8. f \in [1..n -> Seq(S)]
  <2>1. f = [i \in 1..n |-> f[i]]
    <3> HIDE DEF Value
    <3> QED BY <1>3
  <2> QED BY <1>7, <2>1
<1> QED
  BY <1>4, <1>6, <1>8

LEMMA FlattenUnique ==
  ASSUME NEW S, NEW p \in Seq(Seq(S)), p # <<>>, NEW g, Steps(p, g)
  PROVE  FlattenSeq(p) = g[Len(p)]
<1> DEFINE n == Len(p)
<1>1. n \in Nat /\ n # 0
  BY LenProperties, EmptySeq
<1>2. PICK f \in [1..n -> Seq(S)] : Steps(p, f) /\ FlattenSeq(p) = f[n]
  BY FlattenSteps
<1> DEFINE Good == {k \in 0..n : k = 0 \/ f[k] = g[k]}
<1>3. 0 \in Good
  BY <1>1
<1>4. ASSUME NEW k \in 0..(n - 1), k \in Good PROVE k + 1 \in Good
  <2>1. k + 1 \in 0..n /\ (k + 1) - 1 = k /\ (k # 0 => k + 1 \in 2..n)
    BY <1>1
  <2>2. CASE k = 0
    BY <1>2, <2>1, <2>2 DEF Steps
  <2>3. CASE k # 0
    BY <1>2, <1>4, <2>1, <2>3, ZenonT(60) DEF Steps
  <2> QED BY <2>2, <2>3
<1>5. \A k \in 0..n : k \in Good
  <2> HIDE DEF Good
  <2> QED BY <1>1, <1>3, <1>4, UpTo
<1> QED
  BY <1>1, <1>2, <1>5, SMTT(30)

(***************************************************************************)
(* What the proofs use: the value is a sequence, a sequence added at the   *)
(* end comes last, and the first one comes first.                          *)
(***************************************************************************)
LEMMA FlattenType ==
  ASSUME NEW S, NEW p \in Seq(Seq(S))
  PROVE  FlattenSeq(p) \in Seq(S)
<1>1. CASE p = <<>>
  BY <1>1, FlattenSeqChoice, ShortSeq
<1>2. CASE p # <<>>
  <2>1. Len(p) \in 1..Len(p)
    BY <1>2, LenProperties, EmptySeq
  <2>2. PICK f \in [1..Len(p) -> Seq(S)] : FlattenSeq(p) = f[Len(p)]
    BY <1>2, FlattenSteps
  <2> QED BY <2>1, <2>2
<1> QED
  BY <1>1, <1>2

LEMMA FlattenAppend ==
  ASSUME NEW S, NEW p \in Seq(Seq(S)), NEW x \in Seq(S)
  PROVE  FlattenSeq(Append(p, x)) = FlattenSeq(p) \o x
<1> DEFINE n == Len(p)
           q == Append(p, x)
<1>1. /\ n \in Nat /\ q \in Seq(Seq(S)) /\ Len(q) = n + 1 /\ q # <<>>
      /\ q[n + 1] = x /\ \A i \in 1..n : q[i] = p[i]
  BY LenProperties, AppendProperties
<1> HIDE DEF q
<1>2. PICK f \in [1..Len(q) -> Seq(S)] : Steps(q, f) /\ FlattenSeq(q) = f[Len(q)]
  BY <1>1, FlattenSteps
<1>3. CASE p = <<>>
  <2>1. n = 0 /\ FlattenSeq(p) = <<>>
    BY <1>3, FlattenSeqChoice
  <2>2. FlattenSeq(q) = x
    BY <1>1, <1>2, <2>1 DEF Steps
  <2> QED BY <2>1, <2>2, ConcatEmptySeq DEF q
<1>4. CASE p # <<>>
  <2>1. n # 0
    BY <1>4, EmptySeq
  <2>2. Steps(p, f)
    <3>1. 1 \in 1..n /\ f[1] = p[1]
      <4>1. 1 \in 1..n
        BY <1>1, <2>1
      <4> QED BY <1>1, <1>2, <4>1 DEF Steps
    <3>2. ASSUME NEW i \in 2..n PROVE f[i] = f[i - 1] \o p[i]
      <4>1. i \in 1..n /\ i \in 2..Len(q)
        BY <1>1
      <4> QED BY <1>1, <1>2, <4>1 DEF Steps
    <3> QED BY <3>1, <3>2 DEF Steps
  <2>3. FlattenSeq(p) = f[n]
    BY <1>4, <2>2, FlattenUnique
  <2>4. f[n + 1] = f[n] \o x
    <3>1. n + 1 \in 2..Len(q) /\ (n + 1) - 1 = n
      BY <1>1, <2>1
    <3> QED BY <1>1, <1>2, <3>1 DEF Steps
  <2> QED BY <1>1, <1>2, <2>3, <2>4 DEF q
<1> QED
  BY <1>3, <1>4

LEMMA FlattenHead ==
  ASSUME NEW S, NEW p \in Seq(Seq(S)), p # <<>>
  PROVE  FlattenSeq(p) = Head(p) \o FlattenSeq(Tail(p))
<1> DEFINE n == Len(p)
           t == Tail(p)
<1>1. /\ n \in Nat /\ n # 0 /\ t \in Seq(Seq(S)) /\ Len(t) = n - 1
      /\ \A i \in 1..(n - 1) : t[i] = p[i + 1]
      /\ p[1] \in Seq(S) /\ Head(p) = p[1]
  BY LenProperties, HeadTailProperties, ElementOfSeq, EmptySeq
<1> HIDE DEF t
<1>2. CASE t = <<>>
  <2>1. n = 1 /\ FlattenSeq(t) = <<>>
    <3>1. Len(t) = 0
      BY <1>2
    <3>2. n = 1
      BY <1>1, <3>1
    <3>3. FlattenSeq(t) = t
      BY <3>1, FlattenSeqChoice
    <3> QED BY <1>2, <3>2, <3>3
  <2>2. PICK f \in [1..n -> Seq(S)] : Steps(p, f) /\ FlattenSeq(p) = f[n]
    BY FlattenSteps
  <2>3. FlattenSeq(p) = p[1]
    BY <2>1, <2>2 DEF Steps
  <2> QED BY <1>1, <2>1, <2>3, ConcatEmptySeq DEF t
<1>3. CASE t # <<>>
  <2>1. Len(t) # 0
    BY <1>1, <1>3, EmptySeq
  <2>2. PICK f \in [1..Len(t) -> Seq(S)] : Steps(t, f) /\ FlattenSeq(t) = f[Len(t)]
    BY <1>1, <1>3, FlattenSteps
  <2> DEFINE g == [i \in 1..n |-> IF i = 1 THEN p[1] ELSE p[1] \o f[i - 1]]
  <2>3. ASSUME NEW i \in 2..n PROVE g[i] = g[i - 1] \o p[i]
    <3>0. i \in 1..n /\ i # 1 /\ i - 1 \in 1..(n - 1) /\ i - 1 \in 1..n /\ (i - 1) + 1 = i
      BY <1>1
    <3>1. g[i] = p[1] \o f[i - 1] /\ g[1] = p[1]
      <4>1. 1 \in 1..n
        BY <1>1
      <4>2. g[1] = p[1]
        BY <4>1
      <4>3. g[i] = p[1] \o f[i - 1]
        BY <3>0
      <4> QED BY <4>2, <4>3
    <3>2. CASE i = 2
      <4>1. i - 1 = 1 /\ t[1] = p[i]
        BY <1>1, <3>0, <3>2
      <4>2. f[1] = t[1]
        BY <2>2 DEF Steps
      <4> HIDE DEF g
      <4> QED BY <3>1, <4>1, <4>2
    <3>3. CASE i # 2
      <4>1. i - 1 \in 2..Len(t) /\ (i - 1) - 1 = i - 2 /\ (i - 1) + 1 = i /\ i - 2 \in 1..Len(t)
        BY <1>1, <3>3
      <4>2. f[i - 1] = f[i - 2] \o p[i]
        <5>1. t[i - 1] = p[i]
          BY <1>1, <3>0
        <5>2. f[i - 1] = f[(i - 1) - 1] \o t[i - 1]
          BY <2>2, <4>1 DEF Steps
        <5> QED BY <4>1, <5>1, <5>2
      <4>3. g[i - 1] = p[1] \o f[i - 2]
        <5>1. i - 1 # 1
          BY <3>0, <3>3
        <5> QED BY <3>0, <4>1, <5>1
      <4>4. f[i - 2] \in Seq(S) /\ p[i] \in Seq(S)
        <5>1. p[i] \in Seq(S)
          BY <3>0, ElementOfSeq
        <5>2. f[i - 2] \in Seq(S)
          BY <2>2, <4>1
        <5> QED BY <5>1, <5>2
      <4> HIDE DEF g
      <4>5. p[1] \o (f[i - 2] \o p[i]) = (p[1] \o f[i - 2]) \o p[i]
        <5>1. PICK a \in Seq(S), b \in Seq(S), c \in Seq(S) : a = p[1] /\ b = f[i - 2] /\ c = p[i]
          BY <1>1, <4>4, Zenon
        <5>2. a \o (b \o c) = (a \o b) \o c
          BY Z3T(60)
        <5> QED BY <5>1, <5>2
      <4> QED BY <3>1, <4>2, <4>3, <4>5
    <3> QED BY <3>2, <3>3
  <2>4. g[1] = p[1] /\ g[n] = p[1] \o f[Len(t)]
    <3>1. 1 \in 1..n /\ n \in 1..n /\ n # 1 /\ n - 1 = Len(t)
      BY <1>1, <2>1
    <3> HIDE DEF n
    <3> QED BY <3>1
  <2> HIDE DEF g
  <2>5. Steps(p, g)
    BY <2>3, <2>4 DEF Steps
  <2>6. FlattenSeq(p) = g[n]
    BY <2>5, FlattenUnique
  <2> QED BY <1>1, <2>2, <2>4, <2>6 DEF t
<1> QED
  BY <1>2, <1>3
=============================================================================
