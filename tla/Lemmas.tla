------------------------------- MODULE Lemmas -------------------------------
(***************************************************************************)
(* Facts that the proofs of several modules use: on sequences, on sets of  *)
(* natural numbers, on finite sets put in order, and on the sessions the   *)
(* oracle finds in a sequence of events, above all what they become when   *)
(* one event is appended.                                                  *)
(***************************************************************************)
EXTENDS SessionOracle, SequenceTheorems, FiniteSetTheorems, TLAPS

-----------------------------------------------------------------------------
(* Sequences *)

\* RemoveAt drops one element and closes the gap.
LEMMA RemoveAtProperties ==
    ASSUME NEW S, NEW q \in Seq(S), NEW i \in 1..Len(q)
    PROVE  /\ RemoveAt(q, i) \in Seq(S)
           /\ Len(RemoveAt(q, i)) = Len(q) - 1
           /\ \A j \in 1..(Len(q) - 1) :
                 RemoveAt(q, i)[j] = IF j < i THEN q[j] ELSE q[j + 1]
<1>1. /\ SubSeq(q, 1, i - 1) \in Seq(S)
      /\ Len(SubSeq(q, 1, i - 1)) = i - 1
      /\ \A j \in 1..(i - 1) : SubSeq(q, 1, i - 1)[j] = q[j]
  OBVIOUS
<1>2. /\ SubSeq(q, i + 1, Len(q)) \in Seq(S)
      /\ Len(SubSeq(q, i + 1, Len(q))) = Len(q) - i
      /\ \A j \in 1..(Len(q) - i) : SubSeq(q, i + 1, Len(q))[j] = q[i + j]
  OBVIOUS
<1> DEFINE a == SubSeq(q, 1, i - 1)
           b == SubSeq(q, i + 1, Len(q))
<1>3. RemoveAt(q, i) = a \o b
  BY DEF RemoveAt
<1> HIDE DEF a, b
<1>4. /\ a \o b \in Seq(S)
      /\ Len(a \o b) = Len(a) + Len(b)
      /\ \A j \in 1..(Len(a) + Len(b)) :
            (a \o b)[j] = IF j <= Len(a) THEN a[j] ELSE b[j - Len(a)]
  BY <1>1, <1>2, ConcatProperties DEF a, b
<1>5. /\ Len(a) = i - 1
      /\ Len(b) = Len(q) - i
      /\ Len(q) \in Nat
      /\ \A j \in 1..(i - 1) : a[j] = q[j]
      /\ \A j \in 1..(Len(q) - i) : b[j] = q[i + j]
  BY <1>1, <1>2 DEF a, b
<1>6. ASSUME NEW j \in 1..(Len(q) - 1)
      PROVE  (a \o b)[j] = IF j < i THEN q[j] ELSE q[j + 1]
  <2>1. CASE j < i
    BY <1>4, <1>5, <2>1
  <2>2. CASE ~(j < i)
    <3>1. j - (i - 1) \in 1..(Len(q) - i) /\ i + (j - (i - 1)) = j + 1
      BY <1>5, <2>2
    <3>2. (a \o b)[j] = b[j - (i - 1)]
      <4>1. j \in 1..(Len(a) + Len(b)) /\ ~(j <= Len(a)) /\ j - Len(a) = j - (i - 1)
        BY <1>5, <2>2
      <4>2. (a \o b)[j] = b[j - Len(a)]
        BY ONLY <1>4, <4>1
      <4>3. QED  BY ONLY <4>1, <4>2
    <3>3. QED  BY <1>5, <2>2, <3>1, <3>2
  <2>3. QED  BY <2>1, <2>2
<1>7. QED  BY <1>3, <1>4, <1>5, <1>6

\* Tail shifts the sequence by one.
LEMMA TailShifts ==
    ASSUME NEW S, NEW q \in Seq(S), q # <<>>
    PROVE  /\ Tail(q) \in Seq(S)
           /\ Len(q) \in Nat \ {0}
           /\ Len(Tail(q)) = Len(q) - 1
           /\ \A j \in 1..(Len(q) - 1) : Tail(q)[j] = q[j + 1]
OBVIOUS

\* Append adds its element at the end.
LEMMA AppendAdds ==
    ASSUME NEW S, NEW q \in Seq(S), NEW x \in S
    PROVE  /\ Append(q, x) \in Seq(S)
           /\ Len(Append(q, x)) = Len(q) + 1
           /\ \A j \in 1..Len(q) : Append(q, x)[j] = q[j]
           /\ Append(q, x)[Len(q) + 1] = x
OBVIOUS

LEMMA ElementsAppend ==
    ASSUME NEW S, NEW q \in Seq(S), NEW x \in S
    PROVE  ToSet(Append(q, x)) = ToSet(q) \cup {x}
<1>1. /\ DOMAIN q = 1..Len(q) /\ Len(q) \in Nat
      /\ DOMAIN Append(q, x) = 1..(Len(q) + 1)
      /\ \A j \in 1..Len(q) : Append(q, x)[j] = q[j]
      /\ Append(q, x)[Len(q) + 1] = x
  OBVIOUS
<1>2. \A j : j \in 1..(Len(q) + 1) <=> j \in 1..Len(q) \/ j = Len(q) + 1
  BY <1>1
<1>3. QED  BY <1>1, <1>2 DEF ToSet

LEMMA ElementsTail ==
    ASSUME NEW S, NEW q \in Seq(S), q # <<>>
    PROVE  ToSet(q) = {q[1]} \cup ToSet(Tail(q))
<1>1. /\ DOMAIN q = 1..Len(q) /\ Len(q) \in Nat \ {0}
      /\ DOMAIN Tail(q) = 1..(Len(q) - 1)
      /\ \A j \in 1..(Len(q) - 1) : Tail(q)[j] = q[j + 1]
  OBVIOUS
<1>2. ASSUME NEW j \in 1..Len(q), j # 1
      PROVE  \E m \in 1..(Len(q) - 1) : q[j] = Tail(q)[m]
  <2>1. j - 1 \in 1..(Len(q) - 1) /\ (j - 1) + 1 = j
    BY <1>1, <1>2
  <2>2. QED  BY <1>1, <2>1
<1>3. \A m \in 1..(Len(q) - 1) : m + 1 \in 1..Len(q)
  BY <1>1
<1>4. 1 \in 1..Len(q)
  BY <1>1
<1>5. /\ ToSet(q) = {q[j] : j \in 1..Len(q)}
      /\ ToSet(Tail(q)) = {Tail(q)[m] : m \in 1..(Len(q) - 1)}
  BY <1>1 DEF ToSet
<1>6. \A x \in ToSet(q) : x = q[1] \/ x \in ToSet(Tail(q))
  BY <1>2, <1>5
<1>7. \A x \in ToSet(Tail(q)) : x \in ToSet(q)
  BY <1>1, <1>3, <1>5
<1>8. q[1] \in ToSet(q)
  BY <1>4, <1>5
<1>9. QED  BY <1>6, <1>7, <1>8

LEMMA ElementsFew == ToSet(<<>>) = {} /\ \A x : ToSet(<<x>>) = {x}
BY DEF ToSet

\* The first of q becomes the last of p: together they stay what they were.
LEMMA Requeued ==
    ASSUME NEW S, NEW p \in Seq(S), NEW q \in Seq(S), q # <<>>
    PROVE  Append(p, Head(q)) \o Tail(q) = p \o q
<1>1. /\ <<Head(q)>> \in Seq(S) /\ Tail(q) \in Seq(S) /\ Len(Tail(q)) = Len(q) - 1
      /\ Len(<<Head(q)>>) = 1 /\ <<Head(q)>>[1] = q[1] /\ Len(q) \in Nat \ {0}
      /\ Append(p, Head(q)) = p \o <<Head(q)>>
      /\ \A j \in 1..(Len(q) - 1) : Tail(q)[j] = q[j + 1]
  OBVIOUS
<1> DEFINE first == <<Head(q)>>
           rest == Tail(q)
<1>2. first \o rest = q
  <2> HIDE DEF first, rest
  <2>1. first \in Seq(S) /\ rest \in Seq(S) /\ Len(first) = 1 /\ Len(rest) = Len(q) - 1
    BY <1>1 DEF first, rest
  <2>2. /\ first \o rest \in Seq(S)
        /\ Len(first \o rest) = Len(first) + Len(rest)
        /\ \A j \in 1..(Len(first) + Len(rest)) :
              (first \o rest)[j] = IF j <= Len(first) THEN first[j] ELSE rest[j - Len(first)]
    BY <2>1, ConcatProperties
  <2>3. ASSUME NEW j \in 1..Len(q)
        PROVE  (first \o rest)[j] = q[j]
    <3>1. CASE j = 1
      BY <1>1, <2>1, <2>2, <3>1 DEF first
    <3>2. CASE j # 1
      <4>1. j - 1 \in 1..(Len(q) - 1) /\ (j - 1) + 1 = j
        BY <1>1, <3>2
      <4>2. rest[j - 1] = q[j]
        BY <1>1, <4>1 DEF rest
      <4>3. QED  BY <1>1, <2>1, <2>2, <3>2, <4>2
    <3>3. QED  BY <3>1, <3>2
  <2>4. Len(first \o rest) = Len(q)
    BY <1>1, <2>1, <2>2
  <2>5. QED  BY <2>2, <2>3, <2>4, SeqEqual
<1>3. (p \o first) \o rest = p \o (first \o rest)
  <2> HIDE DEF first, rest
  <2>1. first \in Seq(S) /\ rest \in Seq(S)
    BY <1>1 DEF first, rest
  <2>2. QED  BY <2>1, ConcatAssociative
<1>4. QED  BY <1>1, <1>2, <1>3

LEMMA AppendLater ==
    ASSUME NEW S, NEW p \in Seq(S), NEW q \in Seq(S), NEW x \in S
    PROVE  p \o Append(q, x) = Append(p \o q, x)
<1>1. /\ <<x>> \in Seq(S)
      /\ Append(q, x) = q \o <<x>>
      /\ p \o q \in Seq(S)
      /\ Append(p \o q, x) = (p \o q) \o <<x>>
  OBVIOUS
<1>2. (p \o q) \o <<x>> = p \o (q \o <<x>>)
  BY <1>1, ConcatAssociative
<1>3. QED  BY <1>1, <1>2

-----------------------------------------------------------------------------
(* Natural numbers *)

\* What induction rests on here: a set of natural numbers has a least element.
LEMMA Least ==
    ASSUME NEW T \in SUBSET Nat, T # {}
    PROVE  \E x \in T : \A y \in T : x <= y
<1> DEFINE less == OpToRel(<, Nat)
<1>1. IsWellFoundedOn(less, Nat)
  BY NatLessThanWellFounded
<1>2. PICK x \in T : \A y \in T : ~(<<y, x>> \in less)
  <2> HIDE DEF less
  <2> QED  BY <1>1, WFMin
<1>3. \A y \in T : y < x => <<y, x>> \in less
  BY DEF OpToRel
<1> HIDE DEF less
<1>4. \A y \in T : ~(y < x)
  BY <1>2, <1>3
<1>5. QED  BY <1>4

LEMMA MinIsLeast ==
    ASSUME NEW T \in SUBSET Nat, T # {}
    PROVE  Min(T) \in T /\ \A y \in T : Min(T) <= y
BY Least DEF Min

LEMMA MaxIsGreatest ==
    ASSUME NEW N \in Nat, NEW T \in SUBSET (0..N), T # {}
    PROVE  Max(T) \in T /\ \A y \in T : y <= Max(T)
<1> DEFINE below == {N - y : y \in T}
<1>1. below \subseteq Nat /\ below # {}
  <2>1. \A y \in T : y \in 0..N
    OBVIOUS
  <2>2. \A y \in T : N - y \in Nat
    BY <2>1
  <2>3. QED  BY <2>2
<1>2. PICK x \in below : \A y \in below : x <= y
  <2> HIDE DEF below
  <2> QED  BY <1>1, Least
<1>3. PICK z \in T : x = N - z
  BY <1>2
<1>4. \A y \in T : y <= z
  <2> TAKE y \in T
  <2>1. N - y \in below
    OBVIOUS
  <2>2. N - z <= N - y
    BY <1>2, <1>3, <2>1
  <2>3. y \in 0..N /\ z \in 0..N
    BY <1>3
  <2>4. QED  BY <2>2, <2>3
<1>5. \E v \in T : \A y \in T : v >= y
  BY <1>3, <1>4
<1>6. /\ Max(T) \in T
      /\ \A y \in T : Max(T) >= y
  BY <1>5 DEF Max
<1>7. QED  BY <1>6

-----------------------------------------------------------------------------
(* Finite sets *)

\* The first n of q are different.
Distinct(q, n) == \A i, j \in 1..n : i # j => q[i] # q[j]

\* A sequence without repetition has as many elements as places.
LEMMA CountDistinct ==
    ASSUME NEW n \in Nat, NEW q, Distinct(q, n)
    PROVE  /\ IsFiniteSet({q[i] : i \in 1..n})
           /\ Cardinality({q[i] : i \in 1..n}) = n
<1> DEFINE S == {q[i] : i \in 1..n}
           f == [i \in 1..n |-> q[i]]
<1>1. IsFiniteSet(1..n) /\ Cardinality(1..n) = n
  BY FS_Interval
<1>2. f \in Bijection(1..n, S)
  BY DEF Bijection, Injection, Surjection, IsInjective, Distinct
<1>3. ExistsBijection(1..n, S)
  BY <1>2 DEF ExistsBijection
<1>4. QED
  <2> HIDE DEF S, f
  <2> USE <1>1, <1>3
  <2>1. IsFiniteSet(S) /\ Cardinality(S) = Cardinality(1..n)
    BY FS_Bijection
  <2>2. QED  BY <2>1 DEF S

\* The values of a function on a finite set are finitely many.
LEMMA FiniteImage ==
    ASSUME NEW S, IsFiniteSet(S), NEW f
    PROVE  IsFiniteSet({f[x] : x \in S})
<1> DEFINE T == {f[x] : x \in S}
           g == [x \in S |-> f[x]]
<1>1. g \in Surjection(S, T)
  BY DEF Surjection
<1>2. IsFiniteSet(T)
  <2> HIDE DEF T, g
  <2> QED  BY <1>1, FS_Surjection
<1>3. QED  BY <1>2

\* The first n of q are members of R, in the order of before, and come before all
\* the others.
Leads(q, n, R, before) ==
    /\ \A i \in 1..n : q[i] \in R
    /\ \A i, j \in 1..n : <<q[i], q[j]>> \in before <=> i < j
    /\ \A i \in 1..n : \A r \in R :
          (\A j \in 1..n : r # q[j]) => <<q[i], r>> \in before /\ <<r, q[i]>> \notin before

\* Then they are how InOrder begins.
LEMMA InOrderBegins ==
    ASSUME NEW R, IsFiniteSet(R), NEW before, NEW n \in Nat, NEW q, Leads(q, n, R, before)
    PROVE  /\ Cardinality(R) \in Nat
           /\ n <= Cardinality(R)
           /\ \A k \in 1..n : InOrder(R, before)[k] = q[k]
<1>a. /\ \A i \in 1..n : q[i] \in R
      /\ \A i, j \in 1..n : <<q[i], q[j]>> \in before <=> i < j
      /\ \A i \in 1..n : \A r \in R : (\A j \in 1..n : r # q[j]) => <<q[i], r>> \in before
      /\ \A i \in 1..n : \A r \in R : (\A j \in 1..n : r # q[j]) => <<r, q[i]>> \notin before
  BY DEF Leads
<1> USE <1>a
<1> DEFINE first(k) == {q[i] : i \in 1..k}
           under(r) == {s \in R : <<s, r>> \in before}
<1>1. \A i, j \in 1..n : i # j => q[i] # q[j]
  <2> SUFFICES ASSUME NEW i \in 1..n, NEW j \in 1..n, i # j
               PROVE  q[i] # q[j]
    OBVIOUS
  <2>1. i < j \/ j < i
    OBVIOUS
  <2>2. <<q[i], q[i]>> \notin before /\ <<q[j], q[j]>> \notin before
    OBVIOUS
  <2>3. QED  BY <2>1, <2>2
<1>2. ASSUME NEW k \in 0..n
      PROVE  /\ IsFiniteSet(first(k))
             /\ Cardinality(first(k)) = k
  <2>1. k \in Nat /\ Distinct(q, k)
    BY <1>1 DEF Distinct
  <2>2. /\ IsFiniteSet({q[i] : i \in 1..k})
        /\ Cardinality({q[i] : i \in 1..k}) = k
    <3> HIDE DEF first, under
    <3> QED  BY ONLY <2>1, CountDistinct
  <2>3. QED  BY <2>2
<1>3. Cardinality(R) \in Nat /\ n <= Cardinality(R)
  <2>1. first(n) \subseteq R
    OBVIOUS
  <2>2. Cardinality(first(n)) <= Cardinality(R)
    <3> HIDE DEF first
    <3> QED  BY <2>1, FS_Subset
  <2>3. Cardinality(R) \in Nat
    BY FS_CardinalityType
  <2>4. n \in 0..n
    OBVIOUS
  <2>5. QED  BY <1>2, <2>2, <2>3, <2>4
<1>4. ASSUME NEW k \in 1..n
      PROVE  Cardinality(under(q[k])) = k - 1
  <2>1. under(q[k]) \subseteq first(k - 1)
    <3> SUFFICES ASSUME NEW r \in R, <<r, q[k]>> \in before
                 PROVE  r \in first(k - 1)
      OBVIOUS
    <3>1. PICK j \in 1..n : r = q[j]
      OBVIOUS
    <3>2. j < k
      BY <3>1
    <3>3. j \in 1..(k - 1)
      BY <3>2
    <3>4. QED  BY <3>1, <3>3
  <2>2. first(k - 1) \subseteq under(q[k])
    <3> SUFFICES ASSUME NEW j \in 1..(k - 1)
                 PROVE  q[j] \in R /\ <<q[j], q[k]>> \in before
      OBVIOUS
    <3>1. j \in 1..n /\ j < k
      OBVIOUS
    <3>2. QED  BY <3>1
  <2>3. k - 1 \in 0..n
    OBVIOUS
  <2>4. Cardinality(first(k - 1)) = k - 1
    BY <1>2, <2>3
  <2>5. under(q[k]) = first(k - 1)
    BY <2>1, <2>2
  <2>6. QED
    <3> HIDE DEF under, first
    <3> QED  BY <2>4, <2>5
<1>5. ASSUME NEW k \in 1..n, NEW r \in R, Cardinality(under(r)) = k - 1
      PROVE  r = q[k]
  <2>1. CASE \E j \in 1..n : r = q[j]
    <3>1. PICK j \in 1..n : r = q[j]
      BY <2>1
    <3>2. Cardinality(under(q[j])) = j - 1
      BY <1>4
    <3>3. k - 1 = j - 1
      <4> HIDE DEF under
      <4> QED  BY <1>5, <3>1, <3>2
    <3>4. QED  BY <3>1, <3>3
  <2>2. CASE \A j \in 1..n : r # q[j]
    <3>1. first(n) \subseteq under(r)
      BY <2>2
    <3>2. under(r) \subseteq R
      OBVIOUS
    <3>3. IsFiniteSet(under(r))
      <4> HIDE DEF under
      <4> QED  BY <3>2, FS_Subset
    <3>4. Cardinality(first(n)) <= Cardinality(under(r))
      <4> HIDE DEF under, first
      <4> QED  BY <3>1, <3>3, FS_Subset
    <3>5. n \in 0..n
      OBVIOUS
    <3>6. n <= k - 1
      <4>1. Cardinality(first(n)) = n
        BY <1>2, <3>5
      <4> HIDE DEF under, first
      <4> QED  BY <1>5, <3>4, <4>1
    <3>7. QED  BY <3>6
  <2>3. QED  BY <2>1, <2>2
<1>6. ASSUME NEW k \in 1..n
      PROVE  InOrder(R, before)[k] = q[k]
  <2>1. k \in 1..Cardinality(R)
    BY <1>3
  <2>2. InOrder(R, before)[k] = CHOOSE r \in R : Cardinality(under(r)) = k - 1
    BY <2>1 DEF InOrder
  <2>3. q[k] \in R /\ Cardinality(under(q[k])) = k - 1
    BY <1>4
  <2>4. \A r \in R : Cardinality(under(r)) = k - 1 => r = q[k]
    BY <1>5
  <2>5. QED
    <3> HIDE DEF under
    <3> QED  BY <2>2, <2>3, <2>4
<1>7. QED  BY <1>3, <1>6

\* What leads to Leads, in an order that is asymmetric on R.
Precede(q, n, R, before) ==
    /\ \A i \in 1..n : q[i] \in R
    /\ \A i, j \in 1..n : i < j => <<q[i], q[j]>> \in before
    /\ \A i \in 1..n : \A r \in R : (\A j \in 1..n : r # q[j]) => <<q[i], r>> \in before
    /\ \A r, s \in R : <<r, s>> \in before => <<s, r>> \notin before

LEMMA PrecedeLeads ==
    ASSUME NEW R, NEW before, NEW n \in Nat, NEW q, Precede(q, n, R, before)
    PROVE  Leads(q, n, R, before)
<1>1. \A i \in 1..n : q[i] \in R
  BY DEF Precede
<1>2. ASSUME NEW i \in 1..n, NEW j \in 1..n
      PROVE  <<q[i], q[j]>> \in before <=> i < j
  <2>1. i < j \/ j < i \/ i = j
    OBVIOUS
  <2>2. /\ i < j => <<q[i], q[j]>> \in before
        /\ j < i => <<q[j], q[i]>> \in before
        /\ <<q[j], q[i]>> \in before => <<q[i], q[j]>> \notin before
    BY <1>1 DEF Precede
  <2>3. i = j => <<q[i], q[j]>> \notin before
    BY <2>2
  <2>4. j < i => ~(i < j)
    OBVIOUS
  <2>5. i = j => ~(i < j)
    OBVIOUS
  <2>6. QED  BY ONLY <2>1, <2>2, <2>3, <2>4, <2>5
<1>3. ASSUME NEW i \in 1..n, NEW r \in R, \A j \in 1..n : r # q[j]
      PROVE  <<q[i], r>> \in before /\ <<r, q[i]>> \notin before
  BY <1>1, <1>3 DEF Precede
<1>4. QED  BY <1>1, <1>2, <1>3 DEF Leads

\* before is a strict total order of R.
Orders(R, before) ==
    /\ \A r, s \in R : r # s => <<r, s>> \in before \/ <<s, r>> \in before
    /\ \A r \in R : <<r, r>> \notin before
    /\ \A r, s, t \in R : <<r, s>> \in before /\ <<s, t>> \in before => <<r, t>> \in before

\* Then every member of R has one place in InOrder, and no other has any.
LEMMA InOrderPlaces ==
    ASSUME NEW R, IsFiniteSet(R), NEW before, Orders(R, before)
    PROVE  /\ Cardinality(R) \in Nat
           /\ \A r \in R : \E k \in 1..Cardinality(R) : InOrder(R, before)[k] = r
           /\ \A k \in 1..Cardinality(R) : InOrder(R, before)[k] \in R
           /\ Distinct(InOrder(R, before), Cardinality(R))
           /\ \A k \in 1..Cardinality(R) :
                 Cardinality({s \in R : <<s, InOrder(R, before)[k]>> \in before}) = k - 1
<1> DEFINE n == Cardinality(R)
           under(t) == {s \in R : <<s, t>> \in before}
           rank == [r \in R |-> Cardinality(under(r)) + 1]
           q == InOrder(R, before)
<1>1. n \in Nat
  BY FS_CardinalityType
<1>2. ASSUME NEW s \in R
      PROVE  /\ Cardinality(under(s)) \in Nat
             /\ Cardinality(under(s)) < n
  <2>1. under(s) \subseteq R /\ under(s) # R
    BY DEF Orders
  <2> HIDE DEF under
  <2>2. IsFiniteSet(under(s)) /\ Cardinality(under(s)) <= n
    BY <2>1, FS_Subset
  <2>3. Cardinality(under(s)) # n
    BY <2>1, FS_Subset
  <2>4. Cardinality(under(s)) \in Nat
    BY <2>2, FS_CardinalityType
  <2> HIDE DEF n
  <2>5. QED  BY <1>1, <2>2, <2>3, <2>4
<1>3. ASSUME NEW s \in R, NEW t \in R, <<s, t>> \in before
      PROVE  Cardinality(under(s)) # Cardinality(under(t))
  <2>1. under(s) \subseteq under(t) /\ s \in under(t) /\ s \notin under(s)
    BY <1>3 DEF Orders
  <2>2. under(t) \subseteq R
    OBVIOUS
  <2> HIDE DEF under
  <2>3. IsFiniteSet(under(t))
    BY <2>2, FS_Subset
  <2>4. QED  BY <2>1, <2>3, FS_Subset
<1>4. \A s, t \in R : Cardinality(under(s)) = Cardinality(under(t)) => s = t
  <2> HIDE DEF under
  <2> QED  BY <1>3 DEF Orders
<1>5. \A r \in R : rank[r] \in 1..n /\ Cardinality(under(r)) = rank[r] - 1
  <2> HIDE DEF under, n
  <2> QED  BY <1>1, <1>2
<1>6. \A r, s \in R : rank[r] = rank[s] => r = s
  <2> HIDE DEF under, n, rank
  <2> QED  BY <1>4, <1>5
<1>7. ASSUME NEW k \in 1..n
      PROVE  \E r \in R : rank[r] = k
  <2>1. rank \in [R -> 1..n]
    <3> HIDE DEF n, under
    <3> QED  BY <1>5
  <2> HIDE DEF rank
  <2>2. rank \in Injection(R, 1..n)
    BY <1>6, <2>1 DEF Injection, IsInjective
  <2>3. IsFiniteSet(1..n) /\ Cardinality(1..n) = n
    <3> HIDE DEF n
    <3> QED  BY <1>1, FS_Interval
  <2>4. rank \in Surjection(R, 1..n)
    BY <2>2, <2>3, FS_Injection
  <2>5. QED  BY <2>4 DEF Surjection
<1>8. ASSUME NEW r \in R
      PROVE  q[rank[r]] = r
  <2>1. q[rank[r]] = CHOOSE s \in R : Cardinality(under(s)) = rank[r] - 1
    <3>1. rank[r] \in 1..n
      BY <1>5
    <3> HIDE DEF rank
    <3>2. QED  BY <3>1 DEF InOrder
  <2> HIDE DEF under, rank, q
  <2>2. \A s \in R : Cardinality(under(s)) = rank[r] - 1 <=> s = r
    BY <1>4, <1>5
  <2>3. QED  BY <2>1, <2>2
<1> HIDE DEF rank, q, n
<1>a. ASSUME NEW k \in 1..n
      PROVE  Cardinality({s \in R : <<s, q[k]>> \in before}) = k - 1
  <2>1. PICK r \in R : rank[r] = k
    BY <1>7
  <2>2. q[k] = r
    BY <1>8, <2>1
  <2>3. Cardinality(under(r)) = k - 1
    <3> HIDE DEF under
    <3> QED  BY <1>5, <2>1
  <2>4. QED  BY <2>2, <2>3
<1> HIDE DEF under
<1>9. \A k \in 1..n : q[k] \in R /\ rank[q[k]] = k
  BY <1>7, <1>8
<1>10. Distinct(q, n)
  BY <1>9 DEF Distinct
<1>11. \A r \in R : \E k \in 1..n : q[k] = r
  BY <1>5, <1>8
<1>12. QED  BY <1>1, <1>9, <1>10, <1>11, <1>a DEF n, q

-----------------------------------------------------------------------------
(* The bytes of some of the events *)

\* f adds up the bytes of the events in m, up to each of the first n.
Totals(f, evs, m, n) ==
    f = [x \in 0..n |-> IF x = 0 THEN 0
                        ELSE f[x - 1] + IF x \in m THEN evs[x].bytes ELSE 0]

LEMMA TotalsExist ==
    ASSUME NEW evs, NEW m, NEW n \in Nat
    PROVE  \E f : Totals(f, evs, m, n)
<1> DEFINE T == {x \in Nat : ~\E f : Totals(f, evs, m, x)}
<1>1. SUFFICES ASSUME T # {}
               PROVE  FALSE
  OBVIOUS
<1>2. PICK x \in T : \A y \in T : x <= y
  BY <1>1, Least
<1>3. CASE x = 0
  <2> DEFINE f == [z \in 0..0 |-> 0]
  <2>1. f = [z \in 0..0 |-> IF z = 0 THEN 0
                            ELSE f[z - 1] + IF z \in m THEN evs[z].bytes ELSE 0]
    OBVIOUS
  <2>2. Totals(f, evs, m, 0)
    <3> HIDE DEF f
    <3> QED  BY <2>1 DEF Totals
  <2>3. QED  BY <1>3, <2>2
<1>4. CASE x # 0
  <2>1. x \in Nat /\ x - 1 \in Nat /\ x - 1 \notin T
    BY <1>2, <1>4
  <2>2. PICK g : Totals(g, evs, m, x - 1)
    BY <2>1
  <2>3. /\ DOMAIN g = 0..(x - 1)
        /\ \A z \in 0..(x - 1) : g[z] = IF z = 0 THEN 0
                                 ELSE g[z - 1] + IF z \in m THEN evs[z].bytes ELSE 0
    BY <2>2 DEF Totals
  <2> DEFINE top == g[x - 1] + IF x \in m THEN evs[x].bytes ELSE 0
             f == [z \in 0..x |-> IF z = x THEN top ELSE g[z]]
  <2>4. ASSUME NEW z \in 0..x
        PROVE  f[z] = IF z = 0 THEN 0
                      ELSE f[z - 1] + IF z \in m THEN evs[z].bytes ELSE 0
    <3>1. CASE z = x
      <4>1. z # 0 /\ z - 1 \in 0..x /\ z - 1 # x
        BY <2>1, <3>1, <1>4
      <4>2. f[z - 1] = g[x - 1]
        BY <4>1, <3>1
      <4>3. QED  BY <3>1, <4>1, <4>2
    <3>2. CASE z # x
      <4>1. z \in 0..(x - 1)
        BY <2>1, <3>2
      <4>2. f[z] = g[z]
        BY <3>2
      <4>3. z # 0 => z - 1 \in 0..x /\ z - 1 # x
        BY <4>1
      <4>4. z # 0 => f[z - 1] = g[z - 1]
        BY <4>3
      <4>5. QED
        <5> HIDE DEF f
        <5> QED  BY <2>3, <4>1, <4>2, <4>4
    <3>3. QED  BY <3>1, <3>2
  <2>5. f = [z \in 0..x |-> f[z]]
    OBVIOUS
  <2>6. Totals(f, evs, m, x)
    <3> HIDE DEF f
    <3> QED  BY <2>4, <2>5 DEF Totals
  <2>7. QED  BY <1>2, <2>6
<1>5. QED  BY <1>3, <1>4

\* Two such sums agree as far as they are over the same events.
LEMMA TotalsAgree ==
    ASSUME NEW n \in Nat, NEW f, NEW evs, NEW m, NEW n1 \in Nat, Totals(f, evs, m, n1),
           NEW g, NEW evs2, NEW m2, NEW n2 \in Nat, Totals(g, evs2, m2, n2),
           n <= n1, n <= n2,
           \A x \in 1..n : (x \in m <=> x \in m2) /\ evs[x] = evs2[x]
    PROVE  \A x \in 0..n : f[x] = g[x]
<1> DEFINE T == {x \in 0..n : f[x] # g[x]}
<1>1. SUFFICES ASSUME T # {}
               PROVE  FALSE
  OBVIOUS
<1>2. PICK x \in T : \A y \in T : x <= y
  <2>1. T \in SUBSET Nat
    OBVIOUS
  <2>2. QED
    <3> HIDE DEF T
    <3> QED  BY <1>1, <2>1, Least
<1>3. x \in 0..n1 /\ x \in 0..n2
  BY <1>2
<1>4. /\ f[x] = IF x = 0 THEN 0 ELSE f[x - 1] + IF x \in m THEN evs[x].bytes ELSE 0
      /\ g[x] = IF x = 0 THEN 0 ELSE g[x - 1] + IF x \in m2 THEN evs2[x].bytes ELSE 0
  BY <1>3 DEF Totals
<1>5. x # 0
  BY <1>2, <1>4
<1>6. x - 1 \in 0..n /\ x \in 1..n
  BY <1>2, <1>5
<1>7. x - 1 \notin T
  BY <1>2, <1>6
<1>8. QED  BY <1>2, <1>4, <1>5, <1>6, <1>7

\* What BytesOf picks is such a sum.
LEMMA BytesOfIsTotal ==
    ASSUME NEW evs, Len(evs) \in Nat, NEW m
    PROVE  \E f : Totals(f, evs, m, Len(evs)) /\ BytesOf(evs, m) = f[Len(evs)]
<1> DEFINE g == CHOOSE f : f = [x \in 0..Len(evs) |->
                    IF x = 0 THEN 0 ELSE f[x - 1] + IF x \in m THEN evs[x].bytes ELSE 0]
<1>1. BytesOf(evs, m) = g[Len(evs)]
  BY DEF BytesOf
<1>2. PICK f : Totals(f, evs, m, Len(evs))
  BY TotalsExist
<1>3. Totals(g, evs, m, Len(evs))
  BY <1>2 DEF Totals
<1>4. QED
  <2> HIDE DEF g
  <2> QED  BY <1>1, <1>3

LEMMA BytesOfType ==
    ASSUME NEW E, NEW evs \in Seq(E), NEW m, \A i \in 1..Len(evs) : evs[i].bytes \in Nat
    PROVE  BytesOf(evs, m) \in Nat
<1>1. Len(evs) \in Nat
  OBVIOUS
<1>2. PICK f : Totals(f, evs, m, Len(evs)) /\ BytesOf(evs, m) = f[Len(evs)]
  BY <1>1, BytesOfIsTotal
<1>3. \A x \in 0..Len(evs) : f[x] = IF x = 0 THEN 0
                                    ELSE f[x - 1] + IF x \in m THEN evs[x].bytes ELSE 0
  BY <1>2 DEF Totals
<1> DEFINE T == {x \in 0..Len(evs) : f[x] \notin Nat}
<1>4. T = {}
  <2>1. SUFFICES ASSUME T # {}
                 PROVE  FALSE
    OBVIOUS
  <2>2. PICK x \in T : \A y \in T : x <= y
    <3>1. T \in SUBSET Nat
      BY <1>1
    <3>2. QED
      <4> HIDE DEF T
      <4> QED  BY <2>1, <3>1, Least
  <2>3. x \in 0..Len(evs) /\ f[x] \notin Nat
    BY <2>2
  <2>4. x # 0
    BY <1>3, <2>3
  <2>5. x - 1 \in 0..Len(evs) /\ x \in 1..Len(evs) /\ x - 1 < x
    BY <1>1, <2>3, <2>4
  <2>6. f[x - 1] \in Nat
    BY <2>2, <2>5
  <2>7. evs[x].bytes \in Nat
    BY <2>5
  <2>8. f[x] = f[x - 1] + IF x \in m THEN evs[x].bytes ELSE 0
    BY <1>3, <2>3, <2>4
  <2>9. QED  BY <2>3, <2>6, <2>7, <2>8
<1>5. Len(evs) \in 0..Len(evs)
  BY <1>1
<1>6. QED  BY <1>2, <1>4, <1>5

LEMMA BytesOfAppend ==
    ASSUME NEW E, NEW evs \in Seq(E), NEW e \in E, NEW m \in SUBSET (1..Len(evs)),
           \A i \in 1..Len(evs) : evs[i].bytes \in Nat, e.bytes \in Nat
    PROVE  \A m2 : (m2 = m => BytesOf(Append(evs, e), m2) = BytesOf(evs, m))
                    /\ (m2 = m \cup {Len(evs) + 1} =>
                          BytesOf(Append(evs, e), m2) = BytesOf(evs, m) + e.bytes)
<1> DEFINE n == Len(evs)
           evs2 == Append(evs, e)
<1>1. /\ n \in Nat
      /\ Len(evs2) = n + 1
      /\ \A i \in 1..n : evs2[i] = evs[i]
      /\ evs2[n + 1] = e
  OBVIOUS
<1>2. PICK f : Totals(f, evs, m, n) /\ BytesOf(evs, m) = f[n]
  BY <1>1, BytesOfIsTotal
<1>3. BytesOf(evs, m) \in Nat
  BY BytesOfType
<1>4. ASSUME NEW m2, \A x \in 1..n : x \in m <=> x \in m2
      PROVE  BytesOf(evs2, m2) = BytesOf(evs, m) + IF n + 1 \in m2 THEN e.bytes ELSE 0
  <2> HIDE DEF evs2, n
  <2>1. Len(evs2) \in Nat
    BY <1>1
  <2>2. PICK g : Totals(g, evs2, m2, n + 1) /\ BytesOf(evs2, m2) = g[n + 1]
    BY <2>1, <1>1, BytesOfIsTotal
  <2>3. n + 1 \in Nat /\ n <= n /\ n <= n + 1
    BY <1>1
  <2>4. \A x \in 1..n : (x \in m <=> x \in m2) /\ evs[x] = evs2[x]
    BY <1>1, <1>4
  <2>5. \A x \in 0..n : f[x] = g[x]
    <3>1. n \in Nat /\ n + 1 \in Nat
      BY <1>1
    <3>2. Totals(f, evs, m, n) /\ Totals(g, evs2, m2, n + 1)
      BY <1>2, <2>2
    <3>3. QED  BY ONLY <2>3, <2>4, <3>1, <3>2, TotalsAgree
  <2>6. n + 1 \in 0..(n + 1) /\ n + 1 # 0 /\ (n + 1) - 1 = n /\ n \in 0..n
    BY ONLY <1>1
  <2>7. g[n + 1] = g[(n + 1) - 1] + IF n + 1 \in m2 THEN evs2[n + 1].bytes ELSE 0
    <3>1. Totals(g, evs2, m2, n + 1)
      BY <2>2
    <3>2. PICK l : l = n + 1
      OBVIOUS
    <3>3. g[l] = IF l = 0 THEN 0 ELSE g[l - 1] + IF l \in m2 THEN evs2[l].bytes ELSE 0
      BY ONLY <2>6, <3>1, <3>2 DEF Totals
    <3>4. QED  BY ONLY <2>6, <3>2, <3>3
  <2>8. QED  BY <1>1, <1>2, <2>2, <2>5, <2>6, <2>7
<1>5. n + 1 \notin m
  BY <1>1
<1>6. BytesOf(evs2, m) = BytesOf(evs, m)
  BY <1>3, <1>4, <1>5
<1>7. BytesOf(evs2, m \cup {n + 1}) = BytesOf(evs, m) + e.bytes
  <2>1. \A x \in 1..n : x \in m <=> x \in m \cup {n + 1}
    BY <1>1
  <2>2. n + 1 \in m \cup {n + 1}
    OBVIOUS
  <2>3. QED
    <3> HIDE DEF n, evs2
    <3> QED  BY <1>4, <2>1, <2>2
<1>8. QED  BY <1>6, <1>7

-----------------------------------------------------------------------------
(* Lists of sets *)

\* q has every member of S once.
Lists(q, S) ==
    /\ Distinct(q, Len(q))
    /\ \A s : s \in S <=> \E i \in 1..Len(q) : s = q[i]

LEMMA ListsAppend ==
    ASSUME NEW T, NEW q \in Seq(T), NEW x \in T, NEW S, Lists(q, S), x \notin S
    PROVE  Lists(Append(q, x), S \cup {x})
<1> DEFINE q2 == Append(q, x)
<1>1. /\ Len(q2) = Len(q) + 1 /\ Len(q) \in Nat
      /\ \A j \in 1..Len(q) : q2[j] = q[j]
      /\ q2[Len(q) + 1] = x
  BY AppendAdds
<1>2. \A j : j \in 1..Len(q2) <=> j \in 1..Len(q) \/ j = Len(q) + 1
  BY <1>1
<1> HIDE DEF q2
<1>3. \A j \in 1..Len(q) : q[j] \in S /\ q[j] # x
  BY DEF Lists
<1>4. Distinct(q2, Len(q2))
  BY <1>1, <1>2, <1>3 DEF Lists, Distinct
<1>5. ASSUME NEW s
      PROVE  s \in S \cup {x} <=> \E i \in 1..Len(q2) : s = q2[i]
  <2>1. s \in S <=> \E i \in 1..Len(q) : s = q2[i]
    BY <1>1 DEF Lists
  <2>2. QED  BY <1>1, <1>2, <2>1
<1>6. QED  BY <1>4, <1>5 DEF Lists, q2

LEMMA ListsRemove ==
    ASSUME NEW T, NEW q \in Seq(T), NEW S, Lists(q, S), NEW i \in 1..Len(q)
    PROVE  Lists(RemoveAt(q, i), S \ {q[i]})
<1> DEFINE r == RemoveAt(q, i)
           n == Len(q)
<1>1. /\ n \in Nat /\ Len(r) = n - 1
      /\ \A j \in 1..(n - 1) : r[j] = IF j < i THEN q[j] ELSE q[j + 1]
  BY RemoveAtProperties
<1>2. Distinct(q, n) /\ \A s : s \in S <=> \E j \in 1..n : s = q[j]
  BY DEF Lists
<1> HIDE DEF r, n
<1>3. ASSUME NEW j \in 1..(n - 1)
      PROVE  \E m \in 1..n : m # i /\ r[j] = q[m] /\ m = IF j < i THEN j ELSE j + 1
  BY <1>1
<1>4. ASSUME NEW m \in 1..n, m # i
      PROVE  \E j \in 1..(n - 1) : r[j] = q[m]
  <2>1. CASE m < i
    <3>1. m \in 1..(n - 1) /\ r[m] = q[m]
      BY <1>1, <2>1 DEF n
    <3>2. QED  BY <3>1
  <2>2. CASE m > i
    <3>1. m - 1 \in 1..(n - 1) /\ ~(m - 1 < i) /\ (m - 1) + 1 = m
      BY <1>1, <2>2
    <3>2. r[m - 1] = q[m]
      BY <1>1, <3>1
    <3>3. QED  BY <3>1, <3>2
  <2>3. QED  BY <1>1, <1>4, <2>1, <2>2
<1>5. ASSUME NEW x \in 1..(n - 1), NEW y \in 1..(n - 1), x # y
      PROVE  r[x] # r[y]
  <2>1. PICK mx \in 1..n : r[x] = q[mx] /\ mx = IF x < i THEN x ELSE x + 1
    BY <1>3
  <2>2. PICK my \in 1..n : r[y] = q[my] /\ my = IF y < i THEN y ELSE y + 1
    BY <1>3
  <2>3. mx # my
    BY <1>5, <2>1, <2>2
  <2>4. QED  BY <1>2, <2>1, <2>2, <2>3 DEF Distinct
<1>6. i \in 1..n
  BY DEF n
<1>7. ASSUME NEW s
      PROVE  s \in S \ {q[i]} <=> \E j \in 1..(n - 1) : s = r[j]
  <2>1. s \in S \ {q[i]} <=> \E m \in 1..n : m # i /\ s = q[m]
    BY <1>2, <1>6 DEF Distinct
  <2>2. QED  BY <1>3, <1>4, <2>1
<1>8. QED  BY <1>1, <1>5, <1>7 DEF Lists, Distinct, r

LEMMA ListsExcept ==
    ASSUME NEW T, NEW q \in Seq(T), NEW S, Lists(q, S), NEW i \in 1..Len(q), NEW x \in T,
           x \notin S \ {q[i]}
    PROVE  Lists([q EXCEPT ![i] = x], (S \ {q[i]}) \cup {x})
<1> DEFINE r == [q EXCEPT ![i] = x]
           n == Len(q)
<1>1. /\ n \in Nat /\ Len(r) = n /\ r[i] = x /\ i \in 1..n
      /\ \A j \in 1..n : j # i => r[j] = q[j]
  OBVIOUS
<1>2. Distinct(q, n) /\ \A s : s \in S <=> \E j \in 1..n : s = q[j]
  BY DEF Lists
<1> HIDE DEF r, n
<1>3. \A j \in 1..n : j # i => q[j] \in S \ {q[i]} /\ q[j] # x
  BY <1>1, <1>2 DEF Distinct
<1>4. Distinct(r, n)
  BY <1>1, <1>2, <1>3 DEF Distinct
<1>5. ASSUME NEW s
      PROVE  s \in (S \ {q[i]}) \cup {x} <=> \E j \in 1..n : s = r[j]
  <2>1. s \in S \ {q[i]} <=> \E j \in 1..n : j # i /\ s = q[j]
    BY <1>1, <1>2 DEF Distinct
  <2>2. QED  BY <1>1, <2>1
<1>6. QED  BY <1>1, <1>4, <1>5 DEF Lists, r

LEMMA ListsConcat ==
    ASSUME NEW T, NEW p \in Seq(T), NEW q \in Seq(T), NEW R, NEW S,
           Lists(p, R), Lists(q, S), R \cap S = {}
    PROVE  Lists(p \o q, R \cup S)
<1> DEFINE c == p \o q
           m == Len(p)
           n == Len(q)
<1>1. /\ m \in Nat /\ n \in Nat /\ Len(c) = m + n
      /\ \A j \in 1..(m + n) : c[j] = IF j <= m THEN p[j] ELSE q[j - m]
  BY ConcatProperties
<1>2. /\ Distinct(p, m) /\ \A s : s \in R <=> \E j \in 1..m : s = p[j]
      /\ Distinct(q, n) /\ \A s : s \in S <=> \E j \in 1..n : s = q[j]
  BY DEF Lists
<1> HIDE DEF c, m, n
<1>3. \A j \in 1..m : j \in 1..(m + n) /\ c[j] = p[j] /\ c[j] \in R
  BY <1>1, <1>2
<1>4. ASSUME NEW j \in 1..n
      PROVE  m + j \in 1..(m + n) /\ c[m + j] = q[j] /\ c[m + j] \in S
  <2>1. m + j \in 1..(m + n) /\ ~(m + j <= m) /\ (m + j) - m = j
    BY <1>1
  <2>2. c[m + j] = q[j]
    BY <1>1, <2>1
  <2>3. QED  BY <1>2, <2>1, <2>2
<1>5. \A j \in 1..(m + n) : j \in 1..m \/ (j - m \in 1..n /\ j = m + (j - m))
  BY <1>1
<1>6. ASSUME NEW x \in 1..(m + n), NEW y \in 1..(m + n), x # y
      PROVE  c[x] # c[y]
  <2>1. CASE x \in 1..m /\ y \in 1..m
    BY <1>2, <1>3, <1>6, <2>1 DEF Distinct
  <2>2. CASE x \in 1..m /\ y \notin 1..m
    <3>1. c[y] \in S
      BY <1>4, <1>5, <2>2
    <3>2. QED  BY <1>3, <2>2, <3>1
  <2>3. CASE x \notin 1..m /\ y \in 1..m
    <3>1. c[x] \in S
      BY <1>4, <1>5, <2>3
    <3>2. QED  BY <1>3, <2>3, <3>1
  <2>4. CASE x \notin 1..m /\ y \notin 1..m
    <3>1. x - m \in 1..n /\ y - m \in 1..n /\ x - m # y - m
      BY <1>1, <1>5, <1>6, <2>4
    <3>2. c[x] = q[x - m] /\ c[y] = q[y - m]
      BY <1>4, <1>5, <2>4
    <3>3. QED  BY <1>2, <3>1, <3>2 DEF Distinct
  <2>5. QED  BY <2>1, <2>2, <2>3, <2>4
<1>7. ASSUME NEW s
      PROVE  s \in R \cup S <=> \E j \in 1..(m + n) : s = c[j]
  <2>1. s \in R => \E j \in 1..(m + n) : s = c[j]
    BY <1>2, <1>3
  <2>2. s \in S => \E j \in 1..(m + n) : s = c[j]
    BY <1>2, <1>4
  <2>3. ASSUME NEW j \in 1..(m + n), s = c[j]
        PROVE  s \in R \cup S
    <3>1. CASE j \in 1..m
      BY <1>3, <2>3, <3>1
    <3>2. CASE j \notin 1..m
      BY <1>4, <1>5, <2>3, <3>2
    <3>3. QED  BY <3>1, <3>2
  <2>4. QED  BY <2>1, <2>2, <2>3
<1>8. QED  BY <1>1, <1>6, <1>7 DEF Lists, Distinct, c

\* Where the members of P come first, a cut after them separates S.
LEMMA ListsSplit ==
    ASSUME NEW T, NEW q \in Seq(T), NEW S, Lists(q, S), NEW P, NEW k \in 0..Len(q),
           \A i \in 1..Len(q) : i <= k <=> q[i] \in P
    PROVE  /\ SubSeq(q, 1, k) \in Seq(T) /\ SubSeq(q, k + 1, Len(q)) \in Seq(T)
           /\ Lists(SubSeq(q, 1, k), S \cap P)
           /\ Lists(SubSeq(q, k + 1, Len(q)), S \ P)
<1> DEFINE a == SubSeq(q, 1, k)
           b == SubSeq(q, k + 1, Len(q))
           n == Len(q)
<1>1. /\ n \in Nat
      /\ a \in Seq(T) /\ Len(a) = k /\ \A j \in 1..k : a[j] = q[j]
      /\ b \in Seq(T) /\ Len(b) = n - k /\ \A j \in 1..(n - k) : b[j] = q[k + j]
  OBVIOUS
<1>2. Distinct(q, n) /\ \A s : s \in S <=> \E j \in 1..n : s = q[j]
  BY DEF Lists
<1>3. k \in 0..n /\ \A j \in 1..n : j <= k <=> q[j] \in P
  OBVIOUS
<1> HIDE DEF a, b, n
<1>4. \A j \in 1..k : j \in 1..n /\ j <= k
  BY <1>1, <1>3
<1>5. Lists(a, S \cap P)
  <2>1. Distinct(a, k)
    BY <1>1, <1>2, <1>4 DEF Distinct
  <2>2. \A j \in 1..n : j <= k => j \in 1..k
    BY <1>3
  <2>3. \A s : s \in S \cap P <=> \E j \in 1..n : s = q[j] /\ j <= k
    BY <1>2, <1>3
  <2>4. \A s : s \in S \cap P <=> \E j \in 1..k : s = a[j]
    BY <1>1, <1>4, <2>2, <2>3
  <2>5. QED  BY <1>1, <2>1, <2>4 DEF Lists
<1>6. Lists(b, S \ P)
  <2>1. \A j \in 1..(n - k) : k + j \in 1..n /\ ~(k + j <= k)
    BY <1>1, <1>3
  <2>2. \A x, y \in 1..(n - k) : x # y => k + x # k + y
    BY <1>1, <1>3
  <2>3. Distinct(b, n - k)
    BY <1>1, <1>2, <2>1, <2>2 DEF Distinct
  <2>4. \A j \in 1..n : ~(j <= k) => j - k \in 1..(n - k) /\ k + (j - k) = j
    BY <1>1, <1>3
  <2>5. ASSUME NEW s
        PROVE  s \in S \ P <=> \E j \in 1..(n - k) : s = b[j]
    <3>1. s \in S \ P <=> \E j \in 1..n : s = q[j] /\ ~(j <= k)
      BY <1>2, <1>3
    <3>2. ASSUME NEW j \in 1..n, s = q[j], ~(j <= k)
          PROVE  \E i \in 1..(n - k) : s = b[i]
      <4>1. j - k \in 1..(n - k) /\ b[j - k] = q[j]
        BY <1>1, <2>4, <3>2
      <4>2. QED  BY <3>2, <4>1
    <3>3. ASSUME s \in S \ P
          PROVE  \E j \in 1..(n - k) : s = b[j]
      <4>1. PICK j \in 1..n : s = q[j] /\ ~(j <= k)
        BY <3>1, <3>3
      <4>2. QED  BY ONLY <3>2, <4>1
    <3>4. ASSUME NEW j \in 1..(n - k), s = b[j]
          PROVE  s \in S \ P
      <4>1. s = q[k + j]
        BY <1>1, <3>4
      <4>2. k + j \in 1..n /\ ~(k + j <= k)
        BY <2>1, <3>4
      <4>3. QED  BY ONLY <3>1, <4>1, <4>2
    <3>5. QED  BY ONLY <3>3, <3>4
  <2>6. QED  BY <1>1, <2>3, <2>5 DEF Lists
<1>7. QED  BY <1>1, <1>5, <1>6 DEF a, b, n

LEMMA ListsPermuted ==
    ASSUME NEW T, NEW q \in Seq(T), NEW S, Lists(q, S),
           NEW p \in Bijection(1..Len(q), 1..Len(q))
    PROVE  /\ [i \in 1..Len(q) |-> q[p[i]]] \in Seq(T)
           /\ Lists([i \in 1..Len(q) |-> q[p[i]]], S)
<1> DEFINE n == Len(q)
           r == [i \in 1..n |-> q[p[i]]]
<1>1. /\ n \in Nat
      /\ \A i \in 1..n : p[i] \in 1..n /\ q[i] \in T
      /\ \A i, j \in 1..n : i # j => p[i] # p[j]
      /\ \A j \in 1..n : \E i \in 1..n : p[i] = j
  BY DEF Bijection, Injection, Surjection, IsInjective
<1>2. Distinct(q, n) /\ \A s : s \in S <=> \E j \in 1..n : s = q[j]
  BY DEF Lists
<1> HIDE DEF n
<1>3. r \in Seq(T) /\ Len(r) = n /\ \A i \in 1..n : r[i] = q[p[i]]
  <2>1. r \in [1..n -> T]
    BY <1>1
  <2>2. QED  BY <1>1, <2>1
<1> HIDE DEF r
<1>4. ASSUME NEW i \in 1..n, NEW j \in 1..n, i # j
      PROVE  r[i] # r[j]
  <2>1. p[i] \in 1..n /\ p[j] \in 1..n /\ p[i] # p[j] /\ r[i] = q[p[i]] /\ r[j] = q[p[j]]
    BY <1>1, <1>3, <1>4
  <2>2. \A x, y \in 1..n : x # y => q[x] # q[y]
    BY <1>2 DEF Distinct
  <2>3. QED  BY ONLY <2>1, <2>2
<1>5. ASSUME NEW s
      PROVE  s \in S <=> \E j \in 1..n : s = r[j]
  <2>1. ASSUME NEW j \in 1..n, s = q[j]
        PROVE  \E i \in 1..n : s = r[i]
    <3>1. PICK i \in 1..n : p[i] = j
      BY <1>1
    <3>2. s = r[i]
      BY <1>3, <2>1, <3>1
    <3>3. QED  BY <3>2
  <2>2. ASSUME NEW i \in 1..n, s = r[i]
        PROVE  s = q[p[i]] /\ p[i] \in 1..n
    BY <1>1, <1>3, <2>2
  <2>3. s \in S <=> \E j \in 1..n : s = q[j]
    BY <1>2
  <2>4. QED  BY ONLY <2>1, <2>2, <2>3
<1>6. QED  BY <1>3, <1>4, <1>5 DEF Lists, Distinct, r, n

-----------------------------------------------------------------------------
(* The sessions of a sequence of events *)

\* Events in the order of their ts, which is what the task promises of its input.
Stream(evs) ==
    /\ \A i \in 1..Len(evs) : evs[i].ts \in Nat /\ evs[i].bytes \in Nat
    /\ \A i, j \in 1..Len(evs) : i <= j => evs[i].ts <= evs[j].ts

\* The indices at which sessions start.
StartsOf(evs, idle) == {n \in 1..Len(evs) : Starts(evs, idle, n)}

\* In a stream the gap to the user's last event is the gap to all of them.
LEMMA StartsIs ==
    ASSUME NEW E, NEW evs \in Seq(E), Stream(evs), NEW idle \in Int, NEW i \in 1..Len(evs)
    PROVE  Starts(evs, idle, i) <=>
             \A j \in 1..Len(evs) : j < i /\ evs[j].user = evs[i].user
                                      => evs[i].ts - evs[j].ts > idle
<1> DEFINE earlier == {j \in ByUser(evs, evs[i].user) : j < i}
<1>1. \A j : j \in earlier <=> j \in 1..Len(evs) /\ j < i /\ evs[j].user = evs[i].user
  BY DEF ByUser
<1>2. Starts(evs, idle, i) <=> (earlier # {} => evs[i].ts - evs[Max(earlier)].ts > idle)
  BY DEF Starts
<1> HIDE DEF earlier
<1>3. CASE earlier = {}
  BY <1>1, <1>2, <1>3
<1>4. CASE earlier # {}
  <2>1. Len(evs) \in Nat /\ earlier \subseteq 0..Len(evs)
    BY <1>1
  <2>2. Max(earlier) \in earlier /\ \A y \in earlier : y <= Max(earlier)
    BY <1>4, <2>1, MaxIsGreatest
  <2>3. Max(earlier) \in 1..Len(evs)
    BY <1>1, <2>2
  <2>4. ASSUME NEW j \in earlier
        PROVE  evs[j].ts <= evs[Max(earlier)].ts
    <3>1. j \in 1..Len(evs) /\ j <= Max(earlier)
      BY <1>1, <2>2
    <3>2. QED  BY <2>3, <3>1 DEF Stream
  <2>5. \A j \in 1..Len(evs) : evs[j].ts \in Nat
    BY DEF Stream
  <2>6. evs[Max(earlier)].ts \in Nat /\ evs[i].ts \in Nat
    BY <2>3, <2>5
  <2>7. ASSUME evs[i].ts - evs[Max(earlier)].ts > idle, NEW j \in earlier
        PROVE  evs[i].ts - evs[j].ts > idle
    <3>1. evs[j].ts \in Nat /\ evs[j].ts <= evs[Max(earlier)].ts
      BY <1>1, <2>4, <2>5
    <3>2. QED  BY <2>6, <2>7, <3>1
  <2>8. QED  BY <1>1, <1>2, <1>4, <2>2, <2>7
<1>5. QED  BY <1>3, <1>4

LEMMA MembersAre ==
    ASSUME NEW E, NEW evs \in Seq(E), Stream(evs), NEW idle \in Int, NEW i \in 1..Len(evs)
    PROVE  /\ i \in Members(evs, idle, i)
           /\ Members(evs, idle, i) \subseteq i..Len(evs)
           /\ Members(evs, idle, i) \subseteq 1..Len(evs)
           /\ \A j \in Members(evs, idle, i) : evs[j].user = evs[i].user
           /\ IsFiniteSet(Members(evs, idle, i))
           /\ Cardinality(Members(evs, idle, i)) \in Nat \ {0}
           /\ Max(Members(evs, idle, i)) \in Members(evs, idle, i)
           /\ \A j \in Members(evs, idle, i) : j <= Max(Members(evs, idle, i))
<1> DEFINE m == Members(evs, idle, i)
<1>1. /\ i \in m
      /\ m \subseteq i..Len(evs)
      /\ m \subseteq 1..Len(evs)
      /\ \A j \in m : evs[j].user = evs[i].user
  BY DEF Members, ByUser
<1> HIDE DEF m
<1>2. Len(evs) \in Nat /\ m \subseteq 0..Len(evs)
  BY <1>1
<1>3. IsFiniteSet(m) /\ Cardinality(m) \in Nat
  <2>1. IsFiniteSet(1..Len(evs))
    BY <1>2, FS_Interval
  <2>2. IsFiniteSet(m)
    BY <1>1, <2>1, FS_Subset
  <2>3. QED  BY <2>2, FS_CardinalityType
<1>4. Cardinality(m) # 0
  BY <1>1, <1>3, FS_EmptySet
<1>5. Max(m) \in m /\ \A j \in m : j <= Max(m)
  BY <1>1, <1>2, MaxIsGreatest
<1>6. QED  BY <1>1, <1>3, <1>4, <1>5 DEF m

\* The type of a session, whatever its user and paths are.
Shaped(s) ==
    /\ s = [user |-> s.user, start_ts |-> s.start_ts, last_ts |-> s.last_ts,
            n_events |-> s.n_events, total_bytes |-> s.total_bytes, paths |-> s.paths]
    /\ s.start_ts \in Nat /\ s.last_ts \in Nat /\ s.start_ts <= s.last_ts
    /\ s.n_events \in Nat \ {0}
    /\ s.total_bytes \in Nat
    /\ IsFiniteSet(s.paths)

\* The fields of a session, from its members.
LEMMA SessionAtIs ==
    ASSUME NEW E, NEW evs \in Seq(E), Stream(evs), NEW idle \in Int, NEW i \in 1..Len(evs)
    PROVE  /\ Shaped(SessionAt(evs, idle, i))
           /\ SessionAt(evs, idle, i).user = evs[i].user
           /\ SessionAt(evs, idle, i).start_ts = evs[i].ts
           /\ \A p \in SessionAt(evs, idle, i).paths :
                 \E j \in Members(evs, idle, i) : p = evs[j].path
           /\ \E j \in Members(evs, idle, i) : SessionAt(evs, idle, i).last_ts = evs[j].ts
           /\ \A j \in Members(evs, idle, i) : evs[j].ts <= SessionAt(evs, idle, i).last_ts
<1> DEFINE s == SessionAt(evs, idle, i)
           m == Members(evs, idle, i)
<1>1. s = [user |-> evs[i].user, start_ts |-> evs[i].ts, last_ts |-> evs[Max(m)].ts,
           n_events |-> Cardinality(m), total_bytes |-> BytesOf(evs, m),
           paths |-> {evs[j].path : j \in m}]
  BY DEF SessionAt
<1>2. /\ i \in m
      /\ m \subseteq 1..Len(evs)
      /\ IsFiniteSet(m)
      /\ Cardinality(m) \in Nat \ {0}
      /\ Max(m) \in m
      /\ \A j \in m : j <= Max(m)
  BY MembersAre
<1> HIDE DEF s, m
<1>3. \A j \in 1..Len(evs) : evs[j].ts \in Nat /\ evs[j].bytes \in Nat
  BY DEF Stream
<1>4. BytesOf(evs, m) \in Nat
  BY <1>3, BytesOfType
<1>5. \A j \in m : evs[j].ts <= evs[Max(m)].ts
  BY <1>2 DEF Stream
<1>6. IsFiniteSet({evs[j].path : j \in m})
  <2> DEFINE f == [j \in m |-> evs[j].path]
  <2>1. IsFiniteSet({f[j] : j \in m})
    <3> HIDE DEF f
    <3> QED  BY <1>2, FiniteImage
  <2>2. {f[j] : j \in m} = {evs[j].path : j \in m}
    OBVIOUS
  <2>3. QED
    <3> HIDE DEF f
    <3> QED  BY <2>1, <2>2
<1>7. Shaped(s)
  BY <1>1, <1>2, <1>3, <1>4, <1>5, <1>6 DEF Shaped
<1>8. /\ s.user = evs[i].user
      /\ s.start_ts = evs[i].ts
      /\ \A p \in s.paths : \E j \in m : p = evs[j].path
      /\ \E j \in m : s.last_ts = evs[j].ts
      /\ \A j \in m : evs[j].ts <= s.last_ts
  BY <1>1, <1>2, <1>5
<1>9. QED  BY <1>7, <1>8 DEF s, m

\* Every event is in the session of some start.
LEMMA SomeSession ==
    ASSUME NEW E, NEW evs \in Seq(E), Stream(evs), NEW idle \in Int, NEW j \in 1..Len(evs)
    PROVE  \E i \in StartsOf(evs, idle) : j \in Members(evs, idle, i)
<1> DEFINE mine == {x \in 1..Len(evs) : x <= j /\ evs[x].user = evs[j].user}
           starts == {x \in mine : Starts(evs, idle, x)}
<1>1. Len(evs) \in Nat /\ mine \subseteq 0..Len(evs) /\ mine # {}
  OBVIOUS
<1>2. starts # {}
  <2>1. PICK x \in mine : \A y \in mine : x <= y
    <3>1. mine \in SUBSET Nat
      BY <1>1
    <3>2. QED
      <4> HIDE DEF mine
      <4> QED  BY <1>1, <3>1, Least
  <2>2. \A y \in 1..Len(evs) : ~(y < x /\ evs[y].user = evs[x].user)
    <3> SUFFICES ASSUME NEW y \in 1..Len(evs), y < x, evs[y].user = evs[x].user
                 PROVE  FALSE
      OBVIOUS
    <3>1. y \in mine
      OBVIOUS
    <3>2. QED  BY <2>1, <3>1
  <2>3. Starts(evs, idle, x)
    BY <2>2, StartsIs
  <2>4. QED  BY <2>3
<1>3. starts \subseteq 0..Len(evs)
  BY <1>1
<1> DEFINE i == Max(starts)
<1>4. i \in starts /\ \A y \in starts : y <= i
  <2> HIDE DEF starts
  <2> QED  BY <1>1, <1>2, <1>3, MaxIsGreatest
<1> HIDE DEF i
<1>5. ASSUME NEW n \in ByUser(evs, evs[i].user), i < n, n <= j, Starts(evs, idle, n)
      PROVE  FALSE
  <2>1. n \in starts
    BY <1>4, <1>5 DEF ByUser
  <2>2. n <= i
    BY <1>4, <2>1
  <2>3. n \in Nat /\ i \in Nat
    BY <1>4, <1>5 DEF ByUser
  <2>4. QED  BY <1>5, <2>2, <2>3
<1>6. j \in ByUser(evs, evs[i].user) /\ j >= i
  BY <1>4 DEF ByUser
<1>7. QED  BY <1>4, <1>5, <1>6 DEF Members, StartsOf

\* Two sessions of one user are more than idle apart.
LEMMA StartsApart ==
    ASSUME NEW E, NEW evs \in Seq(E), Stream(evs), NEW idle \in Int,
           NEW i \in StartsOf(evs, idle), NEW j \in StartsOf(evs, idle), i < j,
           evs[i].user = evs[j].user
    PROVE  SessionAt(evs, idle, i).last_ts + idle < evs[j].ts
<1>1. i \in 1..Len(evs) /\ j \in 1..Len(evs) /\ Starts(evs, idle, j)
  BY DEF StartsOf
<1>2. PICK x \in Members(evs, idle, i) : SessionAt(evs, idle, i).last_ts = evs[x].ts
  BY <1>1, SessionAtIs
<1>3. x \in 1..Len(evs) /\ evs[x].user = evs[i].user
  <2>1. /\ Members(evs, idle, i) \subseteq 1..Len(evs)
        /\ \A y \in Members(evs, idle, i) : evs[y].user = evs[i].user
    BY <1>1, MembersAre
  <2>2. QED  BY <1>2, <2>1
<1>4. x < j
  <2>1. j \in ByUser(evs, evs[i].user)
    BY <1>1 DEF ByUser
  <2>2. ~(i < j /\ j <= x)
    BY <1>1, <1>2, <2>1 DEF Members
  <2>3. QED  BY <1>1, <1>3, <2>2
<1>5. evs[j].ts - evs[x].ts > idle
  BY <1>1, <1>3, <1>4, StartsIs
<1>6. evs[j].ts \in Nat /\ evs[x].ts \in Nat
  BY <1>1, <1>3 DEF Stream
<1>7. QED  BY <1>2, <1>5, <1>6

LEMMA SessionsApart ==
    ASSUME NEW E, NEW evs \in Seq(E), Stream(evs), NEW idle \in Int,
           NEW s \in OracleSessions(evs, idle), NEW t \in OracleSessions(evs, idle),
           s.user = t.user
    PROVE  s = t \/ s.last_ts + idle < t.start_ts \/ t.last_ts + idle < s.start_ts
<1>1. PICK i \in StartsOf(evs, idle) : s = SessionAt(evs, idle, i)
  BY DEF OracleSessions, StartsOf
<1>2. PICK j \in StartsOf(evs, idle) : t = SessionAt(evs, idle, j)
  BY DEF OracleSessions, StartsOf
<1>3. i \in 1..Len(evs) /\ j \in 1..Len(evs)
  BY DEF StartsOf
<1>4. \A x \in 1..Len(evs) : /\ SessionAt(evs, idle, x).user = evs[x].user
                             /\ SessionAt(evs, idle, x).start_ts = evs[x].ts
  BY SessionAtIs
<1>5. i < j \/ j < i \/ i = j
  BY <1>3
<1>6. CASE i < j
  BY <1>1, <1>2, <1>3, <1>4, <1>6, StartsApart
<1>7. CASE j < i
  BY <1>1, <1>2, <1>3, <1>4, <1>7, StartsApart
<1>8. QED  BY <1>1, <1>2, <1>5, <1>6, <1>7

\* What a session is made of.
LEMMA SessionsAre ==
    ASSUME NEW E, NEW evs \in Seq(E), Stream(evs), NEW idle \in Int,
           NEW s \in OracleSessions(evs, idle)
    PROVE  /\ Shaped(s)
           /\ \A p \in s.paths : \E j \in 1..Len(evs) : p = evs[j].path
           /\ \E j \in 1..Len(evs) : s.user = evs[j].user /\ s.last_ts = evs[j].ts
<1>1. PICK i \in StartsOf(evs, idle) : s = SessionAt(evs, idle, i)
  BY DEF OracleSessions, StartsOf
<1>2. i \in 1..Len(evs)
  BY DEF StartsOf
<1>3. /\ Members(evs, idle, i) \subseteq 1..Len(evs)
      /\ \A j \in Members(evs, idle, i) : evs[j].user = evs[i].user
  BY <1>2, MembersAre
<1>4. Shaped(SessionAt(evs, idle, i))
  BY <1>2, SessionAtIs
<1>5. \A p \in SessionAt(evs, idle, i).paths :
         \E j \in Members(evs, idle, i) : p = evs[j].path
  BY <1>2, SessionAtIs
<1>6. /\ SessionAt(evs, idle, i).user = evs[i].user
      /\ \E j \in Members(evs, idle, i) : SessionAt(evs, idle, i).last_ts = evs[j].ts
  BY <1>2, SessionAtIs
<1>7. QED  BY <1>1, <1>3, <1>4, <1>5, <1>6

\* Sessions of one user differ in their starts and in their ends.
LEMMA SessionsDiffer ==
    ASSUME NEW E, NEW evs \in Seq(E), Stream(evs), NEW idle \in Nat,
           NEW s \in OracleSessions(evs, idle), NEW t \in OracleSessions(evs, idle),
           s.user = t.user, s # t
    PROVE  s.start_ts # t.start_ts /\ s.last_ts # t.last_ts
<1>1. idle \in Int
  OBVIOUS
<1>2. s.last_ts + idle < t.start_ts \/ t.last_ts + idle < s.start_ts
  BY <1>1, SessionsApart
<1>3. Shaped(s) /\ Shaped(t)
  BY <1>1, SessionsAre
<1>4. /\ s.start_ts \in Nat /\ s.last_ts \in Nat /\ s.start_ts <= s.last_ts
      /\ t.start_ts \in Nat /\ t.last_ts \in Nat /\ t.start_ts <= t.last_ts
  BY <1>3 DEF Shaped
<1>5. QED  BY <1>2, <1>4

LEMMA SessionsFinite ==
    ASSUME NEW E, NEW evs \in Seq(E), NEW idle
    PROVE  IsFiniteSet(OracleSessions(evs, idle)) /\ IsFiniteSet(OracleRecords(evs, idle))
<1>1. IsFiniteSet(StartsOf(evs, idle))
  <2>1. StartsOf(evs, idle) \subseteq 1..Len(evs) /\ IsFiniteSet(1..Len(evs))
    BY FS_Interval DEF StartsOf
  <2>2. QED  BY <2>1, FS_Subset
<1> DEFINE f == [i \in StartsOf(evs, idle) |-> SessionAt(evs, idle, i)]
           g == [s \in OracleSessions(evs, idle) |-> RecordOf(s)]
<1>2. {f[i] : i \in StartsOf(evs, idle)} = OracleSessions(evs, idle)
  BY DEF OracleSessions, StartsOf
<1>3. {g[s] : s \in OracleSessions(evs, idle)} = OracleRecords(evs, idle)
  BY DEF OracleRecords
<1> HIDE DEF f, g
<1>4. IsFiniteSet(OracleSessions(evs, idle))
  BY <1>1, <1>2, FiniteImage
<1>5. QED  BY <1>3, <1>4, FiniteImage

LEMMA NoSessions ==
    ASSUME NEW idle
    PROVE  OracleSessions(<<>>, idle) = {}
BY DEF OracleSessions

-----------------------------------------------------------------------------
(* One event more *)

\* The session of one event, and a session with one event more.
Fresh(e) ==
    [user |-> e.user, start_ts |-> e.ts, last_ts |-> e.ts, n_events |-> 1,
     total_bytes |-> e.bytes, paths |-> {e.path}]

Longer(s, e) ==
    [user |-> s.user, start_ts |-> s.start_ts, last_ts |-> e.ts,
     n_events |-> s.n_events + 1, total_bytes |-> s.total_bytes + e.bytes,
     paths |-> s.paths \cup {e.path}]

\* e does not come before any event of evs.
Follows(e, evs) ==
    /\ e.ts \in Nat /\ e.bytes \in Nat
    /\ \A i \in 1..Len(evs) : evs[i].ts <= e.ts

LEMMA StreamAppend ==
    ASSUME NEW E, NEW evs \in Seq(E), NEW e \in E, Stream(evs), Follows(e, evs)
    PROVE  /\ Append(evs, e) \in Seq(E)
           /\ Stream(Append(evs, e))
           /\ Len(evs) \in Nat
           /\ Len(Append(evs, e)) = Len(evs) + 1
           /\ \A i \in 1..Len(evs) : Append(evs, e)[i] = evs[i]
           /\ Append(evs, e)[Len(evs) + 1] = e
<1> DEFINE evs2 == Append(evs, e)
<1>1. /\ Len(evs) \in Nat
      /\ evs2 \in Seq(E)
      /\ Len(evs2) = Len(evs) + 1
      /\ \A i \in 1..Len(evs) : evs2[i] = evs[i]
      /\ evs2[Len(evs) + 1] = e
  BY AppendAdds
<1> HIDE DEF evs2
<1>2. \A i \in 1..Len(evs2) : i \in 1..Len(evs) \/ i = Len(evs) + 1
  BY <1>1
<1>3. ASSUME NEW i \in 1..Len(evs2)
      PROVE  evs2[i].ts \in Nat /\ evs2[i].bytes \in Nat
  BY <1>1, <1>2 DEF Stream, Follows
<1>4. ASSUME NEW i \in 1..Len(evs2), NEW j \in 1..Len(evs2), i <= j
      PROVE  evs2[i].ts <= evs2[j].ts
  <2>1. CASE j \in 1..Len(evs)
    <3>1. i \in 1..Len(evs)
      BY <1>4, <2>1
    <3>2. QED  BY <1>1, <1>4, <2>1, <3>1 DEF Stream
  <2>2. CASE j = Len(evs) + 1
    <3>1. CASE i \in 1..Len(evs)
      BY <1>1, <2>2, <3>1 DEF Follows
    <3>2. CASE i = j
      BY <1>3, <3>2
    <3>3. QED  BY <1>2, <2>2, <3>1, <3>2
  <2>3. QED  BY <1>2, <2>1, <2>2
<1>5. QED  BY <1>1, <1>3, <1>4 DEF Stream, evs2

\* No earlier event starts or ceases to start a session, and e starts one when
\* it is more than idle after every event of its user.
LEMMA StartsAppend ==
    ASSUME NEW E, NEW evs \in Seq(E), NEW e \in E, Stream(evs), Follows(e, evs),
           NEW idle \in Int
    PROVE  /\ \A i \in 1..Len(evs) : Starts(Append(evs, e), idle, i) <=> Starts(evs, idle, i)
           /\ Starts(Append(evs, e), idle, Len(evs) + 1) <=>
                \A j \in 1..Len(evs) : evs[j].user = e.user => e.ts - evs[j].ts > idle
<1> DEFINE evs2 == Append(evs, e)
           n == Len(evs)
<1>1. /\ evs2 \in Seq(E) /\ Stream(evs2)
      /\ n \in Nat /\ Len(evs2) = n + 1
      /\ \A i \in 1..n : evs2[i] = evs[i]
      /\ evs2[n + 1] = e
  BY StreamAppend
<1> HIDE DEF evs2
<1>2. \A i \in 1..Len(evs2) : Starts(evs2, idle, i) <=>
         \A j \in 1..Len(evs2) : j < i /\ evs2[j].user = evs2[i].user
                                   => evs2[i].ts - evs2[j].ts > idle
  BY <1>1, StartsIs
<1>3. ASSUME NEW i \in 1..n
      PROVE  Starts(evs2, idle, i) <=> Starts(evs, idle, i)
  <2>1. Starts(evs, idle, i) <=>
          \A j \in 1..n : j < i /\ evs[j].user = evs[i].user
                            => evs[i].ts - evs[j].ts > idle
    BY StartsIs
  <2>2. i \in 1..Len(evs2) /\ \A j \in 1..Len(evs2) : j < i => j \in 1..n
    BY <1>1
  <2>3. 1..n \subseteq 1..Len(evs2)
    BY <1>1
  <2>4. QED  BY <1>1, <1>2, <2>1, <2>2, <2>3
<1>4. Starts(evs2, idle, n + 1) <=>
        \A j \in 1..n : evs[j].user = e.user => e.ts - evs[j].ts > idle
  <2>1. n + 1 \in 1..Len(evs2)
    BY <1>1
  <2>2. \A j : j \in 1..n <=> j \in 1..Len(evs2) /\ j < n + 1
    BY <1>1
  <2>3. QED  BY <1>1, <1>2, <2>1, <2>2
<1>5. QED  BY <1>3, <1>4 DEF evs2

\* e is in the session that starts at i, the last one of its user.
IsGainedBy(evs, idle, e, i) ==
    /\ evs[i].user = e.user
    /\ ~Starts(Append(evs, e), idle, Len(evs) + 1)
    /\ \A j \in StartsOf(evs, idle) : evs[j].user = e.user => j <= i

\* A session e is not in keeps its members; the one it is in gains it.
LEMMA MembersAppend ==
    ASSUME NEW E, NEW evs \in Seq(E), NEW e \in E, Stream(evs), Follows(e, evs),
           NEW idle \in Int, NEW i \in StartsOf(evs, idle)
    PROVE  /\ IsGainedBy(evs, idle, e, i) =>
                Members(Append(evs, e), idle, i) = Members(evs, idle, i) \cup {Len(evs) + 1}
           /\ ~IsGainedBy(evs, idle, e, i) =>
                Members(Append(evs, e), idle, i) = Members(evs, idle, i)
<1> DEFINE evs2 == Append(evs, e)
           n == Len(evs)
           joins == /\ evs[i].user = e.user
                    /\ ~Starts(evs2, idle, n + 1)
                    /\ \A j \in StartsOf(evs, idle) : evs[j].user = e.user => j <= i
           mine(q, j) == /\ j \in ByUser(q, q[i].user)
                         /\ j >= i
                         /\ \A x \in ByUser(q, q[i].user) :
                               i < x /\ x <= j => ~Starts(q, idle, x)
<1>1. /\ n \in Nat /\ Len(evs2) = n + 1
      /\ \A j \in 1..n : evs2[j] = evs[j]
      /\ evs2[n + 1] = e
  BY StreamAppend
<1>2. i \in 1..n /\ evs2[i] = evs[i]
  BY <1>1 DEF StartsOf
<1>3. \A j \in 1..n : Starts(evs2, idle, j) <=> Starts(evs, idle, j)
  BY StartsAppend
<1>4. \A j : j \in Members(evs2, idle, i) <=> mine(evs2, j)
  BY DEF Members
<1>5. \A j : j \in Members(evs, idle, i) <=> mine(evs, j)
  BY DEF Members
<1> DEFINE u == evs[i].user
<1>6. \A j \in 1..n : j \in ByUser(evs2, u) <=> j \in ByUser(evs, u)
  BY <1>1 DEF ByUser
<1>7. n + 1 \in ByUser(evs2, u) <=> e.user = u
  BY <1>1 DEF ByUser
<1>8. \A j : /\ j \in ByUser(evs2, u) => j \in 1..n \/ j = n + 1
             /\ j \in ByUser(evs, u) => j \in 1..n
  BY <1>1 DEF ByUser
<1> HIDE DEF evs2
<1>9. ASSUME NEW j \in 1..n
      PROVE  mine(evs2, j) <=> mine(evs, j)
  <2>1. \A x : x \in 1..n \/ x = n + 1 => (x <= j => x \in 1..n)
    BY <1>1
  <2>2. (\A x \in ByUser(evs2, u) : i < x /\ x <= j => ~Starts(evs2, idle, x))
          <=> (\A x \in ByUser(evs, u) : i < x /\ x <= j => ~Starts(evs, idle, x))
    BY <1>3, <1>6, <1>8, <2>1
  <2>3. QED  BY <1>2, <1>6, <2>2
<1>10. mine(evs2, n + 1) <=> joins
  <2>1. n + 1 >= i /\ i < n + 1 /\ \A x \in 1..n : x <= n + 1
    BY <1>1, <1>2
  <2>2. mine(evs2, n + 1) <=> /\ e.user = u
                              /\ \A x \in ByUser(evs2, u) : i < x /\ x <= n + 1
                                                              => ~Starts(evs2, idle, x)
    BY <1>2, <1>7, <2>1
  <2>3. ASSUME e.user = u
        PROVE  (\A x \in ByUser(evs2, u) : i < x /\ x <= n + 1 => ~Starts(evs2, idle, x))
                 <=> /\ ~Starts(evs2, idle, n + 1)
                     /\ \A x \in StartsOf(evs, idle) : evs[x].user = e.user => x <= i
    <3>1. ASSUME NEW x \in 1..n
          PROVE  x \in ByUser(evs2, u) <=> evs[x].user = e.user
      BY <1>6, <2>3 DEF ByUser
    <3>2. (\A x \in ByUser(evs2, u) : i < x /\ x <= n + 1 => ~Starts(evs2, idle, x))
            <=> /\ ~Starts(evs2, idle, n + 1)
                /\ \A x \in 1..n : evs[x].user = e.user /\ i < x => ~Starts(evs2, idle, x)
      <4>1. n + 1 <= n + 1
        BY <1>1
      <4>2. QED  BY <1>7, <1>8, <2>1, <2>3, <3>1, <4>1
    <3>3. (\A x \in 1..n : evs[x].user = e.user /\ i < x => ~Starts(evs2, idle, x))
            <=> \A x \in StartsOf(evs, idle) : evs[x].user = e.user => x <= i
      <4>1. \A x \in 1..n : i < x <=> ~(x <= i)
        BY <1>2
      <4>2. \A x : x \in StartsOf(evs, idle) <=> x \in 1..n /\ Starts(evs, idle, x)
        BY DEF StartsOf
      <4>3. QED  BY <1>3, <4>1, <4>2
    <3>4. QED  BY <3>2, <3>3
  <2>4. QED  BY <2>2, <2>3
<1>11. \A j : mine(evs2, j) => j \in 1..n \/ j = n + 1
  BY <1>2, <1>8
<1>12. \A j : mine(evs, j) => j \in 1..n
  BY <1>8
<1>13. ASSUME NEW j
       PROVE  j \in Members(evs2, idle, i)
                <=> j \in Members(evs, idle, i) \/ (joins /\ j = n + 1)
  <2>1. n + 1 \notin 1..n
    BY <1>1
  <2> HIDE DEF mine, joins, n, u
  <2>2. CASE j \in 1..n
    BY <1>4, <1>5, <1>9, <2>1, <2>2
  <2>3. CASE j = n + 1
    BY <1>4, <1>5, <1>10, <1>12, <2>1, <2>3
  <2>4. CASE j \notin 1..n /\ j # n + 1
    BY <1>4, <1>5, <1>11, <1>12, <2>4
  <2>5. QED  BY <2>2, <2>3, <2>4
<1>14. /\ joins => Members(evs2, idle, i) = Members(evs, idle, i) \cup {n + 1}
       /\ ~joins => Members(evs2, idle, i) = Members(evs, idle, i)
  <2> HIDE DEF joins, n, mine, u
  <2>1. QED  BY <1>13
<1>15. QED  BY <1>14 DEF evs2, IsGainedBy

\* A session that e does not join stays as it is.
LEMMA SessionStays ==
    ASSUME NEW E, NEW evs \in Seq(E), NEW e \in E, Stream(evs), Follows(e, evs),
           NEW idle \in Int, NEW i \in StartsOf(evs, idle),
           Members(Append(evs, e), idle, i) = Members(evs, idle, i)
    PROVE  SessionAt(Append(evs, e), idle, i) = SessionAt(evs, idle, i)
<1> DEFINE evs2 == Append(evs, e)
           m == Members(evs, idle, i)
<1>1. \A j \in 1..Len(evs) : evs2[j] = evs[j]
  BY StreamAppend
<1>2. i \in 1..Len(evs)
  BY DEF StartsOf
<1>3. m \subseteq 1..Len(evs) /\ Max(m) \in m
  BY <1>2, MembersAre
<1>4. BytesOf(evs2, m) = BytesOf(evs, m)
  <2>1. (\A x \in 1..Len(evs) : evs[x].bytes \in Nat) /\ e.bytes \in Nat
    BY DEF Stream, Follows
  <2>2. m \in SUBSET (1..Len(evs))
    BY <1>3
  <2> HIDE DEF m
  <2>3. QED  BY <2>1, <2>2, BytesOfAppend
<1>5. {evs2[j].path : j \in m} = {evs[j].path : j \in m}
  BY <1>1, <1>3
<1>6. evs2[i] = evs[i] /\ evs2[Max(m)] = evs[Max(m)]
  BY <1>1, <1>2, <1>3
<1>7. SessionAt(evs2, idle, i)
        = [user |-> evs2[i].user, start_ts |-> evs2[i].ts, last_ts |-> evs2[Max(m)].ts,
           n_events |-> Cardinality(m), total_bytes |-> BytesOf(evs2, m),
           paths |-> {evs2[j].path : j \in m}]
  BY DEF SessionAt
<1>8. SessionAt(evs, idle, i)
        = [user |-> evs[i].user, start_ts |-> evs[i].ts, last_ts |-> evs[Max(m)].ts,
           n_events |-> Cardinality(m), total_bytes |-> BytesOf(evs, m),
           paths |-> {evs[j].path : j \in m}]
  BY DEF SessionAt
<1> HIDE DEF evs2, m
<1>9. SessionAt(evs2, idle, i) = SessionAt(evs, idle, i)
  BY <1>4, <1>5, <1>6, <1>7, <1>8
<1>10. QED  BY <1>9 DEF evs2

\* A session that e joins is one event longer.
LEMMA SessionGrows ==
    ASSUME NEW E, NEW evs \in Seq(E), NEW e \in E, Stream(evs), Follows(e, evs),
           NEW idle \in Int, NEW i \in StartsOf(evs, idle),
           Members(Append(evs, e), idle, i) = Members(evs, idle, i) \cup {Len(evs) + 1}
    PROVE  SessionAt(Append(evs, e), idle, i) = Longer(SessionAt(evs, idle, i), e)
<1> DEFINE evs2 == Append(evs, e)
           n == Len(evs)
           m == Members(evs, idle, i)
           m2 == m \cup {n + 1}
<1>1. /\ n \in Nat
      /\ \A j \in 1..n : evs2[j] = evs[j]
      /\ evs2[n + 1] = e
  BY StreamAppend
<1>2. i \in 1..n
  BY DEF StartsOf
<1>3. m \subseteq 1..n /\ IsFiniteSet(m) /\ Cardinality(m) \in Nat
  BY <1>2, MembersAre
<1>4. BytesOf(evs2, m2) = BytesOf(evs, m) + e.bytes
  <2>1. (\A x \in 1..n : evs[x].bytes \in Nat) /\ e.bytes \in Nat
    BY DEF Stream, Follows
  <2>2. m \in SUBSET (1..Len(evs))
    BY <1>3
  <2> HIDE DEF m
  <2>3. QED  BY <2>1, <2>2, BytesOfAppend
<1>5. {evs2[j].path : j \in m2} = {evs[j].path : j \in m} \cup {e.path}
  <2>1. \A j \in m : evs2[j] = evs[j]
    BY <1>1, <1>3
  <2> HIDE DEF evs2, n, m
  <2>2. QED  BY <1>1, <2>1
<1>6. Cardinality(m2) = Cardinality(m) + 1
  <2>1. n + 1 \notin m
    BY <1>1, <1>3
  <2> HIDE DEF m, n
  <2>2. QED  BY <1>3, <2>1, FS_AddElement
<1>7. Max(m2) = n + 1
  <2>1. n + 1 \in Nat /\ m2 \in SUBSET (0..(n + 1)) /\ m2 # {}
    BY <1>1, <1>3
  <2>2. Max(m2) \in m2 /\ \A y \in m2 : y <= Max(m2)
    <3> HIDE DEF m2, n
    <3> QED  BY <2>1, MaxIsGreatest
  <2>3. n + 1 \in m2 /\ \A y \in m2 : y \in Nat /\ y <= n + 1
    BY <1>1, <1>3
  <2>4. QED
    <3> HIDE DEF m2
    <3> QED  BY <1>1, <2>2, <2>3
<1>8. SessionAt(evs2, idle, i)
        = [user |-> evs2[i].user, start_ts |-> evs2[i].ts, last_ts |-> evs2[Max(m2)].ts,
           n_events |-> Cardinality(m2), total_bytes |-> BytesOf(evs2, m2),
           paths |-> {evs2[j].path : j \in m2}]
  BY DEF SessionAt
<1>9. SessionAt(evs, idle, i)
        = [user |-> evs[i].user, start_ts |-> evs[i].ts, last_ts |-> evs[Max(m)].ts,
           n_events |-> Cardinality(m), total_bytes |-> BytesOf(evs, m),
           paths |-> {evs[j].path : j \in m}]
  BY DEF SessionAt
<1> HIDE DEF evs2, m, m2, n
<1>10. SessionAt(evs2, idle, i) = Longer(SessionAt(evs, idle, i), e)
  <2>1. evs2[i] = evs[i] /\ evs2[Max(m2)] = e
    BY <1>1, <1>2, <1>7
  <2> DEFINE s == SessionAt(evs, idle, i)
  <2>2. /\ s.user = evs[i].user /\ s.start_ts = evs[i].ts
        /\ s.n_events = Cardinality(m) /\ s.total_bytes = BytesOf(evs, m)
        /\ s.paths = {evs[j].path : j \in m}
    BY <1>9
  <2> HIDE DEF s
  <2>3. QED  BY <1>4, <1>5, <1>6, <1>8, <2>1, <2>2 DEF Longer, s
<1>11. QED  BY <1>10 DEF evs2

\* The session that starts at the last event.
LEMMA SessionBegins ==
    ASSUME NEW E, NEW evs \in Seq(E), NEW e \in E, Stream(evs), Follows(e, evs),
           NEW idle \in Int
    PROVE  SessionAt(Append(evs, e), idle, Len(evs) + 1) = Fresh(e)
<1> DEFINE evs2 == Append(evs, e)
           n == Len(evs)
           m == Members(evs2, idle, n + 1)
<1>1. /\ evs2 \in Seq(E) /\ Stream(evs2)
      /\ n \in Nat /\ Len(evs2) = n + 1
      /\ evs2[n + 1] = e
  BY StreamAppend
<1>2. m = {} \cup {n + 1}
  <2>1. n + 1 \in 1..Len(evs2)
    BY <1>1
  <2>2. n + 1 \in m /\ m \subseteq (n + 1)..Len(evs2)
    <3> HIDE DEF evs2, n
    <3> QED  BY <1>1, <2>1, MembersAre
  <2>3. (n + 1)..Len(evs2) = {n + 1}
    BY <1>1
  <2> HIDE DEF m, evs2, n
  <2>4. m = {n + 1}
    BY <2>2, <2>3
  <2>5. QED  BY <2>4
<1>3. {} \subseteq 1..Len(evs)
  OBVIOUS
<1>4. BytesOf(evs2, {} \cup {n + 1}) = BytesOf(evs, {}) + e.bytes
  BY <1>3, BytesOfAppend DEF Stream, Follows
<1>5. BytesOf(evs, {}) = 0
  <2>1. PICK f : Totals(f, evs, {}, n) /\ BytesOf(evs, {}) = f[n]
    BY <1>1, BytesOfIsTotal
  <2> DEFINE g == [x \in 0..n |-> 0]
  <2>2. \A x \in 0..n : g[x] = IF x = 0 THEN 0
                               ELSE g[x - 1] + IF x \in {} THEN evs[x].bytes ELSE 0
    BY <1>1
  <2>3. Totals(g, evs, {}, n)
    <3>1. g = [x \in 0..n |-> g[x]]
      OBVIOUS
    <3> HIDE DEF g
    <3>2. QED  BY <2>2, <3>1 DEF Totals
  <2>4. n <= n /\ n \in 0..n
    BY <1>1
  <2>5. \A x \in 0..n : f[x] = g[x]
    <3>1. Totals(f, evs, {}, n)
      BY <2>1
    <3>2. \A x \in 1..n : (x \in {} <=> x \in {}) /\ evs[x] = evs[x]
      OBVIOUS
    <3> HIDE DEF g, n
    <3>3. n \in Nat
      BY <1>1
    <3>4. QED  BY ONLY <2>3, <2>4, <3>1, <3>2, <3>3, TotalsAgree
  <2>6. QED  BY <2>1, <2>4, <2>5
<1>6. SessionAt(evs2, idle, n + 1)
        = [user |-> evs2[n + 1].user, start_ts |-> evs2[n + 1].ts,
           last_ts |-> evs2[Max(m)].ts, n_events |-> Cardinality(m),
           total_bytes |-> BytesOf(evs2, m), paths |-> {evs2[j].path : j \in m}]
  BY DEF SessionAt
<1>7. m = {n + 1} /\ BytesOf(evs2, m) = e.bytes
  <2>1. e.bytes \in Nat
    BY DEF Follows
  <2> HIDE DEF m, evs2, n
  <2>2. QED  BY <1>2, <1>4, <1>5, <2>1
<1>8. Max({n + 1}) = n + 1 /\ Cardinality({n + 1}) = 1
  <2>1. Max({n + 1}) = n + 1
    BY <1>1 DEF Max
  <2>2. QED  BY <2>1, FS_Singleton
<1>9. {evs2[j].path : j \in {n + 1}} = {e.path}
  BY <1>1
<1> HIDE DEF evs2, m, n
<1>10. SessionAt(evs2, idle, n + 1) = Fresh(e)
  BY <1>1, <1>6, <1>7, <1>8, <1>9 DEF Fresh
<1>11. QED  BY <1>10 DEF evs2, n

\* The sessions of the user of e that are not over when e comes.
Joined(evs, idle, e) ==
    {s \in OracleSessions(evs, idle) : s.user = e.user /\ s.last_ts + idle >= e.ts}

\* The step from one event to the next: e starts a session of its own or extends
\* the one session it joins, and nothing else changes.
LEMMA AppendSessions ==
    ASSUME NEW E, NEW evs \in Seq(E), NEW e \in E, Stream(evs), Follows(e, evs),
           NEW idle \in Int
    PROVE  /\ Joined(evs, idle, e) = {} =>
                OracleSessions(Append(evs, e), idle)
                  = OracleSessions(evs, idle) \cup {Fresh(e)}
           /\ \A s \in Joined(evs, idle, e) :
                /\ Joined(evs, idle, e) = {s}
                /\ OracleSessions(Append(evs, e), idle)
                     = (OracleSessions(evs, idle) \ {s}) \cup {Longer(s, e)}
<1> DEFINE evs2 == Append(evs, e)
           n == Len(evs)
           joined == Joined(evs, idle, e)
           starts == StartsOf(evs, idle)
           new == Starts(evs2, idle, n + 1)
           at(i) == SessionAt(evs, idle, i)
<1>1. /\ n \in Nat /\ Len(evs2) = n + 1
      /\ \A j \in 1..n : evs2[j] = evs[j]
      /\ evs2[n + 1] = e
  BY StreamAppend
<1>2. \A i \in 1..n : Starts(evs2, idle, i) <=> Starts(evs, idle, i)
  BY StartsAppend
<1>3. new <=> \A j \in 1..n : evs[j].user = e.user => e.ts - evs[j].ts > idle
  BY StartsAppend
<1>4. \A i \in starts : i \in 1..n
  BY DEF StartsOf
<1>5. OracleSessions(evs2, idle)
        = {SessionAt(evs2, idle, i) : i \in starts}
             \cup IF new THEN {Fresh(e)} ELSE {}
  <2>1. \A i : i \in StartsOf(evs2, idle) <=> i \in starts \/ (new /\ i = n + 1)
    BY <1>1, <1>2 DEF StartsOf
  <2>2. OracleSessions(evs2, idle) = {SessionAt(evs2, idle, i) : i \in StartsOf(evs2, idle)}
    BY DEF OracleSessions, StartsOf
  <2>3. SessionAt(evs2, idle, n + 1) = Fresh(e)
    BY SessionBegins
  <2> HIDE DEF evs2, starts, new, n
  <2>4. CASE new
    BY <2>1, <2>2, <2>3, <2>4
  <2>5. CASE ~new
    BY <2>1, <2>2, <2>5
  <2>6. QED  BY <2>4, <2>5
<1>6. OracleSessions(evs, idle) = {at(i) : i \in starts}
  BY DEF OracleSessions, StartsOf
<1>7. \A i \in starts : /\ Shaped(at(i))
                        /\ at(i).user = evs[i].user
                        /\ \E j \in Members(evs, idle, i) : at(i).last_ts = evs[j].ts
                        /\ \A j \in Members(evs, idle, i) : evs[j].ts <= at(i).last_ts
  BY <1>4, SessionAtIs
<1>8. \A i \in starts : /\ Members(evs, idle, i) \subseteq 1..n
                        /\ \A j \in Members(evs, idle, i) : evs[j].user = evs[i].user
  BY <1>4, MembersAre
<1>9. e.ts \in Nat /\ \A j \in 1..n : evs[j].ts \in Nat /\ evs[j].ts <= e.ts
  BY DEF Stream, Follows
<1>10. ASSUME new
       PROVE  /\ joined = {}
              /\ OracleSessions(evs2, idle) = OracleSessions(evs, idle) \cup {Fresh(e)}
  <2>1. ASSUME NEW i \in starts
        PROVE  /\ at(i) \notin joined
               /\ SessionAt(evs2, idle, i) = at(i)
    <3>1. PICK j \in Members(evs, idle, i) : at(i).last_ts = evs[j].ts
      BY <1>7
    <3>2. j \in 1..n /\ evs[j].user = at(i).user
      BY <1>7, <1>8
    <3>3. at(i).user = e.user => e.ts - evs[j].ts > idle
      BY <1>3, <1>10, <3>2
    <3>4. at(i).user = e.user => ~(at(i).last_ts + idle >= e.ts)
      BY <1>9, <3>1, <3>2, <3>3
    <3>5. Members(evs2, idle, i) = Members(evs, idle, i)
      BY <1>10, MembersAppend DEF IsGainedBy
    <3>6. QED  BY <3>4, <3>5, SessionStays DEF Joined
  <2>2. joined = {}
    BY <1>6, <2>1 DEF Joined
  <2>3. {SessionAt(evs2, idle, i) : i \in starts} = {at(i) : i \in starts}
    BY <2>1
  <2> HIDE DEF evs2, starts, new, n
  <2>4. QED  BY <1>5, <1>6, <1>10, <2>2, <2>3
<1>11. ASSUME ~new
       PROVE  \E s \in joined :
                /\ joined = {s}
                /\ OracleSessions(evs2, idle)
                     = (OracleSessions(evs, idle) \ {s}) \cup {Longer(s, e)}
  <2> DEFINE mine == {i \in starts : evs[i].user = e.user}
             top == Max(mine)
  <2>1. PICK j \in 1..n : evs[j].user = e.user /\ ~(e.ts - evs[j].ts > idle)
    BY <1>3, <1>11
  <2>2. PICK i \in starts : j \in Members(evs, idle, i)
    BY SomeSession
  <2>3. i \in mine
    BY <1>8, <2>1, <2>2
  <2>4. mine \in SUBSET (0..n)
    BY <1>4
  <2>5. top \in mine /\ \A x \in mine : x <= top
    <3> HIDE DEF mine
    <3> QED  BY <1>1, <2>3, <2>4, MaxIsGreatest
  <2> HIDE DEF top
  <2>6. ASSUME NEW x \in mine, x # top
        PROVE  at(x).last_ts + idle < e.ts
    <3>1. x < top /\ x \in starts /\ top \in starts /\ evs[x].user = evs[top].user
      <4>1. x <= top /\ x \in Nat /\ top \in Nat
        BY <1>4, <2>5
      <4>2. QED  BY <2>5, <2>6, <4>1
    <3>2. at(x).last_ts + idle < evs[top].ts
      BY <3>1, StartsApart
    <3>3. top \in 1..n /\ at(x).last_ts \in Nat
      BY <1>4, <1>7, <3>1 DEF Shaped
    <3>4. evs[top].ts \in Nat /\ evs[top].ts <= e.ts
      BY <1>9, <3>3
    <3>5. QED  BY <1>9, <3>2, <3>3, <3>4
  <2>7. i = top
    <3>1. SUFFICES ASSUME i # top
                   PROVE  FALSE
      OBVIOUS
    <3>2. at(i).last_ts + idle < e.ts
      BY <2>3, <2>6, <3>1
    <3>3. at(i).last_ts \in Nat /\ evs[j].ts <= at(i).last_ts
      BY <1>7, <2>2 DEF Shaped
    <3>4. evs[j].ts \in Nat
      BY <1>9
    <3>5. e.ts - evs[j].ts > idle
      BY <1>9, <3>2, <3>3, <3>4
    <3>6. QED  BY <2>1, <3>5
  <2>8. at(i).user = e.user /\ at(i).last_ts + idle >= e.ts
    <3>1. at(i).last_ts \in Nat /\ evs[j].ts <= at(i).last_ts /\ at(i).user = evs[i].user
      BY <1>7, <2>2 DEF Shaped
    <3>2. evs[j].ts \in Nat
      BY <1>9
    <3>3. QED  BY <1>9, <2>1, <2>3, <3>1, <3>2
  <2>9. at(i) \in joined
    BY <1>6, <2>8 DEF Joined
  <2>10. ASSUME NEW x \in starts, x # i
         PROVE  at(x) \notin joined
    <3>1. CASE x \in mine
      <4>1. at(x).last_ts + idle < e.ts /\ at(x).last_ts \in Nat
        BY <1>7, <2>6, <2>7, <2>10, <3>1 DEF Shaped
      <4>2. QED  BY <1>9, <4>1 DEF Joined
    <3>2. CASE x \notin mine
      <4>1. at(x).user # e.user
        BY <1>7, <3>2
      <4>2. QED  BY <4>1 DEF Joined
    <3>3. QED  BY <3>1, <3>2
  <2>11. joined = {at(i)}
    BY <1>6, <2>9, <2>10 DEF Joined
  <2>12. ASSUME NEW x \in starts, x # i
         PROVE  SessionAt(evs2, idle, x) = at(x)
    <3>1. ~(evs[x].user = e.user /\ \A y \in starts : evs[y].user = e.user => y <= x)
      <4>1. SUFFICES ASSUME x \in mine, i <= x
                     PROVE  FALSE
        BY <2>3
      <4>2. x <= i /\ x \in Nat /\ i \in Nat
        BY <1>4, <2>5, <2>7, <4>1
      <4>3. QED  BY <2>12, <4>1, <4>2
    <3>2. Members(evs2, idle, x) = Members(evs, idle, x)
      BY <3>1, MembersAppend DEF IsGainedBy
    <3>3. QED  BY <3>2, SessionStays
  <2>13. SessionAt(evs2, idle, i) = Longer(at(i), e)
    <3>1. IsGainedBy(evs, idle, e, i)
      BY <1>11, <2>3, <2>5, <2>7 DEF IsGainedBy
    <3>2. Members(evs2, idle, i) = Members(evs, idle, i) \cup {n + 1}
      BY <3>1, MembersAppend
    <3>3. QED  BY <3>2, SessionGrows
  <2>14. \A x \in starts : x # i => at(x) # at(i)
    BY <2>9, <2>10
  <2>15. OracleSessions(evs2, idle)
           = (OracleSessions(evs, idle) \ {at(i)}) \cup {Longer(at(i), e)}
    <3>1. OracleSessions(evs2, idle) = {SessionAt(evs2, idle, x) : x \in starts}
      <4> HIDE DEF evs2, starts, new, n
      <4> QED  BY <1>5, <1>11
    <3>2. i \in starts
      BY <2>2
    <3> HIDE DEF evs2, starts, at
    <3>3. QED  BY <1>6, <2>12, <2>13, <2>14, <3>1, <3>2
  <2>16. QED  BY <2>9, <2>11, <2>15
<1>12. QED
  <2>1. CASE new
    BY <1>10, <2>1
  <2>2. CASE ~new
    <3>1. PICK s \in joined :
             /\ joined = {s}
             /\ OracleSessions(evs2, idle)
                  = (OracleSessions(evs, idle) \ {s}) \cup {Longer(s, e)}
      BY <1>11, <2>2
    <3> HIDE DEF joined, evs2
    <3>2. \A t \in joined : t = s
      BY <3>1
    <3>3. QED  BY <3>1, <3>2 DEF joined, evs2
  <2>3. QED  BY <2>1, <2>2

\* The last session of each user.
Latest(S) == {s \in S : \A t \in S : t.user = s.user => t.last_ts <= s.last_ts}

\* The sessions that are not.
Past(S) == S \ Latest(S)

LEMMA LatestExists ==
    ASSUME NEW E, NEW evs \in Seq(E), Stream(evs), NEW idle \in Int, NEW N \in Nat,
           \A i \in 1..Len(evs) : evs[i].ts <= N,
           NEW s \in OracleSessions(evs, idle)
    PROVE  \E t \in Latest(OracleSessions(evs, idle)) :
              t.user = s.user /\ s.last_ts <= t.last_ts
<1> DEFINE S == OracleSessions(evs, idle)
           own == {t \in S : t.user = s.user}
           ends == {t.last_ts : t \in own}
<1>1. \A t \in S : t.last_ts \in 0..N
  <2> TAKE t \in S
  <2>1. Shaped(t) /\ \E j \in 1..Len(evs) : t.last_ts = evs[j].ts
    BY SessionsAre
  <2>2. QED  BY <2>1 DEF Shaped
<1>2. ends \in SUBSET (0..N) /\ s.last_ts \in ends
  BY <1>1
<1>3. Max(ends) \in ends /\ \A x \in ends : x <= Max(ends)
  <2> HIDE DEF ends
  <2>1. ends # {}
    BY <1>2
  <2>2. QED  BY <1>2, <2>1, MaxIsGreatest
<1>4. PICK t \in own : t.last_ts = Max(ends)
  BY <1>3
<1>5. \A x \in S : x.user = t.user => x.last_ts <= t.last_ts
  BY <1>3, <1>4
<1>6. t \in Latest(S)
  BY <1>4, <1>5 DEF Latest
<1>7. QED  BY <1>2, <1>3, <1>4, <1>6

\* Of the sessions S those in T are kept; n is of the user of the others, and ends
\* after all of this user that are kept.
GainedLast(S, T, n) ==
    /\ n.last_ts \in Nat
    /\ \A t \in S : t.last_ts \in Nat
    /\ \A t \in S \ T : t.user = n.user
    /\ \A t \in T : t.user = n.user => t.last_ts < n.last_ts

\* What then becomes of the last sessions and of the past ones.
Succeeded(S, T, n) ==
    /\ Latest(T \cup {n}) = {t \in Latest(S) : t.user # n.user} \cup {n}
    /\ Past(T \cup {n}) = {t \in Past(S) : t.user # n.user} \cup {t \in T : t.user = n.user}

LEMMA LatestGains ==
    ASSUME NEW S, NEW T \in SUBSET S, NEW n, GainedLast(S, T, n)
    PROVE  Succeeded(S, T, n)
<1> USE DEF GainedLast
<1> DEFINE T2 == T \cup {n}
<1>1. n \in Latest(T2)
  BY DEF Latest
<1>2. \A t \in T : t.user = n.user => t \notin Latest(T2)
  BY DEF Latest
<1>3. ASSUME NEW t \in S, t.user # n.user
      PROVE  t \in T /\ (t \in Latest(T2) <=> t \in Latest(S))
  <2>1. \A x : x.user = t.user => (x \in T2 <=> x \in S)
    BY <1>3
  <2>2. QED  BY <1>3, <2>1 DEF Latest
<1>4. \A t \in Latest(S) : t \in S
  BY DEF Latest
<1>5. \A t \in Latest(T2) : t \in T2
  BY DEF Latest
<1> HIDE DEF T2
<1>6. Latest(T2) = {t \in Latest(S) : t.user # n.user} \cup {n}
  BY <1>1, <1>2, <1>3, <1>4, <1>5 DEF T2
<1>7. Past(T2) = {t \in Past(S) : t.user # n.user} \cup {t \in T : t.user = n.user}
  BY <1>1, <1>2, <1>3 DEF T2, Past
<1>8. QED  BY <1>6, <1>7 DEF T2, Succeeded

LEMMA LatestUnique ==
    ASSUME NEW E, NEW evs \in Seq(E), Stream(evs), NEW idle \in Nat,
           NEW s \in Latest(OracleSessions(evs, idle)), NEW t \in OracleSessions(evs, idle),
           t.user = s.user, t # s
    PROVE  t \notin Latest(OracleSessions(evs, idle)) /\ t.last_ts < s.last_ts
<1>1. s \in OracleSessions(evs, idle) /\ t.last_ts <= s.last_ts
  BY DEF Latest
<1>2. idle \in Int
  OBVIOUS
<1>3. s.last_ts \in Nat /\ t.last_ts \in Nat
  BY <1>1, <1>2, SessionsAre DEF Shaped
<1>4. t.last_ts # s.last_ts
  BY <1>1, SessionsDiffer
<1>5. t.last_ts < s.last_ts
  BY <1>1, <1>3, <1>4
<1>6. QED  BY <1>1, <1>3, <1>5 DEF Latest

\* What keeps the last session of each user apart does with the next event: it
\* extends the user's, or begins another in its place or beside those of others.
LatestStep(evs, idle, e) ==
    LET S  == OracleSessions(evs, idle)
        S2 == OracleSessions(Append(evs, e), idle)
    IN  /\ \A s \in Latest(S) : s.user = e.user /\ ~(e.ts - s.last_ts > idle) =>
              /\ Latest(S2) = (Latest(S) \ {s}) \cup {Longer(s, e)}
              /\ Past(S2) = Past(S)
        /\ \A s \in Latest(S) : s.user = e.user /\ e.ts - s.last_ts > idle =>
              /\ Latest(S2) = (Latest(S) \ {s}) \cup {Fresh(e)}
              /\ Past(S2) = Past(S) \cup {s}
        /\ (\A s \in Latest(S) : s.user # e.user) =>
              /\ Latest(S2) = Latest(S) \cup {Fresh(e)}
              /\ Past(S2) = Past(S)

LEMMA LatestAppend ==
    ASSUME NEW E, NEW evs \in Seq(E), NEW e \in E, Stream(evs), Follows(e, evs),
           NEW idle \in Nat
    PROVE  LatestStep(evs, idle, e)
<1> DEFINE S == OracleSessions(evs, idle)
           S2 == OracleSessions(Append(evs, e), idle)
<1>1. idle \in Int /\ e.ts \in Nat
  BY DEF Follows
<1>2. \A s \in S : s.last_ts \in Nat /\ s.last_ts <= e.ts
  <2> TAKE s \in S
  <2>1. Shaped(s) /\ \E j \in 1..Len(evs) : s.last_ts = evs[j].ts
    BY <1>1, SessionsAre
  <2>2. QED  BY <2>1 DEF Shaped, Follows
<1>3. /\ Joined(evs, idle, e) = {} => S2 = S \cup {Fresh(e)}
      /\ \A s \in Joined(evs, idle, e) : S2 = (S \ {s}) \cup {Longer(s, e)}
  BY <1>1, AppendSessions
<1>4. \A s \in Latest(S), t \in S :
         t.user = s.user /\ t # s => t \notin Latest(S) /\ t.last_ts < s.last_ts
  BY LatestUnique
<1>5. \A s \in S : \E t \in Latest(S) : t.user = s.user /\ s.last_ts <= t.last_ts
  BY <1>1, LatestExists DEF Follows
<1>6. \A s \in Latest(S) : s \in S
  BY DEF Latest
<1>7. /\ Fresh(e).user = e.user /\ Fresh(e).last_ts = e.ts
      /\ \A s : Longer(s, e).user = s.user /\ Longer(s, e).last_ts = e.ts
  BY DEF Fresh, Longer
<1>8. Joined(evs, idle, e) = {s \in S : s.user = e.user /\ s.last_ts + idle >= e.ts}
  BY DEF Joined
<1> HIDE DEF S, S2
<1>9. ASSUME NEW s \in Latest(S), s.user = e.user, ~(e.ts - s.last_ts > idle)
      PROVE  /\ Latest(S2) = (Latest(S) \ {s}) \cup {Longer(s, e)}
             /\ Past(S2) = Past(S)
  <2> DEFINE T == S \ {s}
             n == Longer(s, e)
  <2>1. s \in S /\ s \in Joined(evs, idle, e)
    BY <1>1, <1>2, <1>6, <1>8, <1>9
  <2>2. S2 = T \cup {n}
    BY <1>3, <2>1
  <2>3. /\ T \in SUBSET S /\ n.last_ts \in Nat /\ n.user = e.user
        /\ \A t \in S \ T : t.user = n.user
        /\ \A t \in T : t.user = n.user => t.last_ts < n.last_ts
    BY <1>1, <1>2, <1>4, <1>7, <1>9, <2>1
  <2> HIDE DEF T, n
  <2>4. Succeeded(S, T, n)
    BY <1>2, <2>3, LatestGains DEF GainedLast
  <2>5. {t \in Latest(S) : t.user # n.user} = Latest(S) \ {s}
    BY <1>4, <1>6, <1>9, <2>3
  <2>6. {t \in Past(S) : t.user # n.user} \cup {t \in T : t.user = n.user}
          = Past(S)
    BY <1>4, <1>9, <2>3 DEF T, Past
  <2>7. QED  BY <2>2, <2>4, <2>5, <2>6 DEF n, Succeeded
<1>10. ASSUME NEW s \in Latest(S), s.user = e.user, e.ts - s.last_ts > idle
       PROVE  /\ Latest(S2) = (Latest(S) \ {s}) \cup {Fresh(e)}
              /\ Past(S2) = Past(S) \cup {s}
  <2> DEFINE n == Fresh(e)
  <2>1. s \in S /\ \A t \in S : t.user = e.user => t.last_ts <= s.last_ts
    BY <1>10 DEF Latest
  <2>2. \A t \in S : t.user = e.user => t.last_ts + idle < e.ts
    BY <1>1, <1>2, <1>10, <2>1
  <2>3. S2 = S \cup {n}
    BY <1>1, <1>2, <1>3, <1>8, <2>2
  <2>4. /\ S \in SUBSET S /\ n.last_ts \in Nat /\ n.user = e.user
        /\ \A t \in S \ S : t.user = n.user
        /\ \A t \in S : t.user = n.user => t.last_ts < n.last_ts
    BY <1>1, <1>2, <1>7, <2>2
  <2> HIDE DEF n
  <2>5. Succeeded(S, S, n)
    BY <1>2, <2>4, LatestGains DEF GainedLast
  <2>6. {t \in Latest(S) : t.user # n.user} = Latest(S) \ {s}
    BY <1>4, <1>6, <1>10, <2>4
  <2>7. {t \in Past(S) : t.user # n.user} \cup {t \in S : t.user = n.user}
          = Past(S) \cup {s}
    BY <1>4, <1>10, <2>1, <2>4 DEF Past
  <2>8. QED  BY <2>3, <2>5, <2>6, <2>7 DEF n, Succeeded
<1>11. ASSUME \A s \in Latest(S) : s.user # e.user
       PROVE  /\ Latest(S2) = Latest(S) \cup {Fresh(e)}
              /\ Past(S2) = Past(S)
  <2> DEFINE n == Fresh(e)
  <2>1. \A t \in S : t.user # e.user
    BY <1>5, <1>11
  <2>2. S2 = S \cup {n}
    BY <1>3, <1>8, <2>1
  <2>3. /\ S \in SUBSET S /\ n.last_ts \in Nat /\ n.user = e.user
        /\ \A t \in S \ S : t.user = n.user
        /\ \A t \in S : t.user = n.user => t.last_ts < n.last_ts
    BY <1>1, <1>7, <2>1
  <2> HIDE DEF n
  <2>4. Succeeded(S, S, n)
    BY <1>2, <2>3, LatestGains DEF GainedLast
  <2>5. {t \in Latest(S) : t.user # n.user} = Latest(S)
    BY <1>11, <2>3
  <2>6. {t \in Past(S) : t.user # n.user} \cup {t \in S : t.user = n.user}
          = Past(S)
    BY <2>1, <2>3 DEF Past
  <2>7. QED  BY <2>2, <2>4, <2>5, <2>6 DEF n, Succeeded
<1>12. QED  BY <1>9, <1>10, <1>11 DEF LatestStep, S, S2

\* The sessions that an event at w could still extend.
Live(evs, idle, w) == {s \in OracleSessions(evs, idle) : w <= s.last_ts + idle}

\* L2 is L after e: e extends the one session of its user, or begins one.
Carries(L, L2, e) ==
    /\ \A s, t \in L : s.user = e.user /\ t.user = e.user => s = t
    /\ \A s \in L : s.user = e.user => L2 = (L \ {s}) \cup {Longer(s, e)}
    /\ (\A s \in L : s.user # e.user) => L2 = L \cup {Fresh(e)}

\* What keeps the sessions that are still live does with the next event.
LEMMA LiveAppend ==
    ASSUME NEW E, NEW evs \in Seq(E), NEW e \in E, Stream(evs), Follows(e, evs),
           NEW idle \in Nat
    PROVE  /\ Carries(Live(evs, idle, e.ts), Live(Append(evs, e), idle, e.ts), e)
           /\ OracleSessions(Append(evs, e), idle) \ Live(Append(evs, e), idle, e.ts)
                = OracleSessions(evs, idle) \ Live(evs, idle, e.ts)
<1> DEFINE S == OracleSessions(evs, idle)
           S2 == OracleSessions(Append(evs, e), idle)
           L == Live(evs, idle, e.ts)
           L2 == Live(Append(evs, e), idle, e.ts)
           J == Joined(evs, idle, e)
<1>1. idle \in Int /\ e.ts \in Nat
  BY DEF Follows
<1>2. \A s \in S : s.last_ts \in Nat
  BY <1>1, SessionsAre DEF Shaped
<1>3. /\ J = {} => S2 = S \cup {Fresh(e)}
      /\ \A s \in J : J = {s} /\ S2 = (S \ {s}) \cup {Longer(s, e)}
  BY <1>1, AppendSessions
<1>4. /\ Fresh(e).user = e.user /\ Fresh(e).last_ts = e.ts
      /\ \A s : Longer(s, e).user = s.user /\ Longer(s, e).last_ts = e.ts
  BY DEF Fresh, Longer
<1>5. /\ L = {s \in S : e.ts <= s.last_ts + idle}
      /\ L2 = {s \in S2 : e.ts <= s.last_ts + idle}
      /\ J = {s \in S : s.user = e.user /\ s.last_ts + idle >= e.ts}
  BY DEF Live, Joined
<1> HIDE DEF S, S2, L, L2, J
<1>6. \A s : s \in J <=> s \in L /\ s.user = e.user
  BY <1>1, <1>2, <1>5
<1>7. e.ts <= e.ts + idle
  BY <1>1
<1>8. CASE J = {}
  <2>1. L2 = L \cup {Fresh(e)}
    BY <1>3, <1>4, <1>5, <1>7, <1>8
  <2>2. S2 \ L2 = S \ L
    BY <1>3, <1>4, <1>5, <1>7, <1>8
  <2>3. QED  BY <1>6, <1>8, <2>1, <2>2 DEF Carries, S, S2, L, L2
<1>9. ASSUME NEW s \in J
      PROVE  Carries(L, L2, e) /\ S2 \ L2 = S \ L
  <2>1. S2 = (S \ {s}) \cup {Longer(s, e)} /\ s \in L
    BY <1>3, <1>6, <1>9
  <2>2. L2 = (L \ {s}) \cup {Longer(s, e)}
    BY <1>4, <1>5, <1>7, <2>1
  <2>3. S2 \ L2 = S \ L
    BY <1>4, <1>5, <1>7, <2>1
  <2>4. \A t \in J : t = s
    BY <1>3, <1>9
  <2>5. QED  BY <1>6, <2>1, <2>2, <2>3, <2>4 DEF Carries
<1>10. QED  BY <1>8, <1>9 DEF S, S2, L, L2

\* Two live sessions have two users.
LEMMA LiveUsers ==
    ASSUME NEW E, NEW evs \in Seq(E), Stream(evs), NEW idle \in Int, NEW w \in Nat,
           \A i \in 1..Len(evs) : evs[i].ts <= w,
           NEW s \in Live(evs, idle, w), NEW t \in Live(evs, idle, w), s.user = t.user
    PROVE  s = t
<1>1. /\ s \in OracleSessions(evs, idle) /\ w <= s.last_ts + idle
      /\ t \in OracleSessions(evs, idle) /\ w <= t.last_ts + idle
  BY DEF Live
<1>2. s = t \/ s.last_ts + idle < t.start_ts \/ t.last_ts + idle < s.start_ts
  BY <1>1, SessionsApart
<1>3. /\ Shaped(s) /\ \E j \in 1..Len(evs) : s.last_ts = evs[j].ts
      /\ Shaped(t) /\ \E j \in 1..Len(evs) : t.last_ts = evs[j].ts
  BY <1>1, SessionsAre
<1>4. /\ s.start_ts \in Nat /\ s.last_ts \in Nat /\ s.start_ts <= s.last_ts /\ s.last_ts <= w
      /\ t.start_ts \in Nat /\ t.last_ts \in Nat /\ t.start_ts <= t.last_ts /\ t.last_ts <= w
  BY <1>3 DEF Shaped
<1>5. QED  BY <1>1, <1>2, <1>4

\* A session of its user covers every event.
LEMMA EventInSession ==
    ASSUME NEW E, NEW evs \in Seq(E), Stream(evs), NEW idle \in Int, NEW j \in 1..Len(evs)
    PROVE  \E s \in OracleSessions(evs, idle) :
              s.user = evs[j].user /\ s.start_ts <= evs[j].ts /\ evs[j].ts <= s.last_ts
<1>1. PICK i \in StartsOf(evs, idle) : j \in Members(evs, idle, i)
  BY SomeSession
<1>2. i \in 1..Len(evs) /\ SessionAt(evs, idle, i) \in OracleSessions(evs, idle)
  BY DEF StartsOf, OracleSessions
<1>3. evs[j].user = evs[i].user /\ i <= j /\ j \in 1..Len(evs)
  <2>1. /\ Members(evs, idle, i) \subseteq i..Len(evs)
        /\ \A x \in Members(evs, idle, i) : evs[x].user = evs[i].user
    BY <1>2, MembersAre
  <2>2. QED  BY <1>1, <2>1
<1>4. evs[i].ts <= evs[j].ts
  BY <1>2, <1>3 DEF Stream
<1>5. /\ SessionAt(evs, idle, i).user = evs[i].user
      /\ SessionAt(evs, idle, i).start_ts = evs[i].ts
      /\ \A x \in Members(evs, idle, i) : evs[x].ts <= SessionAt(evs, idle, i).last_ts
  BY <1>2, SessionAtIs
<1>6. QED  BY <1>1, <1>2, <1>3, <1>4, <1>5

-----------------------------------------------------------------------------
(* The order of the answer *)

\* The key (last, user) of a record.
EndsFirst(r1, r2) ==
    \/ r1.end_ts < r2.end_ts
    \/ r1.end_ts = r2.end_ts /\ r1.user < r2.user

\* The indices that CloseIndex takes the least of.
Closing(evs, idle, r) ==
    {i \in 1..Len(evs) : evs[i].ts > r.end_ts + idle} \cup {Len(evs) + 1}

LEMMA CloseIndexIs ==
    ASSUME NEW E, NEW evs \in Seq(E), NEW idle, NEW r
    PROVE  /\ CloseIndex(evs, idle, r) \in Closing(evs, idle, r)
           /\ \A i \in Closing(evs, idle, r) : CloseIndex(evs, idle, r) <= i
           /\ CloseIndex(evs, idle, r) \in 1..(Len(evs) + 1)
<1>1. /\ Closing(evs, idle, r) \in SUBSET Nat
      /\ Closing(evs, idle, r) # {}
      /\ Closing(evs, idle, r) \subseteq 1..(Len(evs) + 1)
  BY DEF Closing
<1>2. CloseIndex(evs, idle, r) = Min(Closing(evs, idle, r))
  BY DEF CloseIndex, Closing
<1>3. QED  BY <1>1, <1>2, MinIsLeast

\* A record has been closed by an event exactly when one is late enough for it.
LEMMA CloseIndexOver ==
    ASSUME NEW E, NEW evs \in Seq(E), NEW idle, NEW r
    PROVE  CloseIndex(evs, idle, r) = Len(evs) + 1
             <=> \A i \in 1..Len(evs) : ~(evs[i].ts > r.end_ts + idle)
<1>1. /\ CloseIndex(evs, idle, r) \in Closing(evs, idle, r)
      /\ \A i \in Closing(evs, idle, r) : CloseIndex(evs, idle, r) <= i
      /\ CloseIndex(evs, idle, r) \in 1..(Len(evs) + 1)
  BY CloseIndexIs
<1>2. Len(evs) \in Nat /\ \A i \in 1..Len(evs) : i < Len(evs) + 1 /\ i # Len(evs) + 1
  OBVIOUS
<1>3. QED  BY <1>1, <1>2 DEF Closing

\* An event closes the records it is late enough for, unless they are closed.
LEMMA CloseIndexAppend ==
    ASSUME NEW E, NEW evs \in Seq(E), NEW e \in E, NEW idle, NEW r
    PROVE  /\ CloseIndex(evs, idle, r) <= Len(evs) =>
                CloseIndex(Append(evs, e), idle, r) = CloseIndex(evs, idle, r)
           /\ CloseIndex(evs, idle, r) > Len(evs) /\ e.ts > r.end_ts + idle =>
                CloseIndex(Append(evs, e), idle, r) = Len(evs) + 1
<1> DEFINE evs2 == Append(evs, e)
           n == Len(evs)
           c == CloseIndex(evs, idle, r)
           c2 == CloseIndex(evs2, idle, r)
<1>1. /\ evs2 \in Seq(E) /\ Len(evs2) = n + 1 /\ n \in Nat
      /\ \A j \in 1..n : evs2[j] = evs[j]
      /\ evs2[n + 1] = e
  BY AppendAdds
<1>2. /\ c \in Closing(evs, idle, r) /\ c \in 1..(n + 1)
      /\ \A i \in Closing(evs, idle, r) : c <= i
  BY CloseIndexIs
<1>3. c2 \in Closing(evs2, idle, r) /\ c2 \in 1..(n + 2)
      /\ \A i \in Closing(evs2, idle, r) : c2 <= i
  <2>1. Len(evs2) + 1 = n + 2
    BY <1>1
  <2> HIDE DEF evs2
  <2>2. QED  BY <1>1, <2>1, CloseIndexIs
<1> HIDE DEF evs2, n, c, c2
<1>4. \A i \in 1..n : i \in Closing(evs2, idle, r) <=> i \in Closing(evs, idle, r)
  <2>1. \A i \in 1..n : i # n + 1 /\ i # n + 2 /\ i \in 1..(n + 1)
    BY <1>1
  <2>2. n = Len(evs) /\ Len(evs2) + 1 = n + 2
    BY <1>1 DEF n
  <2>3. QED  BY <1>1, <2>1, <2>2 DEF Closing
<1>5. CASE c <= n
  <2>1. c \in 1..n /\ c \in Closing(evs2, idle, r)
    BY <1>1, <1>2, <1>4, <1>5
  <2>2. c2 <= c /\ c2 \in 1..n
    BY <1>1, <1>2, <1>3, <2>1
  <2>3. c <= c2
    BY <1>2, <1>3, <1>4, <2>2
  <2>4. c2 = c
    BY <1>2, <1>3, <2>2, <2>3
  <2>5. QED  BY <1>1, <1>2, <1>5, <2>4 DEF c, c2, evs2, n
<1>6. CASE c > n /\ e.ts > r.end_ts + idle
  <2>1. n + 1 \in Closing(evs2, idle, r)
    BY <1>1, <1>6 DEF Closing
  <2>2. c2 <= n + 1
    BY <1>3, <2>1
  <2>3. \A i \in 1..n : i \notin Closing(evs2, idle, r)
    BY <1>1, <1>2, <1>4, <1>6
  <2>4. c2 = n + 1
    BY <1>1, <1>3, <2>2, <2>3
  <2>5. QED  BY <1>1, <1>2, <1>6, <2>4 DEF c, c2, evs2, n
<1>7. QED
  <2>1. c <= n \/ c > n
    BY <1>1, <1>2
  <2>2. QED  BY <1>5, <1>6, <2>1 DEF c, c2, evs2, n

\* A session that ends first is not closed later: ties aside, the close index
\* decides nothing that the end does not.
LEMMA ClosesBeforeIs ==
    ASSUME NEW E, NEW evs \in Seq(E), Stream(evs), NEW idle \in Int,
           NEW r1, NEW r2, r1.end_ts \in Nat, r2.end_ts \in Nat
    PROVE  ClosesBefore(evs, idle, r1, r2) <=> EndsFirst(r1, r2)
<1> DEFINE c(r) == CloseIndex(evs, idle, r)
<1>1. c(r1) \in Nat /\ c(r2) \in Nat
  BY CloseIndexIs
<1>2. ASSUME NEW r, NEW s, r.end_ts \in Nat, s.end_ts \in Nat, r.end_ts <= s.end_ts
      PROVE  c(r) <= c(s)
  <2>1. c(s) \in Closing(evs, idle, s)
    BY CloseIndexIs
  <2>2. \A i \in 1..Len(evs) : evs[i].ts \in Nat
    BY DEF Stream
  <2>3. c(s) \in Closing(evs, idle, r)
    BY <1>2, <2>1, <2>2 DEF Closing
  <2>4. QED  BY <2>3, CloseIndexIs
<1>3. /\ r1.end_ts <= r2.end_ts => c(r1) <= c(r2)
      /\ r2.end_ts <= r1.end_ts => c(r2) <= c(r1)
  BY <1>2
<1>4. ClosesBefore(evs, idle, r1, r2) <=>
        \/ c(r1) < c(r2)
        \/ c(r1) = c(r2) /\ r1.end_ts < r2.end_ts
        \/ c(r1) = c(r2) /\ r1.end_ts = r2.end_ts /\ r1.user < r2.user
  BY DEF ClosesBefore
<1> HIDE DEF c
<1>5. QED  BY <1>1, <1>3, <1>4 DEF EndsFirst

\* The first n of q are records in the order of their ends, and no other comes
\* before the last of them.
FirstRecords(q, n, evs, idle) ==
    /\ \A i \in 1..n : q[i] \in OracleRecords(evs, idle)
    /\ \A i, j \in 1..n : i < j => EndsFirst(q[i], q[j])
    /\ \A i \in 1..n : \A r \in OracleRecords(evs, idle) :
          (\A j \in 1..n : r # q[j]) => EndsFirst(q[i], r)

\* Then they are how the oracle's answer begins.
LEMMA OracleBegins ==
    ASSUME NEW E, NEW evs \in Seq(E), Stream(evs), \A i \in 1..Len(evs) : evs[i].user \in Nat,
           NEW idle \in Int, NEW n \in Nat, NEW q, FirstRecords(q, n, evs, idle)
    PROVE  /\ Cardinality(OracleRecords(evs, idle)) \in Nat
           /\ n <= Cardinality(OracleRecords(evs, idle))
           /\ Oracle(evs, idle) = [k \in 1..Cardinality(OracleRecords(evs, idle)) |->
                                     Oracle(evs, idle)[k]]
           /\ \A k \in 1..n : Oracle(evs, idle)[k] = q[k]
<1> DEFINE R == OracleRecords(evs, idle)
           before == {p \in R \X R : ClosesBefore(evs, idle, p[1], p[2])}
<1>1. IsFiniteSet(R)
  BY SessionsFinite
<1>2. \A r \in R : r.end_ts \in Nat /\ r.user \in Nat
  <2> SUFFICES ASSUME NEW s \in OracleSessions(evs, idle)
               PROVE  RecordOf(s).end_ts \in Nat /\ RecordOf(s).user \in Nat
    BY DEF OracleRecords
  <2>1. Shaped(s) /\ \E j \in 1..Len(evs) : s.user = evs[j].user
    BY SessionsAre
  <2>2. QED  BY <2>1 DEF Shaped, RecordOf
<1>3. \A r, s \in R : <<r, s>> \in before <=> EndsFirst(r, s)
  BY <1>2, ClosesBeforeIs
<1> HIDE DEF before, R
<1>4. \A r, s \in R : EndsFirst(r, s) => ~EndsFirst(s, r)
  BY <1>2 DEF EndsFirst
<1>5. \A i \in 1..n : q[i] \in R
  BY DEF R, FirstRecords
<1>6. \A i, j \in 1..n : <<q[i], q[j]>> \in before <=> i < j
  <2> SUFFICES ASSUME NEW i \in 1..n, NEW j \in 1..n
               PROVE  <<q[i], q[j]>> \in before <=> i < j
    OBVIOUS
  <2>1. i < j \/ j < i \/ i = j
    OBVIOUS
  <2>2. \A x, y \in 1..n : x < y => EndsFirst(q[x], q[y])
    BY DEF FirstRecords
  <2>3. QED  BY <1>3, <1>4, <1>5, <2>1, <2>2
<1>7. \A i \in 1..n : \A r \in R : (\A j \in 1..n : r # q[j]) => EndsFirst(q[i], r)
  BY DEF R, FirstRecords
<1>8. \A i \in 1..n : \A r \in R :
         (\A j \in 1..n : r # q[j]) => <<q[i], r>> \in before /\ <<r, q[i]>> \notin before
  BY <1>3, <1>4, <1>5, <1>7
<1>9. Leads(q, n, R, before)
  BY <1>5, <1>6, <1>8 DEF Leads
<1>10. /\ Cardinality(R) \in Nat
       /\ n <= Cardinality(R)
       /\ \A k \in 1..n : InOrder(R, before)[k] = q[k]
  <2>1. Cardinality(R) \in Nat
    BY <1>1, <1>9, InOrderBegins
  <2>2. n <= Cardinality(R)
    BY <1>1, <1>9, InOrderBegins
  <2>3. \A k \in 1..n : InOrder(R, before)[k] = q[k]
    BY <1>1, <1>9, InOrderBegins
  <2>4. QED  BY <2>1, <2>2, <2>3
<1>11. Oracle(evs, idle) = InOrder(R, before)
  BY DEF Oracle, R, before
<1>12. InOrder(R, before) = [k \in 1..Cardinality(R) |-> InOrder(R, before)[k]]
  <2> DEFINE pick(k) == CHOOSE r \in R : Cardinality({s \in R : <<s, r>> \in before}) = k - 1
  <2>1. InOrder(R, before) = [k \in 1..Cardinality(R) |-> pick(k)]
    BY DEF InOrder
  <2> HIDE DEF pick
  <2>2. QED  BY <2>1
<1>13. QED  BY <1>10, <1>11, <1>12 DEF R

\* Every record has one place in the answer.
OraclePlaced(evs, idle) ==
    LET n == Cardinality(OracleRecords(evs, idle))
    IN  /\ n \in Nat
        /\ Oracle(evs, idle) = [k \in 1..n |-> Oracle(evs, idle)[k]]
        /\ \A r \in OracleRecords(evs, idle) : \E k \in 1..n : Oracle(evs, idle)[k] = r
        /\ \A k \in 1..n : Oracle(evs, idle)[k] \in OracleRecords(evs, idle)
        /\ Distinct(Oracle(evs, idle), n)

LEMMA OracleListsRecords ==
    ASSUME NEW E, NEW evs \in Seq(E), Stream(evs), \A i \in 1..Len(evs) : evs[i].user \in Nat,
           NEW idle \in Nat
    PROVE  OraclePlaced(evs, idle)
<1> DEFINE R == OracleRecords(evs, idle)
           before == {p \in R \X R : ClosesBefore(evs, idle, p[1], p[2])}
<1>1. IsFiniteSet(R)
  BY SessionsFinite
<1>2. idle \in Int
  OBVIOUS
<1>3. \A x \in R : \E s \in OracleSessions(evs, idle) : x = RecordOf(s)
  BY DEF OracleRecords
<1>4. \A s \in OracleSessions(evs, idle) :
         /\ s.last_ts \in Nat /\ s.user \in Nat
         /\ RecordOf(s).end_ts = s.last_ts /\ RecordOf(s).user = s.user
  <2> TAKE s \in OracleSessions(evs, idle)
  <2>1. Shaped(s) /\ \E j \in 1..Len(evs) : s.user = evs[j].user
    BY <1>2, SessionsAre
  <2>2. QED  BY <2>1 DEF Shaped, RecordOf
<1>5. \A x \in R : x.end_ts \in Nat /\ x.user \in Nat
  BY <1>3, <1>4
<1>6. \A x, y \in R : <<x, y>> \in before <=> EndsFirst(x, y)
  BY <1>2, <1>5, ClosesBeforeIs
<1>7. \A x, y \in R : x # y => x.user # y.user \/ x.end_ts # y.end_ts
  BY <1>3, <1>4, SessionsDiffer
<1>8. Oracle(evs, idle) = InOrder(R, before)
  BY DEF Oracle
<1> HIDE DEF R, before
<1>9. Orders(R, before)
  <2>1. \A x, y \in R : x # y => <<x, y>> \in before \/ <<y, x>> \in before
    BY <1>5, <1>6, <1>7 DEF EndsFirst
  <2>2. \A x \in R : <<x, x>> \notin before
    BY <1>5, <1>6 DEF EndsFirst
  <2>3. \A x, y, z \in R : <<x, y>> \in before /\ <<y, z>> \in before => <<x, z>> \in before
    <3>1. \A x, y, z \in R : EndsFirst(x, y) /\ EndsFirst(y, z) => EndsFirst(x, z)
      <4> TAKE x, y, z \in R
      <4>1. /\ x.end_ts \in Nat /\ y.end_ts \in Nat /\ z.end_ts \in Nat
            /\ x.user \in Nat /\ y.user \in Nat /\ z.user \in Nat
        BY <1>5
      <4>2. QED  BY ONLY <4>1 DEF EndsFirst
    <3>2. QED  BY ONLY <1>6, <3>1
  <2>4. QED  BY <2>1, <2>2, <2>3 DEF Orders
<1>10. /\ Cardinality(R) \in Nat
       /\ \A r \in R : \E k \in 1..Cardinality(R) : InOrder(R, before)[k] = r
       /\ \A k \in 1..Cardinality(R) : InOrder(R, before)[k] \in R
       /\ Distinct(InOrder(R, before), Cardinality(R))
  BY <1>1, <1>9, InOrderPlaces
<1>11. InOrder(R, before) = [k \in 1..Cardinality(R) |-> InOrder(R, before)[k]]
  <2> DEFINE pick(k) == CHOOSE r \in R : Cardinality({s \in R : <<s, r>> \in before}) = k - 1
  <2>1. InOrder(R, before) = [k \in 1..Cardinality(R) |-> pick(k)]
    BY DEF InOrder
  <2> HIDE DEF pick
  <2>2. QED  BY <2>1
<1>12. QED  BY <1>8, <1>10, <1>11 DEF OraclePlaced, R

\* No record is left out of the answer.
LEMMA OracleCovers ==
    ASSUME NEW E, NEW evs \in Seq(E), Stream(evs), \A i \in 1..Len(evs) : evs[i].user \in Nat,
           NEW idle \in Nat, NEW r \in OracleRecords(evs, idle)
    PROVE  r \in ToSet(Oracle(evs, idle))
<1>1. OraclePlaced(evs, idle)
  BY OracleListsRecords
<1>2. PICK k \in 1..Cardinality(OracleRecords(evs, idle)) : Oracle(evs, idle)[k] = r
  BY <1>1 DEF OraclePlaced
<1>3. DOMAIN Oracle(evs, idle) = 1..Cardinality(OracleRecords(evs, idle))
  BY <1>1 DEF OraclePlaced
<1>4. QED  BY <1>2, <1>3 DEF ToSet

\* So as many records as sessions are returned.
LEMMA CountRecords ==
    ASSUME NEW E, NEW evs \in Seq(E), Stream(evs), NEW idle \in Nat,
           NEW n \in Nat, NEW q, Distinct(q, n),
           \A s : s \in OracleSessions(evs, idle) <=> \E i \in 1..n : s = q[i]
    PROVE  Cardinality(OracleRecords(evs, idle)) = n
<1> DEFINE r == [i \in 1..n |-> RecordOf(q[i])]
<1>1. ASSUME NEW i \in 1..n, NEW j \in 1..n, i # j
      PROVE  r[i] # r[j]
  <2>1. q[i].user # q[j].user \/ q[i].last_ts # q[j].last_ts
    BY <1>1, SessionsDiffer DEF Distinct
  <2>2. QED  BY <2>1 DEF RecordOf
<1>2. {r[i] : i \in 1..n} = OracleRecords(evs, idle)
  BY DEF OracleRecords
<1>3. Cardinality({r[i] : i \in 1..n}) = n
  <2> HIDE DEF r
  <2>1. Distinct(r, n)
    BY <1>1 DEF Distinct
  <2>2. QED  BY <2>1, CountDistinct
<1>4. QED
  <2> HIDE DEF r
  <2> QED  BY <1>2, <1>3

\* As many as starts.
LEMMA CountStarts ==
    ASSUME NEW E, NEW evs \in Seq(E), Stream(evs), NEW idle \in Nat
    PROVE  /\ IsFiniteSet(StartsOf(evs, idle))
           /\ Cardinality(OracleRecords(evs, idle)) = Cardinality(StartsOf(evs, idle))
<1> DEFINE starts == StartsOf(evs, idle)
           f == [i \in starts |-> RecordOf(SessionAt(evs, idle, i))]
<1>1. idle \in Int
  OBVIOUS
<1>2. starts \subseteq 1..Len(evs) /\ IsFiniteSet(starts)
  <2>1. starts \subseteq 1..Len(evs) /\ IsFiniteSet(1..Len(evs))
    BY FS_Interval DEF StartsOf
  <2> HIDE DEF starts
  <2>2. QED  BY <2>1, FS_Subset
<1>a. \A x \in 1..Len(evs) : /\ Shaped(SessionAt(evs, idle, x))
                             /\ SessionAt(evs, idle, x).user = evs[x].user
                             /\ SessionAt(evs, idle, x).start_ts = evs[x].ts
  BY <1>1, SessionAtIs
<1>3. ASSUME NEW i \in starts, NEW j \in starts, i # j
      PROVE  f[i] # f[j]
  <2> DEFINE s == SessionAt(evs, idle, i)
             t == SessionAt(evs, idle, j)
  <2>1. i \in 1..Len(evs) /\ j \in 1..Len(evs)
    BY <1>2
  <2>2. /\ s.user = evs[i].user /\ s.start_ts = evs[i].ts
        /\ t.user = evs[j].user /\ t.start_ts = evs[j].ts
        /\ s.last_ts \in Nat /\ s.start_ts \in Nat /\ s.start_ts <= s.last_ts
        /\ t.last_ts \in Nat /\ t.start_ts \in Nat /\ t.start_ts <= t.last_ts
    BY <1>a, <2>1 DEF Shaped
  <2>3. s.user = t.user => s.start_ts # t.start_ts
    <3>1. i < j /\ s.user = t.user => s.last_ts + idle < t.start_ts
      BY <1>1, <2>2, StartsApart
    <3>2. j < i /\ s.user = t.user => t.last_ts + idle < s.start_ts
      BY <1>1, <2>2, StartsApart
    <3> HIDE DEF s, t
    <3>3. i < j \/ j < i
      BY <1>3, <2>1
    <3>4. QED  BY <2>2, <3>1, <3>2, <3>3
  <2>4. f[i] = RecordOf(s) /\ f[j] = RecordOf(t)
    OBVIOUS
  <2> HIDE DEF s, t, f
  <2>5. QED  BY <2>3, <2>4 DEF RecordOf
<1>4. OracleRecords(evs, idle) = {f[i] : i \in starts}
  BY DEF OracleRecords, OracleSessions, StartsOf
<1>5. f \in Bijection(starts, {f[i] : i \in starts})
  BY <1>3 DEF Bijection, Injection, Surjection, IsInjective
<1> HIDE DEF f, starts
<1>6. ExistsBijection(starts, {f[i] : i \in starts})
  BY <1>5 DEF ExistsBijection
<1>7. Cardinality({f[i] : i \in starts}) = Cardinality(starts)
  BY <1>2, <1>6, FS_Bijection
<1>8. QED  BY <1>2, <1>4, <1>7 DEF starts

\* Where a shorter idle time starts the same sessions it returns the same answer.
LEMMA SameStarts ==
    ASSUME NEW E, NEW evs \in Seq(E), Stream(evs), NEW idle1 \in Int, NEW idle2 \in Int,
           \A i \in 1..Len(evs) : Starts(evs, idle1, i) <=> Starts(evs, idle2, i)
    PROVE  Oracle(evs, idle1) = Oracle(evs, idle2)
<1>1. \A i : Members(evs, idle1, i) = Members(evs, idle2, i)
  BY DEF Members, ByUser
<1>2. \A i : SessionAt(evs, idle1, i) = SessionAt(evs, idle2, i)
  BY <1>1 DEF SessionAt
<1>3. OracleSessions(evs, idle1) = OracleSessions(evs, idle2)
  BY <1>2 DEF OracleSessions
<1> DEFINE R == OracleRecords(evs, idle1)
<1>4. R = OracleRecords(evs, idle2)
  BY <1>3 DEF OracleRecords
<1>5. \A r \in R : r.end_ts \in Nat
  <2> SUFFICES ASSUME NEW s \in OracleSessions(evs, idle1)
               PROVE  RecordOf(s).end_ts \in Nat
    BY DEF OracleRecords
  <2>1. Shaped(s)
    BY SessionsAre
  <2>2. QED  BY <2>1 DEF Shaped, RecordOf
<1>6. \A r, s \in R : ClosesBefore(evs, idle1, r, s) <=> ClosesBefore(evs, idle2, r, s)
  BY <1>5, ClosesBeforeIs
<1>7. {p \in R \X R : ClosesBefore(evs, idle1, p[1], p[2])}
        = {p \in R \X R : ClosesBefore(evs, idle2, p[1], p[2])}
  BY <1>6
<1>8. QED  BY <1>4, <1>7 DEF Oracle

\* A shorter idle time starts a session at every start, and at the events that are
\* just within the longer one of the user's last.
LEMMA ShorterStarts ==
    ASSUME NEW E, NEW evs \in Seq(E), Stream(evs), NEW idle \in Nat, NEW j \in 1..Len(evs)
    PROVE  /\ Starts(evs, idle, j) => Starts(evs, idle - 1, j)
           /\ Starts(evs, idle - 1, j) /\ ~Starts(evs, idle, j) <=>
                \E i \in 1..Len(evs) :
                   /\ i < j /\ evs[i].user = evs[j].user /\ evs[j].ts - evs[i].ts = idle
                   /\ \A m \in (i + 1)..(j - 1) : evs[m].user # evs[i].user
<1> DEFINE mine(i) == i \in 1..Len(evs) /\ i < j /\ evs[i].user = evs[j].user
           gap(i) == evs[j].ts - evs[i].ts
           last(i) == mine(i) /\ \A m \in (i + 1)..(j - 1) : evs[m].user # evs[i].user
<1>1. idle \in Int /\ idle - 1 \in Int
  OBVIOUS
<1>2. /\ Starts(evs, idle, j) <=> \A i : mine(i) => gap(i) > idle
      /\ Starts(evs, idle - 1, j) <=> \A i : mine(i) => gap(i) > idle - 1
  <2>1. Starts(evs, idle, j) <=> \A i : mine(i) => gap(i) > idle
    BY <1>1, StartsIs
  <2>2. Starts(evs, idle - 1, j) <=> \A i : mine(i) => gap(i) > idle - 1
    BY <1>1, StartsIs
  <2>3. QED  BY <2>1, <2>2
<1>3. \A i : mine(i) => gap(i) \in Int
  BY DEF Stream
<1>4. ASSUME NEW i, last(i), NEW m, mine(m)
      PROVE  gap(i) <= gap(m)
  <2>1. m <= i
    BY <1>4
  <2>2. evs[m].ts \in Nat /\ evs[i].ts \in Nat /\ evs[j].ts \in Nat /\ evs[m].ts <= evs[i].ts
    BY <1>4, <2>1 DEF Stream
  <2>3. QED  BY <2>2
<1>5. ASSUME NEW x, mine(x)
      PROVE  \E i : last(i)
  <2> DEFINE earlier == {i \in 1..Len(evs) : mine(i)}
  <2>1. Len(evs) \in Nat /\ earlier \subseteq 0..Len(evs) /\ earlier # {}
    BY <1>5
  <2>2. Max(earlier) \in earlier /\ \A y \in earlier : y <= Max(earlier)
    <3> HIDE DEF earlier
    <3> QED  BY <2>1, MaxIsGreatest
  <2>3. PICK i : i \in earlier /\ \A y \in earlier : y <= i
    BY <2>2
  <2>4. ASSUME NEW m \in (i + 1)..(j - 1), evs[m].user = evs[i].user
        PROVE  FALSE
    <3>1. m \in 1..Len(evs) /\ m < j /\ ~(m <= i)
      BY <2>3
    <3>2. QED  BY <2>3, <2>4, <3>1
  <2>5. last(i)
    BY <2>3, <2>4
  <2>6. QED  BY <2>5
<1>6. (\E i \in 1..Len(evs) :
          /\ i < j /\ evs[i].user = evs[j].user /\ evs[j].ts - evs[i].ts = idle
          /\ \A m \in (i + 1)..(j - 1) : evs[m].user # evs[i].user)
        <=> \E i : last(i) /\ gap(i) = idle
  OBVIOUS
<1>7. \A i : last(i) => mine(i)
  OBVIOUS
<1> HIDE DEF mine, gap, last
<1>8. Starts(evs, idle, j) => Starts(evs, idle - 1, j)
  BY <1>2, <1>3
<1>9. ASSUME Starts(evs, idle - 1, j), ~Starts(evs, idle, j)
      PROVE  \E i : last(i) /\ gap(i) = idle
  <2>1. PICK x : mine(x) /\ ~(gap(x) > idle)
    BY <1>2, <1>9
  <2>2. PICK i : last(i)
    BY <1>5, <2>1
  <2>3. gap(i) <= gap(x) /\ gap(i) > idle - 1 /\ gap(i) \in Int /\ gap(x) \in Int
    BY <1>2, <1>3, <1>4, <1>7, <1>9, <2>1, <2>2
  <2>4. gap(i) = idle
    BY <2>1, <2>3
  <2>5. QED  BY <2>2, <2>4
<1>10. ASSUME NEW i, last(i), gap(i) = idle
       PROVE  Starts(evs, idle - 1, j) /\ ~Starts(evs, idle, j)
  <2>1. ~Starts(evs, idle, j)
    BY <1>2, <1>7, <1>10
  <2>2. ASSUME NEW m, mine(m)
        PROVE  gap(m) > idle - 1
    BY <1>3, <1>4, <1>10, <2>2
  <2>3. QED  BY <1>2, <2>1, <2>2
<1>11. QED  BY <1>6, <1>8, <1>9, <1>10

\* So a shorter idle time finds no fewer sessions, and more of them wherever an
\* event starts a session that did not.
LEMMA ShorterCounts ==
    ASSUME NEW E, NEW evs \in Seq(E), Stream(evs), NEW idle \in Nat, idle > 0
    PROVE  /\ Cardinality(OracleRecords(evs, idle)) <= Cardinality(OracleRecords(evs, idle - 1))
           /\ (\E j \in 1..Len(evs) : Starts(evs, idle - 1, j) /\ ~Starts(evs, idle, j))
                <=> Cardinality(OracleRecords(evs, idle)) # Cardinality(OracleRecords(evs, idle - 1))
<1> DEFINE S == StartsOf(evs, idle)
           T == StartsOf(evs, idle - 1)
<1>1. idle - 1 \in Nat
  OBVIOUS
<1>2. S \subseteq T
  BY ShorterStarts DEF StartsOf
<1>3. /\ IsFiniteSet(T)
      /\ Cardinality(OracleRecords(evs, idle)) = Cardinality(S)
      /\ Cardinality(OracleRecords(evs, idle - 1)) = Cardinality(T)
  <2>1. Cardinality(OracleRecords(evs, idle)) = Cardinality(S)
    BY CountStarts
  <2>2. IsFiniteSet(T) /\ Cardinality(OracleRecords(evs, idle - 1)) = Cardinality(T)
    BY <1>1, CountStarts
  <2>3. QED  BY <2>1, <2>2
<1>4. (\E j \in 1..Len(evs) : Starts(evs, idle - 1, j) /\ ~Starts(evs, idle, j)) <=> S # T
  BY <1>2 DEF StartsOf
<1> HIDE DEF S, T
<1>5. Cardinality(S) <= Cardinality(T) /\ (S # T <=> Cardinality(S) # Cardinality(T))
  BY <1>2, <1>3, FS_Subset
<1>6. QED  BY <1>3, <1>4, <1>5

\* A session has as many paths as events unless two of its events have one path.
LEMMA PathsRepeat ==
    ASSUME NEW E, NEW evs \in Seq(E), Stream(evs), NEW idle \in Int, NEW i \in 1..Len(evs)
    PROVE  Cardinality(SessionAt(evs, idle, i).paths) # SessionAt(evs, idle, i).n_events
             <=> \E x, y \in Members(evs, idle, i) : x # y /\ evs[x].path = evs[y].path
<1> DEFINE m == Members(evs, idle, i)
           f == [x \in m |-> evs[x].path]
           T == {evs[x].path : x \in m}
<1>1. SessionAt(evs, idle, i).paths = T /\ SessionAt(evs, idle, i).n_events = Cardinality(m)
  BY DEF SessionAt
<1>2. IsFiniteSet(m)
  BY MembersAre
<1>3. f \in Surjection(m, T)
  BY DEF Surjection
<1>4. f \in Injection(m, T) <=> \A x, y \in m : f[x] = f[y] => x = y
  BY <1>3 DEF Surjection, Injection, IsInjective
<1>5. \A x \in m : f[x] = evs[x].path
  OBVIOUS
<1> HIDE DEF m, f, T
<1>6. Cardinality(T) = Cardinality(m) <=> f \in Injection(m, T)
  BY <1>2, <1>3, FS_Surjection
<1>7. Cardinality(T) # Cardinality(m) <=> \E x, y \in m : x # y /\ evs[x].path = evs[y].path
  BY <1>4, <1>5, <1>6
<1>8. QED  BY <1>1, <1>7 DEF m

=============================================================================
