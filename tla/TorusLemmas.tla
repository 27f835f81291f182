---------------------------- MODULE TorusLemmas ----------------------------
(***************************************************************************)
(* What the operations on a torus, written down as the sequence of its     *)
(* members without repetitions, do to its members.                         *)
(***************************************************************************)
EXTENDS SequencesExt, SequenceTheorems, FiniteSetTheorems, FunctionTheorems, WellFoundedInduction, TLAPS

\* s is a torus over S with the members R.
TorusOf(s, S, R) == s \in Seq(S) /\ IsInjective(s) /\ Range(s) = R

\* A sequence as a torus of its own.
LEMMA TorusFacts ==
  ASSUME NEW S, NEW s \in Seq(S)
  PROVE  /\ Len(s) \in Nat /\ DOMAIN s = 1..Len(s) /\ s \in [1..Len(s) -> S]
         /\ \A i \in 1..Len(s) : s[i] \in Range(s)
         /\ \A x \in Range(s) : \E i \in 1..Len(s) : s[i] = x
         /\ Range(s) \subseteq S
         /\ IsInjective(s) <=> \A i, j \in 1..Len(s) : s[i] = s[j] => i = j
         /\ s = <<>> <=> Len(s) = 0
         /\ s = <<>> <=> Range(s) = {}
<1>1. Len(s) \in Nat /\ DOMAIN s = 1..Len(s) /\ s \in [1..Len(s) -> S]
  BY LenProperties
<1>2. s = <<>> <=> Len(s) = 0
  BY EmptySeq
<1>3. s = <<>> <=> Range(s) = {}
  <2>1. CASE Len(s) = 0
    BY <2>1, <1>1, <1>2 DEF Range
  <2>2. CASE Len(s) # 0
    <3>1. 1 \in DOMAIN s
      BY <1>1, <2>2
    <3> QED
      BY <3>1, <1>2, <2>2 DEF Range
  <2> QED
    BY <2>1, <2>2
<1> QED
  BY <1>1, <1>2, <1>3 DEF Range, IsInjective

\* Two ends of a torus.
LEMMA EndFacts ==
  ASSUME NEW S, NEW s \in Seq(S), s # <<>>
  PROVE  /\ Len(s) \in Nat \ {0}
         /\ Head(s) = s[1] /\ Last(s) = s[Len(s)]
         /\ Head(s) \in Range(s) /\ Last(s) \in Range(s)
         /\ Head(s) \in S /\ Last(s) \in S
<1>1. Len(s) \in Nat \ {0}
  BY EmptySeq
<1>2. Head(s) = s[1] /\ Last(s) = s[Len(s)]
  BY DEF Last
<1>3. 1 \in 1..Len(s) /\ Len(s) \in 1..Len(s)
  BY <1>1
<1> QED
  BY <1>1, <1>2, <1>3, TorusFacts

\* A new member at the end.
LEMMA AppendTorus ==
  ASSUME NEW S, NEW s \in Seq(S), IsInjective(s), NEW e \in S \ Range(s)
  PROVE  TorusOf(Append(s, e), S, Range(s) \cup {e})
<1> DEFINE n == Len(s)
<1> DEFINE a == Append(s, e)
<1>1. /\ a \in Seq(S) /\ Len(a) = n + 1 /\ n \in Nat
      /\ \A i \in 1..n : a[i] = s[i]
      /\ a[n + 1] = e
  BY AppendProperties, LenProperties
<1>2. \A i \in 1..n : s[i] # e
  BY TorusFacts
<1>3. IsInjective(a)
  <2> HIDE DEF a
  <2> SUFFICES ASSUME NEW i \in 1..n + 1, NEW j \in 1..n + 1, a[i] = a[j] PROVE i = j
    BY <1>1, TorusFacts
  <2>1. \A k \in 1..n + 1 : k \in 1..n \/ k = n + 1
    BY <1>1
  <2> QED
    BY <2>1, <1>1, <1>2, TorusFacts
<1>4. Range(a) = Range(s) \cup {e}
  <2> DEFINE b == <<e>>
  <2>1. a = s \o b /\ b \in Seq(S)
    BY AppendIsConcat
  <2>2. Range(b) = {e}
    BY DEF Range
  <2> HIDE DEF b
  <2>3. Range(s \o b) = Range(s) \cup Range(b)
    BY <2>1, RangeConcatenation
  <2> QED
    BY <2>1, <2>2, <2>3
<1> QED
  BY <1>1, <1>3, <1>4 DEF TorusOf

\* A new member before the others.
LEMMA PrefixTorus ==
  ASSUME NEW S, NEW s \in Seq(S), IsInjective(s), NEW e \in S \ Range(s)
  PROVE  TorusOf(<<e>> \o s, S, Range(s) \cup {e})
<1> DEFINE n == Len(s)
<1> DEFINE a == <<e>> \o s
<1>1. <<e>> \in Seq(S) /\ Len(<<e>>) = 1 /\ <<e>>[1] = e
  OBVIOUS
<1>2. /\ a \in Seq(S) /\ Len(a) = n + 1 /\ n \in Nat
      /\ a[1] = e
      /\ \A i \in 2..n + 1 : a[i] = s[i - 1]
  <2>1. /\ a \in Seq(S) /\ Len(a) = 1 + n
        /\ \A i \in 1..1 + n : a[i] = IF i <= 1 THEN <<e>>[i] ELSE s[i - 1]
    BY <1>1, ConcatProperties
  <2>2. n \in Nat
    BY LenProperties
  <2> HIDE DEF a
  <2> QED
    BY <2>1, <2>2, <1>1
<1>3. \A i \in 1..n : s[i] # e
  BY TorusFacts
<1>4. IsInjective(a)
  <2> HIDE DEF a
  <2> SUFFICES ASSUME NEW i \in 1..n + 1, NEW j \in 1..n + 1, a[i] = a[j] PROVE i = j
    BY <1>2, TorusFacts
  <2>1. \A k \in 1..n + 1 : k = 1 \/ (k \in 2..n + 1 /\ k - 1 \in 1..n)
    BY <1>2
  <2>2. CASE i = 1 \/ j = 1
    BY <2>1, <2>2, <1>2, <1>3
  <2>3. CASE i # 1 /\ j # 1
    <3>1. i - 1 \in 1..n /\ j - 1 \in 1..n /\ s[i - 1] = s[j - 1]
      BY <2>1, <2>3, <1>2
    <3>2. i - 1 = j - 1
      BY <3>1, TorusFacts
    <3> QED
      BY <3>2, <1>2
  <2> QED
    BY <2>2, <2>3
<1>5. Range(a) = Range(s) \cup {e}
  <2> DEFINE b == <<e>>
  <2>1. Range(b) = {e} /\ b \in Seq(S) /\ a = b \o s
    BY <1>1 DEF Range
  <2> HIDE DEF b
  <2>2. Range(b \o s) = Range(b) \cup Range(s)
    BY <2>1, RangeConcatenation
  <2> QED
    BY <2>1, <2>2
<1> QED
  BY <1>2, <1>4, <1>5 DEF TorusOf

\* The member at place i is taken out.
LEMMA RemoveAtTorus ==
  ASSUME NEW S, NEW s \in Seq(S), NEW i \in 1..Len(s)
  PROVE  /\ RemoveAt(s, i) \in Seq(S)
         /\ Len(RemoveAt(s, i)) = Len(s) - 1
         /\ \A j \in 1..Len(s) - 1 : RemoveAt(s, i)[j] = IF j < i THEN s[j] ELSE s[j + 1]
         /\ IsInjective(s) => TorusOf(RemoveAt(s, i), S, Range(s) \ {s[i]})
<1> DEFINE n == Len(s)
<1> DEFINE p == SubSeq(s, 1, i - 1)
<1> DEFINE q == SubSeq(s, i + 1, n)
<1> DEFINE r == RemoveAt(s, i)
<1>0. n \in Nat /\ i \in 1..n /\ i \in Int /\ \A k \in 1..n : s[k] \in S
  BY LenProperties
<1>1. p \in Seq(S) /\ Len(p) = i - 1 /\ \A j \in 1..i - 1 : p[j] = s[j]
  <2>1. \A k \in 1..i - 1 : s[k] \in S
    BY <1>0
  <2>2. /\ p \in Seq(S) /\ Len(p) = IF 1 <= i - 1 THEN i - 1 - 1 + 1 ELSE 0
        /\ \A j \in 1..i - 1 - 1 + 1 : p[j] = s[1 + j - 1]
    BY <2>1, <1>0, SubSeqProperties
  <2> HIDE DEF p
  <2> QED
    BY <2>2, <1>0
<1>2. q \in Seq(S) /\ Len(q) = n - i /\ \A j \in 1..n - i : q[j] = s[i + j]
  <2>1. \A k \in i + 1..n : s[k] \in S
    BY <1>0
  <2>2. /\ q \in Seq(S) /\ Len(q) = IF i + 1 <= n THEN n - (i + 1) + 1 ELSE 0
        /\ \A j \in 1..n - (i + 1) + 1 : q[j] = s[(i + 1) + j - 1]
    BY <2>1, <1>0, SubSeqProperties
  <2> HIDE DEF q
  <2> QED
    BY <2>2, <1>0
<1>3. /\ r \in Seq(S) /\ Len(r) = n - 1
      /\ \A j \in 1..n - 1 : r[j] = IF j < i THEN s[j] ELSE s[j + 1]
  <2>1. r = p \o q
    BY DEF RemoveAt
  <2>2. /\ r \in Seq(S) /\ Len(r) = Len(p) + Len(q)
        /\ \A j \in 1..Len(p) + Len(q) : r[j] = IF j <= Len(p) THEN p[j] ELSE q[j - Len(p)]
    <3> HIDE DEF r, p, q
    <3> QED
      BY <2>1, <1>1, <1>2, ConcatProperties
  <2> HIDE DEF r, p, q
  <2>3. Len(r) = n - 1
    BY <2>2, <1>0, <1>1, <1>2
  <2>4. ASSUME NEW j \in 1..n - 1 PROVE r[j] = IF j < i THEN s[j] ELSE s[j + 1]
    <3>1. CASE j < i
      <4>1. j \in 1..i - 1 /\ j \in 1..Len(p) + Len(q) /\ j <= Len(p)
        BY <3>1, <1>0, <1>1, <1>2
      <4>2. r[j] = p[j]
        BY <4>1, <2>2
      <4> QED
        BY <3>1, <4>1, <4>2, <1>1
    <3>2. CASE ~(j < i)
      <4>1. j \in 1..Len(p) + Len(q) /\ ~(j <= Len(p)) /\ Len(p) = i - 1
        BY <3>2, <1>0, <1>1, <1>2
      <4>4. r[j] = q[j - (i - 1)]
        BY <4>1, <2>2
      <4>5. j - (i - 1) \in 1..n - i
        BY <3>2, <1>0
      <4>2. q[j - (i - 1)] = s[i + (j - (i - 1))]
        BY <4>5, <1>2
      <4>3. i + (j - (i - 1)) = j + 1
        BY <1>0
      <4> QED
        BY <4>4, <4>2, <4>3, <3>2
    <3> QED
      BY <3>1, <3>2
  <2> QED
    BY <2>2, <2>3, <2>4
<1>4. ASSUME IsInjective(s) PROVE TorusOf(r, S, Range(s) \ {s[i]})
  <2> HIDE DEF r
  <2> DEFINE up(j) == IF j < i THEN j ELSE j + 1
  <2>1. \A j \in 1..n - 1 : up(j) \in 1..n /\ up(j) # i /\ r[j] = s[up(j)]
    BY <1>0, <1>3
  <2>2. \A j, k \in 1..n - 1 : up(j) = up(k) => j = k
    BY <1>0
  <2>3. \A k \in 1..n : k # i => \E j \in 1..n - 1 : up(j) = k
    <3> SUFFICES ASSUME NEW k \in 1..n, k # i PROVE \E j \in 1..n - 1 : up(j) = k
      OBVIOUS
    <3>1. CASE k < i
      <4>1. k \in 1..n - 1 /\ up(k) = k
        BY <3>1, <1>0
      <4> QED
        BY <4>1
    <3>2. CASE k > i
      <4>1. k - 1 \in 1..n - 1 /\ up(k - 1) = k
        BY <3>2, <1>0
      <4> QED
        BY <4>1
    <3> QED
      BY <3>1, <3>2, <1>0
  <2> HIDE DEF up
  <2>4. \A j, k \in 1..n : s[j] = s[k] => j = k
    BY <1>4, TorusFacts
  <2>5. IsInjective(r)
    <3> SUFFICES ASSUME NEW j \in 1..n - 1, NEW k \in 1..n - 1, r[j] = r[k] PROVE j = k
      BY <1>3, TorusFacts
    <3> QED
      BY <2>1, <2>2, <2>4
  <2>6. Range(r) \subseteq Range(s) \ {s[i]}
    <3> SUFFICES ASSUME NEW x \in Range(r) PROVE x \in Range(s) \ {s[i]}
      OBVIOUS
    <3>1. PICK j \in 1..n - 1 : r[j] = x
      BY <1>3, TorusFacts
    <3> QED
      BY <3>1, <2>1, <2>4, TorusFacts
  <2>7. Range(s) \ {s[i]} \subseteq Range(r)
    <3> SUFFICES ASSUME NEW x \in Range(s), x # s[i] PROVE x \in Range(r)
      OBVIOUS
    <3>1. PICK k \in 1..n : s[k] = x
      BY TorusFacts
    <3>2. PICK j \in 1..n - 1 : up(j) = k
      BY <3>1, <2>3
    <3>3. r[j] = x
      BY <3>1, <3>2, <2>1
    <3> QED
      BY <3>3, <1>3, TorusFacts
  <2> QED
    BY <1>3, <2>5, <2>6, <2>7 DEF TorusOf
<1>5. IsInjective(s) => TorusOf(r, S, Range(s) \ {s[i]})
  BY <1>4
<1> QED
  BY <1>3, <1>5

\* Without its first member.
LEMMA TailTorus ==
  ASSUME NEW S, NEW s \in Seq(S), s # <<>>, IsInjective(s)
  PROVE  TorusOf(Tail(s), S, Range(s) \ {Head(s)})
<1>1. 1 \in 1..Len(s) /\ Head(s) = s[1] /\ Len(s) \in Nat
  BY EndFacts
<1>2. Tail(s) \in Seq(S) /\ Len(Tail(s)) = Len(s) - 1
      /\ \A i \in 1..Len(s) - 1 : Tail(s)[i] = s[i + 1]
  BY HeadTailProperties
<1>3. /\ RemoveAt(s, 1) \in Seq(S) /\ Len(RemoveAt(s, 1)) = Len(s) - 1
      /\ \A j \in 1..Len(s) - 1 : RemoveAt(s, 1)[j] = s[j + 1]
      /\ TorusOf(RemoveAt(s, 1), S, Range(s) \ {s[1]})
  <2>1. /\ RemoveAt(s, 1) \in Seq(S) /\ Len(RemoveAt(s, 1)) = Len(s) - 1
        /\ \A j \in 1..Len(s) - 1 : RemoveAt(s, 1)[j] = IF j < 1 THEN s[j] ELSE s[j + 1]
        /\ TorusOf(RemoveAt(s, 1), S, Range(s) \ {s[1]})
    BY <1>1, RemoveAtTorus
  <2> QED
    BY <2>1, <1>1
<1>4. Tail(s) = RemoveAt(s, 1)
  BY <1>1, <1>2, <1>3, SeqEqual
<1> QED
  BY <1>1, <1>3, <1>4

\* Without its last member.
LEMMA FrontTorus ==
  ASSUME NEW S, NEW s \in Seq(S), s # <<>>, IsInjective(s)
  PROVE  TorusOf(Front(s), S, Range(s) \ {Last(s)})
<1> DEFINE n == Len(s)
<1>1. n \in 1..n /\ Last(s) = s[n] /\ n \in Nat
  BY EndFacts
<1>2. /\ Front(s) \in Seq(S) /\ Len(Front(s)) = n - 1
      /\ \A i \in 1..n - 1 : Front(s)[i] = s[i]
  <2>1. \A i \in 1..n - 1 : s[i] \in S
    BY <1>1, LenProperties
  <2>2. /\ Front(s) \in Seq(S)
        /\ Len(Front(s)) = IF 1 <= n - 1 THEN n - 1 - 1 + 1 ELSE 0
        /\ \A i \in 1..n - 1 - 1 + 1 : Front(s)[i] = s[1 + i - 1]
    BY <2>1, <1>1, SubSeqProperties DEF Front
  <2>3. 1 <= n - 1 \/ n - 1 = 0
    <3>1. n \in Nat /\ 1 <= n
      BY <1>1
    <3> HIDE DEF n
    <3> QED
      BY <3>1
  <2>4. Len(Front(s)) = n - 1 /\ n - 1 - 1 + 1 = n - 1
    BY <2>2, <2>3, <1>1
  <2>5. \A i \in 1..n - 1 : 1 + i - 1 = i
    BY <1>1
  <2> QED
    BY <2>2, <2>4, <2>5
<1>3. /\ RemoveAt(s, n) \in Seq(S) /\ Len(RemoveAt(s, n)) = n - 1
      /\ \A j \in 1..n - 1 : RemoveAt(s, n)[j] = s[j]
      /\ TorusOf(RemoveAt(s, n), S, Range(s) \ {s[n]})
  <2>1. /\ RemoveAt(s, n) \in Seq(S) /\ Len(RemoveAt(s, n)) = n - 1
        /\ \A j \in 1..n - 1 : RemoveAt(s, n)[j] = IF j < n THEN s[j] ELSE s[j + 1]
        /\ TorusOf(RemoveAt(s, n), S, Range(s) \ {s[n]})
    BY <1>1, RemoveAtTorus
  <2>2. \A j \in 1..n - 1 : j < n
    BY <1>1
  <2> QED
    BY <2>1, <2>2
<1>4. Front(s) = RemoveAt(s, n)
  BY <1>1, <1>2, <1>3, SeqEqual
<1> QED
  BY <1>1, <1>3, <1>4

\* Turned by one member, one way or the other.
LEMMA TurnTorus ==
  ASSUME NEW S, NEW s \in Seq(S), s # <<>>, IsInjective(s)
  PROVE  /\ TorusOf(Append(Tail(s), Head(s)), S, Range(s))
         /\ TorusOf(<<Last(s)>> \o Front(s), S, Range(s))
<1>1. Head(s) \in S /\ Head(s) \in Range(s) /\ Last(s) \in S /\ Last(s) \in Range(s)
  BY EndFacts
<1>2. TorusOf(Tail(s), S, Range(s) \ {Head(s)})
  BY TailTorus
<1>3. TorusOf(Append(Tail(s), Head(s)), S, (Range(s) \ {Head(s)}) \cup {Head(s)})
  <2>1. /\ Tail(s) \in Seq(S) /\ IsInjective(Tail(s)) /\ Head(s) \in S \ Range(Tail(s))
        /\ Range(Tail(s)) = Range(s) \ {Head(s)}
    BY <1>1, <1>2 DEF TorusOf
  <2>2. TorusOf(Append(Tail(s), Head(s)), S, Range(Tail(s)) \cup {Head(s)})
    BY <2>1, AppendTorus
  <2> QED
    BY <2>1, <2>2
<1>4. TorusOf(Front(s), S, Range(s) \ {Last(s)})
  BY FrontTorus
<1>5. TorusOf(<<Last(s)>> \o Front(s), S, (Range(s) \ {Last(s)}) \cup {Last(s)})
  BY <1>1, <1>4, PrefixTorus DEF TorusOf
<1>6. (Range(s) \ {Head(s)}) \cup {Head(s)} = Range(s) /\ (Range(s) \ {Last(s)}) \cup {Last(s)} = Range(s)
  BY <1>1
<1> QED
  BY <1>3, <1>5, <1>6

\* The least number of a set of numbers.
LEMMA MinFacts ==
  ASSUME NEW n \in Nat, NEW I \in SUBSET (1..n), I # {}
  PROVE  Min(I) \in I
<1>1. PICK m \in I : \A k \in I : m <= k
  <2>1. I \in SUBSET Nat
    OBVIOUS
  <2>2. IsWellFoundedOn(OpToRel(<, Nat), Nat)
    BY NatLessThanWellFounded
  <2>3. PICK m \in I : \A k \in I : ~(<<k, m>> \in OpToRel(<, Nat))
    BY <2>1, <2>2, WFMin
  <2>4. \A k \in I : ~(k < m)
    BY <2>1, <2>3 DEF OpToRel
  <2> QED
    BY <2>1, <2>4
<1> QED
  BY <1>1 DEF Min

\* The member e is taken out, where it is one.
LEMMA RemoveFirstTorus ==
  ASSUME NEW S, NEW s \in Seq(S), IsInjective(s), NEW e
  PROVE  /\ TorusOf(RemoveFirst(s, e), S, Range(s) \ {e})
         /\ e \in Range(s) => \E i \in DOMAIN s : RemoveFirst(s, e) = RemoveAt(s, i)
<1> DEFINE I == {i \in 1..Len(s) : s[i] = e}
<1>1. CASE e \in Range(s)
  <2>1. I # {} /\ I \in SUBSET (1..Len(s)) /\ Len(s) \in Nat
    BY <1>1, TorusFacts
  <2>2. Min(I) \in 1..Len(s) /\ s[Min(I)] = e
    BY <2>1, MinFacts
  <2>3. RemoveFirst(s, e) = RemoveAt(s, Min(I))
    BY <2>1 DEF RemoveFirst, SelectInSeq
  <2>4. /\ RemoveAt(s, Min(I)) \in Seq(S)
        /\ TorusOf(RemoveAt(s, Min(I)), S, Range(s) \ {s[Min(I)]})
    BY <2>2, RemoveAtTorus
  <2>5. Min(I) \in DOMAIN s
    BY <2>2, TorusFacts
  <2> HIDE DEF I
  <2> QED
    BY <2>2, <2>3, <2>4, <2>5
<1>2. CASE e \notin Range(s)
  <2>1. RemoveFirst(s, e) = s
    BY <1>2, TorusFacts DEF RemoveFirst
  <2> QED
    BY <2>1, <1>2 DEF TorusOf
<1> QED
  BY <1>1, <1>2

\* A torus has as many places as members.
LEMMA LengthOfTorus ==
  ASSUME NEW S, NEW s \in Seq(S), IsInjective(s)
  PROVE  IsFiniteSet(Range(s)) /\ Cardinality(Range(s)) = Len(s)
<1>1. s \in Bijection(1..Len(s), Range(s))
  <2>1. /\ s \in [1..Len(s) -> Range(s)] /\ DOMAIN s = 1..Len(s)
        /\ \A x \in Range(s) : \E i \in 1..Len(s) : s[i] = x
    BY TorusFacts
  <2> QED
    BY <2>1 DEF Bijection, Injection, Surjection
<1>2. IsFiniteSet(1..Len(s)) /\ Cardinality(1..Len(s)) = Len(s)
  <2>1. Len(s) \in Nat
    BY LenProperties
  <2>2. /\ IsFiniteSet(1..Len(s))
        /\ Cardinality(1..Len(s)) = IF 1 > Len(s) THEN 0 ELSE Len(s) - 1 + 1
    BY <2>1, FS_Interval
  <2> QED
    BY <2>1, <2>2
<1>3. ExistsBijection(1..Len(s), Range(s))
  BY <1>1, Fun_ExistsBij
<1> QED
  BY <1>2, <1>3, FS_Bijection

----------------------------------------------------------------------------
(* Walks along links *)

\* Induction over the natural numbers, as a fact about a set of them.
LEMMA AllNaturals ==
  ASSUME NEW P \in SUBSET Nat, 0 \in P, \A n \in P : n + 1 \in P
  PROVE  P = Nat
<1> SUFFICES ASSUME P # Nat PROVE FALSE
  OBVIOUS
<1>1. Nat \ P \subseteq Nat /\ Nat \ P # {}
  OBVIOUS
<1>2. PICK m \in Nat \ P : \A k \in Nat \ P : ~(<<k, m>> \in OpToRel(<, Nat))
  BY <1>1, NatLessThanWellFounded, WFMin
<1>3. \A k \in Nat : k < m => k \in P
  BY <1>2 DEF OpToRel
<1>4. m \in Nat /\ m # 0
  BY <1>2
<1>5. m - 1 \in Nat /\ m - 1 < m /\ (m - 1) + 1 = m
  BY <1>4
<1> QED
  BY <1>2, <1>3, <1>5

\* The walk from a along link.
Walk(link, a) == LET f[n \in Nat] == IF n = 0 THEN a ELSE link[f[n - 1]] IN f

\* A walk that stays in V is what its recursive definition says.
LEMMA WalkFacts ==
  ASSUME NEW V, NEW link, NEW a \in V, \A v \in V : link[v] \in V
  PROVE  /\ Walk(link, a) \in [Nat -> V]
         /\ Walk(link, a)[0] = a
         /\ \A n \in Nat : Walk(link, a)[n + 1] = link[Walk(link, a)[n]]
<1> DEFINE Upto(n) == {g \in [0..n -> V] : g[0] = a /\ \A i \in 1..n : g[i] = link[g[i - 1]]}
           Some(n) == CHOOSE g : g \in Upto(n)
           F == [n \in Nat |-> Some(n)[n]]
<1>1. \A n \in Nat : Upto(n) # {}
  <2> DEFINE P == {n \in Nat : Upto(n) # {}}
  <2>1. 0 \in P
    <3>1. [i \in 0..0 |-> a] \in Upto(0)
      OBVIOUS
    <3> QED
      BY <3>1
  <2>2. ASSUME NEW n \in P PROVE n + 1 \in P
    <3>1. PICK g \in [0..n -> V] : g[0] = a /\ \A i \in 1..n : g[i] = link[g[i - 1]]
      OBVIOUS
    <3> DEFINE h == [i \in 0..n + 1 |-> IF i <= n THEN g[i] ELSE link[g[n]]]
    <3>2. n \in Nat /\ n \in 0..n /\ g[n] \in V /\ link[g[n]] \in V
      BY <3>1
    <3>3. h \in [0..n + 1 -> V] /\ h[0] = a
      BY <3>1, <3>2
    <3>4. ASSUME NEW i \in 1..n + 1 PROVE h[i] = link[h[i - 1]]
      <4>1. CASE i <= n
        BY <3>1, <3>2, <4>1
      <4>2. CASE i = n + 1
        <5>1. i \in 0..n + 1 /\ ~(i <= n) /\ i - 1 = n /\ n \in 0..n + 1
          BY <3>2, <4>2
        <5> QED
          BY <5>1, <3>2
      <4> QED
        BY <3>2, <4>1, <4>2
    <3> HIDE DEF h
    <3>5. h \in Upto(n + 1)
      BY <3>3, <3>4
    <3> QED
      BY <3>2, <3>5
  <2> HIDE DEF Upto
  <2>3. P = Nat
    BY <2>1, <2>2, AllNaturals
  <2> QED
    BY <2>3
<1>2. ASSUME NEW n \in Nat, NEW m \in Nat, NEW g \in Upto(n), NEW h \in Upto(m)
      PROVE  \A k \in Nat : k <= n /\ k <= m => g[k] = h[k]
  <2> DEFINE P == {k \in Nat : k <= n /\ k <= m => g[k] = h[k]}
  <2>1. 0 \in P
    OBVIOUS
  <2>2. ASSUME NEW k \in P PROVE k + 1 \in P
    <3> SUFFICES ASSUME k + 1 <= n, k + 1 <= m PROVE g[k + 1] = h[k + 1]
      OBVIOUS
    <3>1. k + 1 \in 1..n /\ k + 1 \in 1..m /\ (k + 1) - 1 = k /\ g[k] = h[k]
      OBVIOUS
    <3>2. g[k + 1] = link[g[(k + 1) - 1]] /\ h[k + 1] = link[h[(k + 1) - 1]]
      BY <3>1
    <3> QED
      BY <3>1, <3>2
  <2>3. P = Nat
    <3> HIDE DEF P
    <3>1. P \in SUBSET Nat
      BY DEF P
    <3> QED
      BY <2>1, <2>2, <3>1, AllNaturals
  <2> QED
    BY <2>3
<1>3. \A n \in Nat : Some(n) \in Upto(n)
  BY <1>1
<1>4. \A n \in Nat : F[n] = IF n = 0 THEN a ELSE link[F[n - 1]]
  <2> SUFFICES ASSUME NEW n \in Nat PROVE F[n] = IF n = 0 THEN a ELSE link[F[n - 1]]
    OBVIOUS
  <2>1. Some(n) \in Upto(n)
    BY <1>3
  <2> HIDE DEF Some
  <2>2. CASE n = 0
    BY <2>1, <2>2
  <2>3. CASE n # 0
    <3>1. n - 1 \in Nat /\ n \in 1..n /\ n - 1 <= n
      BY <2>3
    <3>2. Some(n)[n] = link[Some(n)[n - 1]]
      BY <2>1, <3>1
    <3>3. Some(n - 1) \in Upto(n - 1)
      BY <1>3, <3>1
    <3> HIDE DEF Upto
    <3>4. Some(n)[n - 1] = Some(n - 1)[n - 1]
      BY <1>2, <2>1, <3>1, <3>3
    <3> QED
      BY <2>3, <3>1, <3>2, <3>4
  <2> QED
    BY <2>2, <2>3
<1>5. F = [n \in Nat |-> IF n = 0 THEN a ELSE link[F[n - 1]]]
  <2> HIDE DEF Some
  <2>1. F = [n \in Nat |-> F[n]]
    OBVIOUS
  <2> HIDE DEF F
  <2> QED
    BY <1>4, <2>1
<1> DEFINE W == Walk(link, a)
<1>6. W = [n \in Nat |-> IF n = 0 THEN a ELSE link[W[n - 1]]]
  <2> HIDE DEF F
  <2> QED
    BY <1>5 DEF Walk
<1> HIDE DEF W
<1>7. W[0] = a
  BY <1>6
<1>8. \A n \in Nat : W[n + 1] = link[W[n]]
  <2> SUFFICES ASSUME NEW n \in Nat PROVE W[n + 1] = link[W[n]]
    OBVIOUS
  <2>1. n + 1 \in Nat /\ n + 1 # 0 /\ (n + 1) - 1 = n
    OBVIOUS
  <2>2. W[n + 1] = IF n + 1 = 0 THEN a ELSE link[W[(n + 1) - 1]]
    BY <1>6, <2>1
  <2> QED
    BY <2>1, <2>2
<1>9. \A n \in Nat : W[n] \in V
  <2> DEFINE P == {n \in Nat : W[n] \in V}
  <2>1. 0 \in P
    BY <1>7
  <2>2. ASSUME NEW n \in P PROVE n + 1 \in P
    BY <1>8
  <2>3. P = Nat
    <3> HIDE DEF P
    <3>1. P \in SUBSET Nat
      BY DEF P
    <3> QED
      BY <2>1, <2>2, <3>1, AllNaturals
  <2> QED
    BY <2>3
<1>10. W \in [Nat -> V]
  BY <1>6, <1>9
<1> QED
  BY <1>7, <1>8, <1>10 DEF W

\* What is computed from number to number, from a on: x before number n gives
\* g[<<n, x>>].
Series(X, a, g) ==
  [n \in Nat |-> Walk([p \in Nat \X X |-> <<p[1] + 1, g[p]>>], <<0, a>>)[n][2]]

\* It is what that says.
LEMMA SeriesFacts ==
  ASSUME NEW X, NEW a \in X, NEW g, \A p \in Nat \X X : g[p] \in X
  PROVE  /\ Series(X, a, g) \in [Nat -> X] /\ Series(X, a, g)[0] = a
         /\ \A n \in Nat : Series(X, a, g)[n + 1] = g[<<n, Series(X, a, g)[n]>>]
<1> DEFINE V == Nat \X X
           link == [p \in V |-> <<p[1] + 1, g[p]>>]
           W == Walk(link, <<0, a>>)
<1>1. <<0, a>> \in V /\ \A p \in V : link[p] \in V
  OBVIOUS
<1>0. \A p \in V : link[p][1] = p[1] + 1 /\ link[p][2] = g[p]
  OBVIOUS
<1>2. /\ W \in [Nat -> V] /\ W[0] = <<0, a>>
      /\ \A n \in Nat : W[n + 1] = link[W[n]]
  <2> HIDE DEF V, link
  <2> QED
    BY <1>1, WalkFacts
<1> HIDE DEF W
<1>3. \A n \in Nat : W[n][1] = n
  <2> DEFINE P == {n \in Nat : W[n][1] = n}
  <2>1. 0 \in P
    BY <1>2
  <2>2. ASSUME NEW n \in P PROVE n + 1 \in P
    <3>1. n \in Nat /\ W[n] \in V /\ W[n][1] = n /\ W[n + 1] = link[W[n]]
      BY <1>2
    <3> HIDE DEF link, V
    <3> QED
      BY <3>1, <1>0
  <2>3. P \in SUBSET Nat
    OBVIOUS
  <2> HIDE DEF P
  <2>4. P = Nat
    BY <2>1, <2>2, <2>3, AllNaturals
  <2> QED
    BY <2>4 DEF P
<1> DEFINE f == Series(X, a, g)
<1>6. f = [n \in Nat |-> W[n][2]]
  BY DEF Series, W, link, V
<1> HIDE DEF f
<1>4. f \in [Nat -> X] /\ f[0] = a
  BY <1>2, <1>6
<1>5. ASSUME NEW n \in Nat PROVE f[n + 1] = g[<<n, f[n]>>]
  <2>1. W[n] \in V /\ W[n][1] = n /\ W[n] = <<n, W[n][2]>>
    BY <1>2, <1>3
  <2>2. W[n + 1][2] = g[W[n]]
    <3>1. W[n + 1] = link[W[n]]
      BY <1>2
    <3> HIDE DEF link, V
    <3> QED
      BY <3>1, <2>1, <1>0
  <2>3. f[n + 1] = W[n + 1][2] /\ f[n] = W[n][2]
    BY <1>2, <1>6
  <2> QED
    BY <2>1, <2>2, <2>3
<1> QED
  BY <1>4, <1>5 DEF f

----------------------------------------------------------------------------
(* The torus along a walk *)

\* The place after the i-th of n, round the torus, and the place before it.
After(i, n) == IF i = n THEN 1 ELSE i + 1
Before(i, n) == IF i = 1 THEN n ELSE i - 1

\* s is the torus of the members of V, from a on along link.
Tours(s, V, link, a) ==
  /\ s # <<>> /\ TorusOf(s, V, V)
  /\ s[1] = a
  /\ \A i \in 1..Len(s) : link[s[i]] = s[After(i, Len(s))]

\* The first of V on the walk from a along link, as many as V has members.
WalkOf(V, link, a) == [i \in 1..Cardinality(V) |-> Walk(link, a)[i - 1]]

\* The places after and before one on a torus undo each other.
LEMMA PlaceFacts ==
  ASSUME NEW n \in Nat, NEW i \in 1..n
  PROVE  /\ After(i, n) \in 1..n /\ Before(i, n) \in 1..n
         /\ Before(After(i, n), n) = i /\ After(Before(i, n), n) = i
BY DEF After, Before

\* What a torus along a walk says of its members.
LEMMA ToursFacts ==
  ASSUME NEW V, NEW s, NEW link, NEW a, Tours(s, V, link, a)
  PROVE  /\ s \in Seq(V) /\ Len(s) \in Nat \ {0} /\ DOMAIN s = 1..Len(s)
         /\ \A i \in 1..Len(s) : s[i] \in V
         /\ \A v \in V : \E i \in 1..Len(s) : s[i] = v
         /\ \A i, j \in 1..Len(s) : s[i] = s[j] => i = j
         /\ a \in V /\ \A v \in V : link[v] \in V
         /\ IsFiniteSet(V) /\ Cardinality(V) = Len(s)
<1> DEFINE n == Len(s)
<1>1. s \in Seq(V) /\ IsInjective(s) /\ Range(s) = V /\ s # <<>> /\ s[1] = a
  BY DEF Tours, TorusOf
<1>2. /\ n \in Nat \ {0} /\ DOMAIN s = 1..n
      /\ \A i \in 1..n : s[i] \in V
      /\ \A v \in V : \E i \in 1..n : s[i] = v
      /\ \A i, j \in 1..n : s[i] = s[j] => i = j
  BY <1>1, TorusFacts
<1>3. a \in V
  BY <1>1, <1>2
<1>4. ASSUME NEW v \in V PROVE link[v] \in V
  <2>1. PICK i \in 1..n : s[i] = v
    BY <1>2
  <2>2. link[s[i]] = s[After(i, n)] /\ After(i, n) \in 1..n
    BY <1>2, PlaceFacts DEF Tours
  <2> QED
    BY <1>2, <2>1, <2>2
<1>5. IsFiniteSet(V) /\ Cardinality(V) = n
  BY <1>1, LengthOfTorus
<1> QED
  BY <1>1, <1>2, <1>3, <1>4, <1>5

\* There is only one torus along a walk.
LEMMA ToursUnique ==
  ASSUME NEW V, NEW s, NEW link, NEW a, Tours(s, V, link, a)
  PROVE  WalkOf(V, link, a) = s
<1> DEFINE n == Len(s)
           W == Walk(link, a)
<1>1. /\ s \in Seq(V) /\ n \in Nat \ {0} /\ DOMAIN s = 1..n
      /\ a \in V /\ \A v \in V : link[v] \in V
      /\ Cardinality(V) = n /\ s[1] = a
  BY ToursFacts DEF Tours
<1>2. W[0] = a /\ \A k \in Nat : W[k + 1] = link[W[k]]
  BY <1>1, WalkFacts
<1> HIDE DEF W
<1>3. \A k \in Nat : k < n => W[k] = s[k + 1]
  <2> DEFINE P == {k \in Nat : k < n => W[k] = s[k + 1]}
  <2>1. 0 \in P
    <3>1. W[0] = s[1] /\ 0 + 1 = 1
      BY <1>1, <1>2
    <3> QED
      BY <3>1
  <2>2. ASSUME NEW k \in P PROVE k + 1 \in P
    <3> SUFFICES ASSUME k + 1 < n PROVE W[k + 1] = s[k + 1 + 1]
      OBVIOUS
    <3>1. k + 1 \in 1..n /\ k + 1 # n /\ W[k] = s[k + 1]
      <4>1. k \in Nat /\ n \in Nat /\ (k < n => W[k] = s[k + 1])
        BY <1>1
      <4> HIDE DEF n, P
      <4> QED
        BY <4>1
    <3>2. link[s[k + 1]] = s[After(k + 1, n)] /\ After(k + 1, n) = k + 1 + 1
      BY <3>1 DEF Tours, After
    <3> QED
      BY <1>2, <3>1, <3>2
  <2>3. P = Nat
    <3> HIDE DEF P
    <3>1. P \in SUBSET Nat
      BY DEF P
    <3> QED
      BY <2>1, <2>2, <3>1, AllNaturals
  <2> QED
    BY <2>3
<1>4. ASSUME NEW i \in 1..n PROVE W[i - 1] = s[i]
  <2>1. i - 1 \in Nat /\ i - 1 < n /\ (i - 1) + 1 = i
    BY <1>1
  <2> QED
    BY <1>3, <2>1
<1>5. s = [i \in 1..n |-> s[i]]
  BY <1>1
<1>6. WalkOf(V, link, a) = [i \in 1..n |-> W[i - 1]]
  BY <1>1 DEF WalkOf, W
<1> QED
  BY <1>4, <1>5, <1>6

\* The walk along links that are one ring tours it.
LEMMA WalkTours ==
  ASSUME NEW V, IsFiniteSet(V), NEW link, NEW a \in V,
         \A v \in V : link[v] \in V,
         \A v, w \in V : link[v] = link[w] => v = w,
         \A S \in SUBSET V : S # {} /\ (\A v \in S : link[v] \in S) => S = V
  PROVE  Tours(WalkOf(V, link, a), V, link, a)
<1> DEFINE W == Walk(link, a)
<1>1. W \in [Nat -> V] /\ W[0] = a /\ \A k \in Nat : W[k + 1] = link[W[k]]
  BY WalkFacts
<1> HIDE DEF W
<1> DEFINE Again == {p \in Nat : \E i \in Nat : i < p /\ W[i] = W[p]}
<1>2. PICK p \in Again : \A q \in Again : p <= q
  <2>1. Again # {}
    <3> SUFFICES ASSUME Again = {} PROVE FALSE
      OBVIOUS
    <3> DEFINE c == Cardinality(V)
               g == [i \in 0..c |-> W[i]]
    <3>1. c \in Nat
      BY FS_CardinalityType
    <3>2. g \in [0..c -> V]
      BY <1>1
    <3>3. \A i, j \in 0..c : g[i] = g[j] => i = j
      <4> SUFFICES ASSUME NEW i \in 0..c, NEW j \in 0..c, W[i] = W[j], i # j PROVE FALSE
        OBVIOUS
      <4>1. i \in Nat /\ j \in Nat /\ (i < j \/ j < i)
        BY <3>1
      <4> QED
        BY <4>1
    <3>4. g \in Injection(0..c, V)
      BY <3>2, <3>3 DEF Injection, IsInjective
    <3>5. Cardinality(0..c) <= c
      BY <3>4, FS_Injection
    <3>6. Cardinality(0..c) = IF 0 > c THEN 0 ELSE c - 0 + 1
      BY <3>1, FS_Interval
    <3> HIDE DEF c
    <3> QED
      BY <3>1, <3>5, <3>6
  <2>2. PICK q \in Again : \A k \in Again : ~(<<k, q>> \in OpToRel(<, Nat))
    BY <2>1, NatLessThanWellFounded, WFMin
  <2>3. Again \subseteq Nat
    OBVIOUS
  <2> HIDE DEF Again
  <2>4. \A k \in Again : ~(k < q)
    BY <2>2, <2>3 DEF OpToRel
  <2>5. \A k \in Again : q <= k
    BY <2>3, <2>4
  <2> QED
    BY <2>5
<1>3. p \in Nat /\ p # 0
  BY <1>2
<1>4. \A i, j \in 0..p - 1 : W[i] = W[j] => i = j
  <2> SUFFICES ASSUME NEW i \in 0..p - 1, NEW j \in 0..p - 1, W[i] = W[j], i < j PROVE FALSE
    BY <1>3
  <2>1. j \in Again /\ ~(p <= j)
    BY <1>3
  <2> QED
    BY <1>2, <2>1
<1>5. W[p] = a
  <2>1. PICK i \in Nat : i < p /\ W[i] = W[p]
    BY <1>2
  <2>2. CASE i = 0
    BY <1>1, <2>1, <2>2
  <2>3. CASE i # 0
    <3>1. i - 1 \in Nat /\ p - 1 \in Nat /\ i - 1 < p - 1 /\ (i - 1) + 1 = i /\ (p - 1) + 1 = p
      BY <1>3, <2>1, <2>3
    <3>2. link[W[i - 1]] = link[W[p - 1]]
      BY <1>1, <2>1, <3>1
    <3>3. W[i - 1] = W[p - 1]
      BY <1>1, <3>1, <3>2
    <3>4. p - 1 \in Again /\ ~(p <= p - 1)
      BY <1>3, <3>1, <3>3
    <3> QED
      BY <1>2, <3>4
  <2> QED
    BY <2>2, <2>3
<1> HIDE DEF Again
<1> DEFINE s == [i \in 1..p |-> W[i - 1]]
<1>6. s \in Seq(V) /\ Len(s) = p /\ DOMAIN s = 1..p /\ \A i \in 1..p : s[i] = W[i - 1] /\ s[i] \in V
  <2>1. \A i \in 1..p : i - 1 \in Nat
    BY <1>3
  <2>2. s \in [1..p -> V]
    BY <1>1, <2>1
  <2> QED
    BY <1>3, <2>2
<1> HIDE DEF s
<1>7. \A i \in 1..p : link[s[i]] = s[After(i, p)]
  <2> SUFFICES ASSUME NEW i \in 1..p PROVE link[s[i]] = s[After(i, p)]
    OBVIOUS
  <2>1. i - 1 \in Nat /\ (i - 1) + 1 = i /\ link[s[i]] = W[i]
    <3>1. i - 1 \in Nat /\ (i - 1) + 1 = i
      BY <1>3
    <3>2. s[i] = W[i - 1] /\ W[(i - 1) + 1] = link[W[i - 1]]
      BY <1>1, <1>6, <3>1
    <3> QED
      BY <3>1, <3>2
  <2>2. CASE i = p
    <3>1. After(i, p) = 1 /\ 1 \in 1..p /\ 1 - 1 = 0
      BY <1>3, <2>2 DEF After
    <3>2. s[1] = W[0]
      BY <1>6, <3>1
    <3> QED
      BY <1>1, <1>5, <2>1, <2>2, <3>1, <3>2
  <2>3. CASE i # p
    <3>1. After(i, p) = i + 1 /\ i + 1 \in 1..p /\ (i + 1) - 1 = i
      BY <1>3, <2>3 DEF After
    <3>2. s[i + 1] = W[(i + 1) - 1]
      BY <1>6, <3>1
    <3> QED
      BY <2>1, <3>1, <3>2
  <2> QED
    BY <2>2, <2>3
<1>8. \A i, j \in 1..p : s[i] = s[j] => i = j
  <2> SUFFICES ASSUME NEW i \in 1..p, NEW j \in 1..p, s[i] = s[j] PROVE i = j
    OBVIOUS
  <2>1. i - 1 \in 0..p - 1 /\ j - 1 \in 0..p - 1
    BY <1>3
  <2>2. i - 1 = j - 1
    BY <1>4, <1>6, <2>1
  <2> QED
    BY <1>3, <2>2
<1>9. Range(s) = V
  <2> DEFINE S == {s[i] : i \in 1..p}
  <2>1. S \in SUBSET V
    BY <1>6
  <2>2. S # {}
    BY <1>3
  <2>3. \A v \in S : link[v] \in S
    <3> SUFFICES ASSUME NEW i \in 1..p PROVE link[s[i]] \in S
      OBVIOUS
    <3>1. After(i, p) \in 1..p
      BY <1>3, PlaceFacts
    <3> QED
      BY <1>7, <3>1
  <2>4. S = V
    <3> HIDE DEF S
    <3> QED
      BY <2>1, <2>2, <2>3
  <2> QED
    BY <1>6, <2>4 DEF Range
<1>10. s[1] = a /\ s # <<>>
  <2>1. 1 \in 1..p /\ 1 - 1 = 0
    BY <1>3
  <2>2. s[1] = W[1 - 1]
    BY <1>6, <2>1
  <2> QED
    BY <1>1, <1>3, <1>6, <2>1, <2>2, EmptySeq
<1>11. Tours(s, V, link, a)
  <2>1. IsInjective(s)
    BY <1>6, <1>8, TorusFacts
  <2> QED
    BY <1>6, <1>7, <1>9, <1>10, <2>1 DEF Tours, TorusOf
<1> QED
  BY <1>11, ToursUnique

\* The places of n - 1 members round the torus, when the i-th of n is taken out.
LEMMA TakeOut ==
  ASSUME NEW n \in Nat, NEW i \in 1..n, NEW j \in 1..n - 1
  PROVE  LET up(k) == IF k < i THEN k ELSE k + 1
         IN /\ up(j) \in 1..n /\ up(j) # i
            /\ up(After(j, n - 1)) =
                 IF up(j) = Before(i, n) THEN After(i, n) ELSE After(up(j), n)
BY DEF After, Before

\* A tour turned by one place is the tour from its new first member.
LEMMA ToursTurn ==
  ASSUME NEW V, NEW s, NEW link, NEW a, Tours(s, V, link, a)
  PROVE  /\ Tours(Append(Tail(s), Head(s)), V, link, link[a])
         /\ Tours(<<Last(s)>> \o Front(s), V, link, Last(s))
         /\ link[Last(s)] = a
<1> DEFINE n == Len(s)
           f == Append(Tail(s), Head(s))
           b == <<Last(s)>> \o Front(s)
<1>1. /\ s \in Seq(V) /\ n \in Nat \ {0} /\ s # <<>> /\ IsInjective(s) /\ Range(s) = V
      /\ s[1] = a /\ \A i \in 1..n : link[s[i]] = s[After(i, n)] /\ s[i] \in V
  BY ToursFacts DEF Tours, TorusOf
<1>2. Head(s) = s[1] /\ Last(s) = s[n]
  BY <1>1, EndFacts
<1>3. TorusOf(f, V, V) /\ TorusOf(b, V, V)
  BY <1>1, TurnTorus
<1>4. Len(f) = n /\ \A i \in 1..n : f[i] = s[After(i, n)]
  <2> DEFINE t == Tail(s)
  <2>1. t \in Seq(V) /\ Len(t) = n - 1 /\ \A i \in 1..n - 1 : t[i] = s[i + 1]
    BY <1>1, HeadTailProperties
  <2>2. /\ Len(f) = Len(t) + 1
        /\ \A i \in 1..Len(t) : f[i] = t[i]
        /\ f[Len(t) + 1] = s[1]
    <3>1. s[1] \in V /\ f = Append(t, s[1])
      BY <1>1, <1>2
    <3> HIDE DEF t, f
    <3> QED
      BY <2>1, <3>1, AppendProperties
  <2> HIDE DEF t, f
  <2>3. Len(f) = n /\ f[n] = s[1] /\ \A i \in 1..n - 1 : f[i] = s[i + 1]
    BY <1>1, <2>1, <2>2
  <2> QED
    BY <1>1, <2>3 DEF After
<1>5. Len(b) = n /\ \A i \in 1..n : b[i] = s[Before(i, n)]
  <2> DEFINE t == Front(s)
  <2>1. t \in Seq(V) /\ Len(t) = n - 1 /\ \A i \in 1..n - 1 : t[i] = s[i]
    <3>1. \A i \in 1..n - 1 : s[i] \in V
      BY <1>1
    <3>2. /\ t \in Seq(V) /\ Len(t) = IF 1 <= n - 1 THEN n - 1 - 1 + 1 ELSE 0
          /\ \A i \in 1..n - 1 - 1 + 1 : t[i] = s[1 + i - 1]
      BY <1>1, <3>1, SubSeqProperties DEF Front
    <3> HIDE DEF t, n
    <3>3. Len(t) = n - 1 /\ n - 1 - 1 + 1 = n - 1 /\ \A i \in 1..n - 1 : 1 + i - 1 = i
      BY <1>1, <3>2
    <3> QED
      BY <3>2, <3>3
  <2>2. /\ Len(b) = 1 + Len(t)
        /\ \A i \in 1..1 + Len(t) : b[i] = IF i <= 1 THEN s[n] ELSE t[i - 1]
    <3>1. <<s[n]>> \in Seq(V) /\ Len(<<s[n]>>) = 1 /\ <<s[n]>>[1] = s[n] /\ b = <<s[n]>> \o t
      BY <1>1, <1>2
    <3>2. /\ Len(b) = Len(<<s[n]>>) + Len(t)
          /\ \A i \in 1..Len(<<s[n]>>) + Len(t) :
               b[i] = IF i <= Len(<<s[n]>>) THEN <<s[n]>>[i] ELSE t[i - Len(<<s[n]>>)]
      <4> HIDE DEF t, b
      <4> QED
        BY <2>1, <3>1, ConcatProperties
    <3>3. \A i \in 1..1 + Len(t) : i <= 1 => i = 1
      BY <2>1
    <3> HIDE DEF t, b
    <3> QED
      BY <3>1, <3>2, <3>3
  <2> HIDE DEF t, b
  <2> QED
    BY <1>1, <2>1, <2>2 DEF Before
<1> HIDE DEF n, f, b
<1>6. f[1] = link[a]
  BY <1>1, <1>4
<1>7. b[1] = s[n] /\ link[s[n]] = a
  BY <1>1, <1>5 DEF Before, After
<1>8. \A i \in 1..n : link[f[i]] = f[After(i, n)]
  <2> SUFFICES ASSUME NEW i \in 1..n PROVE link[f[i]] = f[After(i, n)]
    OBVIOUS
  <2>1. After(i, n) \in 1..n
    BY <1>1, PlaceFacts
  <2>2. f[i] = s[After(i, n)] /\ f[After(i, n)] = s[After(After(i, n), n)]
    BY <1>4, <2>1
  <2> QED
    BY <1>1, <2>1, <2>2
<1>9. \A i \in 1..n : link[b[i]] = b[After(i, n)]
  <2> SUFFICES ASSUME NEW i \in 1..n PROVE link[b[i]] = b[After(i, n)]
    OBVIOUS
  <2>1. Before(i, n) \in 1..n /\ After(Before(i, n), n) = i
        /\ After(i, n) \in 1..n /\ Before(After(i, n), n) = i
    BY <1>1, PlaceFacts
  <2> QED
    BY <1>1, <1>5, <2>1
<1>10. f # <<>> /\ b # <<>>
  BY <1>1, <1>4, <1>5, <1>3, EmptySeq DEF TorusOf
<1> QED
  BY <1>2, <1>3, <1>4, <1>5, <1>6, <1>7, <1>8, <1>9, <1>10 DEF Tours, n, f, b

\* A member is taken out of the ring: the tour goes past it.
LEMMA ToursRemove ==
  ASSUME NEW V, NEW s, NEW link, NEW a, Tours(s, V, link, a),
         NEW i \in 1..Len(s), Len(s) # 1, NEW past,
         past[s[Before(i, Len(s))]] = link[s[i]],
         \A v \in V \ {s[i], s[Before(i, Len(s))]} : past[v] = link[v]
  PROVE  Tours(RemoveAt(s, i), V \ {s[i]}, past, IF s[i] = a THEN link[a] ELSE a)
<1> DEFINE n == Len(s)
           r == RemoveAt(s, i)
           up(k) == IF k < i THEN k ELSE k + 1
<1>1. /\ s \in Seq(V) /\ n \in Nat \ {0} /\ IsInjective(s) /\ Range(s) = V
      /\ s[1] = a /\ \A j \in 1..n : link[s[j]] = s[After(j, n)] /\ s[j] \in V
      /\ \A j, k \in 1..n : s[j] = s[k] => j = k
  BY ToursFacts DEF Tours, TorusOf
<1>2. /\ r \in Seq(V) /\ Len(r) = n - 1 /\ n - 1 \in Nat \ {0}
      /\ \A j \in 1..n - 1 : r[j] = s[up(j)]
      /\ TorusOf(r, V, V \ {s[i]})
  <2>1. /\ r \in Seq(V) /\ Len(r) = n - 1
        /\ \A j \in 1..n - 1 : r[j] = IF j < i THEN s[j] ELSE s[j + 1]
        /\ TorusOf(r, V, V \ {s[i]})
    <3>1. /\ r \in Seq(V) /\ Len(r) = n - 1
          /\ \A j \in 1..n - 1 : r[j] = IF j < i THEN s[j] ELSE s[j + 1]
          /\ IsInjective(s) => TorusOf(r, V, Range(s) \ {s[i]})
      <4>1. s \in Seq(V)
        BY <1>1
      <4> QED
        BY <4>1, RemoveAtTorus
    <3> HIDE DEF r, n
    <3> QED
      BY <1>1, <3>1
  <2>2. n - 1 \in Nat \ {0}
    BY <1>1
  <2> HIDE DEF r, n
  <2>3. \A j \in 1..n - 1 : r[j] = s[up(j)]
    BY <2>1
  <2> QED
    BY <2>1, <2>2, <2>3
<1> HIDE DEF r
<1>3. TorusOf(r, V \ {s[i]}, V \ {s[i]})
  BY <1>2, SeqOfRange DEF TorusOf
<1>4. \A j \in 1..n - 1 : past[r[j]] = r[After(j, n - 1)]
  <2> SUFFICES ASSUME NEW j \in 1..n - 1 PROVE past[r[j]] = r[After(j, n - 1)]
    OBVIOUS
  <2>1. /\ up(j) \in 1..n /\ up(j) # i
        /\ up(After(j, n - 1)) = IF up(j) = Before(i, n) THEN After(i, n) ELSE After(up(j), n)
    BY <1>1, TakeOut
  <2>2. After(j, n - 1) \in 1..n - 1 /\ Before(i, n) \in 1..n
    BY <1>1, <1>2, PlaceFacts
  <2> HIDE DEF up, n
  <2>3. r[j] = s[up(j)] /\ r[After(j, n - 1)] = s[up(After(j, n - 1))]
    BY <1>2, <2>2
  <2>4. CASE up(j) = Before(i, n)
    BY <1>1, <2>1, <2>3, <2>4 DEF n
  <2>5. CASE up(j) # Before(i, n)
    <3>1. s[up(j)] \in V \ {s[i], s[Before(i, n)]}
      BY <1>1, <2>1, <2>2, <2>5 DEF n
    <3> QED
      BY <1>1, <2>1, <2>3, <2>5, <3>1 DEF n
  <2> QED
    BY <2>4, <2>5
<1>5. r[1] = IF s[i] = a THEN link[a] ELSE a
  <2>1. 1 \in 1..n - 1 /\ 1 \in 1..n /\ r[1] = s[up(1)]
    <3>1. 1 \in 1..n - 1 /\ 1 \in 1..n
      <4> HIDE DEF n
      <4> QED
        BY <1>1, <1>2
    <3> QED
      BY <1>2, <3>1
  <2>2. CASE i = 1
    <3>1. up(1) = 2 /\ After(1, n) = 2
      BY <1>1, <1>2, <2>2 DEF After
    <3> QED
      BY <1>1, <2>1, <2>2, <3>1
  <2>3. CASE i # 1
    <3>1. up(1) = 1 /\ s[i] # a
      BY <1>1, <2>1, <2>3
    <3> QED
      BY <1>1, <2>1, <3>1
  <2> QED
    BY <2>2, <2>3
<1>6. r # <<>>
  BY <1>2, EmptySeq
<1> QED
  BY <1>2, <1>3, <1>4, <1>5, <1>6 DEF Tours, r

\* A sequence with one more element after the i-th.
LEMMA InsertAtFacts ==
  ASSUME NEW S, NEW s \in Seq(S), NEW i \in 1..Len(s), NEW t \in S
  PROVE  LET r == InsertAt(s, i + 1, t)
         IN /\ r \in Seq(S) /\ Len(r) = Len(s) + 1
            /\ \A j \in 1..Len(s) + 1 :
                 r[j] = IF j <= i THEN s[j] ELSE IF j = i + 1 THEN t ELSE s[j - 1]
<1> DEFINE n == Len(s)
           p == SubSeq(s, 1, i)
           q == SubSeq(s, i + 1, n)
           m == p \o <<t>>
           r == InsertAt(s, i + 1, t)
<1>0. n \in Nat /\ i \in Nat /\ 1 <= i /\ i <= n /\ \A k \in 1..n : s[k] \in S
  BY LenProperties
<1>1. r = m \o q
  <2>1. \A k : InsertAt(s, k, t) = (SubSeq(s, 1, k - 1) \o <<t>>) \o SubSeq(s, k, n)
    BY DEF InsertAt
  <2>2. (i + 1) - 1 = i
    BY <1>0
  <2> QED
    BY <2>1, <2>2
<1>2. p \in Seq(S) /\ Len(p) = i /\ \A j \in 1..i : p[j] = s[j]
  <2>1. \A k \in 1..i : s[k] \in S
    BY <1>0
  <2>2. /\ p \in Seq(S) /\ Len(p) = IF 1 <= i THEN i - 1 + 1 ELSE 0
        /\ \A j \in 1..i - 1 + 1 : p[j] = s[1 + j - 1]
    BY <1>0, <2>1, SubSeqProperties
  <2> HIDE DEF p
  <2>3. Len(p) = i /\ i - 1 + 1 = i /\ \A j \in 1..i : 1 + j - 1 = j
    BY <1>0, <2>2
  <2> QED
    BY <2>2, <2>3
<1>3. q \in Seq(S) /\ Len(q) = n - i /\ \A j \in 1..n - i : q[j] = s[i + j]
  <2>1. \A k \in i + 1..n : s[k] \in S
    BY <1>0
  <2>2. /\ q \in Seq(S) /\ Len(q) = IF i + 1 <= n THEN n - (i + 1) + 1 ELSE 0
        /\ \A j \in 1..n - (i + 1) + 1 : q[j] = s[(i + 1) + j - 1]
    BY <1>0, <2>1, SubSeqProperties
  <2> HIDE DEF q, n
  <2>3. Len(q) = n - i /\ n - (i + 1) + 1 = n - i /\ \A j \in 1..n - i : (i + 1) + j - 1 = i + j
    BY <1>0, <2>2
  <2> QED
    BY <2>2, <2>3
<1> HIDE DEF p, q
<1>4. /\ m \in Seq(S) /\ Len(m) = i + 1
      /\ \A j \in 1..i + 1 : m[j] = IF j <= i THEN s[j] ELSE t
  <2>1. <<t>> \in Seq(S) /\ Len(<<t>>) = 1 /\ <<t>>[1] = t
    OBVIOUS
  <2>2. /\ m \in Seq(S) /\ Len(m) = Len(p) + Len(<<t>>)
        /\ \A j \in 1..Len(p) + Len(<<t>>) : m[j] = IF j <= Len(p) THEN p[j] ELSE <<t>>[j - Len(p)]
    BY <1>2, <2>1, ConcatProperties
  <2> HIDE DEF m, n
  <2>3. \A j \in 1..i + 1 : (j <= i /\ j \in 1..i) \/ (~(j <= i) /\ j - i = 1)
    BY <1>0
  <2>4. /\ Len(m) = i + 1
        /\ \A j \in 1..i + 1 : m[j] = IF j <= i THEN p[j] ELSE <<t>>[j - i]
    BY <1>2, <2>1, <2>2
  <2> QED
    BY <1>2, <2>1, <2>2, <2>3, <2>4
<1> HIDE DEF m
<1>5. /\ r \in Seq(S) /\ Len(r) = Len(m) + Len(q)
      /\ \A j \in 1..Len(m) + Len(q) : r[j] = IF j <= Len(m) THEN m[j] ELSE q[j - Len(m)]
  <2> HIDE DEF r
  <2> QED
    BY <1>1, <1>3, <1>4, ConcatProperties
<1> HIDE DEF r, n
<1>6. Len(r) = n + 1 /\ Len(m) + Len(q) = n + 1
  BY <1>0, <1>3, <1>4, <1>5
<1>7. ASSUME NEW j \in 1..n + 1
      PROVE  r[j] = IF j <= i THEN s[j] ELSE IF j = i + 1 THEN t ELSE s[j - 1]
  <2>1. CASE j <= i + 1
    BY <1>0, <1>4, <1>5, <1>6, <2>1
  <2>2. CASE ~(j <= i + 1)
    <3>1. j - (i + 1) \in 1..n - i /\ i + (j - (i + 1)) = j - 1
      BY <1>0, <2>2
    <3>2. r[j] = q[j - (i + 1)]
      BY <1>4, <1>5, <1>6, <2>2
    <3> QED
      BY <1>0, <1>3, <2>2, <3>1, <3>2
  <2> QED
    BY <2>1, <2>2
<1> QED
  BY <1>5, <1>6, <1>7 DEF r, n

\* A new member is linked into the ring after the i-th.
LEMMA ToursInsert ==
  ASSUME NEW V, NEW s, NEW link, NEW a, Tours(s, V, link, a),
         NEW i \in 1..Len(s), NEW t, t \notin V, NEW with,
         with[t] = link[s[i]], with[s[i]] = t,
         \A v \in V \ {s[i]} : with[v] = link[v]
  PROVE  Tours(InsertAt(s, i + 1, t), V \cup {t}, with, a)
<1> DEFINE n == Len(s)
           T == V \cup {t}
           r == InsertAt(s, i + 1, t)
<1>1. /\ s \in Seq(V) /\ n \in Nat \ {0} /\ Range(s) = V /\ s[1] = a
      /\ \A j \in 1..n : link[s[j]] = s[After(j, n)] /\ s[j] \in V
      /\ \A j, k \in 1..n : s[j] = s[k] => j = k
      /\ \A v \in V : \E j \in 1..n : s[j] = v
  <2>1. Range(s) = V /\ s[1] = a /\ \A j \in 1..n : link[s[j]] = s[After(j, n)]
    BY DEF Tours, TorusOf
  <2>2. /\ s \in Seq(V) /\ n \in Nat \ {0}
        /\ \A j \in 1..n : s[j] \in V
        /\ \A v \in V : \E j \in 1..n : s[j] = v
        /\ \A j, k \in 1..n : s[j] = s[k] => j = k
    BY ToursFacts
  <2> QED
    BY <2>1, <2>2
<1>2. /\ r \in Seq(T) /\ Len(r) = n + 1
      /\ \A j \in 1..n + 1 :
           r[j] = IF j <= i THEN s[j] ELSE IF j = i + 1 THEN t ELSE s[j - 1]
  <2>1. s \in Seq(T) /\ t \in T
    <3>1. V \subseteq T
      OBVIOUS
    <3> QED
      BY <1>1, <3>1, SeqMonotonic
  <2> HIDE DEF T
  <2> QED
    BY <2>1, InsertAtFacts
<1> HIDE DEF r
<1>3. i \in Nat /\ n \in Nat /\ 1 <= i /\ i <= n
  BY <1>1
<1> HIDE DEF n
<1>4. \A j \in 1..n + 1 : j # i + 1 => \E k \in 1..n : r[j] = s[k] /\ k = IF j <= i THEN j ELSE j - 1
  BY <1>2, <1>3
<1>5. r[i + 1] = t /\ i + 1 \in 1..n + 1
  BY <1>2, <1>3
<1>6. IsInjective(r)
  <2> SUFFICES ASSUME NEW j \in 1..n + 1, NEW k \in 1..n + 1, r[j] = r[k] PROVE j = k
    BY <1>2, TorusFacts
  <2>1. CASE j = i + 1 \/ k = i + 1
    <3>1. ASSUME NEW l \in 1..n + 1, l # i + 1 PROVE r[l] \in V
      <4>1. PICK m \in 1..n : r[l] = s[m]
        BY <1>4, <3>1
      <4> QED
        BY <1>1, <4>1 DEF n
    <3> QED
      BY <1>5, <2>1, <3>1
  <2>2. CASE j # i + 1 /\ k # i + 1
    <3>1. (IF j <= i THEN j ELSE j - 1) = (IF k <= i THEN k ELSE k - 1)
      BY <1>1, <1>4, <2>2 DEF n
    <3> QED
      BY <1>3, <2>2, <3>1
  <2> QED
    BY <2>1, <2>2
<1>7. Range(r) = T
  <2>1. Range(r) \subseteq T
    BY <1>2, TorusFacts
  <2>2. \A k \in 1..n : \E j \in 1..n + 1 : r[j] = s[k]
    <3> SUFFICES ASSUME NEW k \in 1..n PROVE \E j \in 1..n + 1 : r[j] = s[k]
      OBVIOUS
    <3>1. CASE k <= i
      BY <1>2, <1>3, <3>1
    <3>2. CASE ~(k <= i)
      <4>1. k + 1 \in 1..n + 1 /\ ~(k + 1 <= i) /\ k + 1 # i + 1 /\ (k + 1) - 1 = k
        BY <1>3, <3>2
      <4> QED
        BY <1>2, <4>1
    <3> QED
      BY <3>1, <3>2
  <2>3. \A x \in T : \E j \in 1..n + 1 : r[j] = x
    <3> SUFFICES ASSUME NEW x \in T PROVE \E j \in 1..n + 1 : r[j] = x
      OBVIOUS
    <3>1. CASE x = t
      BY <1>5, <3>1
    <3>2. CASE x \in V
      <4>1. PICK k \in 1..n : s[k] = x
        BY <1>1, <3>2 DEF n
      <4> QED
        BY <2>2, <4>1
    <3> QED
      BY <3>1, <3>2
  <2>4. \A j \in 1..n + 1 : r[j] \in Range(r)
    BY <1>2, TorusFacts
  <2> QED
    BY <2>1, <2>3, <2>4
<1>8. ASSUME NEW j \in 1..n + 1 PROVE with[r[j]] = r[After(j, n + 1)]
  <2>1. CASE j = i + 1
    <3>1. r[After(j, n + 1)] = s[After(i, n)]
      BY <1>2, <1>3, <2>1 DEF After
    <3> QED
      BY <1>1, <1>3, <1>5, <2>1, <3>1 DEF n
  <2>2. CASE j = i
    <3>1. After(j, n + 1) = i + 1 /\ r[j] = s[i]
      BY <1>2, <1>3, <2>2 DEF After
    <3> QED
      BY <1>5, <3>1
  <2>3. CASE j < i
    <3>1. After(j, n + 1) = After(j, n) /\ After(j, n) = j + 1 /\ j + 1 \in 1..n + 1 /\ j + 1 <= i
          /\ j \in 1..n /\ j # i
      BY <1>3, <2>3 DEF After
    <3>2. r[j] = s[j] /\ r[j + 1] = s[j + 1]
      BY <1>2, <3>1
    <3>3. s[j] \in V \ {s[i]}
      BY <1>1, <3>1 DEF n
    <3>4. link[s[j]] = s[After(j, n)]
      BY <1>1, <3>1 DEF n
    <3> QED
      BY <3>1, <3>2, <3>3, <3>4
  <2>4. CASE j > i + 1
    <3>1. /\ j - 1 \in 1..n /\ j - 1 # i /\ After(j, n + 1) \in 1..n + 1
          /\ r[After(j, n + 1)] = s[After(j - 1, n)]
      BY <1>2, <1>3, <2>4 DEF After
    <3>2. r[j] = s[j - 1]
      BY <1>2, <1>3, <2>4
    <3>3. s[j - 1] \in V \ {s[i]}
      BY <1>1, <3>1 DEF n
    <3>4. link[s[j - 1]] = s[After(j - 1, n)]
      BY <1>1, <3>1 DEF n
    <3> QED
      BY <3>1, <3>2, <3>3, <3>4
  <2> QED
    BY <1>3, <2>1, <2>2, <2>3, <2>4
<1>9. r[1] = a /\ r # <<>>
  <2>1. 1 \in 1..n + 1 /\ 1 <= i
    BY <1>3
  <2>2. r[1] = s[1]
    BY <1>2, <2>1
  <2> QED
    BY <1>1, <1>2, <1>3, <2>2, EmptySeq
<1> QED
  BY <1>2, <1>6, <1>7, <1>8, <1>9 DEF Tours, TorusOf, r

\* One member is a torus, that following itself.
LEMMA ToursAlone ==
  ASSUME NEW t, NEW link, link[t] = t
  PROVE  Tours(<<t>>, {t}, link, t)
<1>1. <<t>> \in Seq({t}) /\ Len(<<t>>) = 1 /\ <<t>>[1] = t /\ <<t>> # <<>>
  OBVIOUS
<1>2. Range(<<t>>) = {t} /\ IsInjective(<<t>>)
  BY DEF Range, IsInjective
<1>3. \A i \in 1..1 : link[<<t>>[i]] = <<t>>[After(i, 1)]
  BY <1>1 DEF After
<1> QED
  BY <1>1, <1>2, <1>3 DEF Tours, TorusOf

\* The first member, and the last.
LEMMA OneMember ==
  /\ \A t : InsertAt(<<>>, 1, t) = <<t>>
  /\ \A S, s : s \in Seq(S) /\ Len(s) = 1 => RemoveAt(s, 1) = <<>>
<1>1. ASSUME NEW t PROVE InsertAt(<<>>, 1, t) = <<t>>
  <2>1. SubSeq(<<>>, 1, 0) = <<>> /\ 1 - 1 = 0 /\ Len(<<>>) = 0
    OBVIOUS
  <2>2. (<<>> \o <<t>>) \o <<>> = <<t>>
    OBVIOUS
  <2> QED
    BY <2>1, <2>2 DEF InsertAt
<1>2. ASSUME NEW S, NEW s \in Seq(S), Len(s) = 1 PROVE RemoveAt(s, 1) = <<>>
  <2>1. RemoveAt(s, 1) \in Seq(S) /\ Len(RemoveAt(s, 1)) = 0
    <3>1. 1 \in 1..Len(s) /\ Len(s) - 1 = 0
      BY <1>2
    <3>2. RemoveAt(s, 1) \in Seq(S) /\ Len(RemoveAt(s, 1)) = Len(s) - 1
      BY <3>1, RemoveAtTorus
    <3> QED
      BY <3>1, <3>2
  <2> QED
    BY <2>1, EmptySeq
<1> QED
  BY <1>1, <1>2
=============================================================================
