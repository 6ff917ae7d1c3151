---------------------------- MODULE SequenceLemmas -----------------------------
(***************************************************************************)
(* What the operators on sequences that the models use return: a set as a  *)
(* sequence and back, a sequence in which one element is replaced, and     *)
(* sequences put end to end; and induction over naturals.                  *)
(***************************************************************************)
EXTENDS
    Integers, SequencesExt, FiniteSetTheorems, SequenceTheorems, WellFoundedInduction, TLAPS

\* A finite set as a sequence.
LEMMA AsSequence ==
    ASSUME NEW S, IsFiniteSet(S)
    PROVE  /\ SetToSeq(S) \in Seq(S)
           /\ Len(SetToSeq(S)) = Cardinality(S)
           /\ \A i, j \in 1..Cardinality(S) : SetToSeq(S)[i] = SetToSeq(S)[j] => i = j
<1>1. Cardinality(S) \in Nat /\ ExistsBijection(1..Cardinality(S), S)
  BY FS_CardinalityType
<1>2. \E f \in [1..Cardinality(S) -> S] : IsInjective(f)
  <2>1. PICK f \in Bijection(1..Cardinality(S), S) : TRUE
    BY <1>1 DEF ExistsBijection
  <2>2. f \in [1..Cardinality(S) -> S] /\ IsInjective(f)
    BY <2>1 DEF Bijection, Injection, IsInjective
  <2>. QED
    BY <2>2
<1>3. SetToSeq(S) \in [1..Cardinality(S) -> S] /\ IsInjective(SetToSeq(S))
  BY <1>2 DEF SetToSeq
<1>4. SetToSeq(S) \in Seq(S) /\ Len(SetToSeq(S)) = Cardinality(S)
  BY <1>1, <1>3
<1>5. \A i, j \in 1..Cardinality(S) : SetToSeq(S)[i] = SetToSeq(S)[j] => i = j
  BY <1>3 DEF IsInjective
<1>. QED
  BY <1>1, <1>4, <1>5

\* All of it is there.
LEMMA AllInSequence ==
    ASSUME NEW S, IsFiniteSet(S)
    PROVE  /\ \A i \in DOMAIN SetToSeq(S) : SetToSeq(S)[i] \in S
           /\ \A x \in S : \E i \in DOMAIN SetToSeq(S) : SetToSeq(S)[i] = x
<1> DEFINE n == Cardinality(S)
           s == SetToSeq(S)
<1>1. /\ n \in Nat /\ s \in Seq(S) /\ Len(s) = n
      /\ \A i, j \in 1..n : s[i] = s[j] => i = j
  BY FS_CardinalityType, AsSequence
<1>. HIDE DEF n, s
<1>2. s \in [1..n -> S] /\ DOMAIN s = 1..n
  BY <1>1, LenProperties
<1>3. s \in Injection(1..n, S)
  BY <1>1, <1>2 DEF Injection, IsInjective
<1>4. IsFiniteSet(1..n) /\ Cardinality(1..n) = n
  BY <1>1, FS_Interval
<1>5. s \in Surjection(1..n, S)
  BY <1>3, <1>4, FS_Injection DEF n
<1>6. \A x \in S : \E i \in 1..n : s[i] = x
  BY <1>5 DEF Surjection
<1>. QED
  BY <1>2, <1>6 DEF s

\* Sequences of one and two.
LEMMA TwoInSequence ==
    ASSUME NEW a, NEW b
    PROVE  <<a>> \o <<b>> = <<a, b>> /\ <<>> \o <<b>> = <<b>>
<1>1. <<a>> \in Seq({a, b}) /\ <<b>> \in Seq({a, b}) /\ <<a, b>> \in Seq({a, b})
      /\ Len(<<a>>) = 1 /\ Len(<<b>>) = 1 /\ Len(<<a, b>>) = 2
  OBVIOUS
<1>2. /\ <<a>> \o <<b>> \in Seq({a, b}) /\ Len(<<a>> \o <<b>>) = 2
      /\ \A i \in 1..2 : (<<a>> \o <<b>>)[i] = IF i <= 1 THEN <<a>>[i] ELSE <<b>>[i - 1]
  BY <1>1, ConcatProperties
<1>3. \A i \in 1..2 : (<<a>> \o <<b>>)[i] = <<a, b>>[i]
  <2>1. \A i \in 1..2 : i = 1 \/ i = 2
    OBVIOUS
  <2>. QED
    BY <1>2, <2>1
<1>4. <<a>> \o <<b>> = <<a, b>>
  BY <1>1, <1>2, <1>3, SeqEqual
<1>. QED
  BY <1>1, <1>4, ConcatEmptySeq

\* What a sequence holds.
LEMMA OfSequence ==
    ASSUME NEW S, NEW s \in Seq(S)
    PROVE  IsFiniteSet(ToSet(s)) /\ ToSet(s) \subseteq S
           /\ (s # <<>> => Head(s) \in ToSet(s))
<1>1. s \in Surjection(1..Len(s), ToSet(s))
  BY DEF Surjection, ToSet
<1>2. IsFiniteSet(1..Len(s))
  BY FS_Interval
<1>3. IsFiniteSet(ToSet(s))
  BY <1>1, <1>2, FS_Surjection
<1>4. ToSet(s) \subseteq S
  BY DEF ToSet
<1>5. s # <<>> => Head(s) \in ToSet(s)
  BY DEF ToSet
<1>. QED
  BY <1>3, <1>4, <1>5

\* One element of a sequence is replaced.
LEMMA Replaced ==
    ASSUME NEW S, NEW seq \in Seq(S), NEW new, NEW i \in DOMAIN seq, NEW r \in S,
           new = [seq EXCEPT ![i] = r]
    PROVE  /\ new \in Seq(S) /\ DOMAIN new = DOMAIN seq
           /\ new[i] = r
           /\ \A j \in DOMAIN seq : j # i => new[j] = seq[j]
BY ExceptSeq, LenProperties

\* Sequences of one domain are of one length.
LEMMA SameInterval ==
    ASSUME NEW m \in Nat, NEW n \in Nat, 1..m = 1..n
    PROVE  m = n
<1>1. \A i \in Int : (1 <= i /\ i <= m) <=> (1 <= i /\ i <= n)
  <2>. TAKE i \in Int
  <2>1. i \in 1..m <=> i \in 1..n
    OBVIOUS
  <2>2. (i \in 1..m <=> 1 <= i /\ i <= m) /\ (i \in 1..n <=> 1 <= i /\ i <= n)
    OBVIOUS
  <2>. QED
    BY <2>1, <2>2
<1>2. (1 <= m => m <= n) /\ (1 <= n => n <= m)
  BY <1>1
<1>. QED
  BY <1>2

\* The same, if there is one.
LEMMA ReplacedIf ==
    ASSUME NEW S, NEW seq \in Seq(S), NEW new, NEW i, NEW r, i \in DOMAIN seq => r \in S,
           new = [seq EXCEPT ![i] = r]
    PROVE  /\ new \in Seq(S) /\ DOMAIN new = DOMAIN seq /\ Len(new) = Len(seq)
           /\ i \in DOMAIN seq => new[i] = r
           /\ \A j \in DOMAIN seq : j # i => new[j] = seq[j]
<1>1. CASE i \in DOMAIN seq
  BY <1>1, ExceptSeq, LenProperties
<1>2. CASE i \notin DOMAIN seq
  <2>1. DOMAIN new = DOMAIN seq /\ \A j \in DOMAIN seq : new[j] = seq[j]
    BY <1>2
  <2>2. seq \in [1..Len(seq) -> S] /\ DOMAIN seq = 1..Len(seq)
    BY LenProperties
  <2>3. new = seq
    BY <2>1, <2>2
  <2>. QED
    BY <1>2, <2>3
<1>. QED
  BY <1>1, <1>2

\* A set of numbers that has 0, and with a number its successor, has them all.
LEMMA NatSets ==
    ASSUME NEW T, T \subseteq Nat, 0 \in T, \A n \in T : n + 1 \in T
    PROVE  T = Nat
<1> DEFINE R == {p \in Nat \X Nat : p[1] < p[2]}
<1>1. IsWellFoundedOn(R, Nat)
  <2>1. R = OpToRel(<, Nat)
    BY DEF OpToRel
  <2>. QED
    BY <2>1, NatLessThanWellFounded
<1>2. SUFFICES ASSUME T # Nat PROVE FALSE
  OBVIOUS
<1>3. PICK x \in Nat \ T : \A y \in Nat \ T : ~(<<y, x>> \in R)
  <2>1. Nat \ T \subseteq Nat /\ Nat \ T # {}
    BY <1>2
  <2>. HIDE DEF R
  <2>. QED
    BY <1>1, <2>1, WFMin
<1>4. x # 0 /\ x - 1 \in Nat /\ x - 1 < x /\ (x - 1) + 1 = x
  BY <1>3
<1>5. x - 1 \in T
  BY <1>3, <1>4
<1>. QED
  BY <1>3, <1>4, <1>5

-------------------------------------------------------------------------------
(* Sequences put end to end.                                                 *)

\* cat[i] is the first i sequences of seqs, one after the other.
Cats(cat, seqs) ==
    /\ cat[0] = <<>>
    /\ \A i \in 1..Len(seqs) : cat[i] = cat[i - 1] \o seqs[i]

LEMMA CatsExist ==
    ASSUME NEW S, NEW seqs \in Seq(Seq(S))
    PROVE  \E cat \in [0..Len(seqs) -> Seq(S)] : Cats(cat, seqs)
<1> DEFINE n == Len(seqs)
           Q == Seq(S)
           Upto(f, d) == f[0] = <<>> /\ \A i \in 1..d : f[i] = f[i - 1] \o seqs[i]
           T == {d \in Nat : d <= n => \E f \in [0..d -> Q] : Upto(f, d)}
<1>0. n \in Nat /\ \A i \in 1..n : seqs[i] \in Q
  BY LenProperties, ElementOfSeq
<1>1. 0 \in T
  <2> DEFINE g == [i \in 0..0 |-> <<>>]
  <2>1. g \in [0..0 -> Q] /\ g[0] = <<>>
    OBVIOUS
  <2>2. \A i \in 1..0 : FALSE
    OBVIOUS
  <2>. HIDE DEF g
  <2>. QED
    BY <2>1, <2>2
<1>2. ASSUME NEW d \in T
      PROVE  d + 1 \in T
  <2>. SUFFICES ASSUME d + 1 <= n PROVE \E f \in [0..d + 1 -> Q] : Upto(f, d + 1)
    <3>1. d \in Nat /\ d + 1 \in Nat
      OBVIOUS
    <3>. HIDE DEF Upto, Q, n
    <3>. QED
      BY <3>1
  <2>0. d \in Nat /\ d <= n /\ d + 1 \in 1..n /\ d \in 0..d
    BY <1>0
  <2>1. PICK f \in [0..d -> Q] : Upto(f, d)
    BY <2>0
  <2> DEFINE g == [i \in 0..d + 1 |-> IF i = d + 1 THEN f[d] \o seqs[d + 1] ELSE f[i]]
  <2>2. g \in [0..d + 1 -> Q]
    <3>1. f[d] \in Q /\ seqs[d + 1] \in Q
      BY <1>0, <2>0
    <3>2. f[d] \o seqs[d + 1] \in Q
      BY <3>1, ConcatProperties
    <3>3. \A i \in 0..d + 1 : i # d + 1 => f[i] \in Q
      BY <2>0
    <3>. HIDE DEF Q
    <3>. QED
      BY <3>2, <3>3
  <2>3. g[0] = <<>>
    BY <2>0, <2>1
  <2>4. \A i \in 1..d + 1 : g[i] = g[i - 1] \o seqs[i]
    <3>. TAKE i \in 1..d + 1
    <3>1. CASE i = d + 1
      <4>1. i - 1 = d /\ d \in 0..d + 1 /\ d # d + 1 /\ i \in 0..d + 1
        BY <2>0, <3>1
      <4>. QED
        BY <3>1, <4>1
    <3>2. CASE i # d + 1
      <4>1. i \in 1..d /\ i \in 0..d + 1 /\ i - 1 \in 0..d + 1 /\ i - 1 # d + 1
        BY <2>0, <3>2
      <4>. QED
        BY <2>1, <3>2, <4>1
    <3>. QED
      BY <3>1, <3>2
  <2>. HIDE DEF g, Q
  <2>. QED
    BY <2>2, <2>3, <2>4
<1>3. T = Nat
  <2>. HIDE DEF T
  <2>1. T \subseteq Nat
    BY DEF T
  <2>. QED
    BY <1>1, <1>2, <2>1, NatSets
<1>4. n \in T /\ n <= n
  <2>. HIDE DEF T
  <2>. QED
    BY <1>0, <1>3
<1>5. \E f \in [0..n -> Q] : Upto(f, n)
  <2>. HIDE DEF n, Upto, Q
  <2>. QED
    BY <1>4
<1>. QED
  BY <1>5 DEF Cats

\* FlattenSeq is what comes of it.
LEMMA FlattenIs ==
    ASSUME NEW S, NEW seqs \in Seq(Seq(S)),
           NEW cat \in [0..Len(seqs) -> Seq(S)], Cats(cat, seqs)
    PROVE  FlattenSeq(seqs) = cat[Len(seqs)]
<1> DEFINE n == Len(seqs)
           Is(f) == f = [i \in 1..n |-> IF i = 1 THEN seqs[i] ELSE f[i - 1] \o seqs[i]]
           c == [i \in 1..n |-> cat[i]]
<1>0. n \in Nat /\ \A i \in 1..n : seqs[i] \in Seq(S)
  BY LenProperties, ElementOfSeq
<1>1. CASE n = 0
  <2>1. seqs = <<>>
    BY <1>1, EmptySeq
  <2>. QED
    BY <1>1, <2>1 DEF FlattenSeq, Cats
<1>2. CASE n # 0
  <2>0. \A i \in 1..n : i = 1 \/ i - 1 \in 1..n
    BY <1>0
  <2>1. \A i \in 1..n : c[i] = IF i = 1 THEN seqs[i] ELSE c[i - 1] \o seqs[i]
    <3>. TAKE i \in 1..n
    <3>1. CASE i = 1
      <4>0. i - 1 = 0
        BY <3>1
      <4>1. cat[i] = cat[i - 1] \o seqs[i] /\ cat[0] = <<>> /\ i - 1 = 0
        BY <4>0 DEF Cats
      <4>2. cat[i] = seqs[i]
        BY <1>0, <4>1, ConcatEmptySeq
      <4>. QED
        BY <3>1, <4>2
    <3>2. CASE i # 1
      BY <2>0, <3>2 DEF Cats
    <3>. QED
      BY <3>1, <3>2
  <2>2. Is(c)
    <3>1. c = [i \in 1..n |-> c[i]]
      OBVIOUS
    <3>. HIDE DEF c
    <3>. QED
      BY <2>1, <3>1, ZenonT(60)
  <2> DEFINE flatten == CHOOSE f : Is(f)
  <2>3. Is(flatten)
    <3>. HIDE DEF Is, c
    <3>. QED
      BY <2>2
  <2>4. FlattenSeq(seqs) = flatten[n]
    BY <1>2 DEF FlattenSeq
  <2>. HIDE DEF flatten
  <2>5. \A i \in 1..n : flatten[i] = IF i = 1 THEN seqs[i] ELSE flatten[i - 1] \o seqs[i]
    BY <2>3
  <2> DEFINE T == {i \in Nat : i \in 1..n => flatten[i] = cat[i]}
  <2>6. 0 \in T
    OBVIOUS
  <2>7. ASSUME NEW i \in T
        PROVE  i + 1 \in T
    <3>. SUFFICES ASSUME i + 1 \in 1..n PROVE flatten[i + 1] = cat[i + 1]
      OBVIOUS
    <3>0. (i + 1) - 1 = i /\ (i + 1 = 1 <=> i = 0) /\ i \in Nat
      OBVIOUS
    <3>1. /\ c[i + 1] = cat[i + 1]
          /\ flatten[i + 1] = IF i + 1 = 1 THEN seqs[i + 1] ELSE flatten[i] \o seqs[i + 1]
      BY <2>5, <3>0
    <3>2. cat[i + 1] = IF i + 1 = 1 THEN seqs[i + 1] ELSE c[i] \o seqs[i + 1]
      BY <2>1, <3>0, <3>1
    <3>3. CASE i = 0
      BY <3>0, <3>1, <3>2, <3>3
    <3>4. CASE i # 0
      <4>1. i \in 1..n
        BY <1>0, <3>0, <3>4
      <4>2. flatten[i] = cat[i] /\ c[i] = cat[i]
        BY <4>1
      <4>. QED
        BY <3>0, <3>1, <3>2, <3>4, <4>2
    <3>. QED
      BY <3>3, <3>4
  <2>8. T = Nat
    <3>. HIDE DEF T
    <3>1. T \subseteq Nat
      BY DEF T
    <3>. QED
      BY <2>6, <2>7, <3>1, NatSets
  <2>9. n \in T /\ n \in 1..n
    <3>. HIDE DEF T
    <3>. QED
      BY <1>0, <1>2, <2>8
  <2>. QED
    BY <2>4, <2>9
<1>. QED
  BY <1>1, <1>2

\* It is a sequence; one more at the end, or at the front, is one more there.
LEMMA Flattened ==
    ASSUME NEW S, NEW seqs \in Seq(Seq(S)), NEW s \in Seq(S)
    PROVE  /\ FlattenSeq(<<>>) = <<>>
           /\ FlattenSeq(seqs) \in Seq(S)
           /\ FlattenSeq(Append(seqs, s)) = FlattenSeq(seqs) \o s
           /\ FlattenSeq(<<s>> \o seqs) = s \o FlattenSeq(seqs)
<1> DEFINE n == Len(seqs)
<1>0. n \in Nat /\ n \in 0..n /\ 0 \in 0..n /\ \A i \in 1..n : seqs[i] \in Seq(S)
  BY LenProperties, ElementOfSeq
<1>1. PICK cat \in [0..n -> Seq(S)] : Cats(cat, seqs)
  BY CatsExist
<1>2. FlattenSeq(seqs) = cat[n] /\ cat[n] \in Seq(S) /\ cat[0] = <<>>
      /\ \A i \in 1..n : cat[i] = cat[i - 1] \o seqs[i]
  BY <1>0, <1>1, FlattenIs DEF Cats
<1>3. \A i \in 0..n : cat[i] \o s \in Seq(S) /\ s \o cat[i] \in Seq(S)
  <2>. TAKE i \in 0..n
  <2>1. cat[i] \in Seq(S)
    OBVIOUS
  <2>. QED
    BY <2>1, ConcatProperties
<1>7. \A a, b \in Seq(S) : s \o (a \o b) = (s \o a) \o b
  BY ConcatAssociative
<1>4. FlattenSeq(Append(seqs, s)) = FlattenSeq(seqs) \o s
  <2> DEFINE more == Append(seqs, s)
             c == [i \in 0..n + 1 |-> IF i = n + 1 THEN cat[n] \o s ELSE cat[i]]
  <2>1. /\ more \in Seq(Seq(S)) /\ Len(more) = n + 1 /\ more[n + 1] = s
        /\ \A i \in 1..n : more[i] = seqs[i]
    BY AppendProperties
  <2>2. c \in [0..n + 1 -> Seq(S)]
    <3>1. \A i \in 0..n + 1 : i = n + 1 \/ i \in 0..n
      BY <1>0
    <3>. QED
      BY <1>0, <1>3, <3>1
  <2>3. /\ c[0] = <<>> /\ c[n + 1] = cat[n] \o s
        /\ \A i \in 0..n : c[i] = cat[i]
    BY <1>0, <1>2
  <2>. HIDE DEF more, c, n
  <2>4. \A i \in 1..n + 1 : c[i] = c[i - 1] \o more[i]
    <3>. TAKE i \in 1..n + 1
    <3>1. CASE i = n + 1
      <4>1. i - 1 = n
        BY <1>0, <3>1
      <4>. QED
        BY <1>0, <2>1, <2>3, <3>1, <4>1
    <3>2. CASE i # n + 1
      <4>1. i \in 1..n /\ i \in 0..n /\ i - 1 \in 0..n
        BY <1>0, <3>2
      <4>. QED
        BY <1>2, <2>1, <2>3, <4>1
    <3>. QED
      BY <3>1, <3>2
  <2>5. FlattenSeq(more) = c[Len(more)]
    <3>1. Cats(c, more) /\ c \in [0..Len(more) -> Seq(S)]
      BY <2>1, <2>2, <2>3, <2>4 DEF Cats
    <3>. QED
      BY <2>1, <3>1, FlattenIs
  <2>. QED
    BY <1>2, <2>1, <2>3, <2>5 DEF more, n
<1>5. FlattenSeq(<<s>> \o seqs) = s \o FlattenSeq(seqs)
  <2> DEFINE more == <<s>> \o seqs
             c == [i \in 0..n + 1 |-> IF i = 0 THEN <<>> ELSE s \o cat[i - 1]]
  <2>1. /\ more \in Seq(Seq(S)) /\ Len(more) = n + 1 /\ more[1] = s
        /\ \A i \in 1..n : more[i + 1] = seqs[i]
    <3>1. <<s>> \in Seq(Seq(S)) /\ Len(<<s>>) = 1 /\ <<s>>[1] = s
      OBVIOUS
    <3>2. /\ more \in Seq(Seq(S)) /\ Len(more) = 1 + n
          /\ \A i \in 1..1 + n : more[i] = IF i <= 1 THEN <<s>>[i] ELSE seqs[i - 1]
      BY <3>1, ConcatProperties
    <3>3. \A i \in 1..n : i + 1 \in 1..1 + n /\ ~(i + 1 <= 1) /\ (i + 1) - 1 = i
      BY <1>0
    <3>4. 1 \in 1..1 + n /\ 1 <= 1 /\ 1 + n = n + 1
      BY <1>0
    <3>. HIDE DEF more, n
    <3>. QED
      BY <3>1, <3>2, <3>3, <3>4
  <2>2. c \in [0..n + 1 -> Seq(S)]
    <3>1. \A i \in 0..n + 1 : i = 0 \/ i - 1 \in 0..n
      BY <1>0
    <3>2. <<>> \in Seq(S)
      OBVIOUS
    <3>. QED
      BY <1>0, <1>3, <3>1, <3>2
  <2>3. /\ c[0] = <<>>
        /\ \A i \in 0..n : c[i + 1] = s \o cat[i]
    <3>1. \A i \in 0..n : i + 1 \in 0..n + 1 /\ i + 1 # 0 /\ (i + 1) - 1 = i
      BY <1>0
    <3>. QED
      BY <1>0, <3>1
  <2>. HIDE DEF more, c, n
  <2>4. \A i \in 1..n + 1 : c[i] = c[i - 1] \o more[i]
    <3>. TAKE i \in 1..n + 1
    <3>1. CASE i = 1
      <4>1. i = 0 + 1 /\ i - 1 = 0 /\ s \o <<>> = s /\ <<>> \o s = s
        BY <3>1, ConcatEmptySeq
      <4>2. c[i] = s \o cat[0]
        BY <1>0, <2>3, <4>1
      <4>. QED
        BY <1>2, <2>1, <2>3, <3>1, <4>1, <4>2
    <3>2. CASE i # 1
      <4>1. PICK k \in 1..n : i = k + 1 /\ i - 1 = (k - 1) + 1 /\ k \in 0..n /\ k - 1 \in 0..n
        BY <1>0, <3>2
      <4>2. /\ c[i] = s \o cat[k] /\ c[i - 1] = s \o cat[k - 1] /\ more[i] = seqs[k]
            /\ cat[k] = cat[k - 1] \o seqs[k]
        BY <1>2, <2>1, <2>3, <4>1
      <4>3. cat[k - 1] \in Seq(S) /\ seqs[k] \in Seq(S)
        BY <1>0, <4>1
      <4>4. s \o (cat[k - 1] \o seqs[k]) = (s \o cat[k - 1]) \o seqs[k]
        BY <1>7, <4>3
      <4>. QED
        BY <4>2, <4>4
    <3>. QED
      BY <3>1, <3>2
  <2>5. FlattenSeq(more) = c[Len(more)]
    <3>1. Cats(c, more) /\ c \in [0..Len(more) -> Seq(S)]
      BY <2>1, <2>2, <2>3, <2>4 DEF Cats
    <3>. QED
      BY <2>1, <3>1, FlattenIs
  <2>. QED
    BY <1>0, <1>2, <2>1, <2>3, <2>5 DEF more, n
<1>6. FlattenSeq(<<>>) = <<>>
  BY DEF FlattenSeq
<1>. QED
  BY <1>2, <1>4, <1>5, <1>6

\* A sequence is its head before its tail.
LEMMA HeadTail ==
    ASSUME NEW S, NEW seq \in Seq(S), seq # <<>>
    PROVE  Head(seq) \in S /\ Tail(seq) \in Seq(S) /\ seq = <<Head(seq)>> \o Tail(seq)
<1>1. Len(seq) \in Nat \ {0} /\ Head(seq) = seq[1]
  BY EmptySeq
<1>2. 1 \in 1..Len(seq) /\ Len(seq) \in 1..Len(seq) /\ 1 + 1 = 2
  BY <1>1
<1>3. SubSeq(seq, 1, Len(seq)) = <<seq[1]>> \o SubSeq(seq, 2, Len(seq))
  BY <1>2, SubSeqRecursiveFirst
<1>4. SubSeq(seq, 1, Len(seq)) = seq /\ Tail(seq) = SubSeq(seq, 2, Len(seq))
  BY SubSeqFull, TailIsSubSeq
<1>. QED
  BY <1>1, <1>3, <1>4, HeadTailProperties

\* A sequence of at most one element, if it has one.
LEMMA Single ==
    ASSUME NEW S, NEW seq \in Seq(S), seq # <<>>, Len(seq) <= 1
    PROVE  seq[1] \in S /\ seq = <<seq[1]>>
<1>1. Len(seq) \in Nat \ {0}
  BY EmptySeq
<1>2. Len(seq) = 1
  BY <1>1
<1>3. seq[1] \in S
  BY <1>2, ElementOfSeq
<1>4. <<seq[1]>> \in Seq(S) /\ Len(<<seq[1]>>) = 1 /\ \A i \in 1..1 : seq[i] = <<seq[1]>>[i]
  BY <1>3
<1>. QED
  BY <1>2, <1>3, <1>4, SeqEqual
===============================================================================
