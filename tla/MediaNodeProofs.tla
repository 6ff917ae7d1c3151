--------------------------- MODULE MediaNodeProofs ---------------------------
(***************************************************************************)
(* The choice of a media node, for reports of any length.                  *)
(***************************************************************************)
EXTENDS MediaNodeProperties, SequenceLemmas

-------------------------------------------------------------------------------
(* The entries of a node, one after another.                                 *)

\* How many of the first k entries are of this node.
count(rtts, k, node) == Cardinality({j \in 1..k : rtts[j].node = node})

LEMMA Counting ==
    ASSUME NEW rtts \in Seq(Entry), NEW node
    PROVE  /\ count(rtts, 0, node) = 0
           /\ \A k \in 0..Len(rtts) : count(rtts, k, node) \in Nat
           /\ \A k \in 1..Len(rtts) :
                  count(rtts, k, node) = IF rtts[k].node = node
                                           THEN count(rtts, k - 1, node) + 1
                                           ELSE count(rtts, k - 1, node)
<1> DEFINE S(k) == {j \in 1..k : rtts[j].node = node}
<1>1. ASSUME NEW k \in Nat
      PROVE  IsFiniteSet(S(k))
  <2>1. IsFiniteSet(1..k) /\ S(k) \in SUBSET (1..k)
    BY FS_Interval
  <2>. QED
    BY <2>1, FS_Subset
<1>2. S(0) = {}
  OBVIOUS
<1>3. ASSUME NEW k \in 1..Len(rtts)
      PROVE  /\ k - 1 \in Nat /\ k \notin S(k - 1)
             /\ S(k) = IF rtts[k].node = node THEN S(k - 1) \cup {k} ELSE S(k - 1)
  <2>1. k \in Nat /\ k - 1 \in Nat /\ \A j : j \in 1..k <=> j \in 1..(k - 1) \/ j = k
    BY LenProperties
  <2>. QED
    BY <2>1
<1>. HIDE DEF S
<1>4. count(rtts, 0, node) = 0
  BY <1>2, FS_EmptySet DEF count, S
<1>5. \A k \in 0..Len(rtts) : count(rtts, k, node) \in Nat
  <2>. TAKE k \in 0..Len(rtts)
  <2>1. k \in Nat
    BY LenProperties
  <2>. QED
    BY <1>1, <2>1, FS_CardinalityType DEF count, S
<1>6. ASSUME NEW k \in 1..Len(rtts)
      PROVE  count(rtts, k, node) = IF rtts[k].node = node
                                      THEN count(rtts, k - 1, node) + 1
                                      ELSE count(rtts, k - 1, node)
  <2>1. /\ Cardinality(S(k - 1) \cup {k}) = Cardinality(S(k - 1)) + 1
    BY <1>1, <1>3, FS_AddElement
  <2>2. count(rtts, k, node) = Cardinality(S(k))
        /\ count(rtts, k - 1, node) = Cardinality(S(k - 1))
    BY DEF count, S
  <2>. QED
    BY <1>3, <2>1, <2>2
<1>. QED
  BY <1>4, <1>5, <1>6

\* The count never falls.
LEMMA Rising ==
    ASSUME NEW rtts \in Seq(Entry), NEW node, NEW k \in 0..Len(rtts), NEW l \in 0..Len(rtts),
           k <= l
    PROVE  count(rtts, k, node) <= count(rtts, l, node)
<1> DEFINE T == {n \in Nat : k + n \in 0..Len(rtts) =>
                                 count(rtts, k, node) <= count(rtts, k + n, node)}
<1>0. Len(rtts) \in Nat
  BY LenProperties
<1>1. 0 \in T
  <2>1. k + 0 = k
    BY <1>0
  <2>2. count(rtts, k, node) \in Nat
    BY Counting
  <2>. QED
    BY <2>1, <2>2
<1>2. ASSUME NEW n \in T
      PROVE  n + 1 \in T
  <2>. SUFFICES ASSUME k + (n + 1) \in 0..Len(rtts)
                PROVE  count(rtts, k, node) <= count(rtts, k + (n + 1), node)
    OBVIOUS
  <2>1. PICK i \in 1..Len(rtts) : i = k + (n + 1) /\ i - 1 = k + n /\ i - 1 \in 0..Len(rtts)
    BY <1>0
  <2>2. count(rtts, k, node) <= count(rtts, i - 1, node)
    BY <2>1
  <2>3. /\ count(rtts, k, node) \in Nat /\ count(rtts, i - 1, node) \in Nat
        /\ count(rtts, i, node) \in Nat /\ i \in 0..Len(rtts)
    BY <1>0, <2>1, Counting
  <2>4. count(rtts, i, node) = IF rtts[i].node = node THEN count(rtts, i - 1, node) + 1
                                                      ELSE count(rtts, i - 1, node)
    BY Counting
  <2>. QED
    BY <2>1, <2>2, <2>3, <2>4
<1>3. T = Nat
  <2>. HIDE DEF T
  <2>1. T \subseteq Nat
    BY DEF T
  <2>. QED
    BY <1>1, <1>2, <2>1, NatSets
<1>4. l - k \in Nat /\ k + (l - k) = l
  BY <1>0
<1>. QED
  BY <1>3, <1>4

\* Every rank up to the last is that of an entry.
LEMMA Reaches ==
    ASSUME NEW rtts \in Seq(Entry), NEW node, NEW k \in 0..Len(rtts),
           NEW m \in 1..count(rtts, k, node)
    PROVE  \E j \in 1..k : rtts[j].node = node /\ rank(rtts, j) = m
<1> DEFINE T == {n \in Nat : n \in 0..Len(rtts) /\ m <= count(rtts, n, node) =>
                     \E j \in 1..n : rtts[j].node = node /\ count(rtts, j, node) = m}
<1>0. Len(rtts) \in Nat /\ m \in Nat /\ m >= 1
  BY LenProperties, Counting
<1>1. 0 \in T
  BY <1>0, Counting
<1>2. ASSUME NEW n \in T
      PROVE  n + 1 \in T
  <2>. SUFFICES ASSUME n + 1 \in 0..Len(rtts), m <= count(rtts, n + 1, node)
                PROVE  \E j \in 1..n + 1 : rtts[j].node = node /\ count(rtts, j, node) = m
    OBVIOUS
  <2>1. PICK i \in 1..Len(rtts) :
            i = n + 1 /\ i - 1 = n /\ n \in 0..Len(rtts) /\ i \in 0..Len(rtts) /\ i \in 1..n + 1
    BY <1>0
  <2>2. count(rtts, n, node) \in Nat /\ count(rtts, i, node) \in Nat
    BY <2>1, Counting
  <2>3. count(rtts, i, node) = IF rtts[i].node = node THEN count(rtts, n, node) + 1
                                                      ELSE count(rtts, n, node)
    BY <2>1, Counting, ZenonT(60)
  <2>4. CASE m <= count(rtts, n, node)
    <3>1. PICK j \in 1..n : rtts[j].node = node /\ count(rtts, j, node) = m
      BY <2>1, <2>4
    <3>2. j \in 1..n + 1
      OBVIOUS
    <3>. QED
      BY <3>1, <3>2
  <2>5. CASE ~(m <= count(rtts, n, node))
    <3>1. rtts[i].node = node /\ count(rtts, i, node) = m
      BY <1>0, <2>1, <2>2, <2>3, <2>5
    <3>. QED
      BY <2>1, <3>1
  <2>. QED
    BY <2>4, <2>5
<1>3. T = Nat
  <2>. HIDE DEF T
  <2>1. T \subseteq Nat
    BY DEF T
  <2>. QED
    BY <1>1, <1>2, <2>1, NatSets
<1>4. k \in Nat /\ m <= count(rtts, k, node)
  BY <1>0, Counting
<1>5. PICK j \in 1..k : rtts[j].node = node /\ count(rtts, j, node) = m
  BY <1>3, <1>4
<1>. QED
  BY <1>5 DEF rank, count

\* The entries of a node have ranks of their own, in their order.
LEMMA Ranks ==
    ASSUME NEW rtts \in Seq(Entry)
    PROVE  /\ \A j \in DOMAIN rtts : rank(rtts, j) \in Nat \ {0}
           /\ \A j \in DOMAIN rtts : rank(rtts, j) = count(rtts, j, rtts[j].node)
           /\ \A i, j \in DOMAIN rtts :
                  rtts[i].node = rtts[j].node /\ rank(rtts, i) = rank(rtts, j) => i = j
<1>0. Len(rtts) \in Nat /\ DOMAIN rtts = 1..Len(rtts)
  BY LenProperties
<1>1. \A j \in DOMAIN rtts : rank(rtts, j) = count(rtts, j, rtts[j].node)
  BY DEF rank, count
<1>2. ASSUME NEW j \in DOMAIN rtts
      PROVE  /\ count(rtts, j, rtts[j].node) = count(rtts, j - 1, rtts[j].node) + 1
             /\ count(rtts, j - 1, rtts[j].node) \in Nat
             /\ j \in 0..Len(rtts) /\ j - 1 \in 0..Len(rtts) /\ j \in 1..Len(rtts)
  <2>1. j \in 0..Len(rtts) /\ j - 1 \in 0..Len(rtts) /\ j \in 1..Len(rtts)
    BY <1>0
  <2>. QED
    BY <2>1, Counting
<1>3. ASSUME NEW i \in DOMAIN rtts, NEW j \in DOMAIN rtts, rtts[i].node = rtts[j].node, i < j
      PROVE  rank(rtts, i) # rank(rtts, j)
  <2> DEFINE node == rtts[j].node
  <2>1. i <= j - 1 /\ i \in 0..Len(rtts) /\ j - 1 \in 0..Len(rtts)
    BY <1>0, <1>2, <1>3
  <2>2. count(rtts, i, node) <= count(rtts, j - 1, node) /\ count(rtts, i, node) \in Nat
    BY <2>1, Rising, Counting
  <2>3. count(rtts, j, node) = count(rtts, j - 1, node) + 1 /\ count(rtts, j - 1, node) \in Nat
    BY <1>2
  <2>4. rank(rtts, i) = count(rtts, i, node) /\ rank(rtts, j) = count(rtts, j, node)
    BY <1>1, <1>3
  <2>. HIDE DEF node
  <2>. QED
    BY <2>2, <2>3, <2>4
<1>4. ASSUME NEW j \in DOMAIN rtts
      PROVE  rank(rtts, j) \in Nat \ {0}
  BY <1>1, <1>2
<1>5. \A i, j \in DOMAIN rtts : i = j \/ i < j \/ j < i
  BY <1>0
<1>. QED
  BY <1>1, <1>3, <1>4, <1>5
-------------------------------------------------------------------------------
(* The loop.                                                                 *)

LEMMA Least ==
    ASSUME NEW S \in SUBSET Nat, S # {}
    PROVE  least(S) \in S /\ \A y \in S : least(S) <= y
<1> DEFINE R == {p \in Nat \X Nat : p[1] < p[2]}
<1>1. IsWellFoundedOn(R, Nat)
  <2>1. R = OpToRel(<, Nat)
    BY DEF OpToRel
  <2>. QED
    BY <2>1, NatLessThanWellFounded
<1>2. PICK x \in S : \A y \in S : ~(<<y, x>> \in R)
  <2>. HIDE DEF R
  <2>. QED
    BY <1>1, WFMin
<1>3. \A y \in S : x <= y
  <2>. TAKE y \in S
  <2>1. x \in Nat /\ y \in Nat /\ ~(y < x)
    BY <1>2
  <2>. QED
    BY <2>1
<1>. QED
  BY <1>3 DEF least

LEMMA Removed ==
    ASSUME NEW S, NEW s \in Seq(S), NEW i \in 1..Len(s)
    PROVE  /\ RemoveAt(s, i) \in Seq(S) /\ Len(RemoveAt(s, i)) = Len(s) - 1
           /\ \A j \in 1..Len(s) - 1 : RemoveAt(s, i)[j] = IF j < i THEN s[j] ELSE s[j + 1]
<1>1. Len(s) \in Nat /\ i \in Nat /\ \A j \in 1..Len(s) : s[j] \in S
  BY LenProperties, ElementOfSeq
<1>2. PICK a : a = SubSeq(s, 1, i - 1)
  OBVIOUS
<1>3. PICK b : b = SubSeq(s, i + 1, Len(s))
  OBVIOUS
<1>4. /\ a \in Seq(S) /\ Len(a) = i - 1 /\ \A j \in 1..i - 1 : a[j] = s[j]
  <2>1. \A j \in 1..i - 1 : s[j] \in S
    BY <1>1
  <2>2. /\ a \in Seq(S) /\ Len(a) = IF 1 <= i - 1 THEN (i - 1) - 1 + 1 ELSE 0
        /\ \A j \in 1..(i - 1) - 1 + 1 : a[j] = s[1 + j - 1]
    BY <1>1, <1>2, <2>1, SubSeqProperties
  <2>3. (i - 1) - 1 + 1 = i - 1 /\ \A j \in 1..i - 1 : 1 + j - 1 = j
    BY <1>1
  <2>4. Len(a) = i - 1
    BY <1>1, <2>2
  <2>5. \A j \in 1..i - 1 : a[j] = s[j]
    BY <2>2, <2>3
  <2>. QED
    BY <2>2, <2>4, <2>5
<1>5. /\ b \in Seq(S) /\ Len(b) = Len(s) - i /\ \A j \in 1..Len(s) - i : b[j] = s[i + j]
  <2>1. \A j \in i + 1..Len(s) : s[j] \in S
    BY <1>1
  <2>2. /\ b \in Seq(S) /\ Len(b) = IF i + 1 <= Len(s) THEN Len(s) - (i + 1) + 1 ELSE 0
        /\ \A j \in 1..Len(s) - (i + 1) + 1 : b[j] = s[(i + 1) + j - 1]
    BY <1>1, <1>3, <2>1, SubSeqProperties
  <2>3. Len(s) - (i + 1) + 1 = Len(s) - i /\ \A j \in 1..Len(s) - i : (i + 1) + j - 1 = i + j
    BY <1>1
  <2>4. Len(b) = Len(s) - i
    BY <1>1, <2>2, SMTT(30)
  <2>5. \A j \in 1..Len(s) - i : b[j] = s[i + j]
    BY <2>2, <2>3
  <2>. QED
    BY <2>2, <2>4, <2>5
<1>6. RemoveAt(s, i) = a \o b
  BY <1>2, <1>3 DEF RemoveAt
<1>7. /\ a \o b \in Seq(S) /\ Len(a \o b) = Len(a) + Len(b)
      /\ \A j \in 1..Len(a) + Len(b) : (a \o b)[j] = IF j <= Len(a) THEN a[j] ELSE b[j - Len(a)]
  BY <1>4, <1>5, ConcatProperties
<1>8. Len(a) + Len(b) = Len(s) - 1
  BY <1>1, <1>4, <1>5
<1>9. ASSUME NEW j \in 1..Len(s) - 1
      PROVE  (a \o b)[j] = IF j < i THEN s[j] ELSE s[j + 1]
  <2>1. CASE j < i
    <3>1. j <= Len(a) /\ j \in 1..i - 1
      BY <1>1, <1>4, <2>1
    <3>. QED
      BY <1>4, <1>7, <1>8, <2>1, <3>1
  <2>2. CASE ~(j < i)
    <3>1. /\ ~(j <= Len(a)) /\ j - Len(a) \in 1..Len(s) - i
          /\ i + (j - Len(a)) = j + 1
      BY <1>1, <1>4, <2>2
    <3>. QED
      BY <1>5, <1>7, <1>8, <2>2, <3>1
  <2>. QED
    BY <2>1, <2>2
<1>. QED
  BY <1>6, <1>7, <1>8, <1>9

\* What the loop has in hand.
Accs == [rtts2 : Seq(Entry), lossMap : SUBSET [loss : Nat, node : Nodes]]

LEMMA LossType ==
    ASSUME NEW x \in Nat, NEW y \in Nat
    PROVE  loss(x, y) \in Nat
<1>1. \A n \in Nat : n * n \in Nat
  OBVIOUS
<1>2. PICK u \in Nat : u = x * x
  BY <1>1
<1>3. PICK v \in Nat : v = y * y
  BY <1>1
<1>4. u + v \in Nat
  OBVIOUS
<1>. QED
  BY <1>2, <1>3, <1>4 DEF loss

LEMMA EntryType == \A e \in Entry : e.node \in Nodes /\ e.rtt \in Nat
  BY MediaAssumption DEF Entry

\* One turn, taken apart.
LEMMA TurnReads ==
    ASSUME NEW acc \in Accs, NEW e \in Entry
    PROVE  LET M == matching(e, acc.rtts2)
               i == least(M)
               l == loss(e.rtt, acc.rtts2[i].rtt)
           IN  /\ M \in SUBSET (1..Len(acc.rtts2))
               /\ \A j \in 1..Len(acc.rtts2) : j \in M <=> acc.rtts2[j].node = e.node
               /\ Matched(acc, e) \in Accs
               /\ M = {} => Matched(acc, e) = acc
               /\ M # {} =>
                      /\ i \in M /\ \A j \in M : i <= j
                      /\ l \in Nat
                      /\ Matched(acc, e).rtts2 = RemoveAt(acc.rtts2, i)
                      /\ Matched(acc, e).lossMap = {p \in acc.lossMap : p.loss # l}
                                                   \cup {[loss |-> l, node |-> e.node]}
<1> DEFINE M == matching(e, acc.rtts2)
           i == least(M)
           l == loss(e.rtt, acc.rtts2[i].rtt)
<1>1. /\ acc.rtts2 \in Seq(Entry) /\ acc.lossMap \in SUBSET [loss : Nat, node : Nodes]
      /\ DOMAIN acc.rtts2 = 1..Len(acc.rtts2) /\ Len(acc.rtts2) \in Nat
      /\ \A j \in 1..Len(acc.rtts2) : acc.rtts2[j] \in Entry
  BY LenProperties, ElementOfSeq DEF Accs
<1>2. M = {j \in 1..Len(acc.rtts2) : acc.rtts2[j].node = e.node}
  BY <1>1 DEF matching, normalizeNodeIp
<1>3. CASE M = {}
  <2>1. Matched(acc, e) = acc
    BY <1>3 DEF Matched
  <2>. QED
    BY <1>2, <1>3, <2>1
<1>4. CASE M # {}
  <2>1. M \in SUBSET Nat
    BY <1>1, <1>2
  <2>2. i \in M /\ \A j \in M : i <= j
    <3>. HIDE DEF M
    <3>. QED
      BY <1>4, <2>1, Least
  <2>3. i \in 1..Len(acc.rtts2)
    BY <1>2, <2>2
  <2>. HIDE DEF i
  <2>4. l \in Nat
    BY <1>1, <2>3, EntryType, LossType
  <2>5. RemoveAt(acc.rtts2, i) \in Seq(Entry)
    BY <1>1, <2>3, Removed
  <2>6. Matched(acc, e) = [rtts2   |-> RemoveAt(acc.rtts2, i),
                           lossMap |-> {p \in acc.lossMap : p.loss # l}
                                       \cup {[loss |-> l, node |-> e.node]}]
    BY <1>4 DEF Matched, i
  <2>. HIDE DEF l, M
  <2>7. [loss |-> l, node |-> e.node] \in [loss : Nat, node : Nodes]
    BY <2>4, EntryType
  <2>8. Matched(acc, e) \in Accs
    BY <1>1, <2>5, <2>6, <2>7 DEF Accs
  <2>9. /\ M \in SUBSET (1..Len(acc.rtts2))
        /\ \A j \in 1..Len(acc.rtts2) : j \in M <=> acc.rtts2[j].node = e.node
    BY <1>2
  <2>10. /\ Matched(acc, e).rtts2 = RemoveAt(acc.rtts2, i)
         /\ Matched(acc, e).lossMap = {p \in acc.lossMap : p.loss # l}
                                      \cup {[loss |-> l, node |-> e.node]}
    BY <2>6
  <2>. QED
    BY <1>4, <2>2, <2>4, <2>8, <2>9, <2>10 DEF l, M, i
<1>. QED
  BY <1>3, <1>4

\* The loop, turn by turn.
LEMMA Turns ==
    ASSUME NEW rtts1 \in Seq(Entry), NEW rtts2 \in Seq(Entry)
    PROVE  \E turn \in [0..Len(rtts1) -> Accs] :
               /\ turn[0] = [rtts2 |-> rtts2, lossMap |-> {}]
               /\ \A k \in 1..Len(rtts1) : turn[k] = Matched(turn[k - 1], rtts1[k])
               /\ losses(rtts1, rtts2) = turn[Len(rtts1)].lossMap
<1> DEFINE n == Len(rtts1)
           first == [rtts2 |-> rtts2, lossMap |-> {}]
           Is(f, d) == f = [k \in 0..d |-> IF k = 0 THEN first ELSE Matched(f[k - 1], rtts1[k])]
           T == {d \in Nat : d <= n => \E f \in [0..d -> Accs] : Is(f, d)}
<1>0. n \in Nat /\ \A k \in 1..n : rtts1[k] \in Entry
  BY LenProperties, ElementOfSeq
<1>a. first \in Accs
  BY DEF Accs
<1>. HIDE DEF first, n
<1>1. 0 \in T
  <2>1. [k \in 0..0 |-> first] \in [0..0 -> Accs] /\ Is([k \in 0..0 |-> first], 0)
    BY <1>a
  <2>. QED
    BY <2>1
<1>2. ASSUME NEW d \in T
      PROVE  d + 1 \in T
  <2>. SUFFICES ASSUME d + 1 <= n PROVE \E f \in [0..d + 1 -> Accs] : Is(f, d + 1)
    OBVIOUS
  <2>0. d \in Nat /\ d <= n /\ d + 1 \in 1..n /\ d \in 0..d
    BY <1>0
  <2>1. PICK f \in [0..d -> Accs] : Is(f, d)
    BY <2>0
  <2> DEFINE g == [k \in 0..d + 1 |-> IF k = d + 1 THEN Matched(f[d], rtts1[d + 1]) ELSE f[k]]
  <2>2. g \in [0..d + 1 -> Accs]
    <3>1. f[d] \in Accs /\ rtts1[d + 1] \in Entry
      BY <1>0, <2>0
    <3>2. Matched(f[d], rtts1[d + 1]) \in Accs
      BY <3>1, TurnReads
    <3>3. \A k \in 0..d + 1 : k # d + 1 => f[k] \in Accs
      BY <2>0
    <3>. QED
      BY <3>2, <3>3
  <2>3. \A k \in 0..d + 1 : g[k] = IF k = 0 THEN first ELSE Matched(g[k - 1], rtts1[k])
    <3>. TAKE k \in 0..d + 1
    <3>1. CASE k = d + 1
      <4>1. k # 0 /\ k - 1 = d /\ d \in 0..d + 1 /\ d # d + 1
        BY <2>0, <3>1
      <4>. QED
        BY <3>1, <4>1
    <3>2. CASE k # d + 1
      <4>1. k \in 0..d /\ (k # 0 => k - 1 \in 0..d + 1 /\ k - 1 # d + 1)
        BY <2>0, <3>2
      <4>2. f[k] = IF k = 0 THEN first ELSE Matched(f[k - 1], rtts1[k])
        BY <2>1, <4>1
      <4>3. g[k] = f[k] /\ (k # 0 => g[k - 1] = f[k - 1])
        BY <3>2, <4>1
      <4>. QED
        BY <4>1, <4>2, <4>3
    <3>. QED
      BY <3>1, <3>2
  <2>4. Is(g, d + 1)
    <3>1. DOMAIN g = 0..d + 1 /\ g = [k \in 0..d + 1 |-> g[k]]
      OBVIOUS
    <3>. HIDE DEF g
    <3>. QED
      BY <2>3, <3>1, ZenonT(60)
  <2>. HIDE DEF g, Is
  <2>. QED
    BY <2>2, <2>4
<1>3. T = Nat
  <2>. HIDE DEF T
  <2>1. T \subseteq Nat
    BY DEF T
  <2>. QED
    BY <1>1, <1>2, <2>1, NatSets
<1>4. PICK f \in [0..n -> Accs] : Is(f, n)
  <2>1. n \in T
    <3>. HIDE DEF T
    <3>. QED
      BY <1>0, <1>3
  <2>2. n <= n
    BY <1>0
  <2>. QED
    BY <2>1, <2>2
<1> DEFINE turn == CHOOSE g : Is(g, n)
<1>5. Is(turn, n)
  BY <1>4, ZenonT(60)
<1>6. losses(rtts1, rtts2) = turn[n].lossMap
  BY DEF losses, n, first
<1>. HIDE DEF turn
<1>7. \A k \in 0..n : turn[k] = IF k = 0 THEN first ELSE Matched(turn[k - 1], rtts1[k])
  BY <1>5
<1>8. turn[0] = first /\ \A k \in 1..n : turn[k] = Matched(turn[k - 1], rtts1[k])
  <2>1. 0 \in 0..n /\ \A k \in 1..n : k \in 0..n /\ k # 0
    BY <1>0
  <2>. QED
    BY <1>7, <2>1
<1>9. \A k \in 0..n : turn[k] \in Accs
  <2> DEFINE S == {k \in Nat : k \in 0..n => turn[k] \in Accs}
  <2>1. 0 \in S
    BY <1>8, <1>a
  <2>2. \A k \in S : k + 1 \in S
    <3>. SUFFICES ASSUME NEW k \in S, k + 1 \in 0..n PROVE turn[k + 1] \in Accs
      OBVIOUS
    <3>1. k \in 0..n /\ k + 1 \in 1..n /\ (k + 1) - 1 = k
      BY <1>0
    <3>2. turn[k] \in Accs /\ turn[k + 1] = Matched(turn[k], rtts1[k + 1])
      BY <1>8, <3>1
    <3>. QED
      BY <1>0, <3>1, <3>2, TurnReads
  <2>3. S = Nat
    <3>. HIDE DEF S
    <3>1. S \subseteq Nat
      BY DEF S
    <3>. QED
      BY <2>1, <2>2, <3>1, NatSets
  <2>4. \A k \in 0..n : k \in Nat
    BY <1>0
  <2>. QED
    BY <2>3, <2>4
<1>10. turn \in [0..n -> Accs]
  <2>1. turn = [k \in 0..n |-> turn[k]]
    BY <1>5
  <2>. QED
    BY <1>9, <2>1
<1>. QED
  BY <1>6, <1>8, <1>10 DEF n, first
-------------------------------------------------------------------------------
(* What is left of the peer's report, and the losses, after k turns.         *)

\* The loop has taken out of rtts2 the entries whose ranks it has met in rtts1, and left
\* the others in their order.
Left(rtts1, rtts2, k, rest) ==
    \E f \in [1..Len(rest) -> DOMAIN rtts2] :
        /\ \A i, j \in 1..Len(rest) : i < j => f[i] < f[j]
        /\ \A i \in 1..Len(rest) : rest[i] = rtts2[f[i]]
        /\ \A j \in DOMAIN rtts2 :
               (\E i \in 1..Len(rest) : f[i] = j)
                   <=> rank(rtts2, j) > count(rtts1, k, rtts2[j].node)

\* lossMap has the cost of each pair of entries met, and nothing else.
Priced(rtts1, rtts2, k, map) ==
    /\ \A p \in map : \E q \in pairs(rtts1, rtts2) :
           q[1] <= k /\ cost(rtts1, rtts2, q) = p.loss /\ rtts1[q[1]].node = p.node
    /\ \A q \in pairs(rtts1, rtts2) :
           q[1] <= k => \E p \in map : p.loss = cost(rtts1, rtts2, q)

LEMMA AllLeft ==
    ASSUME NEW rtts1 \in Seq(Entry), NEW rtts2 \in Seq(Entry)
    PROVE  Left(rtts1, rtts2, 0, rtts2)
<1> DEFINE f == [i \in 1..Len(rtts2) |-> i]
<1>1. DOMAIN rtts2 = 1..Len(rtts2)
  BY LenProperties
<1>2. \A j \in DOMAIN rtts2 : rank(rtts2, j) > count(rtts1, 0, rtts2[j].node)
  <2>. TAKE j \in DOMAIN rtts2
  <2>1. rank(rtts2, j) \in Nat \ {0} /\ count(rtts1, 0, rtts2[j].node) = 0
    BY Ranks, Counting
  <2>. QED
    BY <2>1
<1>3. f \in [1..Len(rtts2) -> DOMAIN rtts2]
  BY <1>1
<1>4. /\ \A i, j \in 1..Len(rtts2) : i < j => f[i] < f[j]
      /\ \A i \in 1..Len(rtts2) : rtts2[i] = rtts2[f[i]]
      /\ \A j \in DOMAIN rtts2 : \E i \in 1..Len(rtts2) : f[i] = j
  BY <1>1
<1>. HIDE DEF f
<1>. QED
  BY <1>2, <1>3, <1>4 DEF Left

\* The entries that a turn pairs.
PairOf(rtts1, rtts2, k, j) ==
    j \in DOMAIN rtts2 /\ rtts2[j].node = rtts1[k].node
    /\ rank(rtts2, j) = rank(rtts1, k)

\* A turn pairs the k-th entry with the first one left of its node, if there is one: it is
\* the one of the same rank.
LEMMA TurnLeft ==
    ASSUME NEW rtts1 \in Seq(Entry), NEW rtts2 \in Seq(Entry), NEW k \in 1..Len(rtts1),
           NEW acc \in Accs, Left(rtts1, rtts2, k - 1, acc.rtts2)
    PROVE  LET M == matching(rtts1[k], acc.rtts2)
               i == least(M)
           IN  /\ Left(rtts1, rtts2, k, Matched(acc, rtts1[k]).rtts2)
               /\ M = {} => \A j : ~PairOf(rtts1, rtts2, k, j)
               /\ M # {} => \E j : /\ PairOf(rtts1, rtts2, k, j)
                                   /\ acc.rtts2[i] = rtts2[j]
                                   /\ \A x : PairOf(rtts1, rtts2, k, x) => x = j
<1>1. PICK rest \in Seq(Entry) : rest = acc.rtts2
  BY DEF Accs
<1>2. PICK e \in Entry : e = rtts1[k]
  BY ElementOfSeq
<1>3. PICK M : M = matching(e, rest)
  OBVIOUS
<1>4. PICK i : i = least(M)
  OBVIOUS
<1>5. PICK next : next = Matched(acc, e)
  OBVIOUS
<1>6. /\ M \in SUBSET (1..Len(rest))
      /\ \A j \in 1..Len(rest) : j \in M <=> rest[j].node = e.node
      /\ M = {} => next = acc
      /\ M # {} => i \in M /\ (\A j \in M : i <= j) /\ next.rtts2 = RemoveAt(rest, i)
  BY <1>1, <1>2, <1>3, <1>4, <1>5, TurnReads
<1>7. PICK f \in [1..Len(rest) -> DOMAIN rtts2] :
          /\ \A x, y \in 1..Len(rest) : x < y => f[x] < f[y]
          /\ \A x \in 1..Len(rest) : rest[x] = rtts2[f[x]]
          /\ \A j \in DOMAIN rtts2 :
                 (\E x \in 1..Len(rest) : f[x] = j)
                     <=> rank(rtts2, j) > count(rtts1, k - 1, rtts2[j].node)
  BY <1>1 DEF Left
<1> DEFINE before(node) == count(rtts1, k - 1, node)
           after(node) == count(rtts1, k, node)
<1>8. /\ Len(rest) \in Nat /\ Len(rtts2) \in Nat /\ DOMAIN rtts2 = 1..Len(rtts2)
      /\ \A x \in 1..Len(rest) : x \in Nat /\ f[x] \in Nat
  BY LenProperties, SMTT(30)
<1>9. \A node : /\ before(node) \in Nat
                /\ after(node) = IF node = e.node THEN before(node) + 1 ELSE before(node)
  <2>1. k - 1 \in 0..Len(rtts1)
    BY LenProperties
  <2>. QED
    BY <1>2, <2>1, Counting
<1>10. rank(rtts1, k) = before(e.node) + 1
  <2>1. k \in DOMAIN rtts1
    BY LenProperties
  <2>2. rank(rtts1, k) = after(e.node)
    BY <1>2, <2>1, Ranks
  <2>. QED
    BY <1>9, <2>2
<1>11. \A j \in DOMAIN rtts2 : (\E x \in 1..Len(rest) : f[x] = j)
                                   <=> rank(rtts2, j) > before(rtts2[j].node)
  BY <1>7
<1>. HIDE DEF before
<1>12. PICK m \in Nat : m = before(e.node)
  BY <1>9
<1>13. \A j \in DOMAIN rtts2 : rank(rtts2, j) \in Nat
  BY Ranks
<1>14. CASE M = {}
  <2>1. \A j \in DOMAIN rtts2 : rtts2[j].node = e.node => ~(rank(rtts2, j) > m)
    <3>. SUFFICES ASSUME NEW j \in DOMAIN rtts2, rtts2[j].node = e.node, rank(rtts2, j) > m
                  PROVE  FALSE
      OBVIOUS
    <3>1. PICK x \in 1..Len(rest) : f[x] = j
      BY <1>11, <1>12
    <3>. QED
      BY <1>6, <1>7, <1>14, <3>1
  <2>2. \A j : ~PairOf(rtts1, rtts2, k, j)
    <3>1. m + 1 > m
      OBVIOUS
    <3>. QED
      BY <1>2, <1>10, <1>12, <2>1, <3>1 DEF PairOf
  <2>3. \A j \in DOMAIN rtts2 : rank(rtts2, j) > before(rtts2[j].node)
                                    <=> rank(rtts2, j) > after(rtts2[j].node)
    <3>. TAKE j \in DOMAIN rtts2
    <3>1. CASE rtts2[j].node = e.node
      <4>1. after(rtts2[j].node) = m + 1 /\ before(rtts2[j].node) = m
        BY <1>9, <1>12, <3>1
      <4>2. ~(rank(rtts2, j) > m) /\ rank(rtts2, j) \in Nat
        BY <1>13, <2>1, <3>1
      <4>. QED
        BY <4>1, <4>2
    <3>2. CASE rtts2[j].node # e.node
      BY <1>9, <3>2
    <3>. QED
      BY <3>1, <3>2
  <2>4. \A j \in DOMAIN rtts2 : (\E x \in 1..Len(rest) : f[x] = j)
                                    <=> rank(rtts2, j) > after(rtts2[j].node)
    BY <1>11, <2>3
  <2>5. Left(rtts1, rtts2, k, rest)
    BY <1>7, <2>4 DEF Left
  <2>. QED
    BY <1>1, <1>2, <1>3, <1>5, <1>6, <1>14, <2>2, <2>5
<1>15. CASE M # {}
  <2>1. PICK j \in DOMAIN rtts2 : j = f[i] /\ i \in 1..Len(rest)
    BY <1>6, <1>15
  <2>2. rtts2[j] = rest[i] /\ rtts2[j].node = e.node
    BY <1>6, <1>7, <1>15, <2>1
  <2>3. rank(rtts2, j) > m
    BY <1>11, <1>12, <2>1, <2>2
  <2>4. rank(rtts2, j) = m + 1
    <3>1. SUFFICES ASSUME rank(rtts2, j) > m + 1 PROVE FALSE
      BY <1>13, <2>3
    <3>2. /\ j \in 0..Len(rtts2) /\ m + 1 \in 1..count(rtts2, j, e.node)
      <4>1. rank(rtts2, j) = count(rtts2, j, e.node) /\ rank(rtts2, j) \in Nat
        BY <2>2, Ranks
      <4>. QED
        BY <1>8, <3>1, <4>1
    <3>3. PICK y \in 1..j : rtts2[y].node = e.node /\ rank(rtts2, y) = m + 1
      <4>1. PICK l \in 0..Len(rtts2) : l = j
        BY <3>2
      <4>2. PICK h \in 1..count(rtts2, l, e.node) : h = m + 1
        BY <3>2, <4>1
      <4>3. \E y \in 1..l : rtts2[y].node = e.node /\ rank(rtts2, y) = h
        BY Reaches
      <4>. QED
        BY <4>1, <4>2, <4>3
    <3>4. y \in DOMAIN rtts2 /\ y # j /\ y < j
      <4>1. y # j
        BY <3>1, <3>3
      <4>. QED
        BY <1>8, <4>1
    <3>5. rank(rtts2, y) > before(rtts2[y].node)
      BY <1>12, <3>3
    <3>6. PICK x \in 1..Len(rest) : f[x] = y
      BY <1>11, <3>4, <3>5
    <3>7. x \in M
      BY <1>6, <1>7, <3>3, <3>6
    <3>8. i < x
      <4>1. i <= x /\ i # x
        BY <1>6, <1>15, <2>1, <3>4, <3>6, <3>7
      <4>. QED
        BY <1>8, <2>1, <4>1
    <3>9. j < y
      BY <1>7, <2>1, <3>6, <3>8
    <3>. QED
      BY <1>8, <3>4, <3>9
  <2>5. PairOf(rtts1, rtts2, k, j)
    BY <1>2, <1>10, <1>12, <2>2, <2>4 DEF PairOf
  <2>6. \A x : PairOf(rtts1, rtts2, k, x) => x = j
    BY <1>2, <2>2, <2>4, <2>5, Ranks DEF PairOf
  <2> DEFINE left == RemoveAt(rest, i)
             g == [x \in 1..Len(rest) - 1 |-> IF x < i THEN f[x] ELSE f[x + 1]]
  <2>7. /\ left \in Seq(Entry) /\ Len(left) = Len(rest) - 1
        /\ \A x \in 1..Len(rest) - 1 : left[x] = IF x < i THEN rest[x] ELSE rest[x + 1]
    BY <2>1, Removed
  <2>. HIDE DEF left
  <2>8. \A x \in 1..Len(rest) - 1 :
            /\ x \in 1..Len(rest) /\ x + 1 \in 1..Len(rest)
            /\ g[x] = IF x < i THEN f[x] ELSE f[x + 1]
    BY <1>8
  <2>9. g \in [1..Len(left) -> DOMAIN rtts2]
    <3>1. \A x \in 1..Len(rest) - 1 : g[x] \in DOMAIN rtts2
      BY <2>8
    <3>. QED
      BY <2>7, <3>1
  <2>. HIDE DEF g
  <2>10. ASSUME NEW x \in 1..Len(left), NEW y \in 1..Len(left), x < y
         PROVE  g[x] < g[y]
    <3>1. PICK u \in 1..Len(rest) : g[x] = f[u] /\ u = IF x < i THEN x ELSE x + 1
      BY <2>7, <2>8
    <3>2. PICK v \in 1..Len(rest) : g[y] = f[v] /\ v = IF y < i THEN y ELSE y + 1
      BY <2>7, <2>8
    <3>3. u < v
      BY <1>8, <2>1, <2>7, <2>10, <3>1, <3>2, SMTT(30)
    <3>. QED
      BY <1>7, <3>1, <3>2, <3>3
  <2>11. \A x \in 1..Len(left) : left[x] = rtts2[g[x]]
    <3>. TAKE x \in 1..Len(left)
    <3>1. PICK u \in 1..Len(rest) : g[x] = f[u] /\ u = IF x < i THEN x ELSE x + 1
      BY <2>7, <2>8
    <3>2. left[x] = rest[u]
      BY <2>7, <3>1
    <3>. QED
      BY <1>7, <3>1, <3>2
  <2>12. ASSUME NEW y \in DOMAIN rtts2
         PROVE  (\E x \in 1..Len(left) : g[x] = y) <=> (\E x \in 1..Len(rest) : f[x] = y) /\ y # j
    <3>1. ASSUME NEW x \in 1..Len(left), g[x] = y
          PROVE  (\E u \in 1..Len(rest) : f[u] = y) /\ y # j
      <4>1. PICK u \in 1..Len(rest) : g[x] = f[u] /\ u = IF x < i THEN x ELSE x + 1
        BY <2>7, <2>8, <3>1
      <4>2. u < i \/ i < u
        BY <1>8, <2>1, <2>7, <4>1
      <4>3. f[u] < f[i] \/ f[i] < f[u]
        BY <1>7, <2>1, <4>2
      <4>4. f[u] # f[i]
        BY <1>8, <2>1, <4>3
      <4>. QED
        BY <2>1, <3>1, <4>1, <4>4
    <3>2. ASSUME NEW u \in 1..Len(rest), f[u] = y, y # j
          PROVE  \E x \in 1..Len(left) : g[x] = y
      <4>1. u # i
        BY <2>1, <3>2
      <4>2. PICK x \in 1..Len(left) : u = IF x < i THEN x ELSE x + 1
        <5>1. CASE u < i
          <6>1. u \in 1..Len(left)
            BY <1>8, <2>1, <2>7, <5>1
          <6>. QED
            BY <5>1, <6>1
        <5>2. CASE i < u
          <6>1. u - 1 \in 1..Len(left) /\ ~(u - 1 < i) /\ u = (u - 1) + 1
            BY <1>8, <2>1, <2>7, <5>2
          <6>. QED
            BY <6>1
        <5>. QED
          BY <1>8, <2>1, <4>1, <5>1, <5>2
      <4>3. g[x] = y
        BY <2>7, <2>8, <3>2, <4>2
      <4>. QED
        BY <4>3
    <3>. QED
      BY <3>1, <3>2
  <2>13. ASSUME NEW y \in DOMAIN rtts2
         PROVE  rank(rtts2, y) > after(rtts2[y].node)
                    <=> rank(rtts2, y) > before(rtts2[y].node) /\ y # j
    <3>1. rank(rtts2, y) \in Nat
      BY <1>13
    <3>2. CASE rtts2[y].node = e.node
      <4>1. after(rtts2[y].node) = m + 1 /\ before(rtts2[y].node) = m
        BY <1>9, <1>12, <3>2
      <4>2. rank(rtts2, y) = m + 1 <=> y = j
        BY <2>2, <2>4, <3>2, Ranks
      <4>. QED
        BY <3>1, <4>1, <4>2
    <3>3. CASE rtts2[y].node # e.node
      BY <1>9, <2>2, <3>3
    <3>. QED
      BY <3>2, <3>3
  <2>14. \A y \in DOMAIN rtts2 : (\E x \in 1..Len(left) : g[x] = y)
                                     <=> rank(rtts2, y) > after(rtts2[y].node)
    BY <1>11, <2>12, <2>13
  <2>15. Left(rtts1, rtts2, k, left)
    BY <2>9, <2>10, <2>11, <2>14 DEF Left
  <2>16. next.rtts2 = left
    BY <1>6, <1>15 DEF left
  <2>. QED
    BY <1>1, <1>2, <1>3, <1>4, <1>5, <1>15, <2>2, <2>5, <2>6, <2>15, <2>16
<1>. QED
  BY <1>14, <1>15

\* A pair of entries, by its turn.
LEMMA Pairs ==
    ASSUME NEW rtts1 \in Seq(Entry), NEW rtts2 \in Seq(Entry)
    PROVE  /\ \A q \in pairs(rtts1, rtts2) :
                  /\ q = <<q[1], q[2]>> /\ q[1] \in 1..Len(rtts1)
                  /\ q[1] \in Nat /\ q[2] \in DOMAIN rtts2
                  /\ PairOf(rtts1, rtts2, q[1], q[2])
                  /\ cost(rtts1, rtts2, q) \in Nat
                  /\ cost(rtts1, rtts2, q) = loss(rtts1[q[1]].rtt, rtts2[q[2]].rtt)
           /\ \A k \in 1..Len(rtts1) : \A j :
                  PairOf(rtts1, rtts2, k, j) => <<k, j>> \in pairs(rtts1, rtts2)
<1>1. /\ DOMAIN rtts1 = 1..Len(rtts1) /\ Len(rtts1) \in Nat
      /\ \A k \in DOMAIN rtts1 : rtts1[k] \in Entry /\ k \in Nat
      /\ \A k \in DOMAIN rtts2 : rtts2[k] \in Entry
  BY LenProperties, ElementOfSeq
<1>2. ASSUME NEW q \in pairs(rtts1, rtts2)
      PROVE  /\ q = <<q[1], q[2]>> /\ q[1] \in 1..Len(rtts1)
             /\ q[1] \in Nat /\ q[2] \in DOMAIN rtts2
             /\ PairOf(rtts1, rtts2, q[1], q[2])
             /\ cost(rtts1, rtts2, q) \in Nat
             /\ cost(rtts1, rtts2, q) = loss(rtts1[q[1]].rtt, rtts2[q[2]].rtt)
  <2>1. /\ q = <<q[1], q[2]>> /\ q[1] \in DOMAIN rtts1 /\ q[2] \in DOMAIN rtts2
        /\ rtts1[q[1]].node = rtts2[q[2]].node
        /\ rank(rtts1, q[1]) = rank(rtts2, q[2])
    BY DEF pairs
  <2>2. PairOf(rtts1, rtts2, q[1], q[2])
    BY <2>1 DEF PairOf
  <2>3. cost(rtts1, rtts2, q) = loss(rtts1[q[1]].rtt, rtts2[q[2]].rtt)
    BY DEF cost, loss
  <2>4. rtts1[q[1]].rtt \in Nat /\ rtts2[q[2]].rtt \in Nat
    BY <1>1, <2>1, EntryType
  <2>5. cost(rtts1, rtts2, q) \in Nat
    BY <2>3, <2>4, LossType
  <2>. QED
    BY <1>1, <2>1, <2>2, <2>3, <2>5
<1>3. ASSUME NEW k \in 1..Len(rtts1), NEW j, PairOf(rtts1, rtts2, k, j)
      PROVE  <<k, j>> \in pairs(rtts1, rtts2)
  BY <1>1, <1>3 DEF pairs, PairOf
<1>. QED
  BY <1>2, <1>3

\* A turn prices the pair it makes.
LEMMA TurnPriced ==
    ASSUME NEW rtts1 \in Seq(Entry), NEW rtts2 \in Seq(Entry), NEW k \in 1..Len(rtts1),
           NEW acc \in Accs, Left(rtts1, rtts2, k - 1, acc.rtts2),
           Priced(rtts1, rtts2, k - 1, acc.lossMap)
    PROVE  Priced(rtts1, rtts2, k, Matched(acc, rtts1[k]).lossMap)
<1>1. PICK e \in Entry : e = rtts1[k]
  BY ElementOfSeq
<1>2. PICK M : M = matching(e, acc.rtts2)
  OBVIOUS
<1>3. PICK i : i = least(M)
  OBVIOUS
<1>4. PICK l : l = loss(e.rtt, acc.rtts2[i].rtt)
  OBVIOUS
<1>5. PICK map : map = Matched(acc, e).lossMap
  OBVIOUS
<1>6. /\ M = {} => map = acc.lossMap
      /\ M # {} => map = {p \in acc.lossMap : p.loss # l} \cup {[loss |-> l, node |-> e.node]}
  BY <1>2, <1>3, <1>4, <1>5, TurnReads
<1>7. /\ M = {} => \A j : ~PairOf(rtts1, rtts2, k, j)
      /\ M # {} => \E j : /\ PairOf(rtts1, rtts2, k, j) /\ acc.rtts2[i] = rtts2[j]
                          /\ \A x : PairOf(rtts1, rtts2, k, x) => x = j
  BY <1>1, <1>2, <1>3, TurnLeft, ZenonT(60)
<1>8. PICK was : was = acc.lossMap
  OBVIOUS
<1>9. PICK P : P = pairs(rtts1, rtts2)
  OBVIOUS
<1>10. /\ \A p \in was : \E q \in P :
              q[1] <= k - 1 /\ cost(rtts1, rtts2, q) = p.loss /\ rtts1[q[1]].node = p.node
       /\ \A q \in P : q[1] <= k - 1 => \E p \in was : p.loss = cost(rtts1, rtts2, q)
  BY <1>8, <1>9 DEF Priced
<1>11. \A q \in P : /\ q[1] <= k - 1 => q[1] <= k
                    /\ q[1] <= k => q[1] <= k - 1 \/ q[1] = k
  <2>. TAKE q \in P
  <2>1. q[1] \in Nat /\ k \in Nat
    BY <1>9, Pairs
  <2>. QED
    BY <2>1
<1>12. CASE M = {}
  <2>1. \A q \in P : q[1] # k
    BY <1>7, <1>9, <1>12, Pairs
  <2>2. Priced(rtts1, rtts2, k, was)
    BY <1>9, <1>10, <1>11, <2>1 DEF Priced
  <2>. QED
    BY <1>1, <1>5, <1>6, <1>8, <1>12, <2>2
<1>13. CASE M # {}
  <2>1. PICK j : /\ PairOf(rtts1, rtts2, k, j) /\ acc.rtts2[i] = rtts2[j]
                 /\ \A x : PairOf(rtts1, rtts2, k, x) => x = j
    BY <1>7, <1>13
  <2>2. PICK new \in P : new = <<k, j>>
    BY <1>9, <2>1, Pairs
  <2>3. /\ new[1] = k /\ new[2] = j /\ cost(rtts1, rtts2, new) = l
        /\ rtts1[new[1]].node = e.node
    BY <1>1, <1>4, <1>9, <2>1, <2>2, Pairs
  <2>4. \A q \in P : q[1] = k => q = new
    BY <1>9, <2>1, <2>2, Pairs
  <2>5. PICK pt : pt = [loss |-> l, node |-> e.node]
    OBVIOUS
  <2>6. pt.loss = l /\ pt.node = e.node
    BY <2>5
  <2>7. \A p : p \in map <=> (p \in was /\ p.loss # l) \/ p = pt
    BY <1>6, <1>8, <1>13, <2>5
  <2>8. ASSUME NEW p \in map
        PROVE  \E q \in P :
                   q[1] <= k /\ cost(rtts1, rtts2, q) = p.loss /\ rtts1[q[1]].node = p.node
    <3>1. CASE p \in was
      BY <1>10, <1>11, <3>1
    <3>2. CASE p = pt
      <4>1. new[1] <= k
        BY <2>3
      <4>. QED
        BY <2>3, <2>6, <3>2, <4>1
    <3>. QED
      BY <2>7, <3>1, <3>2
  <2>9. ASSUME NEW q \in P, q[1] <= k
        PROVE  \E p \in map : p.loss = cost(rtts1, rtts2, q)
    <3>1. CASE cost(rtts1, rtts2, q) = l
      BY <2>6, <2>7, <3>1
    <3>2. CASE cost(rtts1, rtts2, q) # l
      <4>1. q # new /\ q[1] <= k - 1
        BY <1>11, <2>3, <2>4, <2>9, <3>2
      <4>2. PICK p \in was : p.loss = cost(rtts1, rtts2, q)
        BY <1>10, <4>1
      <4>. QED
        BY <2>7, <3>2, <4>2
    <3>. QED
      BY <3>1, <3>2
  <2>10. Priced(rtts1, rtts2, k, map)
    BY <1>9, <2>8, <2>9 DEF Priced
  <2>. QED
    BY <1>1, <1>5, <2>10
<1>. QED
  BY <1>12, <1>13

\* After the loop, every pair has its price.
LEMMA AllPriced ==
    ASSUME NEW rtts1 \in Seq(Entry), NEW rtts2 \in Seq(Entry)
    PROVE  /\ losses(rtts1, rtts2) \in SUBSET [loss : Nat, node : Nodes]
           /\ Priced(rtts1, rtts2, Len(rtts1), losses(rtts1, rtts2))
<1>1. PICK turn \in [0..Len(rtts1) -> Accs] :
          /\ turn[0] = [rtts2 |-> rtts2, lossMap |-> {}]
          /\ \A k \in 1..Len(rtts1) : turn[k] = Matched(turn[k - 1], rtts1[k])
          /\ losses(rtts1, rtts2) = turn[Len(rtts1)].lossMap
  BY Turns
<1>2. Len(rtts1) \in Nat
  BY LenProperties
<1> DEFINE Good(k) == /\ Left(rtts1, rtts2, k, turn[k].rtts2)
                      /\ Priced(rtts1, rtts2, k, turn[k].lossMap)
           T == {k \in Nat : k \in 0..Len(rtts1) => Good(k)}
<1>3. 0 \in T
  <2>1. turn[0].rtts2 = rtts2 /\ turn[0].lossMap = {}
    BY <1>1
  <2>2. \A q \in pairs(rtts1, rtts2) : ~(q[1] <= 0)
    <3>. TAKE q \in pairs(rtts1, rtts2)
    <3>1. q[1] \in 1..Len(rtts1)
      BY Pairs
    <3>. QED
      BY <1>2, <3>1
  <2>3. Priced(rtts1, rtts2, 0, {})
    BY <2>2 DEF Priced
  <2>. QED
    BY <2>1, <2>3, AllLeft
<1>4. ASSUME NEW k \in T
      PROVE  k + 1 \in T
  <2>. SUFFICES ASSUME k + 1 \in 0..Len(rtts1) PROVE Good(k + 1)
    OBVIOUS
  <2>1. PICK n \in 1..Len(rtts1) : n = k + 1 /\ n - 1 = k /\ k \in 0..Len(rtts1)
    BY <1>2
  <2>2. PICK acc \in Accs : acc = turn[k]
    BY <2>1
  <2>3. Left(rtts1, rtts2, n - 1, acc.rtts2) /\ Priced(rtts1, rtts2, n - 1, acc.lossMap)
    BY <2>1, <2>2
  <2>4. turn[n] = Matched(acc, rtts1[n])
    BY <1>1, <2>1, <2>2
  <2>5. Left(rtts1, rtts2, n, turn[n].rtts2)
    BY <2>3, <2>4, TurnLeft
  <2>6. Priced(rtts1, rtts2, n, turn[n].lossMap)
    BY <2>3, <2>4, TurnPriced
  <2>. QED
    BY <2>1, <2>5, <2>6
<1>5. T = Nat
  <2>. HIDE DEF T
  <2>1. T \subseteq Nat
    BY DEF T
  <2>. QED
    BY <1>3, <1>4, <2>1, NatSets
<1>6. Len(rtts1) \in T /\ Len(rtts1) \in 0..Len(rtts1)
  <2>. HIDE DEF T
  <2>. QED
    BY <1>2, <1>5
<1>7. Good(Len(rtts1)) /\ turn[Len(rtts1)] \in Accs
  BY <1>6
<1>. QED
  BY <1>1, <1>7 DEF Accs

\* FindBestNode finds a cheapest one, or none.
LEMMA FindsLeast ==
    ASSUME NEW rtts1 \in Seq(Entry), NEW rtts2 \in Seq(Entry)
    PROVE  \/ FindBestNode(rtts1, rtts2) = none
           \/ /\ FindBestNode(rtts1, rtts2) \in cheapest(rtts1, rtts2)
              /\ FindBestNode(rtts1, rtts2) \in Nodes
<1>1. PICK map \in SUBSET [loss : Nat, node : Nodes] : map = losses(rtts1, rtts2)
  BY AllPriced
<1>2. Priced(rtts1, rtts2, Len(rtts1), map)
  BY <1>1, AllPriced
<1>3. CASE map = {}
  BY <1>1, <1>3 DEF FindBestNode
<1>4. CASE map # {}
  <2> DEFINE S == {p.loss : p \in map}
             best1 == CHOOSE p \in map : \A q \in map : p.loss <= q.loss
  <2>1. S \in SUBSET Nat /\ S # {}
    BY <1>4
  <2>2. least(S) \in S /\ \A y \in S : least(S) <= y
    <3>. HIDE DEF S
    <3>. QED
      BY <2>1, Least
  <2>3. PICK p \in map : \A q \in map : p.loss <= q.loss
    BY <2>2
  <2>4. best1 \in map /\ \A q \in map : best1.loss <= q.loss
    BY <2>3
  <2>5. FindBestNode(rtts1, rtts2) = best1.node
    BY <1>1, <1>4 DEF FindBestNode
  <2>. HIDE DEF best1, S
  <2>6. PICK q \in pairs(rtts1, rtts2) :
            cost(rtts1, rtts2, q) = best1.loss /\ rtts1[q[1]].node = best1.node
    BY <1>2, <2>4 DEF Priced
  <2>7. \A x \in pairs(rtts1, rtts2) : cost(rtts1, rtts2, q) <= cost(rtts1, rtts2, x)
    <3>. TAKE x \in pairs(rtts1, rtts2)
    <3>1. x[1] \in 1..Len(rtts1)
      BY Pairs
    <3>2. x[1] <= Len(rtts1)
      BY <3>1, LenProperties
    <3>3. PICK y \in map : y.loss = cost(rtts1, rtts2, x)
      BY <1>2, <3>2 DEF Priced
    <3>. QED
      BY <2>4, <2>6, <3>3
  <2>8. best1.node \in cheapest(rtts1, rtts2)
    BY <2>6, <2>7 DEF cheapest
  <2>. QED
    BY <2>4, <2>5, <2>8
<1>. QED
  BY <1>3, <1>4
-------------------------------------------------------------------------------
(* The two clients.                                                          *)

PeerOf(c) == CHOOSE d \in Clients : d # c

LEMMA Peers ==
    ASSUME NEW c \in Clients
    PROVE  /\ PeerOf(c) \in Clients /\ PeerOf(c) # c
           /\ \A d \in Clients : d # c => PeerOf(c) = d /\ PeerOf(d) = c
<1>1. IsFiniteSet(Clients) /\ Cardinality(Clients) = 2
  BY MediaAssumption
<1>2. IsFiniteSet(Clients \ {c}) /\ Cardinality(Clients \ {c}) = 1
  BY <1>1, FS_RemoveElement
<1>3. PICK d : Clients \ {c} = {d}
  BY <1>2, FS_Singleton
<1>4. d \in Clients /\ d # c /\ \A x \in Clients : x = c \/ x = d
  BY <1>3
<1>5. PeerOf(c) = d /\ PeerOf(d) = c
  BY <1>4 DEF PeerOf
<1>. QED
  BY <1>4, <1>5

\* A pair costs the two ends the same, and each the node it belongs to.
LEMMA CheapestEither ==
    ASSUME NEW rtts1 \in Seq(Entry), NEW rtts2 \in Seq(Entry)
    PROVE  /\ IsFiniteSet(cheapest(rtts1, rtts2))
           /\ cheapest(rtts2, rtts1) \subseteq cheapest(rtts1, rtts2)
<1>1. IsFiniteSet(cheapest(rtts1, rtts2))
  <2>1. Len(rtts1) \in Nat /\ DOMAIN rtts1 = 1..Len(rtts1) /\ 1 \in Int /\ Len(rtts1) \in Int
    BY LenProperties
  <2>2. IsFiniteSet(1..Len(rtts1))
    BY <2>1, FS_Interval
  <2> DEFINE f == [k \in 1..Len(rtts1) |-> rtts1[k].node]
             R == {f[k] : k \in 1..Len(rtts1)}
  <2>3. f \in Surjection(1..Len(rtts1), R)
    BY DEF Surjection
  <2>4. IsFiniteSet(R)
    <3>. HIDE DEF R, f
    <3>. QED
      BY <2>2, <2>3, FS_Surjection
  <2>5. cheapest(rtts1, rtts2) \in SUBSET R
    <3>1. SUFFICES ASSUME NEW x \in cheapest(rtts1, rtts2) PROVE x \in R
      OBVIOUS
    <3>2. PICK p \in pairs(rtts1, rtts2) : x = rtts1[p[1]].node
      BY DEF cheapest
    <3>3. p[1] \in 1..Len(rtts1)
      BY Pairs
    <3>. QED
      BY <3>2, <3>3
  <2>. HIDE DEF R
  <2>. QED
    BY <2>4, <2>5, FS_Subset
<1>2. ASSUME NEW q \in pairs(rtts2, rtts1)
      PROVE  /\ <<q[2], q[1]>> \in pairs(rtts1, rtts2)
             /\ cost(rtts1, rtts2, <<q[2], q[1]>>) = cost(rtts2, rtts1, q)
             /\ rtts1[q[2]].node = rtts2[q[1]].node
  <2>1. /\ q[2] \in DOMAIN rtts1 /\ q[1] \in DOMAIN rtts2
        /\ rtts1[q[2]].node = rtts2[q[1]].node
        /\ rank(rtts1, q[2]) = rank(rtts2, q[1])
    BY DEF pairs
  <2>2. <<q[2], q[1]>> \in pairs(rtts1, rtts2)
    BY <2>1 DEF pairs
  <2>3. cost(rtts1, rtts2, <<q[2], q[1]>>) = cost(rtts2, rtts1, q)
    <3>1. rtts1[q[2]] \in Entry /\ rtts2[q[1]] \in Entry
      BY <2>1, LenProperties, ElementOfSeq
    <3>2. PICK x \in Nat : x = rtts1[q[2]].rtt
      BY <3>1, EntryType
    <3>3. PICK y \in Nat : y = rtts2[q[1]].rtt
      BY <3>1, EntryType
    <3>4. x * x + y * y = y * y + x * x
      OBVIOUS
    <3>. QED
      BY <3>2, <3>3, <3>4 DEF cost
  <2>. QED
    BY <2>1, <2>2, <2>3
<1>3. ASSUME NEW p \in pairs(rtts1, rtts2)
      PROVE  /\ <<p[2], p[1]>> \in pairs(rtts2, rtts1)
             /\ cost(rtts2, rtts1, <<p[2], p[1]>>) = cost(rtts1, rtts2, p)
  <2>1. /\ p[1] \in DOMAIN rtts1 /\ p[2] \in DOMAIN rtts2 /\ p = <<p[1], p[2]>>
        /\ rtts1[p[1]].node = rtts2[p[2]].node
        /\ rank(rtts1, p[1]) = rank(rtts2, p[2])
    BY DEF pairs
  <2>2. PICK q \in pairs(rtts2, rtts1) : q = <<p[2], p[1]>>
    BY <2>1 DEF pairs
  <2>3. <<q[2], q[1]>> = p
    BY <2>1, <2>2
  <2>. QED
    BY <1>2, <2>2, <2>3
<1>4. ASSUME NEW x \in cheapest(rtts2, rtts1)
      PROVE  x \in cheapest(rtts1, rtts2)
  <2>1. PICK q \in pairs(rtts2, rtts1) :
            /\ x = rtts2[q[1]].node
            /\ \A r \in pairs(rtts2, rtts1) : cost(rtts2, rtts1, q) <= cost(rtts2, rtts1, r)
    BY DEF cheapest
  <2>2. PICK p \in pairs(rtts1, rtts2) :
            /\ p = <<q[2], q[1]>> /\ cost(rtts1, rtts2, p) = cost(rtts2, rtts1, q)
            /\ rtts1[p[1]].node = x
    BY <1>2, <2>1
  <2>3. \A r \in pairs(rtts1, rtts2) : cost(rtts1, rtts2, p) <= cost(rtts1, rtts2, r)
    BY <1>3, <2>1, <2>2
  <2>. QED
    BY <2>2, <2>3 DEF cheapest
<1>. QED
  BY <1>1, <1>4

\* What the variables hold.
Types ==
    /\ server \in [Clients -> Servers] /\ reported \in [Clients -> Seq(Entry)]
    /\ node_rtts \in [Clients -> [Clients -> Seq(Entry)]]
    /\ best \in [Clients -> Nodes \cup {none}]
    /\ past \in [reports : [Clients -> Nat],
                 from : [Clients -> {<<>>} \cup [Clients -> Seq(Entry)]]]

\* What was measured came of the two reports that were in hand then.
Chosen ==
    \A c \in Clients : Measured(c) =>
        /\ past.from[c] \in [Clients -> Seq(Entry)]
        /\ best[c] = FindBestNode(mine(c), theirs(c))

Inv == Types /\ Chosen

LEMMA InitInv == Init => Inv
<1>. SUFFICES ASSUME Init PROVE Inv
  OBVIOUS
<1>1. <<>> \in Seq(Entry)
  BY EmptySeq
<1>2. Types
  BY <1>1 DEF Init, Types
<1>3. \A c \in Clients : best[c] = none
  BY DEF Init
<1>. QED
  BY <1>2, <1>3 DEF Inv, Chosen, Measured

LEMMA ReportInv ==
    ASSUME Inv, NEW c \in Clients, Report(c)
    PROVE  Inv'
<1>1. PICK rtts \in Reports(c) : reported' = [reported EXCEPT ![c] = rtts]
  BY DEF Report
<1>2. rtts \in Seq(Entry)
  <2>1. PICK n \in 1..MaxListed : rtts \in [1..n -> {e \in Entry : e.port = (c \in WithPort)}]
    BY DEF Reports
  <2>2. n \in Nat /\ rtts \in [1..n -> Entry]
    BY <2>1
  <2>. QED
    BY <2>2
<1>3. /\ server' = server /\ node_rtts' = node_rtts /\ best' = best
      /\ past' = [past EXCEPT !.reports[c] = @ + 1]
  BY DEF Report
<1>4. past.reports \in [Clients -> Nat] /\ past.reports[c] + 1 \in Nat
  BY DEF Inv, Types
<1>5. past'.from = past.from
  BY <1>3 DEF Inv, Types
<1>6. Types'
  BY <1>1, <1>2, <1>3, <1>4 DEF Inv, Types
<1>7. Chosen'
  BY <1>3, <1>5 DEF Inv, Chosen, Measured, mine, theirs
<1>. QED
  BY <1>6, <1>7 DEF Inv

LEMMA JoinedInv ==
    ASSUME Inv, NEW c \in Clients, NEW e \in Clients, Joined(c, e)
    PROVE  Inv'
<1>. USE DEF PeerOf
<1>1. PICK rtts : rtts = [node_rtts[c] EXCEPT ![e] = reported[e]]
  OBVIOUS
<1>2. PICK kept : kept = IF server[c] # none THEN server[c] ELSE best[c]
  OBVIOUS
<1>3. /\ server' = server /\ reported' = reported
      /\ node_rtts' = [node_rtts EXCEPT ![c] = rtts]
      /\ \/ kept # none /\ best' = [best EXCEPT ![c] = kept] /\ past' = past
         \/ kept = none /\ best' = [best EXCEPT ![c] = kept] /\ past' = past
         \/ /\ kept = none
            /\ best' = [best EXCEPT ![c] = FindBestNode(rtts[c], rtts[PeerOf(c)])]
            /\ past' = [past EXCEPT !.from[c] = rtts]
  BY <1>1, <1>2, Zenon DEF Joined, applyNodeRtts
<1>. HIDE DEF PeerOf
<1>4. rtts \in [Clients -> Seq(Entry)]
  BY <1>1 DEF Inv, Types
<1>5. kept \in Nodes \cup {none}
  BY <1>2, MediaAssumption DEF Inv, Types
<1>6. /\ server \in [Clients -> Servers] /\ reported \in [Clients -> Seq(Entry)]
      /\ node_rtts \in [Clients -> [Clients -> Seq(Entry)]]
      /\ best \in [Clients -> Nodes \cup {none}]
  BY DEF Inv, Types
<1>7. node_rtts' \in [Clients -> [Clients -> Seq(Entry)]]
  BY <1>3, <1>4, <1>6
<1>8. CASE best' = [best EXCEPT ![c] = kept] /\ past' = past
  <2>1. Types'
    BY <1>3, <1>5, <1>6, <1>7, <1>8 DEF Inv, Types
  <2>2. ASSUME NEW d \in Clients, Measured(d)'
        PROVE  Measured(d) /\ best'[d] = best[d]
    <3>1. best'[d] # none /\ server[d] = none
      BY <1>3, <2>2 DEF Measured
    <3>2. best'[d] = best[d]
      BY <1>2, <1>6, <1>8, <3>1
    <3>. QED
      BY <3>1, <3>2 DEF Measured
  <2>3. Chosen'
    <3>1. \A d \in Clients : mine(d)' = mine(d) /\ theirs(d)' = theirs(d)
      BY <1>8 DEF mine, theirs
    <3>. QED
      BY <1>8, <2>2, <3>1 DEF Inv, Chosen
  <2>. QED
    BY <2>1, <2>3 DEF Inv
<1>9. CASE /\ kept = none
           /\ best' = [best EXCEPT ![c] = FindBestNode(rtts[c], rtts[PeerOf(c)])]
           /\ past' = [past EXCEPT !.from[c] = rtts]
  <2>1. rtts[c] \in Seq(Entry) /\ rtts[PeerOf(c)] \in Seq(Entry)
    BY <1>4, Peers
  <2>2. FindBestNode(rtts[c], rtts[PeerOf(c)]) \in Nodes \cup {none}
    BY <2>1, FindsLeast
  <2>3. /\ past' \in [reports : [Clients -> Nat],
                      from : [Clients -> {<<>>} \cup [Clients -> Seq(Entry)]]]
        /\ past'.from[c] = rtts
        /\ \A d \in Clients : d # c => past'.from[d] = past.from[d]
    BY <1>4, <1>9 DEF Inv, Types
  <2>4. best' \in [Clients -> Nodes \cup {none}]
    BY <1>6, <1>9, <2>2
  <2>5. Types'
    BY <1>3, <1>6, <1>7, <2>3, <2>4 DEF Types
  <2>6. ASSUME NEW d \in Clients, Measured(d)'
        PROVE  /\ past'.from[d] \in [Clients -> Seq(Entry)]
               /\ best'[d] = FindBestNode(mine(d)', theirs(d)')
    <3>1. CASE d = c
      <4>1. mine(d)' = rtts[c] /\ theirs(d)' = rtts[PeerOf(c)]
        BY <2>3, <3>1 DEF mine, theirs, PeerOf
      <4>2. best'[d] = FindBestNode(rtts[c], rtts[PeerOf(c)])
        BY <1>6, <1>9, <3>1
      <4>. QED
        BY <1>4, <2>3, <3>1, <4>1, <4>2
    <3>2. CASE d # c
      <4>1. best'[d] = best[d]
        BY <1>6, <1>9, <3>2
      <4>2. Measured(d)
        BY <1>3, <2>6, <4>1 DEF Measured
      <4>3. mine(d)' = mine(d) /\ theirs(d)' = theirs(d)
        BY <2>3, <3>2 DEF mine, theirs
      <4>4. past.from[d] \in [Clients -> Seq(Entry)] /\ best[d] = FindBestNode(mine(d), theirs(d))
        BY <4>2 DEF Inv, Chosen
      <4>. QED
        BY <2>3, <3>2, <4>1, <4>3, <4>4
    <3>. QED
      BY <3>1, <3>2
  <2>7. Chosen'
    BY <2>6 DEF Chosen
  <2>. QED
    BY <2>5, <2>7 DEF Inv
<1>. QED
  BY <1>3, <1>8, <1>9

LEMMA InvHolds == Spec => []Inv
<1>1. Inv /\ [Next]_vars => Inv'
  <2>. SUFFICES ASSUME Inv, [Next]_vars PROVE Inv'
    OBVIOUS
  <2>1. CASE UNCHANGED vars
    BY <2>1 DEF vars, Inv, Types, Chosen, Measured, mine, theirs
  <2>. QED
    BY <2>1, ReportInv, JoinedInv DEF Next
<1>. QED
  BY <1>1, InitInv, PTL DEF Spec

LEMMA MeasuredLeast ==
    ASSUME Inv, NEW c \in Clients, Measured(c)
    PROVE  /\ mine(c) \in Seq(Entry) /\ theirs(c) \in Seq(Entry)
           /\ best[c] \in cheapest(mine(c), theirs(c))
<1>1. /\ past.from[c] \in [Clients -> Seq(Entry)]
      /\ best[c] = FindBestNode(mine(c), theirs(c)) /\ best[c] # none
  BY DEF Inv, Chosen, Measured
<1>2. mine(c) \in Seq(Entry) /\ theirs(c) \in Seq(Entry)
  BY <1>1, Peers DEF mine, theirs, PeerOf
<1>. QED
  BY <1>1, <1>2, FindsLeast

\* The node selected is one both ends reached, and no other costs the two of them less,
\* for reports of any length, with entries listed twice (FindBestNode).
THEOREM LeastLossCorrect == Spec => []LeastLoss
<1>1. Inv => LeastLoss
  BY MeasuredLeast DEF LeastLoss
<1>. QED
  BY <1>1, InvHolds, PTL

\* Two ends that selected from the same two reports selected the same node, unless two
\* nodes cost the same (FindBestNode, applyNodeRtts).
THEOREM MeetCorrect == Spec => []Meet
<1>1. Inv => Meet
  <2>. SUFFICES ASSUME Inv, NEW c \in Clients, NEW d \in Clients,
                       Measured(c), Measured(d), past.from[c] = past.from[d], best[c] # best[d]
                PROVE  Cardinality(cheapest(mine(c), theirs(c))) > 1
    BY DEF Meet
  <2>1. c # d
    OBVIOUS
  <2>2. mine(d) = theirs(c) /\ theirs(d) = mine(c)
    BY <2>1, Peers DEF mine, theirs, PeerOf
  <2>3. PICK S : S = cheapest(mine(c), theirs(c))
    OBVIOUS
  <2>4. IsFiniteSet(S) /\ best[c] \in S /\ best[d] \in S
    BY <2>2, <2>3, MeasuredLeast, CheapestEither
  <2>5. Cardinality(S) \in Nat /\ Cardinality(S) # 0 /\ Cardinality(S) # 1
    BY <2>4, FS_CardinalityType, FS_EmptySet, FS_Singleton
  <2>. QED
    BY <2>3, <2>5
<1>. QED
  BY <1>1, InvHolds, PTL
===============================================================================
