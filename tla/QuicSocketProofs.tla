--------------------------- MODULE QuicSocketProofs ---------------------------
(***************************************************************************)
(* A QuicSocket, for any streams of its peer, sizes of messages and        *)
(* limits: its properties, and that it is a Transport.                     *)
(*                                                                         *)
(* Control: what may follow a step in a thread's list.  Flow: how the      *)
(* flags, the sockets and the steps still to run go together.  Data: what  *)
(* was read of the stream, and what the reader has made of it.  Story: how *)
(* the flags and the log go together.  Kinds: what a step does to the log. *)
(***************************************************************************)
EXTENDS QuicSocketProperties, SequenceLemmas

-------------------------------------------------------------------------------
(* The numbers of variable length.                                           *)

LEMMA Bytes ==
    ASSUME NEW n \in Nat
    PROVE  n \div 256 \in Nat /\ n % 256 \in 0..255 /\ n = 256 * (n \div 256) + (n % 256)
OBVIOUS

\* Dividing by 256 again and again.
LEMMA Shifting ==
    ASSUME NEW n \in Nat, NEW m \in Nat
    PROVE  LET shifted[k \in 0..m] == IF k = 0 THEN n ELSE shifted[k - 1] \div 256
           IN  /\ shifted[0] = n
               /\ \A k \in 0..m : shifted[k] \in Nat
               /\ \A k \in 1..m : shifted[k] = shifted[k - 1] \div 256
<1> DEFINE Is(f, d) == f = [k \in 0..d |-> IF k = 0 THEN n ELSE f[k - 1] \div 256]
           T == {d \in Nat : \E f \in [0..d -> Nat] : Is(f, d)}
<1>1. 0 \in T
  <2>1. [k \in 0..0 |-> n] \in [0..0 -> Nat] /\ Is([k \in 0..0 |-> n], 0)
    OBVIOUS
  <2>. QED
    BY <2>1
<1>2. ASSUME NEW d \in T
      PROVE  d + 1 \in T
  <2>1. PICK f \in [0..d -> Nat] : Is(f, d)
    OBVIOUS
  <2> DEFINE g == [k \in 0..d + 1 |-> IF k = d + 1 THEN f[d] \div 256 ELSE f[k]]
  <2>2. g \in [0..d + 1 -> Nat]
    <3>1. f[d] \div 256 \in Nat /\ \A k \in 0..d + 1 : k # d + 1 => f[k] \in Nat
      BY Bytes
    <3>. QED
      BY <3>1
  <2>3. \A k \in 0..d + 1 : g[k] = IF k = 0 THEN n ELSE g[k - 1] \div 256
    <3>. TAKE k \in 0..d + 1
    <3>1. CASE k = d + 1
      BY <3>1
    <3>2. CASE k # d + 1
      <4>1. k \in 0..d /\ (k # 0 => k - 1 \in 0..d /\ k - 1 # d + 1)
        BY <3>2
      <4>2. f[k] = IF k = 0 THEN n ELSE f[k - 1] \div 256
        BY <2>1, <4>1
      <4>3. g[k] = f[k] /\ (k # 0 => g[k - 1] = f[k - 1])
        BY <3>2, <4>1
      <4>. QED
        BY <4>2, <4>3
    <3>. QED
      BY <3>1, <3>2
  <2>4. Is(g, d + 1)
    <3>1. DOMAIN g = 0..d + 1 /\ g = [k \in 0..d + 1 |-> g[k]]
      OBVIOUS
    <3>. HIDE DEF g
    <3>. QED
      BY <2>3, <3>1, ZenonT(60)
  <2>. HIDE DEF g, Is
  <2>5. d + 1 \in Nat
    OBVIOUS
  <2>. QED
    BY <2>2, <2>4, <2>5
<1>3. T = Nat
  <2>. HIDE DEF T
  <2>1. T \subseteq Nat
    BY DEF T
  <2>. QED
    BY <1>1, <1>2, <2>1, NatSets
<1>4. PICK f \in [0..m -> Nat] : Is(f, m)
  BY <1>3
<1> DEFINE shifted == CHOOSE g : Is(g, m)
<1>5. Is(shifted, m)
  BY <1>4, ZenonT(60)
<1>6. shifted[0] = n /\ \A k \in 1..m : shifted[k] = shifted[k - 1] \div 256
  <2>. HIDE DEF shifted
  <2>1. 0 \in 0..m /\ \A k \in 1..m : k \in 0..m /\ k # 0
    OBVIOUS
  <2>2. \A k \in 0..m : shifted[k] = IF k = 0 THEN n ELSE shifted[k - 1] \div 256
    BY <1>5
  <2>. QED
    BY <2>1, <2>2
<1>. HIDE DEF shifted
<1>7. \A k \in 0..m : shifted[k] \in Nat
  <2> DEFINE S == {k \in Nat : k \in 0..m => shifted[k] \in Nat}
  <2>1. 0 \in S
    BY <1>6
  <2>2. \A k \in S : k + 1 \in S
    <3>. SUFFICES ASSUME NEW k \in S, k + 1 \in 0..m PROVE shifted[k + 1] \in Nat
      OBVIOUS
    <3>1. k \in 0..m /\ k + 1 \in 1..m /\ (k + 1) - 1 = k
      OBVIOUS
    <3>2. shifted[k] \in Nat /\ shifted[k + 1] = shifted[k] \div 256
      BY <1>6, <3>1
    <3>3. PICK x \in Nat : x = shifted[k]
      BY <3>2
    <3>. QED
      BY <3>2, <3>3, Bytes
  <2>3. S = Nat
    <3>. HIDE DEF S
    <3>1. S \subseteq Nat
      BY DEF S
    <3>. QED
      BY <2>1, <2>2, <3>1, NatSets
  <2>. QED
    BY <2>3
<1>. QED
  BY <1>6, <1>7 DEF shifted

\* What is done with a byte.
LEMMA Remainders ==
    /\ \A x \in Nat : x % 256 \in 0..255 /\ x = 256 * (x \div 256) + (x % 256)
    /\ \A x \in 0..63 : /\ x % 64 = x
                        /\ \A m \in {0, 64, 128, 192} :
                               /\ m + x \in 0..255 /\ (m + x) % 64 = x
                               /\ (m + x) \div 64 = m \div 64
<1>1. ASSUME NEW x \in Nat
      PROVE  x % 256 \in 0..255 /\ x = 256 * (x \div 256) + (x % 256)
  BY Bytes
<1>2. ASSUME NEW x \in 0..63
      PROVE  x % 64 = x
  OBVIOUS
<1>3. ASSUME NEW x \in 0..63, NEW m \in {0, 64, 128, 192}
      PROVE  m + x \in 0..255 /\ (m + x) % 64 = x /\ (m + x) \div 64 = m \div 64
  OBVIOUS
<1>. QED
  BY <1>1, <1>2, <1>3

\* How the length is marked in the first byte.
Mark(len) == CASE len = 1 -> 0 [] len = 2 -> 64 [] len = 4 -> 128 [] len = 8 -> 192

\* What a number is written as, of f: what is left of it after so many bytes.
From(n, len, f) ==
    /\ f[0] = n /\ f[len - 1] < 64
    /\ \A k \in 1..len - 1 : f[k] = f[k - 1] \div 256
    /\ PutWide(n, len)[1] = Mark(len) + f[len - 1]
    /\ \A i \in 2..len : PutWide(n, len)[i] = f[len - i] % 256

LEMMA Written ==
    ASSUME NEW n \in Nat, NEW len \in {1, 2, 4, 8}, Holds(n, len)
    PROVE  \E f \in [Nat -> Nat] : From(n, len, f)
<1> DEFINE shifted[k \in 0..len - 1] == IF k = 0 THEN n ELSE shifted[k - 1] \div 256
           f == [k \in Nat |-> IF k < len THEN shifted[k] ELSE 0]
<1>1. /\ shifted[0] = n
      /\ \A k \in 0..len - 1 : shifted[k] \in Nat
      /\ \A k \in 1..len - 1 : shifted[k] = shifted[k - 1] \div 256
  <2>1. len - 1 \in Nat
    OBVIOUS
  <2>. QED
    BY <2>1, Shifting, ZenonT(60)
<1>2. PutWide(n, len) = [i \in 1..len |-> IF i = 1 THEN Mark(len) + (shifted[len - 1] % 64)
                                                   ELSE shifted[len - i] % 256]
  BY DEF PutWide, Mark
<1>. HIDE DEF shifted
<1>3. /\ f \in [Nat -> Nat] /\ f[0] = n
      /\ \A k \in 1..len - 1 : f[k] = f[k - 1] \div 256
  <2>1. \A k \in 1..len - 1 : /\ k \in Nat /\ k - 1 \in Nat /\ k < len /\ k - 1 < len
    OBVIOUS
  <2>2. 0 < len /\ \A k \in Nat : k < len => k \in 0..len - 1
    OBVIOUS
  <2>. QED
    BY <1>1, <2>1, <2>2
<1>4. \A i \in 1..len : len - i \in 0..len - 1 /\ f[len - i] = shifted[len - i]
  OBVIOUS
<1>. HIDE DEF f
<1>a. ASSUME NEW k \in Nat, k + 3 \in 0..len - 1
      PROVE  f[k + 3] = Shift3(f[k])
  <2>1. /\ k \in 0..len - 1 /\ k + 1 \in 1..len - 1 /\ k + 2 \in 1..len - 1
        /\ k + 3 \in 1..len - 1 /\ (k + 1) - 1 = k /\ (k + 2) - 1 = k + 1
        /\ (k + 3) - 1 = k + 2
    BY <1>a
  <2>2. /\ f[k + 1] = f[k] \div 256 /\ f[k + 2] = f[k + 1] \div 256
        /\ f[k + 3] = f[k + 2] \div 256
    BY <1>3, <2>1
  <2>. QED
    BY <2>2 DEF Shift3
<1>5. f[len - 1] < 64
  <2>1. CASE len = 1
    BY <1>3, <2>1 DEF Holds
  <2>2. CASE len = 2
    <3>1. f[1] = n \div 256 /\ f[1] \in Nat
      BY <1>3, <2>2
    <3>. QED
      BY <2>2, <3>1 DEF Holds
  <2>3. CASE len = 4
    <3>1. f[3] = Shift3(f[0])
      BY <1>a, <2>3
    <3>. QED
      BY <1>3, <2>3, <3>1 DEF Holds
  <2>4. CASE len = 8
    <3>1. f[3] = Shift3(f[0]) /\ f[6] = Shift3(f[3])
      BY <1>a, <2>4
    <3>2. f[7] = f[6] \div 256
      BY <1>3, <2>4
    <3>3. Shift3(Shift3(n)) \div 256 < 64
      BY <2>4 DEF Holds
    <3>. QED
      BY <1>3, <2>4, <3>1, <3>2, <3>3
  <2>. QED
    BY <2>1, <2>2, <2>3, <2>4
<1>6. f[len - 1] = shifted[len - 1] /\ f[len - 1] % 64 = f[len - 1]
  <2>1. f[len - 1] \in Nat /\ f[len - 1] = shifted[len - 1]
    <3>1. 1 \in 1..len /\ len - 1 \in 0..len - 1
      OBVIOUS
    <3>. QED
      BY <1>3, <1>4, <3>1
  <2>2. f[len - 1] \in 0..63
    BY <1>5, <2>1
  <2>. QED
    BY <2>1, <2>2, Remainders
<1>7. /\ PutWide(n, len)[1] = Mark(len) + (shifted[len - 1] % 64)
      /\ \A i \in 2..len : PutWide(n, len)[i] = shifted[len - i] % 256
  <2>1. 1 \in 1..len /\ \A i \in 2..len : i \in 1..len /\ i # 1
    OBVIOUS
  <2>. QED
    BY <1>2, <2>1
<1>8. /\ PutWide(n, len)[1] = Mark(len) + f[len - 1]
      /\ \A i \in 2..len : PutWide(n, len)[i] = f[len - i] % 256
  <2>1. \A i \in 2..len : i \in 1..len
    OBVIOUS
  <2>. QED
    BY <1>4, <1>6, <1>7, <2>1
<1>9. From(n, len, f)
  BY <1>3, <1>5, <1>8 DEF From
<1>. QED
  BY <1>3, <1>9

\* It is of the length that its first byte says.
LEMMA WrittenBytes ==
    ASSUME NEW n \in Nat, NEW len \in {1, 2, 4, 8}, Holds(n, len)
    PROVE  /\ PutWide(n, len) \in Seq(0..255) /\ Len(PutWide(n, len)) = len
           /\ GetUVarIntLen(PutWide(n, len)[1]) = len
<1>0. PICK f \in [Nat -> Nat] : From(n, len, f)
  BY Written
<1>1. /\ f[0] = n /\ f[len - 1] < 64
      /\ PutWide(n, len)[1] = Mark(len) + f[len - 1]
      /\ \A i \in 2..len : PutWide(n, len)[i] = f[len - i] % 256
  BY <1>0 DEF From
<1>2. Mark(len) \in {0, 64, 128, 192} /\ len \in Nat /\ 1 \in 1..len
  BY DEF Mark
<1>3. f[len - 1] \in 0..63
  <2>1. len - 1 \in Nat
    OBVIOUS
  <2>2. PICK x \in Nat : x = f[len - 1]
    BY <2>1
  <2>3. x < 64
    BY <1>1, <2>2
  <2>. QED
    BY <2>2, <2>3
<1>4. PICK m \in {0, 64, 128, 192}, q \in 0..63 :
          m = Mark(len) /\ q = f[len - 1] /\ PutWide(n, len)[1] = m + q
  BY <1>1, <1>2, <1>3
<1>5. GetUVarIntLen(PutWide(n, len)[1]) = len
  <2>1. PutWide(n, len)[1] \div 64 = Mark(len) \div 64
    BY <1>4, Remainders
  <2>2. Mark(len) \div 64 = CASE len = 1 -> 0 [] len = 2 -> 1 [] len = 4 -> 2 [] len = 8 -> 3
    BY DEF Mark
  <2>. QED
    BY <2>1, <2>2 DEF GetUVarIntLen
<1>6. \A i \in 1..len : PutWide(n, len)[i] \in 0..255
  <2>. TAKE i \in 1..len
  <2>1. CASE i = 1
    BY <1>4, <2>1, Remainders
  <2>2. CASE i # 1
    <3>1. len - i \in Nat /\ i \in 2..len
      BY <2>2
    <3>2. f[len - i] \in Nat /\ PutWide(n, len)[i] = f[len - i] % 256
      BY <1>1, <3>1
    <3>. QED
      BY <3>2, Remainders
  <2>. QED
    BY <2>1, <2>2
<1>7. DOMAIN PutWide(n, len) = 1..len /\ PutWide(n, len) \in [1..len -> 0..255]
  <2>1. PutWide(n, len) = [i \in 1..len |-> PutWide(n, len)[i]]
    BY SMTT(60) DEF PutWide
  <2> DEFINE w == PutWide(n, len)
  <2>. HIDE DEF w
  <2>. QED
    BY <1>6, <2>1
<1>. QED
  BY <1>2, <1>5, <1>7, LenProperties

\* A number was written in the first bytes of p.
Begins(p, n, len) == Len(p) >= len /\ \A i \in 1..len : p[i] = PutWide(n, len)[i]

LEMMA Marks == \A len \in {1, 2, 4, 8} : Mark(len) \in {0, 64, 128, 192}
BY DEF Mark

\* The first byte but for its mark.
Low(byte) == byte % 64
LEMMA LowestBits ==
    ASSUME NEW n \in Nat, NEW len \in {1, 2, 4, 8}, NEW f \in [Nat -> Nat], From(n, len, f)
    PROVE  Low(PutWide(n, len)[1]) = f[len - 1]
<1>1. PICK m \in {0, 64, 128, 192} : m = Mark(len)
  BY Marks
<1>2. len - 1 \in Nat
  OBVIOUS
<1>3. PICK x \in Nat : x = f[len - 1]
  BY <1>2
<1>4. x < 64 /\ PutWide(n, len)[1] = m + x
  BY <1>1, <1>3 DEF From
<1>5. (m + x) % 64 = x
  BY <1>4
<1>6. Low(m + x) = x
  BY <1>5 DEF Low
<1>. QED
  BY <1>3, <1>4, <1>6

\* It is what is read.
LEMMA ReadBack ==
    ASSUME NEW n \in Nat, NEW len \in {1, 2, 4, 8}, Holds(n, len),
           NEW p \in Seq(0..255), Begins(p, n, len)
    PROVE  GetUVarInt(p) = [dest |-> n, len |-> len]
<1>1. PICK f \in [Nat -> Nat] : From(n, len, f)
  BY Written
<1>2. /\ len \in Nat /\ 1 \in 1..len /\ Mark(len) \in {0, 64, 128, 192}
  <2>1. len \in Nat /\ 1 \in 1..len
    OBVIOUS
  <2>2. Mark(len) \in {0, 64, 128, 192}
    BY Marks
  <2>. QED
    BY <2>1, <2>2
<1>3. p[1] = PutWide(n, len)[1] /\ GetUVarIntLen(p[1]) = len
  <2>1. p[1] = PutWide(n, len)[1]
    BY <1>2 DEF Begins
  <2>. QED
    BY <2>1, WrittenBytes
<1>4. ~(p = <<>> \/ Len(p) < GetUVarIntLen(p[1]))
  <2>1. Len(p) \in Nat /\ Len(p) # 0 /\ ~(Len(p) < len)
    BY <1>2, LenProperties DEF Begins
  <2>. QED
    BY <1>3, <2>1
<1> DEFINE Is(g, d) == g = [i \in 1..d |-> IF i = 1 THEN Low(p[1])
                                           ELSE (g[i - 1] * 256) + p[i]]
           F == [i \in 1..len |-> f[len - i]]
<1>5. \A i \in 1..len : F[i] = IF i = 1 THEN Low(p[1]) ELSE (F[i - 1] * 256) + p[i]
  <2>. TAKE i \in 1..len
  <2>1. CASE i = 1
    <3>1. PICK x \in Nat : x = f[len - 1]
      BY <1>2
    <3>6. Low(p[1]) = x
      <4>1. Low(PutWide(n, len)[1]) = f[len - 1]
        BY <1>1, LowestBits
      <4>2. p[1] = PutWide(n, len)[1]
        BY <1>3
      <4>3. Low(p[1]) = Low(PutWide(n, len)[1])
        BY <4>2
      <4>. QED
        BY <3>1, <4>1, <4>3
    <3>7. F[i] = x
      BY <2>1, <3>1
    <3>. HIDE DEF F
    <3>. QED
      BY <2>1, <3>6, <3>7
  <2>2. CASE i # 1
    <3>1. /\ i \in 2..len /\ i - 1 \in 1..len /\ len - i \in Nat /\ len - (i - 1) \in Nat
          /\ len - (i - 1) \in 1..len - 1 /\ (len - (i - 1)) - 1 = len - i
      BY <1>2, <2>2
    <3>2. f[len - (i - 1)] = f[len - i] \div 256 /\ p[i] = f[len - i] % 256
      <4>1. f[len - (i - 1)] = f[len - i] \div 256 /\ PutWide(n, len)[i] = f[len - i] % 256
        BY <1>1, <3>1, ZenonT(60) DEF From
      <4>2. p[i] = PutWide(n, len)[i]
        BY DEF Begins
      <4>. QED
        BY <4>1, <4>2
    <3>3. PICK x \in Nat : x = f[len - i]
      BY <3>1
    <3>4. x = 256 * (x \div 256) + (x % 256)
      BY Remainders, SMTT(30)
    <3>5. PICK y \in Nat : y = f[len - (i - 1)]
      BY <3>1
    <3>6. PICK z \in Nat : z = p[i]
      BY <3>2, <3>3, Bytes
    <3>7. y = x \div 256 /\ z = x % 256
      BY <3>2, <3>3, <3>5, <3>6
    <3>8. x = (y * 256) + z
      BY <3>4, <3>7
    <3>. QED
      BY <2>2, <3>1, <3>3, <3>5, <3>6, <3>8
  <2>. QED
    BY <2>1, <2>2
<1>6. Is(F, len)
  BY <1>5, ZenonT(60)
<1> DEFINE number == CHOOSE g : Is(g, len)
<1>7. Is(number, len)
  BY <1>6
<1>8. \A i \in 1..len : number[i] = IF i = 1 THEN Low(p[1])
                                     ELSE (number[i - 1] * 256) + p[i]
  <2>. HIDE DEF number
  <2>. QED
    BY <1>7
<1>9. \A i \in 1..len : number[i] = F[i]
  <2> DEFINE S == {k \in Nat : k + 1 \in 1..len => number[k + 1] = F[k + 1]}
  <2>. HIDE DEF number, F
  <2>1. 0 \in S
    BY <1>2, <1>5, <1>8
  <2>2. ASSUME NEW k \in S
        PROVE  k + 1 \in S
    <3>1. CASE (k + 1) + 1 \in 1..len
      <4>1. PICK i \in 1..len : i = (k + 1) + 1
        BY <3>1
      <4>2. i # 1 /\ i - 1 = k + 1 /\ i - 1 \in 1..len
        BY <1>2, <4>1
      <4>3. number[i - 1] = F[i - 1]
        BY <4>2
      <4>4. number[i] = (number[i - 1] * 256) + p[i] /\ F[i] = (F[i - 1] * 256) + p[i]
        BY <1>5, <1>8, <4>2
      <4>5. number[(k + 1) + 1] = F[(k + 1) + 1]
        BY <4>1, <4>3, <4>4
      <4>. QED
        BY <4>5
    <3>2. CASE (k + 1) + 1 \notin 1..len
      BY <3>2
    <3>. QED
      BY <3>1, <3>2
  <2>3. S = Nat
    <3>. HIDE DEF S
    <3>1. S \subseteq Nat
      BY DEF S
    <3>. QED
      BY <2>1, <2>2, <3>1, NatSets
  <2>4. \A i \in 1..len : i - 1 \in Nat /\ (i - 1) + 1 = i
    BY <1>2
  <2>. QED
    BY <2>3, <2>4
<1>10. number[len] = n
  <2>1. len \in 1..len /\ len - len = 0
    BY <1>2
  <2>2. F[len] = f[0]
    BY <2>1
  <2>. HIDE DEF number, F
  <2>. QED
    BY <1>1, <1>9, <2>1, <2>2 DEF From
<1>11. GetUVarInt(p) = [dest |-> number[len], len |-> len]
  BY <1>3, <1>4 DEF GetUVarInt, Low
<1>. QED
  BY <1>10, <1>11

-------------------------------------------------------------------------------
(* The bytes of a stream.                                                    *)

LEMMA PartBytes ==
    ASSUME NEW part \in StreamPart, Holds(part.number, part.len)
    PROVE  /\ bytesOf(part) \in Seq(0..255)
           /\ part.len \in {1, 2, 4, 8} /\ part.number \in Nat /\ part.payload \in Seq(0..255)
           /\ Len(part.payload) \in Nat
           /\ Len(bytesOf(part)) = part.len + Len(part.payload)
           /\ \A i \in 1..part.len : bytesOf(part)[i] = PutWide(part.number, part.len)[i]
           /\ \A i \in 1..Len(part.payload) : bytesOf(part)[part.len + i] = part.payload[i]
<1>1. part.len \in {1, 2, 4, 8} /\ part.number \in Nat /\ part.payload \in Seq(0..255)
  BY DEF StreamPart
<1> DEFINE w == PutWide(part.number, part.len)
           p == part.payload
<1>2. w \in Seq(0..255) /\ Len(w) = part.len
  BY <1>1, WrittenBytes, ZenonT(60)
<1>3. bytesOf(part) = w \o p
  BY DEF bytesOf
<1>4. part.len \in Nat
  BY <1>1
<1>. HIDE DEF w, p
<1>5. p \in Seq(0..255) /\ Len(p) \in Nat
  BY <1>1, LenProperties DEF p
<1>6. /\ w \o p \in Seq(0..255) /\ Len(w \o p) = part.len + Len(p)
      /\ \A i \in 1..Len(w) + Len(p) : (w \o p)[i] = IF i <= Len(w) THEN w[i] ELSE p[i - Len(w)]
  BY <1>2, <1>5, ConcatProperties
<1>7. \A i \in 1..part.len : (w \o p)[i] = w[i]
  <2>1. \A i \in 1..part.len : i \in 1..Len(w) + Len(p) /\ i <= Len(w)
    BY <1>2, <1>4, <1>5
  <2>. QED
    BY <1>6, <2>1
<1>8. \A i \in 1..Len(p) : (w \o p)[part.len + i] = p[i]
  <2>1. \A i \in 1..Len(p) : /\ part.len + i \in 1..Len(w) + Len(p)
                             /\ ~(part.len + i <= Len(w)) /\ (part.len + i) - Len(w) = i
    BY <1>2, <1>4, <1>5
  <2>. QED
    BY <1>6, <2>1
<1>. QED
  BY <1>1, <1>3, <1>5, <1>6, <1>7, <1>8 DEF w, p

\* The bytes of the first parts, part by part.
LEMMA Upto ==
    ASSUME NEW s \in Streams
    PROVE  /\ bytes(s, 0) = <<>>
           /\ \A n \in 0..Len(s) : bytes(s, n) \in Seq(0..255)
           /\ \A n \in 1..Len(s) : bytes(s, n) = bytes(s, n - 1) \o bytesOf(s[n])
<1>1. /\ s \in Seq(StreamPart) /\ Len(s) \in Nat
      /\ \A i \in 1..Len(s) : s[i] \in StreamPart /\ Holds(s[i].number, s[i].len)
  BY QuicAssumption, LenProperties, ElementOfSeq
<1>2. \A i \in 1..Len(s) : bytesOf(s[i]) \in Seq(0..255)
  BY <1>1, PartBytes
<1> DEFINE Is(f, d) == f = [i \in 0..d |-> IF i = 0 THEN <<>> ELSE f[i - 1] \o bytesOf(s[i])]
           T == {d \in Nat : d <= Len(s) => \E f \in [0..d -> Seq(0..255)] : Is(f, d)}
<1>3. 0 \in T
  <2>1. [i \in 0..0 |-> <<>>] \in [0..0 -> Seq(0..255)] /\ Is([i \in 0..0 |-> <<>>], 0)
    OBVIOUS
  <2>. QED
    BY <2>1
<1>4. ASSUME NEW d \in T
      PROVE  d + 1 \in T
  <2>1. CASE ~(d + 1 <= Len(s))
    <3>1. d + 1 \in Nat
      OBVIOUS
    <3>. HIDE DEF Is
    <3>. QED
      BY <2>1, <3>1
  <2>2. CASE d + 1 <= Len(s)
    <3>1. d <= Len(s) /\ d \in Nat
      BY <1>1, <2>2
    <3>2. PICK f \in [0..d -> Seq(0..255)] : Is(f, d)
      BY <3>1
    <3> DEFINE last == f[d] \o bytesOf(s[d + 1])
               g == [i \in 0..d + 1 |-> IF i = d + 1 THEN last ELSE f[i]]
    <3>3. last \in Seq(0..255)
      <4>1. f[d] \in Seq(0..255)
        BY <3>1
      <4>2. d + 1 \in 1..Len(s)
        BY <1>1, <2>2
      <4>3. bytesOf(s[d + 1]) \in Seq(0..255)
        BY <1>2, <4>2
      <4>. QED
        BY <4>1, <4>3, ConcatProperties
    <3>. HIDE DEF last
    <3>4. g \in [0..d + 1 -> Seq(0..255)]
      <4>1. \A i \in 0..d + 1 : i # d + 1 => f[i] \in Seq(0..255)
        BY <3>1
      <4>. QED
        BY <3>3, <4>1
    <3>5. \A i \in 0..d + 1 : g[i] = IF i = 0 THEN <<>> ELSE g[i - 1] \o bytesOf(s[i])
      <4>. TAKE i \in 0..d + 1
      <4>1. CASE i = d + 1
        <5>1. i # 0 /\ i - 1 = d /\ d \in 0..d + 1 /\ d # d + 1
          BY <3>1, <4>1
        <5>2. g[i] = last /\ g[i - 1] = f[d]
          BY <4>1, <5>1
        <5>. HIDE DEF g
        <5>. QED
          BY <4>1, <5>1, <5>2 DEF last
      <4>2. CASE i # d + 1
        <5>1. i \in 0..d /\ (i # 0 => i - 1 \in 0..d + 1 /\ i - 1 # d + 1)
          BY <3>1, <4>2
        <5>2. f[i] = IF i = 0 THEN <<>> ELSE f[i - 1] \o bytesOf(s[i])
          BY <3>2, <5>1
        <5>3. g[i] = f[i] /\ (i # 0 => g[i - 1] = f[i - 1])
          BY <4>2, <5>1
        <5>. HIDE DEF g
        <5>. QED
          BY <5>2, <5>3
      <4>. QED
        BY <4>1, <4>2
    <3>6. Is(g, d + 1)
      BY <3>5
    <3>. HIDE DEF g, Is
    <3>7. d + 1 \in Nat
      BY <3>1
    <3>. QED
      BY <3>4, <3>6, <3>7
  <2>. QED
    BY <2>1, <2>2
<1>5. T = Nat
  <2>. HIDE DEF T
  <2>1. T \subseteq Nat
    BY DEF T
  <2>. QED
    BY <1>3, <1>4, <2>1, NatSets
<1>6. PICK G \in [0..Len(s) -> Seq(0..255)] : Is(G, Len(s))
  <2>1. Len(s) \in T /\ Len(s) <= Len(s)
    <3>. HIDE DEF T
    <3>. QED
      BY <1>1, <1>5
  <2>. QED
    BY <2>1
<1>7. \A i \in 0..Len(s) : G[i] = IF i = 0 THEN <<>> ELSE G[i - 1] \o bytesOf(s[i])
  BY <1>6
<1>8. ASSUME NEW n \in 0..Len(s)
      PROVE  bytes(s, n) = G[n]
  <2> DEFINE H == [i \in 0..n |-> G[i]]
             f == CHOOSE f : Is(f, n)
  <2>0. n \in Nat /\ \A i \in 0..n : i \in 0..Len(s)
    BY <1>1
  <2>1. \A i \in 0..n : H[i] = IF i = 0 THEN <<>> ELSE H[i - 1] \o bytesOf(s[i])
    <3>. TAKE i \in 0..n
    <3>1. i # 0 => i - 1 \in 0..n
      BY <2>0
    <3>2. H[i] = G[i] /\ (i # 0 => H[i - 1] = G[i - 1])
      BY <3>1
    <3>3. G[i] = IF i = 0 THEN <<>> ELSE G[i - 1] \o bytesOf(s[i])
      BY <1>7, <2>0
    <3>. HIDE DEF H
    <3>. QED
      BY <3>2, <3>3
  <2>2. Is(H, n)
    BY <2>1
  <2>3. Is(f, n)
    <3>. HIDE DEF H, Is
    <3>. QED
      BY <2>2
  <2>4. \A i \in 0..n : f[i] = IF i = 0 THEN <<>> ELSE f[i - 1] \o bytesOf(s[i])
    <3>. HIDE DEF f
    <3>. QED
      BY <2>3
  <2>5. bytes(s, n) = f[n]
    BY DEF bytes
  <2> DEFINE S == {i \in Nat : i <= n => f[i] = G[i]}
  <2>6. 0 \in S
    <3>. HIDE DEF f
    <3>1. 0 \in 0..n
      BY <2>0
    <3>. QED
      BY <1>7, <2>0, <2>4, <3>1
  <2>7. ASSUME NEW i \in S
        PROVE  i + 1 \in S
    <3>. HIDE DEF f
    <3>1. CASE i + 1 <= n
      <4>1. /\ i \in Nat /\ i <= n /\ i + 1 \in 0..n /\ i + 1 # 0 /\ (i + 1) - 1 = i
        BY <2>0, <3>1
      <4>2. f[i + 1] = f[i] \o bytesOf(s[i + 1])
        BY <2>4, <4>1
      <4>3. G[i + 1] = G[i] \o bytesOf(s[i + 1])
        BY <1>7, <2>0, <4>1
      <4>4. f[i] = G[i]
        BY <4>1
      <4>5. f[i + 1] = G[i + 1] /\ i + 1 \in Nat
        BY <4>1, <4>2, <4>3, <4>4
      <4>. QED
        BY <4>5
    <3>2. CASE ~(i + 1 <= n)
      BY <3>2
    <3>. QED
      BY <3>1, <3>2
  <2>8. S = Nat
    <3>. HIDE DEF S
    <3>1. S \subseteq Nat
      BY DEF S
    <3>. QED
      BY <2>6, <2>7, <3>1, NatSets
  <2>9. n \in S /\ n <= n
    <3>. HIDE DEF S
    <3>. QED
      BY <2>0, <2>8
  <2>. QED
    BY <2>5, <2>9
<1>. HIDE DEF Is, T
<1>9. /\ 0 \in 0..Len(s)
      /\ \A n \in 1..Len(s) : n \in 0..Len(s) /\ n - 1 \in 0..Len(s) /\ n # 0
  BY <1>1
<1>. QED
  BY <1>6, <1>7, <1>8, <1>9, ZenonT(60)
-------------------------------------------------------------------------------
(* Control.                                                                  *)

\* The steps of both threads, and those of one.
Asked == {"socketClose", "fireError", "callback", "send", "requestClose", "storeClosing"}
StepsOf(t) ==
    Asked \cup IF t = "app"
                 THEN {"join", "init", "connect", "openStream", "opened", "settle"}
                 ELSE {"events", "marker", "params", "status", "frames", "onClose", "local",
                       "remote"}
Todos == todo \in [Threads -> Seq(QuicSteps)] /\ \A t \in Threads : todo[t] \in Seq(StepsOf(t))

elems(steps) == {steps[i] : i \in DOMAIN steps}
doing(t) == elems(todo[t])

\* What may come after a step in a list.
After(s) ==
    IF s \in {"events", "init", "settle", "opened"} THEN {}
    ELSE IF s \in {"frames", "status"} THEN {"events"}
    ELSE IF s = "marker" THEN {"params", "events"}
    ELSE IF s = "params" THEN {"events"}
    ELSE IF s = "join" THEN {"settle", "init"}
    ELSE IF s \in {"connect", "openStream"} THEN {"opened"}
    ELSE IF s = "fireError" THEN {"socketClose", "events", "opened"}
    ELSE {"frames", "socketClose", "join", "settle", "init", "events", "opened"}

\* The steps that take the place of one, of thread t.
Becomes(t, s) ==
    IF s \in {"join", "opened", "send", "storeClosing", "marker", "params"} THEN {<<>>}
    ELSE IF s = "init" THEN {<<"connect", "opened">>, <<"fireError", "opened">>}
    ELSE IF s = "connect" THEN {<<"fireError">>, <<"openStream">>}
    ELSE IF s = "openStream" THEN {<<>>, <<"fireError", "socketClose">>}
    ELSE IF s = "requestClose"
      THEN {<<>>, <<"storeClosing", "socketClose">>, <<"socketClose">>}
    ELSE IF s = "socketClose" THEN IF t = "app" THEN {<<>>} ELSE {<<>>, <<"onClose">>}
    ELSE IF s = "events"
      THEN {<<"marker", "params", "events">>, <<"frames", "events">>, <<"status", "events">>,
            <<"fireError", "events">>, <<"onClose", "events">>, <<>>}
    ELSE IF s = "status"
      THEN {<<>>, <<"fireError", "socketClose">>, <<"callback", "frames">>}
    ELSE IF s = "frames" THEN {<<>>, <<"callback", "frames">>}
    ELSE IF s = "onClose" THEN {<<"local">>, <<"remote">>}
    ELSE IF s \in {"fireError", "local", "remote", "settle"} THEN {<<>>, <<"callback">>}
    ELSE IF s = "callback" THEN {<<>>, <<"send">>, <<"requestClose">>}
    ELSE {}

Ordering(t) == \A i, j \in DOMAIN todo[t] : i < j => todo[t][j] \in After(todo[t][i])
Ordered == \A t \in Threads : Ordering(t)

Control == Todos /\ Ordered

\* Steps that may replace s.
Fits(s, steps) ==
    /\ \A i, j \in DOMAIN steps : i < j => steps[j] \in After(steps[i])
    /\ \A i \in DOMAIN steps : After(s) \subseteq After(steps[i])

LEMMA Table ==
    \A t \in Threads, s \in QuicSteps : \A steps \in Becomes(t, s) : Fits(s, steps)
<1>. TAKE t \in Threads, s \in QuicSteps
<1>. TAKE steps \in Becomes(t, s)
<1>. USE DEF Becomes, Fits, After
<1>1. CASE steps = <<>>
  BY <1>1
<1>2. CASE s = "events"
  BY <1>2
<1>3. CASE s \in {"init", "connect", "openStream", "requestClose"}
  BY <1>3
<1>4. CASE s \in {"socketClose", "status", "frames", "onClose"}
  BY <1>4
<1>5. CASE s \in {"fireError", "local", "remote", "settle", "callback"}
  BY <1>5
<1>. QED
  BY <1>1, <1>2, <1>3, <1>4, <1>5 DEF QuicSteps

\* A thread runs its own steps only.
LEMMA Belongs ==
    ASSUME NEW t \in Threads, NEW s \in StepsOf(t), NEW steps \in Becomes(t, s)
    PROVE  steps \in Seq(StepsOf(t))
<1> DEFINE S == StepsOf(t)
<1>1. /\ \A x \in Asked : x \in S
      /\ t = "app" =>
             /\ \A x \in {"connect", "openStream", "opened"} : x \in S
             /\ s \in Asked \cup {"join", "init", "connect", "openStream", "opened", "settle"}
      /\ t # "app" =>
             /\ \A x \in {"events", "marker", "params", "status", "frames", "onClose", "local",
                          "remote"} : x \in S
             /\ s \in Asked \cup {"events", "marker", "params", "status", "frames", "onClose",
                                  "local", "remote"}
  BY DEF StepsOf
<1>2. /\ \A x : x \in S => <<x>> \in Seq(S)
      /\ \A x, y : x \in S /\ y \in S => <<x, y>> \in Seq(S)
      /\ \A x, y, z : x \in S /\ y \in S /\ z \in S => <<x, y, z>> \in Seq(S)
      /\ <<>> \in Seq(S)
  <2>. HIDE DEF S
  <2>. QED
    OBVIOUS
<1>. SUFFICES steps \in Seq(S)
  OBVIOUS
<1>. HIDE DEF S
<1>3. CASE t = "app" /\ s \in {"init", "connect", "openStream"}
  <2>1. \/ steps = <<>> \/ steps = <<"connect", "opened">> \/ steps = <<"fireError", "opened">>
        \/ steps = <<"fireError">> \/ steps = <<"openStream">>
        \/ steps = <<"fireError", "socketClose">>
    BY <1>3 DEF Becomes
  <2>2. {"connect", "opened", "fireError", "openStream", "socketClose"} \subseteq S
    BY <1>1, <1>3 DEF Asked
  <2>. QED
    BY <1>2, <2>1, <2>2
<1>4. CASE s \in {"requestClose", "fireError", "local", "remote", "settle", "callback", "join",
                  "opened", "send", "storeClosing", "marker", "params"}
  <2>1. \/ steps = <<>> \/ steps = <<"storeClosing", "socketClose">>
        \/ steps = <<"socketClose">> \/ steps = <<"callback">> \/ steps = <<"send">>
        \/ steps = <<"requestClose">>
    BY <1>4 DEF Becomes
  <2>2. {"storeClosing", "socketClose", "callback", "send", "requestClose"} \subseteq S
    BY <1>1 DEF Asked
  <2>. QED
    BY <1>2, <2>1, <2>2
<1>5. CASE s = "socketClose"
  <2>1. steps = <<>> \/ (t # "app" /\ steps = <<"onClose">>)
    BY <1>5 DEF Becomes
  <2>. QED
    BY <1>1, <1>2, <2>1
<1>6. CASE t # "app" /\ s \in {"status", "frames", "onClose"}
  <2>1. \/ steps = <<>> \/ steps = <<"fireError", "socketClose">>
        \/ steps = <<"callback", "frames">> \/ steps = <<"local">> \/ steps = <<"remote">>
    BY <1>6 DEF Becomes
  <2>2. {"fireError", "socketClose", "callback", "frames", "local", "remote"} \subseteq S
    BY <1>1, <1>6 DEF Asked
  <2>. QED
    BY <1>2, <2>1, <2>2
<1>7. CASE t # "app" /\ s = "events"
  <2>1. \/ steps = <<>> \/ steps = <<"marker", "params", "events">>
        \/ steps = <<"frames", "events">> \/ steps = <<"status", "events">>
        \/ steps = <<"fireError", "events">> \/ steps = <<"onClose", "events">>
    BY <1>7 DEF Becomes
  <2>2. {"marker", "params", "events", "frames", "status", "fireError", "onClose"} \subseteq S
    BY <1>1, <1>7 DEF Asked
  <2>. QED
    BY <1>2, <2>1, <2>2
<1>. QED
  BY <1>1, <1>3, <1>4, <1>5, <1>6, <1>7 DEF Asked

\* Thread t has these steps in place of the first one it had.
Runs(t, steps) ==
    /\ \A i \in DOMAIN steps : i \in DOMAIN todo'[t] /\ todo'[t][i] = steps[i]
    /\ \A i \in DOMAIN todo'[t] :
           \/ i \in DOMAIN steps
           \/ /\ i > Len(steps) /\ i - Len(steps) + 1 \in DOMAIN todo[t]
              /\ i - Len(steps) + 1 # 1 /\ todo'[t][i] = todo[t][i - Len(steps) + 1]
    /\ \A j \in DOMAIN todo[t] :
           j # 1 => /\ j + Len(steps) - 1 \in DOMAIN todo'[t]
                    /\ todo'[t][j + Len(steps) - 1] = todo[t][j]
    /\ DOMAIN steps = 1..Len(steps) /\ Len(steps) \in Nat
    /\ DOMAIN todo'[t] = 1..Len(todo'[t]) /\ Len(todo'[t]) \in Nat

LEMMA Indices ==
    ASSUME Todos, NEW t \in Threads
    PROVE  /\ DOMAIN todo[t] = 1..Len(todo[t]) /\ Len(todo[t]) \in Nat
           /\ todo[t] # <<>> => /\ 1 \in DOMAIN todo[t] /\ Head(todo[t]) = todo[t][1]
           /\ \A i \in DOMAIN todo[t] : todo[t][i] \in StepsOf(t)
           /\ doing(t) = {} => todo[t] = <<>>
           /\ \A x \in doing(t) : x \in StepsOf(t) /\ todo[t] # <<>>
<1>1. todo[t] \in Seq(StepsOf(t))
  BY DEF Todos
<1>2. DOMAIN todo[t] = 1..Len(todo[t]) /\ Len(todo[t]) \in Nat
      /\ (todo[t] # <<>> => Len(todo[t]) # 0)
  BY <1>1, LenProperties, EmptySeq
<1>3. \A i \in DOMAIN todo[t] : todo[t][i] \in StepsOf(t)
  BY <1>1, <1>2, ElementOfSeq
<1>4. todo[t] # <<>> => 1 \in DOMAIN todo[t] /\ Head(todo[t]) = todo[t][1]
  BY <1>1, <1>2
<1>5. todo[t] = <<>> => DOMAIN todo[t] = {}
  OBVIOUS
<1>. QED
  BY <1>2, <1>3, <1>4, <1>5 DEF doing, elems

LEMMA ThenRuns ==
    ASSUME Todos, NEW t \in Threads, todo[t] # <<>>, NEW steps \in Seq(StepsOf(t)),
           todo'[t] = steps \o Tail(todo[t])
    PROVE  todo'[t] \in Seq(StepsOf(t)) /\ Runs(t, steps)
<1> DEFINE rest == Tail(todo[t])
           new == steps \o rest
           n == Len(steps)
<1>1. todo[t] \in Seq(StepsOf(t))
  BY DEF Todos
<1>2. /\ rest \in Seq(StepsOf(t)) /\ Len(rest) = Len(todo[t]) - 1
      /\ \A i \in 1..Len(rest) : rest[i] = todo[t][i + 1]
  BY <1>1, HeadTailProperties
<1>3. /\ new \in Seq(StepsOf(t)) /\ Len(new) = n + Len(rest)
      /\ \A i \in 1..Len(new) : new[i] = IF i <= n THEN steps[i] ELSE rest[i - n]
  BY <1>2, ConcatProperties
<1>4. /\ DOMAIN new = 1..(n + Len(todo[t]) - 1) /\ DOMAIN steps = 1..n
      /\ DOMAIN todo[t] = 1..Len(todo[t]) /\ n \in Nat /\ Len(todo[t]) \in Nat
      /\ Len(todo[t]) # 0
  BY <1>1, <1>2, <1>3, LenProperties, EmptySeq
<1>. HIDE DEF new, rest, n
<1>5. todo'[t] = new
  BY DEF new, rest
<1>9. \A i \in DOMAIN new :
          \/ i \in DOMAIN steps /\ new[i] = steps[i]
          \/ /\ i > n /\ i - n + 1 \in DOMAIN todo[t] /\ i - n + 1 # 1
             /\ new[i] = todo[t][i - n + 1]
  <2>. TAKE i \in DOMAIN new
  <2>1. CASE i <= n
    <3>1. i \in 1..n /\ i \in 1..Len(new)
      BY <1>2, <1>3, <1>4, <2>1
    <3>2. new[i] = steps[i]
      BY <1>3, <2>1, <3>1
    <3>. QED
      BY <1>4, <3>1, <3>2
  <2>2. CASE ~(i <= n)
    <3>1. /\ i \in Int /\ n \in Int /\ Len(rest) \in Int /\ Len(todo[t]) \in Int
          /\ i <= n + Len(todo[t]) - 1 /\ Len(rest) = Len(todo[t]) - 1
      BY <1>2, <1>4
    <3>2. /\ i - n \in 1..Len(rest) /\ (i - n) + 1 = i - n + 1
          /\ i - n + 1 \in 1..Len(todo[t]) /\ i - n + 1 # 1 /\ i > n
      BY <2>2, <3>1
    <3>3. rest[i - n] = todo[t][(i - n) + 1]
      BY <1>2, <3>2
    <3>4. new[i] = rest[i - n]
      BY <1>3, <1>4, <2>2
    <3>. QED
      BY <1>4, <3>2, <3>3, <3>4
  <2>. QED
    BY <2>1, <2>2
<1>10. \A j \in DOMAIN todo[t] : j # 1 =>
           /\ j + n - 1 \in DOMAIN new /\ new[j + n - 1] = todo[t][j]
  <2>. SUFFICES ASSUME NEW j \in DOMAIN todo[t], j # 1
                PROVE  j + n - 1 \in DOMAIN new /\ new[j + n - 1] = todo[t][j]
    OBVIOUS
  <2>1. /\ j + n - 1 \in DOMAIN new /\ j + n - 1 \notin DOMAIN steps
        /\ (j + n - 1) - n + 1 = j
    BY <1>4
  <2>. QED
    BY <1>9, <2>1
<1>11. \A i \in DOMAIN steps : i \in DOMAIN new /\ new[i] = steps[i]
  <2>1. \A i \in DOMAIN steps : i \in DOMAIN new /\ ~(i > n)
    BY <1>4
  <2>. QED
    BY <1>9, <2>1
<1>. QED
  BY <1>3, <1>4, <1>5, <1>9, <1>10, <1>11, LenProperties DEF Runs, n

LEMMA OrderKeeps ==
    ASSUME Todos, Ordered, NEW t \in Threads, NEW s, NEW steps, Runs(t, steps), Fits(s, steps),
           todo[t] # <<>>, s = todo[t][1]
    PROVE  Ordering(t)'
<1> DEFINE n == Len(steps)
           old(i) == i - n + 1
<1>1. /\ DOMAIN todo[t] = 1..Len(todo[t]) /\ Len(todo[t]) \in Nat
      /\ DOMAIN todo'[t] = 1..Len(todo'[t]) /\ Len(todo'[t]) \in Nat
      /\ 1 \in DOMAIN todo[t] /\ n \in Nat /\ DOMAIN steps = 1..n
  BY Indices DEF Runs
<1>2. \A i \in DOMAIN todo'[t] :
          \/ i \in DOMAIN steps /\ todo'[t][i] = steps[i]
          \/ /\ i > n /\ old(i) \in DOMAIN todo[t] /\ old(i) # 1 /\ old(i) > 1
             /\ todo'[t][i] = todo[t][old(i)]
             /\ todo'[t][i] \in After(s)
  <2>. SUFFICES ASSUME NEW i \in DOMAIN todo'[t], i \notin DOMAIN steps
                PROVE  /\ i > n /\ old(i) \in DOMAIN todo[t] /\ old(i) # 1 /\ old(i) > 1
                       /\ todo'[t][i] = todo[t][old(i)] /\ todo'[t][i] \in After(s)
    BY DEF Runs
  <2>1. /\ i > n /\ old(i) \in DOMAIN todo[t] /\ old(i) # 1
        /\ todo'[t][i] = todo[t][old(i)]
    BY DEF Runs
  <2>2. old(i) > 1
    BY <1>1, <2>1
  <2>. QED
    BY <1>1, <2>1, <2>2 DEF Ordered, Ordering
<1>3. ASSUME NEW i \in DOMAIN todo'[t], NEW j \in DOMAIN todo'[t], i < j
      PROVE  todo'[t][j] \in After(todo'[t][i])
  <2>1. CASE j \in DOMAIN steps
    <3>1. i \in DOMAIN steps
      BY <1>1, <1>3, <2>1
    <3>. QED
      BY <1>3, <2>1, <3>1 DEF Fits, Runs
  <2>2. CASE j \notin DOMAIN steps /\ i \in DOMAIN steps
    BY <1>2, <2>2 DEF Fits, Runs
  <2>3. CASE j \notin DOMAIN steps /\ i \notin DOMAIN steps
    <3>1. old(i) < old(j)
      BY <1>1, <1>3
    <3>. QED
      BY <1>2, <2>3, <3>1 DEF Ordered, Ordering
  <2>. QED
    BY <2>1, <2>2, <2>3
<1>. QED
  BY <1>3 DEF Ordering

\* Thread t runs its next step, s, which becomes these steps.
LEMMA AdvanceIn ==
    ASSUME Control, NEW t \in Threads, NEW s, At(t, s), NEW steps \in Becomes(t, s),
           todo'[t] = steps \o Tail(todo[t])
    PROVE  /\ todo'[t] \in Seq(StepsOf(t)) /\ Ordering(t)' /\ s \in StepsOf(t)
           /\ \E T \in SUBSET After(s) :
                  doing(t) = {s} \cup T /\ doing(t)' = elems(steps) \cup T
<1>1. /\ todo[t] # <<>> /\ 1 \in DOMAIN todo[t] /\ todo[t][1] = s /\ s \in StepsOf(t)
      /\ s \in QuicSteps
  <2>1. todo[t] # <<>> /\ Head(todo[t]) = s
    BY DEF At
  <2>2. 1 \in DOMAIN todo[t] /\ todo[t][1] = s /\ s \in StepsOf(t)
    BY <2>1, Indices DEF Control
  <2>. QED
    BY <2>1, <2>2 DEF StepsOf, Asked, QuicSteps
<1>2. steps \in Seq(StepsOf(t)) /\ Fits(s, steps)
  BY <1>1, Belongs, Table
<1>3. todo'[t] \in Seq(StepsOf(t)) /\ Runs(t, steps)
  BY <1>1, <1>2, ThenRuns DEF Control
<1>4. Ordering(t)'
  BY <1>1, <1>2, <1>3, OrderKeeps DEF Control
<1> DEFINE T == {todo[t][j] : j \in DOMAIN todo[t] \ {1}}
<1>7. T \in SUBSET After(s)
  <2>1. \A j \in DOMAIN todo[t] \ {1} : 1 < j
    BY Indices DEF Control
  <2>. QED
    BY <1>1, <2>1 DEF Control, Ordered, Ordering
<1>8. doing(t) = {s} \cup T
  BY <1>1 DEF doing, elems
<1>9. doing(t)' = elems(steps) \cup T
  <2>1. \A x \in doing(t)' : x \in elems(steps) \cup T
    BY <1>3 DEF Runs, doing, elems
  <2>2. \A x \in T : x \in doing(t)'
    <3>. TAKE x \in T
    <3>1. PICK j \in DOMAIN todo[t] : j # 1 /\ todo[t][j] = x
      OBVIOUS
    <3>2. PICK k \in DOMAIN todo'[t] : todo'[t][k] = x
      BY <1>3, <3>1 DEF Runs
    <3>. QED
      BY <3>2 DEF doing, elems
  <2>3. \A i \in DOMAIN steps : steps[i] \in doing(t)'
    BY <1>3 DEF Runs, doing, elems
  <2>4. \A x \in elems(steps) : x \in doing(t)'
    BY <2>3 DEF elems
  <2>. HIDE DEF T
  <2>. QED
    BY <2>1, <2>2, <2>4
<1>. HIDE DEF T
<1>. QED
  BY <1>1, <1>3, <1>4, <1>7, <1>8, <1>9

\* The lists of both threads make a control state.
LEMMA Together ==
    ASSUME Control, todo' \in [Threads -> Seq(QuicSteps)],
           \A t \in Threads : /\ todo'[t] \in Seq(StepsOf(t)) /\ Ordering(t)'
                              \/ todo'[t] = todo[t]
    PROVE  Control'
<1>1. ASSUME NEW t \in Threads
      PROVE  todo'[t] \in Seq(StepsOf(t)) /\ Ordering(t)'
  <2>1. CASE todo'[t] = todo[t]
    BY <2>1 DEF Control, Todos, Ordered, Ordering
  <2>. QED
    BY <2>1
<1>. QED
  BY <1>1 DEF Control, Todos, Ordered

LEMMA Typed ==
    ASSUME Control, NEW t \in Threads, NEW list \in Seq(StepsOf(t)),
           todo' = [todo EXCEPT ![t] = list]
    PROVE  /\ todo' \in [Threads -> Seq(QuicSteps)] /\ todo'[t] = list
           /\ \A u \in Threads : u # t => todo'[u] = todo[u]
<1>1. StepsOf(t) \subseteq QuicSteps
  BY DEF StepsOf, Asked, QuicSteps
<1>2. list \in Seq(QuicSteps)
  BY <1>1, SeqMonotonic
<1>. QED
  BY <1>2 DEF Control, Todos

LEMMA Advance ==
    ASSUME Control, NEW t \in Threads, NEW s, At(t, s), NEW steps \in Becomes(t, s),
           Then(t, steps)
    PROVE  /\ Control' /\ s \in StepsOf(t)
           /\ \E T \in SUBSET After(s) :
                  doing(t) = {s} \cup T /\ doing(t)' = elems(steps) \cup T
           /\ \A u \in Threads : u # t => doing(u)' = doing(u)
<1> DEFINE list == steps \o Tail(todo[t])
<1>1. /\ s \in StepsOf(t) /\ todo[t] # <<>> /\ todo[t] \in Seq(StepsOf(t))
      /\ todo \in [Threads -> Seq(QuicSteps)]
  <2>1. todo[t] # <<>> /\ Head(todo[t]) = s
    BY DEF At
  <2>. QED
    BY <2>1, Indices DEF Control, Todos
<1>2. list \in Seq(StepsOf(t))
  <2>1. steps \in Seq(StepsOf(t))
    BY <1>1, Belongs
  <2>2. Tail(todo[t]) \in Seq(StepsOf(t))
    BY <1>1, HeadTailProperties
  <2>. QED
    BY <2>1, <2>2, ConcatProperties
<1>3. todo' = [todo EXCEPT ![t] = list]
  BY <1>1 DEF Then
<1>. HIDE DEF list
<1>4. /\ todo' \in [Threads -> Seq(QuicSteps)] /\ todo'[t] = list
      /\ \A u \in Threads : u # t => todo'[u] = todo[u]
  BY <1>2, <1>3, Typed
<1>5. /\ Ordering(t)'
      /\ \E T \in SUBSET After(s) :
             doing(t) = {s} \cup T /\ doing(t)' = elems(steps) \cup T
  BY <1>4, AdvanceIn DEF list
<1>6. Control'
  BY <1>2, <1>4, <1>5, Together
<1>7. \A u \in Threads : u # t => doing(u)' = doing(u)
  BY <1>4 DEF doing, elems
<1>. QED
  BY <1>1, <1>5, <1>6, <1>7

\* A thread has another list, of steps that may follow each other.
LEMMA Listed ==
    ASSUME NEW t \in Threads, NEW steps, Fits("opened", steps), todo'[t] = steps
    PROVE  Ordering(t)' /\ doing(t)' = elems(steps)
BY DEF Fits, Ordering, doing

LEMMA Relisted ==
    ASSUME Control, NEW t \in Threads, NEW steps \in Seq(StepsOf(t)), Fits("opened", steps),
           todo' = [todo EXCEPT ![t] = steps]
    PROVE  /\ Control' /\ doing(t)' = elems(steps)
           /\ \A u \in Threads : u # t => doing(u)' = doing(u)
<1>1. /\ todo' \in [Threads -> Seq(QuicSteps)] /\ todo'[t] = steps
      /\ \A u \in Threads : u # t => todo'[u] = todo[u]
  BY Typed
<1>2. Ordering(t)' /\ doing(t)' = elems(steps)
  BY <1>1, Listed
<1>3. Control'
  BY <1>1, <1>2, Together
<1>4. \A u \in Threads : u # t => doing(u)' = doing(u)
  BY <1>1 DEF doing, elems
<1>. QED
  BY <1>2, <1>3, <1>4

LEMMA Elems ==
    /\ elems(<<>>) = {}
    /\ \A x : elems(<<x>>) = {x}
    /\ \A x, y : elems(<<x, y>>) = {x, y}
    /\ \A x, y, z : elems(<<x, y, z>>) = {x, y, z}
BY DEF elems

-------------------------------------------------------------------------------
(* Types.                                                                    *)

\* What is read is a number, of bytes that are there.
LEMMA ReadTypes ==
    ASSUME NEW p \in Seq(0..255)
    PROVE  /\ GetUVarInt(p).len \in {0, 1, 2, 4, 8} /\ GetUVarInt(p).len <= Len(p)
           /\ GetUVarInt(p).dest \in Nat
<1>1. CASE p = <<>> \/ Len(p) < GetUVarIntLen(p[1])
  <2>1. GetUVarInt(p) = [dest |-> 0, len |-> 0]
    BY <1>1 DEF GetUVarInt
  <2>. QED
    BY <2>1, LenProperties
<1>2. CASE ~(p = <<>> \/ Len(p) < GetUVarIntLen(p[1]))
  <2>1. /\ Len(p) \in Nat /\ 1 \in 1..Len(p) /\ DOMAIN p = 1..Len(p)
        /\ \A i \in 1..Len(p) : p[i] \in 0..255
    <3>1. Len(p) \in Nat /\ Len(p) # 0 /\ DOMAIN p = 1..Len(p)
      BY <1>2, LenProperties, EmptySeq
    <3>2. \A i \in 1..Len(p) : p[i] \in 0..255
      BY ElementOfSeq
    <3>. QED
      BY <3>1, <3>2
  <2>2. GetUVarIntLen(p[1]) \in {1, 2, 4, 8}
    <3>1. PICK x \in 0..255 : x = p[1]
      BY <2>1
    <3>2. x \div 64 \in 0..3
      OBVIOUS
    <3>3. PICK q \in 0..3 : q = x \div 64
      BY <3>2
    <3>. QED
      BY <3>1, <3>3 DEF GetUVarIntLen
  <2>3. PICK len \in {1, 2, 4, 8} : len = GetUVarIntLen(p[1])
    BY <2>2
  <2>4. len <= Len(p) /\ len \in 1..len /\ len \in Nat
    BY <1>2, <2>1, <2>3
  <2> DEFINE Is(g, d) == g = [i \in 1..d |-> IF i = 1 THEN Low(p[1])
                                             ELSE (g[i - 1] * 256) + p[i]]
             T == {d \in Nat : d + 1 <= len => \E g \in [1..d + 1 -> Nat] : Is(g, d + 1)}
  <2>5. Low(p[1]) \in Nat
    <3>1. PICK x \in 0..255 : x = p[1]
      BY <2>1
    <3>2. x % 64 \in Nat
      OBVIOUS
    <3>. QED
      BY <3>1, <3>2 DEF Low
  <2>6. 0 \in T
    <3> DEFINE g == [i \in 1..0 + 1 |-> Low(p[1])]
    <3>1. g \in [1..0 + 1 -> Nat] /\ Is(g, 0 + 1)
      BY <2>5
    <3>. QED
      BY <3>1
  <2>7. ASSUME NEW d \in T
        PROVE  d + 1 \in T
    <3>1. CASE (d + 1) + 1 <= len
      <4>1. d \in Nat /\ d + 1 \in Nat /\ d + 1 <= len /\ (d + 1) + 1 \in 1..Len(p)
        BY <2>1, <2>4, <3>1
      <4>2. PICK f \in [1..d + 1 -> Nat] : Is(f, d + 1)
        BY <4>1
      <4>3. \A i \in 1..d + 1 : f[i] = IF i = 1 THEN Low(p[1]) ELSE (f[i - 1] * 256) + p[i]
        BY <4>2
      <4> DEFINE last == (f[d + 1] * 256) + p[(d + 1) + 1]
                 g == [i \in 1..(d + 1) + 1 |-> IF i = (d + 1) + 1 THEN last ELSE f[i]]
      <4>4. last \in Nat
        <5>1. d + 1 \in 1..d + 1
          BY <4>1
        <5>2. PICK x \in Nat : x = f[d + 1]
          BY <5>1
        <5>3. PICK y \in 0..255 : y = p[(d + 1) + 1]
          BY <2>1, <4>1
        <5>4. (x * 256) + y \in Nat
          OBVIOUS
        <5>. QED
          BY <5>2, <5>3, <5>4
      <4>5. \A i \in 1..(d + 1) + 1 : i # (d + 1) + 1 => i \in 1..d + 1
        BY <4>1
      <4>6. g \in [1..(d + 1) + 1 -> Nat]
        <5>. HIDE DEF last
        <5>. QED
          BY <4>4, <4>5
      <4>7. \A i \in 1..(d + 1) + 1 :
                g[i] = IF i = 1 THEN Low(p[1]) ELSE (g[i - 1] * 256) + p[i]
        <5>. TAKE i \in 1..(d + 1) + 1
        <5>1. CASE i = (d + 1) + 1
          <6>1. i # 1 /\ i - 1 = d + 1 /\ i - 1 \in 1..(d + 1) + 1 /\ i - 1 # (d + 1) + 1
            BY <4>1, <5>1
          <6>2. g[i] = last /\ g[i - 1] = f[d + 1]
            BY <5>1, <6>1
          <6>. HIDE DEF g
          <6>. QED
            BY <5>1, <6>1, <6>2 DEF last
        <5>2. CASE i # (d + 1) + 1
          <6>1. i \in 1..d + 1
                /\ (i # 1 => i - 1 \in 1..(d + 1) + 1 /\ i - 1 # (d + 1) + 1)
            BY <4>1, <5>2
          <6>2. f[i] = IF i = 1 THEN Low(p[1]) ELSE (f[i - 1] * 256) + p[i]
            BY <4>3, <6>1
          <6>3. g[i] = f[i] /\ (i # 1 => g[i - 1] = f[i - 1])
            BY <5>2, <6>1
          <6>. HIDE DEF g
          <6>. QED
            BY <6>2, <6>3
        <5>. QED
          BY <5>1, <5>2
      <4>8. Is(g, (d + 1) + 1)
        BY <4>7
      <4>. HIDE DEF g, Is
      <4>. QED
        BY <4>1, <4>6, <4>8
    <3>2. CASE ~((d + 1) + 1 <= len)
      <4>1. d \in Nat /\ d + 1 \in Nat
        OBVIOUS
      <4>. QED
        BY <3>2, <4>1
    <3>. QED
      BY <3>1, <3>2
  <2>8. T = Nat
    <3>. HIDE DEF T
    <3>1. T \subseteq Nat
      BY DEF T
    <3>. QED
      BY <2>6, <2>7, <3>1, NatSets
  <2>9. \E g \in [1..len -> Nat] : Is(g, len)
    <3>1. len - 1 \in T /\ (len - 1) + 1 = len
      <4>. HIDE DEF T
      <4>. QED
        BY <2>4, <2>8
    <3>2. PICK d \in Nat : d \in T /\ d + 1 = len
      <4>. HIDE DEF T
      <4>. QED
        BY <2>8, <3>1
    <3>3. \E g \in [1..d + 1 -> Nat] : Is(g, d + 1)
      <4>1. d + 1 <= len
        BY <2>4, <3>2
      <4>. HIDE DEF Is
      <4>. QED
        BY <3>2, <4>1
    <3>. HIDE DEF Is, T
    <3>. QED
      BY <3>2, <3>3
  <2> DEFINE number == CHOOSE g : Is(g, len)
  <2>10. Is(number, len)
    <3>. HIDE DEF Is
    <3>. QED
      BY <2>9
  <2>11. \A i \in 1..len : number[i] = IF i = 1 THEN Low(p[1])
                                       ELSE (number[i - 1] * 256) + p[i]
    <3>1. PICK g : g = number /\ Is(g, len)
      BY <2>10
    <3>. HIDE DEF number
    <3>2. g = [i \in 1..len |-> IF i = 1 THEN Low(p[1]) ELSE (g[i - 1] * 256) + p[i]]
      BY <3>1
    <3>. QED
      BY <3>1, <3>2
  <2>12. PICK g \in [1..len -> Nat] : \A i \in 1..len :
             g[i] = IF i = 1 THEN Low(p[1]) ELSE (g[i - 1] * 256) + p[i]
    <3>1. PICK f \in [1..len -> Nat] : Is(f, len)
      BY <2>9, ZenonT(60)
    <3>2. f = [i \in 1..len |-> IF i = 1 THEN Low(p[1]) ELSE (f[i - 1] * 256) + p[i]]
      BY <3>1
    <3>3. \A i \in 1..len :
              f[i] = IF i = 1 THEN Low(p[1]) ELSE (f[i - 1] * 256) + p[i]
      BY <3>2
    <3>. QED
      BY <3>3
  <2>13. number[len] \in Nat
    <3>. HIDE DEF number
    <3> DEFINE S == {k \in Nat : k + 1 \in 1..len => number[k + 1] = g[k + 1]}
    <3>1. 0 \in S
      BY <2>4, <2>11, <2>12
    <3>2. ASSUME NEW k \in S
          PROVE  k + 1 \in S
      <4>1. CASE (k + 1) + 1 \in 1..len
        <5>1. PICK i \in 1..len : i = (k + 1) + 1
          BY <4>1
        <5>2. i # 1 /\ i - 1 = k + 1 /\ i - 1 \in 1..len /\ k + 1 \in Nat
          BY <2>4, <5>1
        <5>3. number[i - 1] = g[i - 1]
          BY <5>2
        <5>4. number[i] = (number[i - 1] * 256) + p[i] /\ g[i] = (g[i - 1] * 256) + p[i]
          BY <2>11, <2>12, <5>2
        <5>5. number[(k + 1) + 1] = g[(k + 1) + 1]
          BY <5>1, <5>3, <5>4
        <5>. QED
          BY <5>2, <5>5
      <4>2. CASE (k + 1) + 1 \notin 1..len
        <5>1. k + 1 \in Nat
          OBVIOUS
        <5>. QED
          BY <4>2, <5>1
      <4>. QED
        BY <4>1, <4>2
    <3>3. S = Nat
      <4>. HIDE DEF S
      <4>1. S \subseteq Nat
        BY DEF S
      <4>. QED
        BY <3>1, <3>2, <4>1, NatSets
    <3>4. len - 1 \in Nat /\ (len - 1) + 1 = len
      BY <2>4
    <3>5. number[len] = g[len]
      BY <2>4, <3>3, <3>4
    <3>. QED
      BY <2>4, <2>12, <3>5
  <2>14. GetUVarInt(p) = [dest |-> number[len], len |-> len]
    BY <1>2, <2>3 DEF GetUVarInt, Low
  <2>. HIDE DEF number
  <2>. QED
    BY <2>4, <2>13, <2>14
<1>. QED
  BY <1>1, <1>2

\* Every variable has its type, the messages that were sent included.
Events == Terminal \cup {"open", "request"}
Sent == {sendFramed("marker", ParamsSize), sendFramed("params", ParamsSize)}
            \cup {sendFramed("message", n) : n \in Sizes}
Conns == [state : {"Closed", "Connecting", "Open", "Closing"}, running : BOOLEAN,
          open_notified : BOOLEAN, error_reported : BOOLEAN, close_called : BOOLEAN,
          local_close_requested : BOOLEAN]
Sockets == [made : BOOLEAN, up : BOOLEAN, stream : {"none", "asked", "open"},
            closing : BOOLEAN, silent : BOOLEAN, over : BOOLEAN]
Rxs == [buffer : Seq(0..255), status : BOOLEAN]
Peers == [stream : Streams \cup {<<>>}, bytes : Seq(0..255), handed : Nat]
Logs == Seq(Events)
Wires == Seq(Sent)
Frameses == Seq(Seq(0..255))
Pasts == [log : Logs, wire : Wires, received : Frameses, joinable : BOOLEAN, opens : Nat,
          closes : Nat, sends : Nat]
Types ==
    /\ limit \in LimitSet /\ conn \in Conns /\ socket \in Sockets /\ rx \in Rxs
    /\ peer \in Peers /\ past \in Pasts

LEMMA TypesInit == Init => Types
<1>. SUFFICES ASSUME Init PROVE Types
  OBVIOUS
<1>1. limit \in LimitSet
  BY QuicAssumption DEF Init
<1>2. conn \in Conns /\ socket \in Sockets
  BY DEF Init, Conns, Sockets, NoSocket
<1>3. \A S : <<>> \in Seq(S)
  BY EmptySeq
<1>4. rx \in Rxs /\ peer \in Peers
  BY <1>3 DEF Init, Rxs, Peers
<1>5. past \in Pasts
  BY <1>3 DEF Init, Pasts, Logs, Wires, Frameses
<1>. QED
  BY <1>1, <1>2, <1>4, <1>5 DEF Types

\* What an action may do to the history.
Appended ==
    /\ \A log \in Logs : \A e \in Events : Append(log, e) \in Logs
    /\ \A wire \in Wires : \A m \in Sent : Append(wire, m) \in Wires
    /\ \A received \in Frameses : \A f \in Seq(0..255) : Append(received, f) \in Frameses
    /\ <<>> \in Logs /\ <<>> \in Wires /\ <<>> \in Frameses

LEMMA Appends == Appended
<1>1. ASSUME NEW S, NEW s \in Seq(S), NEW x \in S
      PROVE  Append(s, x) \in Seq(S)
  BY AppendProperties
<1>2. \A S : <<>> \in Seq(S)
  BY EmptySeq
<1>. QED
  BY <1>1, <1>2 DEF Appended, Logs, Wires, Frameses

LEMMA Logging ==
    ASSUME past \in Pasts, NEW e \in Events, Logged(e)
    PROVE  past' \in Pasts
<1>1. Append(past.log, e) \in Logs
  BY Appends DEF Appended, Pasts
<1>. QED
  BY <1>1 DEF Logged, Pasts

LEMMA Sending ==
    ASSUME past \in Pasts, NEW m \in Sent, past' = [past EXCEPT !.wire = Append(@, m)]
    PROVE  past' \in Pasts
<1>1. Append(past.wire, m) \in Wires
  BY Appends DEF Appended, Pasts
<1>. QED
  BY <1>1 DEF Pasts

LEMMA Counting ==
    ASSUME past \in Pasts,
           \/ past' = past \/ past' = [past EXCEPT !.opens = @ + 1]
           \/ past' = [past EXCEPT !.closes = @ + 1] \/ past' = [past EXCEPT !.sends = @ + 1]
           \/ past' = [past EXCEPT !.joinable = FALSE]
    PROVE  past' \in Pasts
<1>1. past.opens + 1 \in Nat /\ past.closes + 1 \in Nat /\ past.sends + 1 \in Nat
  BY DEF Pasts
<1>. QED
  BY <1>1 DEF Pasts

\* A part of a sequence of bytes.
LEMMA Parts ==
    ASSUME NEW s \in Seq(0..255), NEW i \in Nat, i # 0, NEW j \in Nat, j <= Len(s)
    PROVE  SubSeq(s, i, j) \in Seq(0..255)
<1>1. \A k \in i..j : s[k] \in 0..255
  <2>1. \A k \in 1..Len(s) : s[k] \in 0..255
    BY ElementOfSeq
  <2>2. \A k \in i..j : k \in 1..Len(s)
    <3>1. Len(s) \in Nat
      BY LenProperties
    <3>2. PICK n \in Nat : n = Len(s) /\ j <= n
      BY <3>1
    <3>3. \A k \in i..j : k \in 1..n
      BY <3>2
    <3>. QED
      BY <3>2, <3>3
  <2>. QED
    BY <2>1, <2>2
<1>2. PICK S \in {0..255} : S = 0..255
  OBVIOUS
<1>3. \A k \in i..j : s[k] \in S
  BY <1>1, <1>2
<1>4. SubSeq(s, i, j) \in Seq(S)
  <2>1. i \in Int /\ j \in Int
    OBVIOUS
  <2>. QED
    BY <1>3, <2>1, SubSeqProperties
<1>. QED
  BY <1>2, <1>4

LEMMA StepTypes ==
    ASSUME Types, NEW t \in Threads, Step(t)
    PROVE  Types'
<1>1. CASE Send(t)
  <2>1. CASE past' = past
    BY <1>1, <2>1 DEF Types, Send
  <2>2. CASE past' # past
    <3>1. PICK n \in Sizes : past' = [past EXCEPT !.wire = Append(@, sendFramed("message", n))]
      BY <1>1, <2>2 DEF Send
    <3>2. PICK m \in Sent : m = sendFramed("message", n)
      BY DEF Sent
    <3>3. past' \in Pasts
      BY <3>1, <3>2, Sending DEF Types
    <3>. QED
      BY <1>1, <3>3 DEF Types, Send
  <2>. QED
    BY <2>1, <2>2
<1>2. CASE RequestClose(t)
  <2>1. conn' \in Conns
    BY <1>2 DEF Types, RequestClose, Conns
  <2>2. past' \in Pasts
    BY <1>2, Logging DEF Types, RequestClose, Events
  <2>. QED
    BY <1>2, <2>1, <2>2 DEF Types, RequestClose, OnlyConn
<1>3. CASE StoreClosing(t)
  <2>1. conn' \in Conns
    BY <1>3 DEF Types, StoreClosing, Conns
  <2>. QED
    BY <1>3, <2>1 DEF Types, StoreClosing, OnlyConn
<1>4. CASE SocketClose(t)
  <2>1. socket' \in Sockets
    BY <1>4 DEF Types, SocketClose, Sockets
  <2>. QED
    BY <1>4, <2>1 DEF Types, SocketClose, OnlySocket
<1>5. CASE FireError(t)
  <2>1. conn' \in Conns
    BY <1>5 DEF Types, FireError, Conns
  <2>2. past' \in Pasts
    BY <1>5, Logging DEF Types, FireError, Events, Terminal
  <2>. QED
    BY <1>5, <2>1, <2>2 DEF Types, FireError, OnlyConn
<1>6. CASE Callback(t)
  <2>1. past' \in Pasts
    BY <1>6, Counting DEF Types, Callback
  <2>. QED
    BY <1>6, <2>1 DEF Types, Callback
<1>. QED
  BY <1>1, <1>2, <1>3, <1>4, <1>5, <1>6 DEF Step

LEMMA AppTypes ==
    ASSUME Types,
           InitAll \/ Connect \/ OpenStream \/ Opened \/ Join \/ Settle \/ Open \/ CallSend
               \/ CloseAsync \/ Close
    PROVE  Types'
<1>1. CASE InitAll
  <2>1. conn' \in Conns
    <3>1. PICK s \in {conn.state, "Connecting"} :
              conn' = [state |-> s, running |-> s = "Connecting", open_notified |-> FALSE,
                       error_reported |-> FALSE, close_called |-> FALSE,
                       local_close_requested |-> FALSE]
      BY <1>1 DEF InitAll
    <3>2. s \in {"Closed", "Connecting", "Open", "Closing"} /\ (s = "Connecting") \in BOOLEAN
      BY DEF Types, Conns
    <3>. QED
      BY <3>1, <3>2 DEF Conns
  <2>2. socket' \in Sockets
    <3>1. conn'.running \in BOOLEAN
      BY <2>1 DEF Conns
    <3>. QED
      BY <1>1, <3>1 DEF InitAll, Sockets, NoSocket
  <2>3. rx' \in Rxs
    BY <1>1, EmptySeq DEF InitAll, Rxs
  <2>4. peer' \in Peers
    <3>1. PICK s \in Streams : peer' = [stream |-> s, bytes |-> bytes(s, Len(s)), handed |-> 0]
      BY <1>1 DEF InitAll
    <3>2. Len(s) \in Nat /\ Len(s) \in 0..Len(s)
      BY QuicAssumption, LenProperties
    <3>3. bytes(s, Len(s)) \in Seq(0..255)
      BY <3>2, Upto
    <3>. QED
      BY <3>1, <3>3 DEF Peers
  <2>5. past' \in Pasts
    BY <1>1, Appends DEF Types, InitAll, Pasts, Appended
  <2>. QED
    BY <1>1, <2>1, <2>2, <2>3, <2>4, <2>5 DEF Types, InitAll
<1>2. CASE Connect \/ OpenStream \/ Opened \/ Join
  <2>1. socket' \in Sockets
    BY <1>2 DEF Types, Connect, OpenStream, Opened, Join, Sockets, OnlyTodo
  <2>2. past' \in Pasts
    BY <1>2, Counting DEF Types, Connect, OpenStream, Opened, Join, OnlyTodo
  <2>. QED
    BY <1>2, <2>1, <2>2 DEF Types, Connect, OpenStream, Opened, Join, OnlySocket, OnlyTodo
<1>3. CASE Settle
  <2>1. conn' \in Conns
    BY <1>3 DEF Types, Settle, Conns
  <2>2. past' \in Pasts
    BY <1>3, Logging DEF Types, Settle, Events, Terminal
  <2>. QED
    BY <1>3, <2>1, <2>2 DEF Types, Settle, OnlyConn
<1>4. CASE Open \/ CallSend \/ CloseAsync \/ Close
  <2>1. past' \in Pasts
    BY <1>4, Counting DEF Types, Open, CallSend, CloseAsync, Close
  <2>. QED
    BY <1>4, <2>1 DEF Types, Open, CallSend, CloseAsync, Close
<1>. QED
  BY <1>1, <1>2, <1>3, <1>4

LEMMA LoopTypes ==
    ASSUME Types,
           SendHead \/ Status \/ Frames \/ OnClose("loop") \/ FireClose \/ LoopEnds
               \/ StreamOpens \/ Recv \/ Fails \/ Ends
    PROVE  Types'
<1>1. CASE SendHead
  <2>1. PICK part \in {"marker", "params"} :
            past' = [past EXCEPT !.wire = Append(@, sendFramed(part, ParamsSize))]
                \/ past' = past
    BY <1>1 DEF SendHead
  <2>2. PICK m \in Sent : m = sendFramed(part, ParamsSize)
    BY DEF Sent
  <2>3. past' \in Pasts
    BY <2>1, <2>2, Sending DEF Types
  <2>. QED
    BY <1>1, <2>3 DEF Types, SendHead
<1>2. CASE Status
  <2>1. conn' \in Conns
    <3>1. conn' = conn \/ conn' = [conn EXCEPT !.open_notified = TRUE, !.state = "Open"]
      BY <1>2 DEF Status
    <3>. QED
      BY <3>1 DEF Types, Conns
  <2>2. past' \in Pasts
    BY <1>2, Logging DEF Types, Status, Events
  <2>3. rx' \in Rxs
    <3> DEFINE code == GetUVarInt(rx.buffer)
    <3>1. rx.buffer \in Seq(0..255) /\ rx.status \in BOOLEAN
      BY DEF Types, Rxs
    <3>2. PICK len \in {0, 1, 2, 4, 8} : len = code.len
      BY <3>1, ReadTypes
    <3>3. len + 1 \in Nat /\ len + 1 # 0
      OBVIOUS
    <3>a. PICK m \in Nat : m = Len(rx.buffer)
      BY <3>1, LenProperties
    <3>b. SubSeq(rx.buffer, len + 1, m) \in Seq(0..255)
      <4>1. m <= Len(rx.buffer)
        BY <3>a
      <4>. QED
        BY <3>1, <3>3, <4>1, Parts
    <3>4. SubSeq(rx.buffer, code.len + 1, Len(rx.buffer)) \in Seq(0..255)
      BY <3>2, <3>a, <3>b
    <3>5. \/ rx' = rx
          \/ rx' = [buffer |-> SubSeq(rx.buffer, code.len + 1, Len(rx.buffer)), status |-> TRUE]
      BY <1>2 DEF Status
    <3>. HIDE DEF code
    <3>6. CASE rx' = rx
      BY <3>6 DEF Types
    <3>7. CASE rx' # rx
      <4>1. PICK b \in Seq(0..255) : rx' = [buffer |-> b, status |-> TRUE]
        BY <3>4, <3>5, <3>7
      <4>. QED
        BY <4>1 DEF Rxs
    <3>. QED
      BY <3>6, <3>7
  <2>. QED
    BY <1>2, <2>1, <2>2, <2>3 DEF Types, Status
<1>3. CASE Frames
  <2> DEFINE length == GetUVarInt(rx.buffer)
             end == length.len + length.dest
  <2>1. rx.buffer \in Seq(0..255) /\ rx.status \in BOOLEAN
    BY DEF Types, Rxs
  <2>2. PICK len \in {0, 1, 2, 4, 8}, dest \in Nat : len = length.len /\ dest = length.dest
    BY <2>1, ReadTypes
  <2>3. len + 1 \in Nat /\ len + 1 # 0
        /\ len + dest \in Nat /\ (len + dest) + 1 # 0 /\ (len + dest) + 1 \in Nat
    OBVIOUS
  <2>a. end = len + dest
    BY <2>2
  <2>b. PICK m \in Nat : m = Len(rx.buffer)
    BY <2>1, LenProperties
  <2>4. \/ rx' = rx /\ past' = past
        \/ /\ ~(Len(rx.buffer) < end)
           /\ rx' = [rx EXCEPT !.buffer = SubSeq(@, end + 1, Len(@))]
           /\ past' = [past EXCEPT !.received =
                           Append(@, SubSeq(rx.buffer, length.len + 1, end))]
    BY <1>3 DEF Frames
  <2>. HIDE DEF length, end
  <2>5. SubSeq(rx.buffer, end + 1, Len(rx.buffer)) \in Seq(0..255)
    <3>1. m <= Len(rx.buffer)
      BY <2>b
    <3>2. SubSeq(rx.buffer, (len + dest) + 1, m) \in Seq(0..255)
      BY <2>1, <2>3, <3>1, Parts
    <3>. QED
      BY <2>a, <2>b, <3>2
  <2>6. ~(Len(rx.buffer) < end) => SubSeq(rx.buffer, length.len + 1, end) \in Seq(0..255)
    <3>1. ~(Len(rx.buffer) < end) => len + dest <= Len(rx.buffer)
      BY <2>a, <2>b
    <3>2. len + dest <= Len(rx.buffer) => SubSeq(rx.buffer, len + 1, len + dest) \in Seq(0..255)
      BY <2>1, <2>3, Parts
    <3>. QED
      BY <2>2, <2>a, <3>1, <3>2
  <2>7. rx' \in Rxs
    BY <2>4, <2>5 DEF Types, Rxs
  <2>8. past' \in Pasts
    <3>1. CASE past' = past
      BY <3>1 DEF Types
    <3>2. CASE past' # past
      <4>1. Append(past.received, SubSeq(rx.buffer, length.len + 1, end)) \in Frameses
        BY <2>4, <2>6, <3>2, Appends DEF Appended, Types, Pasts
      <4>. QED
        BY <2>4, <3>2, <4>1 DEF Types, Pasts
    <3>. QED
      BY <3>1, <3>2
  <2>. QED
    BY <1>3, <2>7, <2>8 DEF Types, Frames
<1>4. CASE OnClose("loop") \/ LoopEnds \/ StreamOpens \/ Fails \/ Ends
  <2>1. socket' \in Sockets
    BY <1>4 DEF Types, OnClose, LoopEnds, StreamOpens, Fails, Ends, Sockets, OnlyTodo
  <2>. QED
    BY <1>4, <2>1 DEF Types, OnClose, LoopEnds, StreamOpens, Fails, Ends, OnlySocket, OnlyTodo
<1>5. CASE FireClose
  <2>1. PICK how \in {"local", "remote"} :
            /\ \/ past' = past \/ Logged(how)
            /\ \/ conn' = [conn EXCEPT !.close_called = TRUE]
               \/ conn' = [conn EXCEPT !.close_called = TRUE, !.state = "Closed",
                                       !.running = FALSE]
            /\ OnlyConn
    BY <1>5 DEF FireClose
  <2>2. conn' \in Conns
    BY <2>1 DEF Types, Conns
  <2>3. past' \in Pasts
    BY <2>1, Logging DEF Types, Events, Terminal
  <2>. QED
    BY <2>1, <2>2, <2>3 DEF Types, OnlyConn
<1>6. CASE Recv
  <2>1. PICK n \in peer.handed + 1..Len(peer.bytes) :
            /\ rx' = [rx EXCEPT !.buffer = @ \o SubSeq(peer.bytes, peer.handed + 1, n)]
            /\ peer' = [peer EXCEPT !.handed = n]
    BY <1>6 DEF Recv
  <2>2. peer.handed + 1 \in Nat /\ peer.handed + 1 # 0 /\ peer.bytes \in Seq(0..255)
        /\ Len(peer.bytes) \in Nat
    BY LenProperties DEF Types, Peers
  <2>3. n \in Nat /\ n <= Len(peer.bytes)
    BY <2>2
  <2>4. SubSeq(peer.bytes, peer.handed + 1, n) \in Seq(0..255)
    BY <2>2, <2>3, Parts
  <2>5. rx.buffer \o SubSeq(peer.bytes, peer.handed + 1, n) \in Seq(0..255)
    BY <2>4, ConcatProperties DEF Types, Rxs
  <2>6. rx' \in Rxs
    BY <2>1, <2>5 DEF Types, Rxs
  <2>7. peer' \in Peers
    BY <2>1, <2>3 DEF Types, Peers
  <2>. QED
    BY <1>6, <2>6, <2>7 DEF Types, Recv
<1>. QED
  BY <1>1, <1>2, <1>3, <1>4, <1>5, <1>6

LEMMA TypesNext == Types /\ [Next]_vars => Types'
<1>. SUFFICES ASSUME Types, [Next]_vars PROVE Types'
  OBVIOUS
<1>1. CASE UNCHANGED vars
  BY <1>1 DEF vars, Types
<1>2. CASE Step("app") \/ Step("loop")
  BY <1>2, StepTypes DEF Threads
<1>3. CASE InitAll \/ Connect \/ OpenStream \/ Opened \/ Join \/ Settle \/ Open \/ CallSend
               \/ CloseAsync \/ Close
  BY <1>3, AppTypes
<1>4. CASE SendHead \/ Status \/ Frames \/ OnClose("loop") \/ FireClose \/ LoopEnds
               \/ StreamOpens \/ Recv \/ Fails \/ Ends
  BY <1>4, LoopTypes
<1>. QED
  BY <1>1, <1>2, <1>3, <1>4 DEF Next, AppStep, LoopStep

-------------------------------------------------------------------------------
(* Flow.                                                                     *)

Meets(t, steps) == doing(t) \cap steps # {}

\* The loop is up as long as it has events to wait for; the application waits for it
\* before it settles or begins again, and asks for the stream before there is one.
Lives ==
    /\ socket.up <=> "events" \in doing("loop")
    /\ doing("loop") # {} => socket.up
    /\ socket.over => socket.silent
    /\ Meets("app", {"settle", "init"}) /\ "join" \notin doing("app") => ~socket.up
    /\ "connect" \in doing("app") => ~socket.up /\ ~conn.close_called
    /\ Meets("app", {"connect", "openStream", "fireError"}) => socket.stream = "none"

\* A connection that was reported closed hands over nothing, or is about to be told so;
\* and one that is over was reported.
Closes ==
    /\ conn.error_reported => conn.close_called
    /\ conn.close_called => ~conn.running /\ conn.state \in {"Closed", "Closing"}
    /\ socket.up /\ conn.close_called
           => socket.silent \/ socket.stream = "none" \/ "socketClose" \in doing("loop")
    /\ "openStream" \in doing("app") /\ conn.close_called => socket.silent
    /\ "fireError" \in doing("loop") =>
           socket.silent \/ (socket.stream = "open" /\ "socketClose" \in doing("loop"))
    /\ socket.over => conn.close_called \/ Meets("loop", {"local", "remote"})
    /\ Meets("loop", {"local", "remote"}) => socket.over
    /\ past.opens > 0 =>
           conn.close_called \/ Meets("app", {"init", "connect", "fireError"}) \/ socket.up
    /\ "status" \in doing("loop") =>
           ~conn.close_called /\ ~socket.silent /\ socket.stream = "open"

\* The marker and the parameters come first.
Wired ==
    /\ socket.stream # "open" => Len(past.wire) = 0
    /\ socket.stream = "open" /\ conn.state = "Open" => Len(past.wire) >= 2
    /\ Meets("loop", {"marker", "params"}) => socket.stream = "open"
    /\ "marker" \in doing("loop") => "params" \in doing("loop") /\ Len(past.wire) = 0
    /\ "params" \in doing("loop") /\ "marker" \notin doing("loop") => Len(past.wire) = 1
    /\ socket.stream = "open" /\ ~socket.silent /\ "socketClose" \notin doing("loop")
           /\ ~Meets("loop", {"marker", "params"}) => Len(past.wire) >= 2
    /\ socket.stream = "asked" \/ Meets("app", {"connect", "openStream"})
           => conn.state # "Open"
    /\ \A i \in DOMAIN past.wire :
           past.wire[i].what = IF i \in DOMAIN head THEN head[i] ELSE "message"

Flow == Lives /\ Closes /\ Wired

LEMMA CallbackFlow ==
    ASSUME Control, Types, Flow, NEW t \in Threads, Callback(t)
    PROVE  Control' /\ Flow'
<1>1. At(t, "callback") /\ t \in Threads
  BY DEF Callback, Threads
<1>2. PICK steps \in Becomes(t, "callback") : Then(t, steps)
  BY DEF Callback, Becomes
<1>3. PICK T \in SUBSET After("callback") :
          /\ doing(t) = {"callback"} \cup T /\ doing(t)' = elems(steps) \cup T
          /\ \A u \in Threads : u # t => doing(u)' = doing(u)
          /\ Control' /\ "callback" \in StepsOf(t)
  BY <1>1, <1>2, Advance
<1>4. elems(steps) \in {{}, {"send"}, {"requestClose"}}
  BY <1>2, Elems DEF Becomes, Callback
<1>5. /\ conn' = conn /\ socket' = socket
      /\ past'.wire = past.wire
      /\ past'.opens = past.opens
  BY DEF Callback, Types, Conns, Sockets, Pasts, OnlyConn, OnlySocket, OnlyTodo, Logged
<1>6. \A u \in {"app", "loop"} : u # t => doing(u)' = doing(u)
  BY <1>3 DEF Threads
<1>7. Lives'
  <2>1. CASE t = "app"
    BY <1>3, <1>4, <1>5, <1>6, <2>1 DEF Flow, Lives, Meets, After
  <2>2. CASE t = "loop"
    BY <1>3, <1>4, <1>5, <1>6, <2>2 DEF Flow, Lives, Meets, After
  <2>. QED
    BY <2>1, <2>2 DEF Threads
<1>8. Closes'
  <2>1. CASE t = "app"
    BY <1>3, <1>4, <1>5, <1>6, <2>1 DEF Flow, Lives, Closes, Meets, After
  <2>2. CASE t = "loop"
    BY <1>3, <1>4, <1>5, <1>6, <2>2 DEF Flow, Lives, Closes, Meets, After
  <2>. QED
    BY <2>1, <2>2 DEF Threads
<1>9. Wired'
  <2>1. CASE t = "app"
    BY <1>3, <1>4, <1>5, <1>6, <2>1 DEF Flow, Lives, Closes, Wired, Meets, After
  <2>2. CASE t = "loop"
    BY <1>3, <1>4, <1>5, <1>6, <2>2 DEF Flow, Lives, Closes, Wired, Meets, After
  <2>. QED
    BY <2>1, <2>2 DEF Threads
<1>. QED
  BY <1>3, <1>7, <1>8, <1>9 DEF Flow

LEMMA StoreClosingFlow ==
    ASSUME Control, Types, Flow, NEW t \in Threads, StoreClosing(t)
    PROVE  Control' /\ Flow'
<1>1. At(t, "storeClosing") /\ t \in Threads
  BY DEF StoreClosing, Threads
<1>2. PICK steps \in Becomes(t, "storeClosing") : Then(t, steps)
  BY DEF StoreClosing, Becomes
<1>3. PICK T \in SUBSET After("storeClosing") :
          /\ doing(t) = {"storeClosing"} \cup T /\ doing(t)' = elems(steps) \cup T
          /\ \A u \in Threads : u # t => doing(u)' = doing(u)
          /\ Control' /\ "storeClosing" \in StepsOf(t)
  BY <1>1, <1>2, Advance
<1>4. elems(steps) \in {{}}
  BY <1>2, Elems DEF Becomes, StoreClosing
<1>5. /\ socket' = socket /\ past' = past
      /\ conn'.state = "Closing"
      /\ conn'.running = conn.running /\ conn'.close_called = conn.close_called
      /\ conn'.error_reported = conn.error_reported
  BY DEF StoreClosing, Types, Conns, Sockets, Pasts, OnlyConn, OnlySocket, OnlyTodo, Logged
<1>6. \A u \in {"app", "loop"} : u # t => doing(u)' = doing(u)
  BY <1>3 DEF Threads
<1>7. Lives'
  <2>1. CASE t = "app"
    BY <1>3, <1>4, <1>5, <1>6, <2>1 DEF Flow, Lives, Meets, After
  <2>2. CASE t = "loop"
    BY <1>3, <1>4, <1>5, <1>6, <2>2 DEF Flow, Lives, Meets, After
  <2>. QED
    BY <2>1, <2>2 DEF Threads
<1>8. Closes'
  <2>1. CASE t = "app"
    BY <1>3, <1>4, <1>5, <1>6, <2>1 DEF Flow, Lives, Closes, Meets, After
  <2>2. CASE t = "loop"
    BY <1>3, <1>4, <1>5, <1>6, <2>2 DEF Flow, Lives, Closes, Meets, After
  <2>. QED
    BY <2>1, <2>2 DEF Threads
<1>9. Wired'
  <2>1. CASE t = "app"
    BY <1>3, <1>4, <1>5, <1>6, <2>1 DEF Flow, Lives, Closes, Wired, Meets, After
  <2>2. CASE t = "loop"
    BY <1>3, <1>4, <1>5, <1>6, <2>2 DEF Flow, Lives, Closes, Wired, Meets, After
  <2>. QED
    BY <2>1, <2>2 DEF Threads
<1>. QED
  BY <1>3, <1>7, <1>8, <1>9 DEF Flow

LEMMA RequestCloseFlow ==
    ASSUME Control, Types, Flow, NEW t \in Threads, RequestClose(t)
    PROVE  Control' /\ Flow'
<1>1. At(t, "requestClose") /\ t \in Threads
  BY DEF RequestClose, Threads
<1>2. PICK steps \in Becomes(t, "requestClose") : Then(t, steps)
  BY DEF RequestClose, Becomes
<1>3. PICK T \in SUBSET After("requestClose") :
          /\ doing(t) = {"requestClose"} \cup T /\ doing(t)' = elems(steps) \cup T
          /\ \A u \in Threads : u # t => doing(u)' = doing(u)
          /\ Control' /\ "requestClose" \in StepsOf(t)
  BY <1>1, <1>2, Advance
<1>4. elems(steps) \in {{}, {"socketClose"}, {"storeClosing", "socketClose"}}
  BY <1>2, Elems DEF Becomes, RequestClose
<1>5. /\ socket' = socket
      /\ past'.wire = past.wire
      /\ past'.opens = past.opens
      /\ conn'.state = conn.state
      /\ conn'.running = conn.running /\ conn'.close_called = conn.close_called
      /\ conn'.error_reported = conn.error_reported
  BY DEF RequestClose, Types, Conns, Sockets, Pasts, OnlyConn, OnlySocket, OnlyTodo, Logged
<1>6. \A u \in {"app", "loop"} : u # t => doing(u)' = doing(u)
  BY <1>3 DEF Threads
<1>7. Lives'
  <2>1. CASE t = "app"
    BY <1>3, <1>4, <1>5, <1>6, <2>1 DEF Flow, Lives, Meets, After
  <2>2. CASE t = "loop"
    BY <1>3, <1>4, <1>5, <1>6, <2>2 DEF Flow, Lives, Meets, After
  <2>. QED
    BY <2>1, <2>2 DEF Threads
<1>8. Closes'
  <2>1. CASE t = "app"
    BY <1>3, <1>4, <1>5, <1>6, <2>1 DEF Flow, Lives, Closes, Meets, After
  <2>2. CASE t = "loop"
    BY <1>3, <1>4, <1>5, <1>6, <2>2 DEF Flow, Lives, Closes, Meets, After
  <2>. QED
    BY <2>1, <2>2 DEF Threads
<1>9. Wired'
  <2>1. CASE t = "app"
    BY <1>3, <1>4, <1>5, <1>6, <2>1 DEF Flow, Lives, Closes, Wired, Meets, After
  <2>2. CASE t = "loop"
    BY <1>3, <1>4, <1>5, <1>6, <2>2 DEF Flow, Lives, Closes, Wired, Meets, After
  <2>. QED
    BY <2>1, <2>2 DEF Threads
<1>. QED
  BY <1>3, <1>7, <1>8, <1>9 DEF Flow

LEMMA SocketCloseFlow ==
    ASSUME Control, Types, Flow, NEW t \in Threads, SocketClose(t)
    PROVE  Control' /\ Flow'
<1>1. At(t, "socketClose") /\ t \in Threads
  BY DEF SocketClose, Threads
<1>2. PICK steps \in Becomes(t, "socketClose") : Then(t, steps)
  BY DEF SocketClose, Becomes
<1>3. PICK T \in SUBSET After("socketClose") :
          /\ doing(t) = {"socketClose"} \cup T /\ doing(t)' = elems(steps) \cup T
          /\ \A u \in Threads : u # t => doing(u)' = doing(u)
          /\ Control' /\ "socketClose" \in StepsOf(t)
  BY <1>1, <1>2, Advance
<1>4. elems(steps) \in {{}, {"onClose"}}
  BY <1>2, Elems DEF Becomes, SocketClose
<1>5. /\ conn' = conn /\ past' = past
      /\ socket'.up = socket.up /\ socket'.stream = socket.stream /\ socket'.over = socket.over
      /\ t = "loop" => socket'.silent
      /\ t = "app" => socket'.silent = socket.silent
  BY DEF SocketClose, Types, Conns, Sockets, Pasts, OnlyConn, OnlySocket, OnlyTodo, Logged
<1>6. \A u \in {"app", "loop"} : u # t => doing(u)' = doing(u)
  BY <1>3 DEF Threads
<1>7. Lives'
  <2>1. CASE t = "app"
    BY <1>3, <1>4, <1>5, <1>6, <2>1 DEF Flow, Lives, Meets, After
  <2>2. CASE t = "loop"
    BY <1>3, <1>4, <1>5, <1>6, <2>2 DEF Flow, Lives, Meets, After
  <2>. QED
    BY <2>1, <2>2 DEF Threads
<1>8. Closes'
  <2>1. CASE t = "app"
    BY <1>3, <1>4, <1>5, <1>6, <2>1 DEF Flow, Lives, Closes, Meets, After
  <2>2. CASE t = "loop"
    BY <1>3, <1>4, <1>5, <1>6, <2>2 DEF Flow, Lives, Closes, Meets, After
  <2>. QED
    BY <2>1, <2>2 DEF Threads
<1>9. Wired'
  <2>1. CASE t = "app"
    BY <1>3, <1>4, <1>5, <1>6, <2>1 DEF Flow, Lives, Closes, Wired, Meets, After
  <2>2. CASE t = "loop"
    BY <1>3, <1>4, <1>5, <1>6, <2>2 DEF Flow, Lives, Closes, Wired, Meets, After
  <2>. QED
    BY <2>1, <2>2 DEF Threads
<1>. QED
  BY <1>3, <1>7, <1>8, <1>9 DEF Flow

LEMMA FireErrorFlow ==
    ASSUME Control, Types, Flow, NEW t \in Threads, FireError(t)
    PROVE  Control' /\ Flow'
<1>1. At(t, "fireError") /\ t \in Threads
  BY DEF FireError, Flow, Closes, Threads
<1>2. PICK steps \in Becomes(t, "fireError") : Then(t, steps)
  BY DEF FireError, Flow, Closes, Becomes
<1>3. PICK T \in SUBSET After("fireError") :
          /\ doing(t) = {"fireError"} \cup T /\ doing(t)' = elems(steps) \cup T
          /\ \A u \in Threads : u # t => doing(u)' = doing(u)
          /\ Control' /\ "fireError" \in StepsOf(t)
  BY <1>1, <1>2, Advance
<1>4. elems(steps) \in {{}, {"callback"}}
  BY <1>2, Elems DEF Becomes, FireError, Flow, Closes
<1>5. /\ socket' = socket
      /\ past'.wire = past.wire
      /\ past'.opens = past.opens
      /\ conn'.error_reported /\ conn'.close_called
      /\ (conn' = conn \/ (~conn'.running /\ conn'.state = "Closed"))
  BY ZenonT(60) DEF FireError, Flow, Closes, Types, Conns, Sockets, Pasts, OnlyConn, OnlySocket,
       OnlyTodo, Logged
<1>6. \A u \in {"app", "loop"} : u # t => doing(u)' = doing(u)
  BY <1>3 DEF Threads
<1>7. Lives'
  <2>1. CASE t = "app"
    BY <1>3, <1>4, <1>5, <1>6, <2>1 DEF Flow, Lives, Meets, After
  <2>2. CASE t = "loop"
    BY <1>3, <1>4, <1>5, <1>6, <2>2 DEF Flow, Lives, Meets, After
  <2>. QED
    BY <2>1, <2>2 DEF Threads
<1>8. Closes'
  <2>1. CASE t = "app"
    BY <1>3, <1>4, <1>5, <1>6, <2>1 DEF Flow, Lives, Closes, Meets, After
  <2>2. CASE t = "loop"
    BY <1>3, <1>4, <1>5, <1>6, <2>2 DEF Flow, Lives, Closes, Meets, After
  <2>. QED
    BY <2>1, <2>2 DEF Threads
<1>9. Wired'
  <2>1. CASE t = "app"
    BY <1>3, <1>4, <1>5, <1>6, <2>1 DEF Flow, Lives, Closes, Wired, Meets, After
  <2>2. CASE t = "loop"
    BY <1>3, <1>4, <1>5, <1>6, <2>2 DEF Flow, Lives, Closes, Wired, Meets, After
  <2>. QED
    BY <2>1, <2>2 DEF Threads
<1>. QED
  BY <1>3, <1>7, <1>8, <1>9 DEF Flow

LEMMA InitFlow ==
    ASSUME Control, Types, Flow, InitAll
    PROVE  Control' /\ Flow'
<1>1. At("app", "init") /\ "app" \in Threads
  BY DEF InitAll, NoSocket, Threads
<1>2. PICK steps \in Becomes("app", "init") :
          /\ Then("app", steps)
          /\ (steps = <<"connect", "opened">> /\ conn'.running)
             \/ steps = <<"fireError", "opened">>
  BY DEF InitAll, NoSocket, Becomes
<1>3. PICK T \in SUBSET After("init") :
          /\ doing("app") = {"init"} \cup T /\ doing("app")' = elems(steps) \cup T
          /\ \A u \in Threads : u # "app" => doing(u)' = doing(u)
          /\ Control' /\ "init" \in StepsOf("app")
  BY <1>1, <1>2, Advance
<1>4. elems(steps) \in {{"connect", "opened"}, {"fireError", "opened"}}
  BY <1>2, Elems DEF Becomes, InitAll, NoSocket
<1>5. /\ ~socket'.up /\ socket'.stream = "none" /\ ~socket'.over
      /\ ~conn'.close_called /\ ~conn'.error_reported
      /\ past'.wire = <<>>
  BY DEF InitAll, NoSocket, Types, Conns, Sockets, Pasts, OnlyConn, OnlySocket, OnlyTodo, Logged
<1>10. "connect" \in elems(steps) => conn'.state = "Connecting"
  <2>1. conn'.running => conn'.state = "Connecting"
    <3>1. PICK x : conn' = [state |-> x, running |-> x = "Connecting", open_notified |-> FALSE,
                            error_reported |-> FALSE, close_called |-> FALSE,
                            local_close_requested |-> FALSE]
      BY DEF InitAll
    <3>. QED
      BY <3>1
  <2>. QED
    BY <1>2, <2>1, Elems
<1>6. \A u \in {"app", "loop"} : u # "app" => doing(u)' = doing(u)
  BY <1>3 DEF Threads
<1>7. Lives'
  BY <1>3, <1>4, <1>5, <1>6, <1>10 DEF Flow, Lives, Meets, After
<1>8. Closes'
  BY <1>3, <1>4, <1>5, <1>6, <1>10, SMTT(60) DEF Flow, Lives, Closes, Meets, After
<1>9. Wired'
  BY <1>3, <1>4, <1>5, <1>6, <1>10 DEF Flow, Lives, Closes, Wired, Meets, After
<1>. QED
  BY <1>3, <1>7, <1>8, <1>9 DEF Flow

LEMMA OpenStreamFlow ==
    ASSUME Control, Types, Flow, OpenStream
    PROVE  Control' /\ Flow'
<1>1. At("app", "openStream") /\ "app" \in Threads
  BY DEF OpenStream, Threads
<1>2. PICK steps \in Becomes("app", "openStream") :
          /\ Then("app", steps)
          /\ \/ /\ steps = <<>>
                /\ socket' = [socket EXCEPT !.stream = "asked"]
             \/ /\ steps = <<"fireError", "socketClose">>
                /\ socket' = socket
  BY DEF OpenStream, Becomes
<1>3. PICK T \in SUBSET After("openStream") :
          /\ doing("app") = {"openStream"} \cup T /\ doing("app")' = elems(steps) \cup T
          /\ \A u \in Threads : u # "app" => doing(u)' = doing(u)
          /\ Control' /\ "openStream" \in StepsOf("app")
  BY <1>1, <1>2, Advance
<1>4. elems(steps) \in {{}, {"fireError", "socketClose"}}
  BY <1>2, Elems DEF Becomes, OpenStream
<1>5. /\ conn' = conn /\ past' = past
      /\ socket'.up = socket.up /\ socket'.over = socket.over /\ socket'.silent = socket.silent
      /\ \/ socket'.stream = socket.stream /\ elems(steps) = {"fireError", "socketClose"}
         \/ socket'.stream = "asked" /\ elems(steps) = {}
  BY <1>2, <1>4, Elems DEF OpenStream, Types, Conns, Sockets, Pasts, OnlyConn, OnlySocket,
       OnlyTodo, Logged
<1>6. \A u \in {"app", "loop"} : u # "app" => doing(u)' = doing(u)
  BY <1>3 DEF Threads
<1>7. Lives'
  BY <1>3, <1>4, <1>5, <1>6 DEF Flow, Lives, Meets, After
<1>8. Closes'
  BY <1>3, <1>4, <1>5, <1>6 DEF Flow, Lives, Closes, Meets, After
<1>9. Wired'
  BY <1>3, <1>4, <1>5, <1>6 DEF Flow, Lives, Closes, Wired, Meets, After
<1>. QED
  BY <1>3, <1>7, <1>8, <1>9 DEF Flow

LEMMA OpenedFlow ==
    ASSUME Control, Types, Flow, Opened
    PROVE  Control' /\ Flow'
<1>1. At("app", "opened") /\ "app" \in Threads
  BY DEF Opened, Threads
<1>2. PICK steps \in Becomes("app", "opened") : Then("app", steps)
  BY DEF Opened, Becomes
<1>3. PICK T \in SUBSET After("opened") :
          /\ doing("app") = {"opened"} \cup T /\ doing("app")' = elems(steps) \cup T
          /\ \A u \in Threads : u # "app" => doing(u)' = doing(u)
          /\ Control' /\ "opened" \in StepsOf("app")
  BY <1>1, <1>2, Advance
<1>4. elems(steps) \in {{}}
  BY <1>2, Elems DEF Becomes, Opened
<1>5. /\ conn' = conn /\ socket' = socket /\ past' = past
  BY DEF Opened, Types, Conns, Sockets, Pasts, OnlyConn, OnlySocket, OnlyTodo, Logged
<1>6. \A u \in {"app", "loop"} : u # "app" => doing(u)' = doing(u)
  BY <1>3 DEF Threads
<1>7. Lives'
  BY <1>3, <1>4, <1>5, <1>6 DEF Flow, Lives, Meets, After
<1>8. Closes'
  BY <1>3, <1>4, <1>5, <1>6 DEF Flow, Lives, Closes, Meets, After
<1>9. Wired'
  BY <1>3, <1>4, <1>5, <1>6 DEF Flow, Lives, Closes, Wired, Meets, After
<1>. QED
  BY <1>3, <1>7, <1>8, <1>9 DEF Flow

LEMMA JoinFlow ==
    ASSUME Control, Types, Flow, Join
    PROVE  Control' /\ Flow'
<1>1. At("app", "join") /\ "app" \in Threads
  BY DEF Join, Threads
<1>2. PICK steps \in Becomes("app", "join") : Then("app", steps)
  BY DEF Join, Becomes
<1>3. PICK T \in SUBSET After("join") :
          /\ doing("app") = {"join"} \cup T /\ doing("app")' = elems(steps) \cup T
          /\ \A u \in Threads : u # "app" => doing(u)' = doing(u)
          /\ Control' /\ "join" \in StepsOf("app")
  BY <1>1, <1>2, Advance
<1>4. elems(steps) \in {{}}
  BY <1>2, Elems DEF Becomes, Join
<1>5. /\ conn' = conn
      /\ past'.wire = past.wire
      /\ past'.opens = past.opens
      /\ socket'.up = socket.up /\ socket'.stream = socket.stream
      /\ socket'.over = socket.over /\ socket'.silent = socket.silent /\ ~socket.up
  BY DEF Join, Types, Conns, Sockets, Pasts, OnlyConn, OnlySocket, OnlyTodo, Logged
<1>6. \A u \in {"app", "loop"} : u # "app" => doing(u)' = doing(u)
  BY <1>3 DEF Threads
<1>7. Lives'
  BY <1>3, <1>4, <1>5, <1>6 DEF Flow, Lives, Meets, After
<1>8. Closes'
  BY <1>3, <1>4, <1>5, <1>6 DEF Flow, Lives, Closes, Meets, After
<1>9. Wired'
  BY <1>3, <1>4, <1>5, <1>6 DEF Flow, Lives, Closes, Wired, Meets, After
<1>. QED
  BY <1>3, <1>7, <1>8, <1>9 DEF Flow

LEMMA SettleFlow ==
    ASSUME Control, Types, Flow, Settle
    PROVE  Control' /\ Flow'
<1>1. At("app", "settle") /\ "app" \in Threads
  BY DEF Settle, Threads
<1>2. PICK steps \in Becomes("app", "settle") : Then("app", steps)
  BY DEF Settle, Becomes
<1>3. PICK T \in SUBSET After("settle") :
          /\ doing("app") = {"settle"} \cup T /\ doing("app")' = elems(steps) \cup T
          /\ \A u \in Threads : u # "app" => doing(u)' = doing(u)
          /\ Control' /\ "settle" \in StepsOf("app")
  BY <1>1, <1>2, Advance
<1>4. elems(steps) \in {{}, {"callback"}}
  BY <1>2, Elems DEF Becomes, Settle
<1>5. /\ socket' = socket
      /\ past'.wire = past.wire
      /\ past'.opens = past.opens
      /\ conn'.state = "Closed" /\ ~conn'.running /\ conn'.close_called
      /\ conn'.error_reported = conn.error_reported
  BY DEF Settle, Types, Conns, Sockets, Pasts, OnlyConn, OnlySocket, OnlyTodo, Logged
<1>6. \A u \in {"app", "loop"} : u # "app" => doing(u)' = doing(u)
  BY <1>3 DEF Threads
<1>7. Lives'
  BY <1>3, <1>4, <1>5, <1>6 DEF Flow, Lives, Meets, After
<1>8. Closes'
  BY <1>3, <1>4, <1>5, <1>6 DEF Flow, Lives, Closes, Meets, After
<1>9. Wired'
  BY <1>3, <1>4, <1>5, <1>6 DEF Flow, Lives, Closes, Wired, Meets, After
<1>. QED
  BY <1>3, <1>7, <1>8, <1>9 DEF Flow

LEMMA StreamOpensFlow ==
    ASSUME Control, Types, Flow, StreamOpens
    PROVE  Control' /\ Flow'
<1>1. At("loop", "events") /\ "loop" \in Threads
  BY DEF StreamOpens, Threads
<1>2. PICK steps \in Becomes("loop", "events") :
          /\ Then("loop", steps)
          /\ steps = <<"marker", "params", "events">>
  BY DEF StreamOpens, Becomes
<1>3. PICK T \in SUBSET After("events") :
          /\ doing("loop") = {"events"} \cup T /\ doing("loop")' = elems(steps) \cup T
          /\ \A u \in Threads : u # "loop" => doing(u)' = doing(u)
          /\ Control' /\ "events" \in StepsOf("loop")
  BY <1>1, <1>2, Advance
<1>4. elems(steps) \in {{"marker", "params", "events"}}
  BY <1>2, Elems DEF Becomes, StreamOpens
<1>5. /\ conn' = conn /\ past' = past
      /\ socket'.up = socket.up /\ socket'.over = socket.over /\ socket'.silent = socket.silent
      /\ socket'.stream = "open" /\ socket.stream = "asked"
  BY <1>2, <1>4, Elems DEF StreamOpens, Types, Conns, Sockets, Pasts, OnlyConn, OnlySocket,
       OnlyTodo, Logged
<1>6. \A u \in {"app", "loop"} : u # "loop" => doing(u)' = doing(u)
  BY <1>3 DEF Threads
<1>7. Lives'
  BY <1>3, <1>4, <1>5, <1>6 DEF Flow, Lives, Meets, After
<1>8. Closes'
  BY <1>3, <1>4, <1>5, <1>6 DEF Flow, Lives, Closes, Meets, After
<1>9. Wired'
  BY <1>3, <1>4, <1>5, <1>6 DEF Flow, Lives, Closes, Wired, Meets, After
<1>. QED
  BY <1>3, <1>7, <1>8, <1>9 DEF Flow

LEMMA RecvFlow ==
    ASSUME Control, Types, Flow, Recv
    PROVE  Control' /\ Flow'
<1>1. At("loop", "events") /\ "loop" \in Threads
  BY DEF Recv, Threads
<1>2. PICK steps \in Becomes("loop", "events") :
          /\ Then("loop", steps)
          /\ steps = <<"frames", "events">> \/ steps = <<"status", "events">>
  BY DEF Recv, Becomes
<1>3. PICK T \in SUBSET After("events") :
          /\ doing("loop") = {"events"} \cup T /\ doing("loop")' = elems(steps) \cup T
          /\ \A u \in Threads : u # "loop" => doing(u)' = doing(u)
          /\ Control' /\ "events" \in StepsOf("loop")
  BY <1>1, <1>2, Advance
<1>4. elems(steps) \in {{"frames", "events"}, {"status", "events"}}
  BY <1>2, Elems DEF Becomes, Recv
<1>5. /\ conn' = conn /\ socket' = socket /\ past' = past
      /\ socket.stream = "open" /\ ~socket.silent
  BY <1>2, <1>4, Elems DEF Recv, Types, Conns, Sockets, Pasts, OnlyConn, OnlySocket, OnlyTodo,
       Logged
<1>6. \A u \in {"app", "loop"} : u # "loop" => doing(u)' = doing(u)
  BY <1>3 DEF Threads
<1>7. Lives'
  BY <1>3, <1>4, <1>5, <1>6 DEF Flow, Lives, Meets, After
<1>8. Closes'
  BY <1>3, <1>4, <1>5, <1>6 DEF Flow, Lives, Closes, Meets, After
<1>9. Wired'
  BY <1>3, <1>4, <1>5, <1>6 DEF Flow, Lives, Closes, Wired, Meets, After
<1>. QED
  BY <1>3, <1>7, <1>8, <1>9 DEF Flow

LEMMA FailsFlow ==
    ASSUME Control, Types, Flow, Fails
    PROVE  Control' /\ Flow'
<1>1. At("loop", "events") /\ "loop" \in Threads
  BY DEF Fails, Threads
<1>2. PICK steps \in Becomes("loop", "events") :
          /\ Then("loop", steps)
          /\ steps = <<"fireError", "events">>
  BY DEF Fails, Becomes
<1>3. PICK T \in SUBSET After("events") :
          /\ doing("loop") = {"events"} \cup T /\ doing("loop")' = elems(steps) \cup T
          /\ \A u \in Threads : u # "loop" => doing(u)' = doing(u)
          /\ Control' /\ "events" \in StepsOf("loop")
  BY <1>1, <1>2, Advance
<1>4. elems(steps) \in {{"fireError", "events"}}
  BY <1>2, Elems DEF Becomes, Fails
<1>5. /\ conn' = conn /\ past' = past
      /\ socket'.up = socket.up /\ socket'.stream = socket.stream /\ socket'.over = socket.over
      /\ socket'.silent
  BY <1>2, <1>4, Elems DEF Fails, Types, Conns, Sockets, Pasts, OnlyConn, OnlySocket,
       OnlyTodo, Logged
<1>6. \A u \in {"app", "loop"} : u # "loop" => doing(u)' = doing(u)
  BY <1>3 DEF Threads
<1>7. Lives'
  BY <1>3, <1>4, <1>5, <1>6 DEF Flow, Lives, Meets, After
<1>8. Closes'
  BY <1>3, <1>4, <1>5, <1>6 DEF Flow, Lives, Closes, Meets, After
<1>9. Wired'
  BY <1>3, <1>4, <1>5, <1>6 DEF Flow, Lives, Closes, Wired, Meets, After
<1>. QED
  BY <1>3, <1>7, <1>8, <1>9 DEF Flow

LEMMA EndsFlow ==
    ASSUME Control, Types, Flow, Ends
    PROVE  Control' /\ Flow'
<1>1. At("loop", "events") /\ "loop" \in Threads
  BY DEF Ends, Threads
<1>2. PICK steps \in Becomes("loop", "events") :
          /\ Then("loop", steps)
          /\ steps = <<"onClose", "events">>
  BY DEF Ends, Becomes
<1>3. PICK T \in SUBSET After("events") :
          /\ doing("loop") = {"events"} \cup T /\ doing("loop")' = elems(steps) \cup T
          /\ \A u \in Threads : u # "loop" => doing(u)' = doing(u)
          /\ Control' /\ "events" \in StepsOf("loop")
  BY <1>1, <1>2, Advance
<1>4. elems(steps) \in {{"onClose", "events"}}
  BY <1>2, Elems DEF Becomes, Ends
<1>5. /\ conn' = conn /\ socket' = socket /\ past' = past
  BY <1>2, <1>4, Elems DEF Ends, Types, Conns, Sockets, Pasts, OnlyConn, OnlySocket, OnlyTodo,
       Logged
<1>6. \A u \in {"app", "loop"} : u # "loop" => doing(u)' = doing(u)
  BY <1>3 DEF Threads
<1>7. Lives'
  BY <1>3, <1>4, <1>5, <1>6 DEF Flow, Lives, Meets, After
<1>8. Closes'
  BY <1>3, <1>4, <1>5, <1>6 DEF Flow, Lives, Closes, Meets, After
<1>9. Wired'
  BY <1>3, <1>4, <1>5, <1>6 DEF Flow, Lives, Closes, Wired, Meets, After
<1>. QED
  BY <1>3, <1>7, <1>8, <1>9 DEF Flow

LEMMA LoopEndsFlow ==
    ASSUME Control, Types, Flow, LoopEnds
    PROVE  Control' /\ Flow'
<1>1. At("loop", "events") /\ "loop" \in Threads
  BY DEF LoopEnds, Threads
<1>2. PICK steps \in Becomes("loop", "events") :
          /\ Then("loop", steps)
          /\ steps = <<>>
  BY DEF LoopEnds, Becomes
<1>3. PICK T \in SUBSET After("events") :
          /\ doing("loop") = {"events"} \cup T /\ doing("loop")' = elems(steps) \cup T
          /\ \A u \in Threads : u # "loop" => doing(u)' = doing(u)
          /\ Control' /\ "events" \in StepsOf("loop")
  BY <1>1, <1>2, Advance
<1>4. elems(steps) \in {{}}
  BY <1>2, Elems DEF Becomes, LoopEnds
<1>5. /\ conn' = conn /\ past' = past
      /\ ~socket'.up /\ socket'.stream = socket.stream
      /\ socket'.over = socket.over /\ socket'.silent = socket.silent /\ socket.over
  BY <1>2, <1>4, Elems DEF LoopEnds, Types, Conns, Sockets, Pasts, OnlyConn, OnlySocket,
       OnlyTodo, Logged
<1>6. \A u \in {"app", "loop"} : u # "loop" => doing(u)' = doing(u)
  BY <1>3 DEF Threads
<1>7. Lives'
  BY <1>3, <1>4, <1>5, <1>6 DEF Flow, Lives, Meets, After
<1>8. Closes'
  BY <1>3, <1>4, <1>5, <1>6 DEF Flow, Lives, Closes, Meets, After
<1>9. Wired'
  BY <1>3, <1>4, <1>5, <1>6 DEF Flow, Lives, Closes, Wired, Meets, After
<1>. QED
  BY <1>3, <1>7, <1>8, <1>9 DEF Flow

LEMMA StatusFlow ==
    ASSUME Control, Types, Flow, Status
    PROVE  Control' /\ Flow'
<1>1. At("loop", "status") /\ "loop" \in Threads
  BY DEF Status, Threads
<1>2. PICK steps \in Becomes("loop", "status") : Then("loop", steps)
  BY DEF Status, Becomes
<1>3. PICK T \in SUBSET After("status") :
          /\ doing("loop") = {"status"} \cup T /\ doing("loop")' = elems(steps) \cup T
          /\ \A u \in Threads : u # "loop" => doing(u)' = doing(u)
          /\ Control' /\ "status" \in StepsOf("loop")
  BY <1>1, <1>2, Advance
<1>4. elems(steps) \in {{}, {"fireError", "socketClose"}, {"callback", "frames"}}
  BY <1>2, Elems DEF Becomes, Status
<1>5. /\ socket' = socket
      /\ past'.wire = past.wire
      /\ past'.opens = past.opens
      /\ conn' = conn \/ (conn'.state = "Open" /\ conn'.close_called = conn.close_called
         /\ conn'.error_reported = conn.error_reported /\ conn'.running = conn.running)
  <2>1. /\ socket' = socket
        /\ \/ conn' = conn /\ past' = past
           \/ /\ conn' = [conn EXCEPT !.open_notified = TRUE, !.state = "Open"]
              /\ past' = [past EXCEPT !.log = Append(@, "open")]
    BY DEF Status, Logged
  <2>2. conn \in Conns /\ past \in Pasts
    BY DEF Types
  <2>. QED
    BY <2>1, <2>2 DEF Conns, Pasts
<1>6. \A u \in {"app", "loop"} : u # "loop" => doing(u)' = doing(u)
  BY <1>3 DEF Threads
<1>7. Lives'
  BY <1>3, <1>4, <1>5, <1>6 DEF Flow, Lives, Meets, After
<1>8. Closes'
  BY <1>3, <1>4, <1>5, <1>6 DEF Flow, Lives, Closes, Meets, After
<1>9. Wired'
  BY <1>3, <1>4, <1>5, <1>6 DEF Flow, Lives, Closes, Wired, Meets, After
<1>. QED
  BY <1>3, <1>7, <1>8, <1>9 DEF Flow

LEMMA FramesFlow ==
    ASSUME Control, Types, Flow, Frames
    PROVE  Control' /\ Flow'
<1>1. At("loop", "frames") /\ "loop" \in Threads
  BY DEF Frames, Threads
<1>2. PICK steps \in Becomes("loop", "frames") : Then("loop", steps)
  BY DEF Frames, Becomes
<1>3. PICK T \in SUBSET After("frames") :
          /\ doing("loop") = {"frames"} \cup T /\ doing("loop")' = elems(steps) \cup T
          /\ \A u \in Threads : u # "loop" => doing(u)' = doing(u)
          /\ Control' /\ "frames" \in StepsOf("loop")
  BY <1>1, <1>2, Advance
<1>4. elems(steps) \in {{}, {"callback", "frames"}}
  BY <1>2, Elems DEF Becomes, Frames
<1>5. /\ conn' = conn /\ socket' = socket
      /\ past'.wire = past.wire
      /\ past'.opens = past.opens
  BY DEF Frames, Types, Conns, Sockets, Pasts, OnlyConn, OnlySocket, OnlyTodo, Logged
<1>6. \A u \in {"app", "loop"} : u # "loop" => doing(u)' = doing(u)
  BY <1>3 DEF Threads
<1>7. Lives'
  BY <1>3, <1>4, <1>5, <1>6 DEF Flow, Lives, Meets, After
<1>8. Closes'
  BY <1>3, <1>4, <1>5, <1>6 DEF Flow, Lives, Closes, Meets, After
<1>9. Wired'
  BY <1>3, <1>4, <1>5, <1>6 DEF Flow, Lives, Closes, Wired, Meets, After
<1>. QED
  BY <1>3, <1>7, <1>8, <1>9 DEF Flow

LEMMA OnCloseFlow ==
    ASSUME Control, Types, Flow, OnClose("loop")
    PROVE  Control' /\ Flow'
<1>1. At("loop", "onClose") /\ "loop" \in Threads
  BY DEF OnClose, Threads
<1>2. PICK steps \in Becomes("loop", "onClose") : Then("loop", steps)
  BY DEF OnClose, Becomes
<1>3. PICK T \in SUBSET After("onClose") :
          /\ doing("loop") = {"onClose"} \cup T /\ doing("loop")' = elems(steps) \cup T
          /\ \A u \in Threads : u # "loop" => doing(u)' = doing(u)
          /\ Control' /\ "onClose" \in StepsOf("loop")
  BY <1>1, <1>2, Advance
<1>4. elems(steps) \in {{"local"}, {"remote"}}
  BY <1>2, Elems DEF Becomes, OnClose
<1>5. /\ conn' = conn /\ past' = past
      /\ socket'.up = socket.up /\ socket'.stream = socket.stream
      /\ socket'.over /\ socket'.silent
  BY DEF OnClose, Types, Conns, Sockets, Pasts, OnlyConn, OnlySocket, OnlyTodo, Logged
<1>6. \A u \in {"app", "loop"} : u # "loop" => doing(u)' = doing(u)
  BY <1>3 DEF Threads
<1>7. Lives'
  BY <1>3, <1>4, <1>5, <1>6 DEF Flow, Lives, Meets, After
<1>8. Closes'
  BY <1>3, <1>4, <1>5, <1>6 DEF Flow, Lives, Closes, Meets, After
<1>9. Wired'
  BY <1>3, <1>4, <1>5, <1>6 DEF Flow, Lives, Closes, Wired, Meets, After
<1>. QED
  BY <1>3, <1>7, <1>8, <1>9 DEF Flow

\* The wire grows by one.
Grown(what) ==
    /\ DOMAIN past.wire = 1..Len(past.wire) /\ Len(past.wire) \in Nat
    /\ DOMAIN past'.wire = 1..(Len(past.wire) + 1) /\ Len(past'.wire) = Len(past.wire) + 1
    /\ \A i \in DOMAIN past.wire : past'.wire[i] = past.wire[i]
    /\ past'.wire[Len(past.wire) + 1].what = what

LEMMA Grows ==
    ASSUME Types, NEW what, NEW n,
           past' = [past EXCEPT !.wire = Append(@, sendFramed(what, n))]
    PROVE  Grown(what) /\ past'.opens = past.opens
<1> DEFINE m == sendFramed(what, n)
           S == Sent \cup {m}
<1>1. m.what = what
  BY DEF sendFramed
<1>2. past'.wire = Append(past.wire, m) /\ past'.opens = past.opens
  BY DEF Types, Pasts
<1>3. past.wire \in Seq(S)
  <2>1. past.wire \in Seq(Sent)
    BY DEF Types, Pasts, Wires
  <2>. QED
    BY <2>1, SeqMonotonic
<1>4. m \in S
  OBVIOUS
<1>. HIDE DEF m, S
<1>5. /\ Append(past.wire, m) \in Seq(S)
      /\ Len(Append(past.wire, m)) = Len(past.wire) + 1
      /\ \A i \in 1..Len(past.wire) : Append(past.wire, m)[i] = past.wire[i]
      /\ Append(past.wire, m)[Len(past.wire) + 1] = m
  BY <1>3, <1>4, AppendProperties
<1>6. /\ DOMAIN past.wire = 1..Len(past.wire) /\ Len(past.wire) \in Nat
      /\ DOMAIN Append(past.wire, m) = 1..Len(Append(past.wire, m))
  BY <1>3, <1>5, LenProperties
<1>. QED
  BY <1>1, <1>2, <1>5, <1>6 DEF Grown

\* A message goes out after the marker and the parameters.
LEMMA SendFlow ==
    ASSUME Control, Types, Flow, NEW t \in Threads, Send(t)
    PROVE  Control' /\ Flow'
<1>1. At(t, "send") /\ t \in Threads /\ Then(t, <<>>) /\ conn' = conn /\ socket' = socket
  BY DEF Send
<1>2. PICK steps \in Becomes(t, "send") : Then(t, steps) /\ steps = <<>>
  BY <1>1 DEF Becomes
<1>3. PICK T \in SUBSET After("send") :
          /\ doing(t) = {"send"} \cup T /\ doing(t)' = elems(steps) \cup T
          /\ \A u \in Threads : u # t => doing(u)' = doing(u)
          /\ Control'
  BY <1>1, <1>2, Advance
<1>4. elems(steps) = {}
  BY <1>2, Elems
<1>5. \A x : x # "send" =>
          /\ x \in doing("app")' <=> x \in doing("app")
          /\ x \in doing("loop")' <=> x \in doing("loop")
  <2>1. CASE t = "app"
    BY <1>3, <1>4, <2>1 DEF Threads
  <2>2. CASE t = "loop"
    BY <1>3, <1>4, <2>2 DEF Threads
  <2>. QED
    BY <2>1, <2>2 DEF Threads
<1>6. /\ past'.opens = past.opens
      /\ \/ past' = past
         \/ Grown("message") /\ conn.state = "Open" /\ socket.stream = "open"
  BY Grows DEF Send
<1>a. \A S : "send" \notin S =>
          /\ Meets("app", S)' <=> Meets("app", S)
          /\ Meets("loop", S)' <=> Meets("loop", S)
  BY <1>5 DEF Meets
<1>b. doing("loop")' # {} => doing("loop") # {}
  <2>1. CASE t = "app"
    BY <1>3, <2>1 DEF Threads
  <2>2. CASE t = "loop"
    BY <1>3, <2>2 DEF Threads
  <2>. QED
    BY <2>1, <2>2 DEF Threads
<1>7. Lives' /\ Closes'
  <2>1. Lives'
    BY <1>1, <1>5, <1>a, <1>b DEF Flow, Lives
  <2>2. past'.opens = past.opens
    BY <1>6
  <2>3. Closes'
    BY <1>1, <1>5, <1>a, <2>2 DEF Flow, Closes
  <2>. QED
    BY <2>1, <2>3
<1>8. Wired'
  <2>1. CASE past' = past
    BY <1>1, <1>5, <2>1 DEF Flow, Wired, Meets
  <2>2. CASE Grown("message") /\ conn.state = "Open" /\ socket.stream = "open"
    <3>1. Len(past.wire) >= 2 /\ Len(past.wire) \in Nat
      BY <2>2 DEF Flow, Wired, Grown
    <3>2. Len(past'.wire) >= 2 /\ Len(past.wire) # 0 /\ Len(past.wire) # 1
      BY <2>2, <3>1 DEF Grown
    <3>3. Len(past.wire) + 1 \notin DOMAIN head
      BY <3>1 DEF head
    <3>4. \A i \in DOMAIN past'.wire :
              past'.wire[i].what = IF i \in DOMAIN head THEN head[i] ELSE "message"
      <4>. TAKE i \in DOMAIN past'.wire
      <4>1. i \in DOMAIN past.wire \/ i = Len(past.wire) + 1
        BY <2>2, <3>1 DEF Grown
      <4>2. \A j \in DOMAIN past.wire :
                past.wire[j].what = IF j \in DOMAIN head THEN head[j] ELSE "message"
        BY DEF Flow, Wired
      <4>. HIDE DEF head
      <4>. QED
        BY <2>2, <3>3, <4>1, <4>2 DEF Grown
    <3>5. "marker" \notin doing("loop") /\ "params" \notin doing("loop")
      BY <2>2, <3>2 DEF Flow, Wired
    <3>. QED
      BY <1>1, <1>5, <2>2, <3>2, <3>4, <3>5 DEF Flow, Wired, Meets
  <2>. QED
    BY <1>6, <2>1, <2>2
<1>. QED
  BY <1>3, <1>7, <1>8 DEF Flow

LEMMA SendHeadFlow ==
    ASSUME Control, Types, Flow, SendHead
    PROVE  Control' /\ Flow'
<1>1. PICK part \in {"marker", "params"} :
          /\ At("loop", part)
          /\ \/ /\ past' = [past EXCEPT !.wire = Append(@, sendFramed(part, ParamsSize))]
                /\ Then("loop", <<>>)
             \/ /\ todo' = [todo EXCEPT !["loop"] = << "fireError", "socketClose", "events" >>]
                /\ past' = past
          /\ conn' = conn /\ socket' = socket
  BY DEF SendHead
<1>2. "loop" \in Threads /\ "app" \in Threads /\ "app" # "loop"
  BY DEF Threads
<1>3. todo["loop"] # <<>> /\ Head(todo["loop"]) = part
  BY <1>1 DEF At
<1>4. /\ DOMAIN todo["loop"] = 1..Len(todo["loop"]) /\ 1 \in DOMAIN todo["loop"]
      /\ todo["loop"][1] = part /\ Len(todo["loop"]) \in Nat
  BY <1>2, <1>3, Indices DEF Control
<1>5. \A x \in doing("loop") : x = part \/ x \in After(part)
  <2>1. \A j \in DOMAIN todo["loop"] : j = 1 \/ 1 < j
    BY <1>4
  <2>. QED
    BY <1>2, <1>4, <2>1 DEF doing, elems, Control, Ordered, Ordering
<1>6. part \in doing("loop")
  BY <1>4 DEF doing, elems
<1>7. "events" \in doing("loop") /\ socket.up
  BY <1>6 DEF Flow, Lives
<1>8. CASE /\ past' = [past EXCEPT !.wire = Append(@, sendFramed(part, ParamsSize))]
           /\ Then("loop", <<>>)
  <2>1. PICK steps \in Becomes("loop", part) : Then("loop", steps) /\ steps = <<>>
    BY <1>8 DEF Becomes
  <2>2. PICK T \in SUBSET After(part) :
            /\ doing("loop") = {part} \cup T /\ doing("loop")' = elems(steps) \cup T
            /\ \A u \in Threads : u # "loop" => doing(u)' = doing(u)
            /\ Control'
    BY <1>1, <1>2, <2>1, Advance
  <2>3. /\ doing("loop") = {part} \cup T /\ doing("loop")' = T
        /\ doing("app")' = doing("app")
        /\ T \subseteq After(part)
    BY <1>2, <2>1, <2>2, Elems
  <2>4. Grown(part) /\ past'.opens = past.opens
    BY <1>8, Grows
  <2>5. Lives' /\ Closes'
    BY <1>1, <2>3, <2>4 DEF Flow, Lives, Closes, Meets, After
  <2>6. /\ part = "marker" => Len(past.wire) = 0 /\ "params" \in T
        /\ part = "params" => Len(past.wire) = 1 /\ "marker" \notin T
    BY <2>3 DEF Flow, Wired, After
  <2>7. \A i \in DOMAIN past'.wire :
            past'.wire[i].what = IF i \in DOMAIN head THEN head[i] ELSE "message"
    <3>. TAKE i \in DOMAIN past'.wire
    <3>1. i \in DOMAIN past.wire \/ i = Len(past.wire) + 1
      BY <2>4 DEF Grown
    <3>2. \A j \in DOMAIN past.wire :
              past.wire[j].what = IF j \in DOMAIN head THEN head[j] ELSE "message"
      BY DEF Flow, Wired
    <3>3. Len(past.wire) + 1 \in DOMAIN head /\ head[Len(past.wire) + 1] = part
      <4>1. CASE part = "marker"
        <5>1. Len(past.wire) + 1 = 1
          BY <2>6, <4>1
        <5>. QED
          BY <4>1, <5>1 DEF head
      <4>2. CASE part = "params"
        <5>1. Len(past.wire) = 1
          BY <2>6, <4>2
        <5>2. Len(past.wire) + 1 = 2
          BY <5>1
        <5>. QED
          BY <4>2, <5>2 DEF head
      <4>. QED
        BY <4>1, <4>2
    <3>. QED
      BY <2>4, <3>1, <3>2, <3>3 DEF Grown
  <2>8. Len(past'.wire) = Len(past.wire) + 1
    BY <2>4 DEF Grown
  <2>9. Wired'
    <3>1. CASE part = "marker"
      <4>1. Len(past'.wire) = 1 /\ "params" \in T /\ "marker" \notin T
        BY <2>3, <2>6, <2>8, <3>1 DEF After
      <4>2. socket.stream = "open" /\ conn.state # "Open"
        BY <2>3, <2>6, <3>1 DEF Flow, Wired, Meets
      <4>. QED
        BY <1>1, <2>3, <2>7, <4>1, <4>2 DEF Flow, Wired, Meets
    <3>2. CASE part = "params"
      <4>0. Len(past.wire) = 1 /\ "marker" \notin T
        BY <2>6, <3>2
      <4>1. Len(past'.wire) = 2 /\ "params" \notin T /\ "marker" \notin T
        <5>1. Len(past'.wire) = 2
          BY <2>8, <4>0
        <5>2. "params" \notin T
          BY <2>3, <3>2 DEF After
        <5>. QED
          BY <4>0, <5>1, <5>2
      <4>2. socket.stream = "open" /\ conn.state # "Open"
        <5>1. "params" \in doing("loop")
          BY <2>3, <3>2
        <5>2. socket.stream = "open"
          BY <5>1 DEF Flow, Wired, Meets
        <5>3. ~(Len(past.wire) >= 2)
          BY <4>0
        <5>. QED
          BY <5>2, <5>3 DEF Flow, Wired
      <4>. QED
        BY <1>1, <2>3, <2>7, <4>1, <4>2 DEF Flow, Wired, Meets
    <3>. QED
      BY <3>1, <3>2
  <2>. QED
    BY <2>2, <2>5, <2>9 DEF Flow
<1>9. CASE /\ todo' = [todo EXCEPT !["loop"] = << "fireError", "socketClose", "events" >>]
           /\ past' = past
  <2> DEFINE steps == << "fireError", "socketClose", "events" >>
  <2>1. steps \in Seq(StepsOf("loop")) /\ Fits("opened", steps)
    <3>1. Fits("opened", steps)
      BY DEF Fits, After
    <3>2. {"fireError", "socketClose", "events"} \subseteq StepsOf("loop")
      BY DEF StepsOf, Asked
    <3> DEFINE S == StepsOf("loop")
    <3>3. "fireError" \in S /\ "socketClose" \in S /\ "events" \in S
      BY <3>2
    <3>4. steps \in Seq(S)
      <4>. HIDE DEF S
      <4>. QED
        BY <3>3
    <3>. QED
      BY <3>1, <3>4
  <2>2. elems(steps) = {"fireError", "socketClose", "events"}
    BY Elems
  <2>. HIDE DEF steps
  <2>3. todo' = [todo EXCEPT !["loop"] = steps]
    BY <1>9 DEF steps
  <2>4. /\ Control' /\ doing("loop")' = elems(steps)
        /\ \A u \in Threads : u # "loop" => doing(u)' = doing(u)
    BY <1>2, <2>1, <2>3, Relisted
  <2>5. doing("loop")' = {"fireError", "socketClose", "events"} /\ doing("app")' = doing("app")
    BY <1>2, <2>2, <2>4
  <2>6. "local" \notin doing("loop") /\ "remote" \notin doing("loop")
    BY <1>1, <1>5 DEF After
  <2>a. socket.stream = "open"
    BY <1>6 DEF Flow, Wired, Meets
  <2>7. Lives'
    BY <1>1, <1>7, <1>9, <2>5 DEF Flow, Lives, Meets
  <2>8. Closes'
    BY <1>1, <1>7, <1>9, <2>5, <2>6, <2>a DEF Flow, Closes, Meets
  <2>9. Wired'
    BY <1>1, <1>9, <2>5 DEF Flow, Wired, Meets
  <2>. QED
    BY <2>4, <2>7, <2>8, <2>9 DEF Flow
<1>. QED
  BY <1>1, <1>8, <1>9

LEMMA FireCloseFlow ==
    ASSUME Control, Types, Flow, FireClose
    PROVE  Control' /\ Flow'
<1>1. PICK how \in {"local", "remote"} :
          /\ At("loop", how)
          /\ Then("loop", <<>>) \/ Then("loop", <<"callback">>)
          /\ past'.wire = past.wire /\ past'.opens = past.opens /\ socket' = socket
          /\ conn'.close_called
          /\ \/ /\ conn'.state = "Closed" /\ ~conn'.running
             \/ /\ conn.close_called /\ conn'.state = conn.state
                /\ conn'.running = conn.running
          /\ conn'.error_reported = conn.error_reported
  <2>1. conn.error_reported => conn.close_called
    BY DEF Flow, Closes
  <2>2. PICK how \in {"local", "remote"} :
            /\ At("loop", how)
            /\ \/ /\ conn.close_called \/ conn.error_reported
                  /\ Then("loop", <<>>) /\ past' = past
                  /\ conn' = [conn EXCEPT !.close_called = TRUE]
               \/ /\ conn' = [conn EXCEPT !.close_called = TRUE, !.state = "Closed",
                                           !.running = FALSE]
                  /\ Logged(how) /\ Then("loop", <<"callback">>)
            /\ socket' = socket
    BY DEF FireClose, OnlyConn
  <2>3. past'.wire = past.wire /\ past'.opens = past.opens
    BY <2>2 DEF Logged, Types, Pasts
  <2>4. /\ conn'.close_called
        /\ \/ /\ conn'.state = "Closed" /\ ~conn'.running
           \/ /\ conn.close_called /\ conn'.state = conn.state
              /\ conn'.running = conn.running
        /\ conn'.error_reported = conn.error_reported
    BY <2>1, <2>2 DEF Types, Conns
  <2>. QED
    BY <2>2, <2>3, <2>4
<1>2. "loop" \in Threads /\ "app" \in Threads /\ "app" # "loop" /\ At("loop", how)
  BY <1>1 DEF Threads
<1>3. PICK steps \in Becomes("loop", how) : Then("loop", steps)
  BY <1>1 DEF Becomes
<1>4. PICK T \in SUBSET After(how) :
          /\ doing("loop") = {how} \cup T /\ doing("loop")' = elems(steps) \cup T
          /\ \A u \in Threads : u # "loop" => doing(u)' = doing(u)
          /\ Control'
  BY <1>2, <1>3, Advance
<1>5. elems(steps) \in {{}, {"callback"}}
  BY <1>3, Elems DEF Becomes
<1>6. doing("app")' = doing("app")
  BY <1>2, <1>4
<1>7. socket.over /\ socket.silent
  BY <1>4 DEF Flow, Lives, Closes, Meets
<1>8. "openStream" \in doing("app") => socket.silent
  BY <1>7
<1>9. "connect" \notin doing("app") /\ "status" \notin doing("loop")'
  BY <1>4, <1>5 DEF Flow, Lives, After
<1>10. Lives'
  BY <1>1, <1>4, <1>5, <1>6, <1>9 DEF Flow, Lives, Meets, After
<1>11. Closes'
  BY <1>1, <1>4, <1>5, <1>6, <1>7, <1>9 DEF Flow, Lives, Closes, Meets, After
<1>12. Wired'
  BY <1>1, <1>4, <1>5, <1>6 DEF Flow, Lives, Closes, Wired, Meets, After
<1>. QED
  BY <1>4, <1>10, <1>11, <1>12 DEF Flow

\* A call begins.
LEMMA CallFlow ==
    ASSUME Control, Types, Flow, Open \/ CallSend \/ CloseAsync \/ Close
    PROVE  Control' /\ Flow'
<1>1. PICK steps \in {<<"socketClose", "join", "init">>, <<"send">>, <<"requestClose">>,
                      <<"requestClose", "socketClose", "join", "settle">>} :
          /\ todo["app"] = <<>> /\ todo' = [todo EXCEPT !["app"] = steps]
          /\ conn' = conn /\ socket' = socket
          /\ past'.wire = past.wire
          /\ \/ past'.opens = past.opens
             \/ steps = <<"socketClose", "join", "init">>
  BY DEF Open, CallSend, CloseAsync, Close, Starts, Types, Pasts
<1>2. "loop" \in Threads /\ "app" \in Threads /\ "app" # "loop"
  BY DEF Threads
<1>3. Fits("opened", steps) /\ steps \in Seq(StepsOf("app"))
  <2>1. Fits("opened", steps)
    BY DEF Fits, After
  <2> DEFINE S == StepsOf("app")
  <2>2. /\ "socketClose" \in S /\ "join" \in S /\ "init" \in S /\ "send" \in S
        /\ "requestClose" \in S /\ "settle" \in S
    BY DEF StepsOf, Asked
  <2>3. steps \in Seq(S)
    <3>. HIDE DEF S
    <3>1. /\ \A x : x \in S => <<x>> \in Seq(S)
          /\ \A x, y, z : x \in S /\ y \in S /\ z \in S => <<x, y, z>> \in Seq(S)
          /\ \A x, y, z, u : x \in S /\ y \in S /\ z \in S /\ u \in S
                 => <<x, y, z, u>> \in Seq(S)
      OBVIOUS
    <3>. QED
      BY <2>2, <3>1
  <2>. QED
    BY <2>1, <2>3
<1>4. /\ Control' /\ doing("app")' = elems(steps)
      /\ \A u \in Threads : u # "app" => doing(u)' = doing(u)
  BY <1>1, <1>2, <1>3, Relisted
<1>5. doing("app") = {} /\ doing("loop")' = doing("loop")
  BY <1>1, <1>2, <1>4, Elems DEF doing
<1>6. \/ elems(steps) = {"socketClose", "join", "init"}
      \/ /\ elems(steps) \in {{"send"}, {"requestClose"},
                              {"requestClose", "socketClose", "join", "settle"}}
         /\ past'.opens = past.opens
  BY <1>1 DEF elems
<1>7. Lives'
  BY <1>1, <1>4, <1>5, <1>6 DEF Flow, Lives, Meets
<1>8. Closes'
  BY <1>1, <1>4, <1>5, <1>6 DEF Flow, Closes, Meets
<1>9. Wired'
  BY <1>1, <1>4, <1>5, <1>6 DEF Flow, Wired, Meets
<1>. QED
  BY <1>4, <1>7, <1>8, <1>9 DEF Flow

\* The loop begins, or there is an error.
LEMMA ConnectFlow ==
    ASSUME Control, Types, Flow, Connect
    PROVE  Control' /\ Flow'
<1>1. /\ At("app", "connect") /\ conn' = conn /\ past' = past
      /\ socket' = socket \/ socket' = [socket EXCEPT !.up = TRUE]
      /\ "loop" \in Threads /\ "app" \in Threads /\ "app" # "loop"
  BY DEF Connect, OnlySocket, Threads
<1>2. CASE Then("app", <<"fireError">>) /\ socket' = socket
  <2>1. PICK steps \in Becomes("app", "connect") : Then("app", steps) /\ steps = <<"fireError">>
    BY <1>2 DEF Becomes
  <2>2. PICK T \in SUBSET After("connect") :
            /\ doing("app") = {"connect"} \cup T /\ doing("app")' = elems(steps) \cup T
            /\ \A u \in Threads : u # "app" => doing(u)' = doing(u)
            /\ Control'
    BY <1>1, <2>1, Advance
  <2>3. elems(steps) = {"fireError"} /\ doing("loop")' = doing("loop")
    BY <1>1, <2>1, <2>2, Elems
  <2>4. Lives'
    BY <1>1, <1>2, <2>2, <2>3 DEF Flow, Lives, Meets, After
  <2>5. Closes'
    BY <1>1, <1>2, <2>2, <2>3 DEF Flow, Closes, Meets, After
  <2>6. Wired'
    BY <1>1, <1>2, <2>2, <2>3 DEF Flow, Wired, Meets, After
  <2>. QED
    BY <2>2, <2>4, <2>5, <2>6 DEF Flow
<1>3. CASE /\ socket' = [socket EXCEPT !.up = TRUE]
           /\ todo' = [todo EXCEPT !["app"] = << "openStream" >> \o Tail(@),
                                   !["loop"] = << "events" >>]
  <2> DEFINE steps == << "openStream" >>
             list == << "openStream" >> \o Tail(todo["app"])
             events == << "events" >>
  <2>1. /\ todo \in [Threads -> Seq(QuicSteps)] /\ todo["app"] # <<>>
        /\ todo["app"] \in Seq(StepsOf("app"))
    BY <1>1 DEF Control, Todos, At
  <2>2. todo'["app"] = list /\ todo'["loop"] = << "events" >> /\ DOMAIN todo' = Threads
        /\ todo' = [[todo EXCEPT !["app"] = list] EXCEPT !["loop"] = << "events" >>]
    BY <1>1, <1>3, <2>1
  <2>3. steps \in Becomes("app", "connect")
    BY DEF Becomes
  <2>4. PICK s \in {"connect"} : At("app", s) /\ s = "connect"
    BY <1>1
  <2>. HIDE DEF steps
  <2>5. /\ todo'["app"] \in Seq(StepsOf("app")) /\ Ordering("app")'
        /\ \E T \in SUBSET After(s) :
               doing("app") = {s} \cup T /\ doing("app")' = elems(steps) \cup T
    <3>1. todo'["app"] = steps \o Tail(todo["app"])
      BY <2>2 DEF steps
    <3>2. steps \in Becomes("app", s)
      BY <2>3, <2>4
    <3>3. PICK t \in Threads : t = "app"
      BY <1>1
    <3>4. At(t, s) /\ todo'[t] = steps \o Tail(todo[t]) /\ steps \in Becomes(t, s)
      BY <2>4, <3>1, <3>2, <3>3
    <3>5. /\ todo'[t] \in Seq(StepsOf(t)) /\ Ordering(t)'
          /\ \E T \in SUBSET After(s) :
                 doing(t) = {s} \cup T /\ doing(t)' = elems(steps) \cup T
      BY <3>4, AdvanceIn
    <3>. QED
      BY <3>3, <3>5
  <2>6. /\ Ordering("loop")' /\ doing("loop")' = elems(events)
        /\ events \in Seq(StepsOf("loop"))
    <3>1. Fits("opened", events)
      BY DEF Fits, After
    <3>2. "events" \in StepsOf("loop")
      BY DEF StepsOf
    <3> DEFINE S == StepsOf("loop")
    <3>3. events \in Seq(S)
      <4>1. "events" \in S
        BY <3>2
      <4>. HIDE DEF S
      <4>. QED
        BY <4>1
    <3>4. todo'["loop"] = events
      BY <2>2
    <3>. HIDE DEF events
    <3>. QED
      BY <1>1, <3>1, <3>3, <3>4, Listed
  <2>7. Control'
    <3>1. todo' \in [Threads -> Seq(QuicSteps)]
      <4>1. \A t \in Threads : StepsOf(t) \subseteq QuicSteps
        BY DEF StepsOf, Asked, QuicSteps
      <4>2. list \in Seq(QuicSteps) /\ events \in Seq(QuicSteps)
        <5>1. list \in Seq(StepsOf("app"))
          BY <2>2, <2>5
        <5>. HIDE DEF list, events
        <5>. QED
          BY <1>1, <2>6, <4>1, <5>1, SeqMonotonic
      <4>. HIDE DEF list
      <4>. QED
        BY <1>1, <2>1, <2>2, <4>2
    <3>2. \A t \in Threads : todo'[t] \in Seq(StepsOf(t)) /\ Ordering(t)'
      <4>1. todo'["loop"] \in Seq(StepsOf("loop")) /\ Ordering("loop")'
        BY <2>2, <2>6
      <4>2. \A t \in Threads : t = "app" \/ t = "loop"
        BY DEF Threads
      <4>. QED
        BY <2>5, <4>1, <4>2
    <3>. QED
      BY <3>1, <3>2, Together
  <2>8. /\ elems(steps) = {"openStream"} /\ elems(events) = {"events"}
    BY Elems DEF steps
  <2>9. PICK T \in SUBSET After("connect") :
            doing("app") = {"connect"} \cup T /\ doing("app")' = {"openStream"} \cup T
    BY <2>4, <2>5, <2>8
  <2>10. doing("loop")' = {"events"} /\ doing("loop") = {} /\ ~socket.up
    BY <2>6, <2>8, <2>9 DEF Flow, Lives
  <2>11. /\ socket'.up /\ socket'.stream = socket.stream /\ socket'.silent = socket.silent
         /\ socket'.over = socket.over
    BY <1>3 DEF Types, Sockets
  <2>. HIDE DEF list, events
  <2>12. Lives'
    BY <1>1, <2>9, <2>10, <2>11 DEF Flow, Lives, Meets, After
  <2>13. Closes'
    BY <1>1, <2>9, <2>10, <2>11 DEF Flow, Lives, Closes, Meets, After
  <2>14. Wired'
    BY <1>1, <2>9, <2>10, <2>11 DEF Flow, Lives, Wired, Meets, After
  <2>. QED
    BY <2>7, <2>12, <2>13, <2>14 DEF Flow
<1>. QED
  BY <1>2, <1>3 DEF Connect

LEMMA FlowInit == Init => Control /\ Flow
<1>. SUFFICES ASSUME Init PROVE Control /\ Flow
  OBVIOUS
<1>1. \A t \in Threads : todo[t] = <<>>
  BY DEF Init
<1>2. \A S : <<>> \in Seq(S)
  BY EmptySeq
<1>3. todo \in [Threads -> Seq(QuicSteps)]
  BY <1>2 DEF Init
<1>4. Control
  BY <1>1, <1>2, <1>3 DEF Control, Todos, Ordered, Ordering
<1>5. doing("app") = {} /\ doing("loop") = {}
  BY <1>1, Elems DEF doing, Threads
<1>6. past.wire = <<>> /\ past.opens = 0 /\ Len(past.wire) = 0 /\ DOMAIN past.wire = {}
  BY DEF Init
<1>7. Flow
  BY <1>5, <1>6 DEF Init, NoSocket, Flow, Lives, Closes, Wired, Meets
<1>. QED
  BY <1>4, <1>7

LEMMA FlowNext == Control /\ Types /\ Flow /\ [Next]_vars => Control' /\ Flow'
<1>. SUFFICES ASSUME Control, Types, Flow, [Next]_vars PROVE Control' /\ Flow'
  OBVIOUS
<1>1. CASE UNCHANGED vars
  <2>1. /\ conn' = conn /\ socket' = socket /\ past' = past /\ todo' = todo
    BY <1>1 DEF vars
  <2>2. Control'
    BY <2>1 DEF Control, Todos, Ordered, Ordering
  <2>3. doing("app")' = doing("app") /\ doing("loop")' = doing("loop")
    BY <2>1 DEF doing
  <2>4. Flow'
    BY <2>1, <2>3 DEF Flow, Lives, Closes, Wired, Meets
  <2>. QED
    BY <2>2, <2>4
<1>2. ASSUME NEW t \in Threads, Step(t)
      PROVE  Control' /\ Flow'
  BY <1>2, SendFlow, RequestCloseFlow, StoreClosingFlow, SocketCloseFlow, FireErrorFlow,
     CallbackFlow DEF Step
<1>3. CASE AppStep
  BY <1>2, <1>3, InitFlow, ConnectFlow, OpenStreamFlow, OpenedFlow, JoinFlow, SettleFlow
  DEF AppStep, Threads
<1>4. CASE LoopStep
  BY <1>2, <1>4, SendHeadFlow, StatusFlow, FramesFlow, OnCloseFlow, FireCloseFlow, LoopEndsFlow
  DEF LoopStep, Threads
<1>5. CASE Open \/ CallSend \/ CloseAsync \/ Close
  BY <1>5, CallFlow
<1>6. CASE StreamOpens \/ Recv \/ Fails \/ Ends
  BY <1>6, StreamOpensFlow, RecvFlow, FailsFlow, EndsFlow
<1>. QED
  BY <1>1, <1>3, <1>4, <1>5, <1>6 DEF Next

-------------------------------------------------------------------------------
(* The theorems on types and on what can be opened again.                    *)

LEMMA FlowHolds == Spec => [](Types /\ Control /\ Flow)
<1>1. Init => Types /\ Control /\ Flow
  BY TypesInit, FlowInit
<1>2. (Types /\ Control /\ Flow) /\ [Next]_vars => (Types /\ Control /\ Flow)'
  BY TypesNext, FlowNext
<1>. QED
  BY <1>1, <1>2, PTL DEF Spec

\* Every variable keeps its type, and every thread runs steps of open, close, send and of the
\* callbacks only, whatever bytes come and wherever a read ends (handleDataFramesLocked).
THEOREM TypeCorrect == Spec => []TypeOK
<1>1. Types /\ Control => TypeOK
  BY DEF Types, Control, Todos, TypeOK, Conns, Sockets, Rxs, Pasts, Logs, Events
<1>. QED
  BY <1>1, FlowHolds, PTL

\* When nothing is going on any more, the end of the last connection was reported and open
\* works again, however the callbacks of the loop, a close and a failing open met.
THEOREM CanReopenCorrect == Spec => []CanReopen
<1>1. Types /\ Control /\ Flow => CanReopen
  <2>. SUFFICES ASSUME Flow, todo = [t \in Threads |-> <<>>], past.opens > 0
                PROVE  /\ conn.close_called
                       /\ conn.state \in {"Closed", "Closing"} /\ ~conn.running
    BY DEF CanReopen
  <2>1. doing("app") = {} /\ doing("loop") = {}
    BY Elems DEF doing, Threads
  <2>2. ~socket.up
    BY <2>1 DEF Flow, Lives
  <2>3. conn.close_called
    BY <2>1, <2>2 DEF Flow, Closes, Meets
  <2>. QED
    BY <2>3 DEF Flow, Closes
<1>. QED
  BY <1>1, FlowHolds, PTL

-------------------------------------------------------------------------------
(* Parts of what was written.                                                *)

\* The bytes from a + 1 to h.
LEMMA Piece ==
    ASSUME NEW S, NEW B \in Seq(S), NEW a \in Nat, NEW h \in Nat, a <= h, h <= Len(B)
    PROVE  /\ SubSeq(B, a + 1, h) \in Seq(S) /\ Len(SubSeq(B, a + 1, h)) = h - a
           /\ h - a \in Nat
           /\ \A i \in 1..h - a : SubSeq(B, a + 1, h)[i] = B[a + i]
           /\ \A q \in Seq(S) : Len(q) = h - a /\ (\A i \in 1..h - a : q[i] = B[a + i])
                  => q = SubSeq(B, a + 1, h)
<1>1. \A i \in a + 1..h : B[i] \in S
  <2>1. \A i \in 1..Len(B) : B[i] \in S
    BY ElementOfSeq
  <2>2. Len(B) \in Nat
    BY LenProperties
  <2>3. \A i \in a + 1..h : i \in 1..Len(B)
    BY <2>2
  <2>. QED
    BY <2>1, <2>3
<1>2. /\ SubSeq(B, a + 1, h) \in Seq(S)
      /\ Len(SubSeq(B, a + 1, h)) = IF a + 1 <= h THEN h - (a + 1) + 1 ELSE 0
      /\ \A i \in 1..h - (a + 1) + 1 : SubSeq(B, a + 1, h)[i] = B[(a + 1) + i - 1]
  BY <1>1, SubSeqProperties
<1>3. Len(SubSeq(B, a + 1, h)) = h - a
  BY <1>2
<1>4. \A i \in 1..h - a : SubSeq(B, a + 1, h)[i] = B[a + i]
  <2>1. \A i \in 1..h - a : i \in 1..h - (a + 1) + 1 /\ (a + 1) + i - 1 = a + i
    OBVIOUS
  <2>. QED
    BY <1>2, <2>1
<1> DEFINE p == SubSeq(B, a + 1, h)
<1>5. p \in Seq(S) /\ Len(p) = h - a /\ \A i \in 1..h - a : p[i] = B[a + i]
  BY <1>2, <1>3, <1>4
<1>. HIDE DEF p
<1>6. \A q \in Seq(S) : Len(q) = h - a /\ (\A i \in 1..h - a : q[i] = B[a + i]) => q = p
  <2>. TAKE q \in Seq(S)
  <2>. HAVE Len(q) = h - a /\ (\A i \in 1..h - a : q[i] = B[a + i])
  <2>1. Len(q) = Len(p) /\ \A i \in 1..Len(q) : q[i] = p[i]
    BY <1>5
  <2>. QED
    BY <1>5, <2>1, SeqEqual
<1>. QED
  BY <1>5, <1>6 DEF p

LEMMA Exactly ==
    ASSUME NEW S, NEW B \in Seq(S), NEW a \in Nat, NEW h \in Nat, a <= h, h <= Len(B),
           NEW q \in Seq(S), Len(q) = h - a, \A i \in 1..h - a : q[i] = B[a + i]
    PROVE  q = SubSeq(B, a + 1, h)
BY Piece

\* What is written is incomplete until its last byte.
LEMMA Incomplete ==
    ASSUME NEW n \in Nat, NEW len \in {1, 2, 4, 8}, Holds(n, len), NEW p \in Seq(0..255),
           Len(p) < len, \A i \in 1..Len(p) : p[i] = PutWide(n, len)[i]
    PROVE  GetUVarInt(p) = [dest |-> 0, len |-> 0]
<1>1. CASE p = <<>>
  BY <1>1 DEF GetUVarInt
<1>2. CASE p # <<>>
  <2>1. 1 \in 1..Len(p)
    <3>1. Len(p) \in Nat /\ Len(p) # 0
      BY <1>2, LenProperties, EmptySeq
    <3>. QED
      BY <3>1
  <2>2. GetUVarIntLen(p[1]) = len
    BY <2>1, WrittenBytes
  <2>. QED
    BY <2>2 DEF GetUVarInt
<1>. QED
  BY <1>1, <1>2

\* A number that 8 bytes hold is held by as many as PutUVarInt takes.
LEMMA Taken ==
    ASSUME NEW n \in Nat, Holds(n, 8)
    PROVE  PutUVarIntLen(n) \in {1, 2, 4, 8} /\ Holds(n, PutUVarIntLen(n))
<1>1. PutUVarIntLen(n) \in {1, 2, 4, 8}
  BY SMT DEF PutUVarIntLen
<1>2. CASE PutUVarIntLen(n) = 1
  BY <1>2, SMT DEF PutUVarIntLen, Holds
<1>3. CASE PutUVarIntLen(n) = 2
  <2>1. n < 16384
    BY <1>3, SMT DEF PutUVarIntLen
  <2>2. n \div 256 < 64
    BY <2>1, SMT
  <2>. QED
    BY <1>3, <2>2 DEF Holds
<1>4. CASE PutUVarIntLen(n) = 4
  <2>1. n < 1073741824
    BY <1>4, SMT DEF PutUVarIntLen
  <2>2. PICK a \in Nat : a = n \div 256 /\ n = 256 * a + (n % 256) /\ n % 256 \in 0..255
    BY Bytes
  <2>3. PICK b \in Nat : b = a \div 256 /\ a = 256 * b + (a % 256) /\ a % 256 \in 0..255
    BY Bytes
  <2>4. PICK c \in Nat : c = b \div 256 /\ b = 256 * c + (b % 256) /\ b % 256 \in 0..255
    BY Bytes
  <2>5. n >= 256 * a /\ a >= 256 * b /\ b >= 256 * c
    BY <2>2, <2>3, <2>4
  <2>6. c < 64
    BY <2>1, <2>5, SMT
  <2>7. Shift3(n) = c
    BY <2>2, <2>3, <2>4 DEF Shift3
  <2>. QED
    BY <1>4, <2>6, <2>7 DEF Holds
<1>5. CASE PutUVarIntLen(n) = 8
  BY <1>5
<1>. QED
  BY <1>1, <1>2, <1>3, <1>4, <1>5

\* The size of the parameters is small.
LEMMA ParamsHeld == ParamsSize \in Nat /\ Holds(ParamsSize, 8)
<1>1. 100 \div 256 = 0 /\ 0 \div 256 = 0
  OBVIOUS
<1>2. Shift3(100) = 0 /\ Shift3(0) = 0
  BY <1>1 DEF Shift3
<1>. QED
  BY <1>1, <1>2 DEF ParamsSize, Holds

\* The peer reads the marker and the parameters of the url before any message, whichever
\* thread sends and however long onOpenStream takes (send, onOpenStream); and every size is
\* read back as it was written, at every length, and not before its last byte (PutUVarInt,
\* GetUVarInt).
THEOREM HeadFirstCorrect == Spec => []HeadFirst
<1>1. Types /\ Flow => HeadFirst
  <2>. SUFFICES ASSUME Types, Flow PROVE HeadFirst
    OBVIOUS
  <2>1. \A i \in DOMAIN past.wire :
            past.wire[i].what = IF i \in DOMAIN head THEN head[i] ELSE "message"
    BY DEF Flow, Wired
  <2>2. ASSUME NEW i \in DOMAIN past.wire \ {1}
        PROVE  LET written == past.wire[i].head
               IN  /\ GetUVarInt(written) = [dest |-> past.wire[i].size, len |-> Len(written)]
                   /\ \A k \in 0..Len(written) - 1 :
                          GetUVarInt(SubSeq(written, 1, k)).len = 0
    <3>1. past.wire \in Seq(Sent) /\ DOMAIN past.wire = 1..Len(past.wire)
          /\ Len(past.wire) \in Nat
      BY LenProperties DEF Types, Pasts, Wires
    <3>2. past.wire[i] \in Sent
      BY <3>1, ElementOfSeq
    <3>3. past.wire[i].what # "marker"
      <4>1. i # 1 /\ i \in Nat
        BY <3>1
      <4>2. i \in DOMAIN head => head[i] = "params"
        BY <4>1 DEF head
      <4>. HIDE DEF head
      <4>. QED
        BY <2>1, <4>2
    <3>4. PICK n \in Nat : /\ Holds(n, 8) /\ past.wire[i].size = n
                           /\ past.wire[i].head = PutUVarInt(n)
      <4>1. CASE past.wire[i] \in {sendFramed("marker", ParamsSize),
                                   sendFramed("params", ParamsSize)}
        BY <3>3, <4>1, ParamsHeld DEF sendFramed
      <4>2. CASE past.wire[i] \in {sendFramed("message", n) : n \in Sizes}
        <5>1. PICK n \in Sizes : past.wire[i] = sendFramed("message", n)
          BY <4>2
        <5>2. n \in Nat /\ Holds(n, 8)
          BY QuicAssumption
        <5>. QED
          BY <5>1, <5>2 DEF sendFramed
      <4>. QED
        BY <3>2, <4>1, <4>2 DEF Sent
    <3>5. PICK len \in {1, 2, 4, 8} : len = PutUVarIntLen(n) /\ Holds(n, len)
      <4>1. PutUVarIntLen(n) \in {1, 2, 4, 8} /\ Holds(n, PutUVarIntLen(n))
        BY <3>4, Taken
      <4>. QED
        BY <4>1
    <3> DEFINE w == PutWide(n, len)
    <3>6. past.wire[i].head = w
      BY <3>4, <3>5 DEF PutUVarInt
    <3>7. w \in Seq(0..255) /\ Len(w) = len /\ len \in Nat /\ len # 0
      <4>1. /\ PutWide(n, len) \in Seq(0..255) /\ Len(PutWide(n, len)) = len
        BY <3>5, WrittenBytes
      <4>2. len \in Nat /\ len # 0
        OBVIOUS
      <4>. QED
        BY <4>1, <4>2
    <3>8. GetUVarInt(w) = [dest |-> n, len |-> len]
      <4>1. Begins(w, n, len)
        BY <3>7 DEF Begins
      <4>. HIDE DEF w
      <4>. QED
        BY <3>5, <3>7, <4>1, ReadBack
    <3>9. ASSUME NEW k \in 0..len - 1
          PROVE  GetUVarInt(SubSeq(w, 1, k)).len = 0
      <4>1. k \in Nat /\ k <= Len(w) /\ 0 <= k /\ k < len /\ 0 + 1 = 1 /\ k - 0 = k
        BY <3>7
      <4>2. /\ SubSeq(w, 1, k) \in Seq(0..255) /\ Len(SubSeq(w, 1, k)) = k
            /\ \A j \in 1..k : SubSeq(w, 1, k)[j] = w[j]
        <5>. HIDE DEF w
        <5>1. PICK B \in Seq(0..255), S \in {0..255} : B = w /\ S = 0..255
          BY <3>7
        <5>2. 0 \in Nat /\ 0 <= k /\ k <= Len(B) /\ B \in Seq(S)
          BY <4>1, <5>1
        <5>3. /\ SubSeq(B, 0 + 1, k) \in Seq(S) /\ Len(SubSeq(B, 0 + 1, k)) = k - 0
              /\ \A j \in 1..k - 0 : SubSeq(B, 0 + 1, k)[j] = B[0 + j]
          BY <4>1, <5>2, Piece, SMTT(30)
        <5>4. \A j \in 1..k : 0 + j = j
          OBVIOUS
        <5>. QED
          BY <4>1, <5>1, <5>3, <5>4
      <4>3. GetUVarInt(SubSeq(w, 1, k)) = [dest |-> 0, len |-> 0]
        <5>1. PICK p \in Seq(0..255) : p = SubSeq(w, 1, k)
          BY <4>2
        <5>2. Len(p) = k /\ Len(p) < len
          BY <4>1, <4>2, <5>1
        <5>3. \A j \in 1..Len(p) : p[j] = PutWide(n, len)[j]
          <6>1. \A j \in 1..k : p[j] = w[j]
            BY <4>2, <5>1
          <6>. QED
            BY <5>2, <6>1
        <5>4. GetUVarInt(p) = [dest |-> 0, len |-> 0]
          BY <3>4, <3>5, <5>2, <5>3, Incomplete
        <5>. QED
          BY <5>1, <5>4
      <4>. QED
        BY <4>3
    <3>. HIDE DEF w
    <3>. QED
      BY <3>4, <3>6, <3>7, <3>8, <3>9
  <2>. QED
    BY <2>1, <2>2 DEF HeadFirst
<1>. QED
  BY <1>1, FlowHolds, PTL

-------------------------------------------------------------------------------
(* Where the parts of a stream lie.                                          *)

\* The first n parts end there.
ends(s, n) == Len(bytes(s, n))

LEMMA Ending ==
    ASSUME NEW s \in Streams
    PROVE  /\ ends(s, 0) = 0 /\ Len(s) \in Nat /\ Len(s) # 0
           /\ \A n \in 0..Len(s) : ends(s, n) \in Nat
           /\ \A n \in 1..Len(s) :
                  /\ s[n] \in StreamPart /\ Holds(s[n].number, s[n].len)
                  /\ s[n].len \in {1, 2, 4, 8} /\ Len(s[n].payload) \in Nat
                  /\ ends(s, n) = ends(s, n - 1) + (s[n].len + Len(s[n].payload))
                  /\ \A i \in 1..ends(s, n - 1) : bytes(s, n)[i] = bytes(s, n - 1)[i]
                  /\ \A i \in 1..s[n].len + Len(s[n].payload) :
                         bytes(s, n)[ends(s, n - 1) + i] = bytesOf(s[n])[i]
<1>1. /\ s \in Seq(StreamPart) /\ Len(s) \in Nat /\ Len(s) # 0
      /\ \A n \in 1..Len(s) : s[n] \in StreamPart /\ Holds(s[n].number, s[n].len)
  <2>1. s \in Seq(StreamPart) /\ s # <<>>
        /\ \A i \in DOMAIN s : Holds(s[i].number, s[i].len)
    BY QuicAssumption
  <2>2. Len(s) \in Nat /\ Len(s) # 0 /\ DOMAIN s = 1..Len(s)
    BY <2>1, LenProperties, EmptySeq
  <2>. QED
    BY <2>1, <2>2, ElementOfSeq
<1>2. \A n \in 0..Len(s) : bytes(s, n) \in Seq(0..255) /\ ends(s, n) \in Nat
  BY Upto, LenProperties DEF ends
<1>3. ends(s, 0) = 0
  BY Upto, EmptySeq DEF ends
<1>4. ASSUME NEW n \in 1..Len(s)
      PROVE  /\ s[n].len \in {1, 2, 4, 8} /\ Len(s[n].payload) \in Nat
             /\ ends(s, n) = ends(s, n - 1) + (s[n].len + Len(s[n].payload))
             /\ \A i \in 1..ends(s, n - 1) : bytes(s, n)[i] = bytes(s, n - 1)[i]
             /\ \A i \in 1..s[n].len + Len(s[n].payload) :
                    bytes(s, n)[ends(s, n - 1) + i] = bytesOf(s[n])[i]
  <2>1. PICK part \in StreamPart : part = s[n] /\ Holds(part.number, part.len)
    BY <1>1
  <2>2. /\ bytesOf(part) \in Seq(0..255) /\ part.len \in {1, 2, 4, 8}
        /\ Len(part.payload) \in Nat /\ Len(bytesOf(part)) = part.len + Len(part.payload)
    BY <2>1, PartBytes
  <2>3. PICK p \in Seq(0..255) : p = bytesOf(part)
    BY <2>2
  <2>4. n - 1 \in 0..Len(s) /\ n \in 0..Len(s)
    BY <1>1
  <2>5. PICK b \in Seq(0..255) : b = bytes(s, n - 1)
    BY <1>2, <2>4
  <2>6. bytes(s, n) = b \o p
    BY <2>1, <2>3, <2>5, Upto
  <2>7. /\ b \o p \in Seq(0..255) /\ Len(b \o p) = Len(b) + Len(p)
        /\ \A i \in 1..Len(b) + Len(p) : (b \o p)[i] = IF i <= Len(b) THEN b[i] ELSE p[i - Len(b)]
    BY ConcatProperties
  <2>8. Len(b) \in Nat /\ Len(p) \in Nat
    BY LenProperties
  <2>9. \A i \in 1..Len(b) : (b \o p)[i] = b[i]
    <3>1. \A i \in 1..Len(b) : i \in 1..Len(b) + Len(p) /\ i <= Len(b)
      BY <2>8
    <3>. QED
      BY <2>7, <3>1
  <2>10. \A i \in 1..Len(p) : (b \o p)[Len(b) + i] = p[i]
    <3>1. \A i \in 1..Len(p) : /\ Len(b) + i \in 1..Len(b) + Len(p)
                               /\ ~(Len(b) + i <= Len(b)) /\ (Len(b) + i) - Len(b) = i
      BY <2>8
    <3>. QED
      BY <2>7, <3>1
  <2>11. ends(s, n) = Len(b) + Len(p) /\ ends(s, n - 1) = Len(b)
    BY <2>5, <2>6, <2>7 DEF ends
  <2>. QED
    BY <2>1, <2>2, <2>3, <2>5, <2>6, <2>9, <2>10, <2>11
<1>. QED
  BY <1>1, <1>2, <1>3, <1>4

\* The first parts begin the whole stream, and end in their order.
LEMMA InStream ==
    ASSUME NEW s \in Streams, NEW n \in 0..Len(s), NEW m \in 0..Len(s), n <= m
    PROVE  ends(s, n) <= ends(s, m) /\ \A i \in 1..ends(s, n) : bytes(s, n)[i] = bytes(s, m)[i]
<1> DEFINE Begun(k) == /\ ends(s, n) <= ends(s, k)
                       /\ \A i \in 1..ends(s, n) : bytes(s, n)[i] = bytes(s, k)[i]
           T == {d \in Nat : n + d <= Len(s) => Begun(n + d)}
<1>0. Len(s) \in Nat /\ ends(s, n) \in Nat
  BY Ending
<1>1. 0 \in T
  <2>1. n + 0 = n
    OBVIOUS
  <2>2. Begun(n)
    BY <1>0
  <2>3. Begun(n + 0)
    BY <2>1, <2>2
  <2>. HIDE DEF Begun
  <2>. QED
    BY <2>3
<1>2. ASSUME NEW d \in T
      PROVE  d + 1 \in T
  <2>1. CASE n + (d + 1) <= Len(s)
    <3>1. d \in Nat /\ d + 1 \in Nat /\ n + d <= Len(s) /\ n + d \in 0..Len(s)
          /\ n + (d + 1) \in 1..Len(s) /\ (n + (d + 1)) - 1 = n + d
          /\ n + (d + 1) \in 0..Len(s)
      BY <1>0, <2>1
    <3>2. Begun(n + d)
      BY <3>1
    <3>3. PICK k \in 1..Len(s) : k = n + (d + 1)
      BY <3>1
    <3>4. /\ ends(s, k) = ends(s, k - 1) + (s[k].len + Len(s[k].payload))
          /\ s[k].len \in Nat /\ Len(s[k].payload) \in Nat
          /\ \A i \in 1..ends(s, k - 1) : bytes(s, k)[i] = bytes(s, k - 1)[i]
      <4>1. s[k].len \in {1, 2, 4, 8}
        BY Ending
      <4>2. s[k].len \in Nat
        BY <4>1
      <4>. QED
        BY <4>2, Ending
    <3>5. k - 1 = n + d /\ ends(s, k - 1) \in Nat
      BY <3>1, <3>3, Ending
    <3>6. Begun(k - 1)
      BY <3>2, <3>5
    <3>7. ends(s, k - 1) <= ends(s, k)
      BY <3>4, <3>5
    <3>8. ends(s, k) \in Nat
      BY <3>1, <3>3, Ending
    <3>9. \A i \in 1..ends(s, n) : i \in 1..ends(s, k - 1)
      BY <1>0, <3>5, <3>6
    <3>10. Begun(k)
      BY <1>0, <3>4, <3>5, <3>6, <3>7, <3>8, <3>9
    <3>11. Begun(n + (d + 1))
      BY <3>3, <3>10
    <3>. HIDE DEF Begun
    <3>. QED
      BY <3>1, <3>11
  <2>2. CASE ~(n + (d + 1) <= Len(s))
    <3>1. d + 1 \in Nat
      OBVIOUS
    <3>. HIDE DEF Begun
    <3>. QED
      BY <2>2, <3>1
  <2>. QED
    BY <2>1, <2>2
<1>3. T = Nat
  <2>. HIDE DEF Begun
  <2>1. T \subseteq Nat
    OBVIOUS
  <2>. HIDE DEF T
  <2>. QED
    BY <1>1, <1>2, <2>1, NatSets
<1>4. m - n \in Nat /\ n + (m - n) = m /\ m <= Len(s)
  BY <1>0
<1>5. Begun(n + (m - n))
  <2>. HIDE DEF Begun
  <2>. QED
    BY <1>3, <1>4
<1>. QED
  BY <1>4, <1>5

\* Where the k-th part lies in the whole stream.
LEMMA Laid ==
    ASSUME NEW s \in Streams, NEW k \in 1..Len(s)
    PROVE  /\ bytes(s, Len(s)) \in Seq(0..255)
           /\ ends(s, k) <= ends(s, Len(s)) /\ ends(s, k) \in Nat /\ ends(s, k - 1) \in Nat
           /\ \A i \in 1..s[k].len + Len(s[k].payload) :
                  bytes(s, Len(s))[ends(s, k - 1) + i] = bytesOf(s[k])[i]
<1>1. Len(s) \in Nat /\ k \in 0..Len(s) /\ k - 1 \in 0..Len(s) /\ Len(s) \in 0..Len(s)
      /\ k <= Len(s)
  BY Ending
<1>2. ends(s, k) \in Nat /\ ends(s, k - 1) \in Nat /\ bytes(s, Len(s)) \in Seq(0..255)
  BY <1>1, Ending, Upto
<1>3. /\ ends(s, k) <= ends(s, Len(s))
      /\ \A i \in 1..ends(s, k) : bytes(s, k)[i] = bytes(s, Len(s))[i]
  BY <1>1, InStream
<1>4. PICK n \in Nat : n = s[k].len + Len(s[k].payload)
  <2>1. s[k].len \in {1, 2, 4, 8} /\ Len(s[k].payload) \in Nat
    BY Ending
  <2>2. s[k].len \in Nat
    BY <2>1
  <2>. QED
    BY <2>1, <2>2
<1>5. /\ ends(s, k) = ends(s, k - 1) + n
      /\ \A i \in 1..n : bytes(s, k)[ends(s, k - 1) + i] = bytesOf(s[k])[i]
  BY <1>4, Ending
<1>6. \A i \in 1..n : ends(s, k - 1) + i \in 1..ends(s, k)
  BY <1>2, <1>5
<1>. QED
  BY <1>2, <1>3, <1>4, <1>5, <1>6

\* A part of a part.
LEMMA Inner ==
    ASSUME NEW S, NEW B \in Seq(S), NEW a \in Nat, NEW h \in Nat, a <= h, h <= Len(B),
           NEW b \in Seq(S), b = SubSeq(B, a + 1, h), NEW j \in Nat, j <= h - a
    PROVE  SubSeq(b, j + 1, Len(b)) = SubSeq(B, (a + j) + 1, h)
<1>1. /\ Len(b) = h - a /\ h - a \in Nat
      /\ \A i \in 1..h - a : b[i] = B[a + i]
  BY Piece
<1>2. PICK n \in Nat : n = h - a
  BY <1>1
<1> DEFINE p == SubSeq(b, j + 1, n)
<1>3. /\ p \in Seq(S) /\ Len(p) = n - j /\ n - j \in Nat
      /\ \A i \in 1..n - j : p[i] = b[j + i]
  <2>1. j <= n /\ n <= Len(b)
    BY <1>1, <1>2
  <2>. QED
    BY <2>1, Piece
<1>. HIDE DEF p
<1>4. PICK c \in Nat : c = a + j
  OBVIOUS
<1>5. c <= h /\ h - c = n - j
  BY <1>2, <1>4
<1>6. \A i \in 1..h - c : p[i] = B[c + i]
  <2>1. \A i \in 1..n - j : j + i \in 1..n /\ a + (j + i) = c + i
    BY <1>2, <1>4
  <2>2. \A i \in 1..n : b[i] = B[a + i]
    BY <1>1, <1>2
  <2>. QED
    BY <1>3, <1>5, <2>1, <2>2
<1>7. p = SubSeq(B, c + 1, h)
  <2>1. \A q \in Seq(S) : Len(q) = h - c /\ (\A i \in 1..h - c : q[i] = B[c + i])
            => q = SubSeq(B, c + 1, h)
    BY <1>5, Piece
  <2>. QED
    BY <1>3, <1>5, <1>6, <2>1
<1>. QED
  BY <1>1, <1>2, <1>4, <1>7 DEF p

\* What has come of a stream after its first k parts, and how it is read: nothing after its
\* end, not before the last byte of a length, and then the length; and its payload once
\* it is whole.
Read(s, k, h, b) ==
    /\ b \in Seq(0..255) /\ Len(b) = h - ends(s, k)
    /\ k = Len(s) => GetUVarInt(b) = [dest |-> 0, len |-> 0]
    /\ k # Len(s) /\ Len(b) < s[k + 1].len => GetUVarInt(b) = [dest |-> 0, len |-> 0]
    /\ k # Len(s) /\ ~(Len(b) < s[k + 1].len)
           => GetUVarInt(b) = [dest |-> s[k + 1].number, len |-> s[k + 1].len]
    /\ k # Len(s) /\ ends(s, k + 1) <= h
           => /\ SubSeq(b, s[k + 1].len + 1, s[k + 1].len + Len(s[k + 1].payload))
                     = s[k + 1].payload
              /\ SubSeq(b, (s[k + 1].len + Len(s[k + 1].payload)) + 1, Len(b))
                     = SubSeq(bytes(s, Len(s)), ends(s, k + 1) + 1, h)

LEMMA Chunk ==
    ASSUME NEW s \in Streams, NEW k \in 0..Len(s), NEW h \in Nat, ends(s, k) <= h,
           h <= ends(s, Len(s)), NEW b, b = SubSeq(bytes(s, Len(s)), ends(s, k) + 1, h)
    PROVE  Read(s, k, h, b)
<1>1. Len(s) \in Nat /\ Len(s) \in 0..Len(s) /\ ends(s, k) \in Nat /\ ends(s, Len(s)) \in Nat
  BY Ending
<1>2. PICK a \in Nat : a = ends(s, k)
  BY <1>1
<1>3. PICK B \in Seq(0..255) : B = bytes(s, Len(s)) /\ Len(B) = ends(s, Len(s))
  BY <1>1, Upto DEF ends
<1>4. a <= h /\ h <= Len(B) /\ b = SubSeq(B, a + 1, h)
  BY <1>2, <1>3
<1>5. /\ b \in Seq(0..255) /\ Len(b) = h - a /\ h - a \in Nat
      /\ \A i \in 1..h - a : b[i] = B[a + i]
  <2>1. PICK S \in {0..255} : S = 0..255
    OBVIOUS
  <2>2. B \in Seq(S)
    BY <2>1
  <2>3. /\ SubSeq(B, a + 1, h) \in Seq(S) /\ Len(SubSeq(B, a + 1, h)) = h - a
        /\ h - a \in Nat /\ \A i \in 1..h - a : SubSeq(B, a + 1, h)[i] = B[a + i]
    BY <1>4, <2>2, Piece
  <2>4. b \in Seq(S) /\ Len(b) = h - a /\ \A i \in 1..h - a : b[i] = B[a + i]
    BY <1>4, <2>3
  <2>. QED
    BY <2>1, <2>3, <2>4
<1>6. CASE k = Len(s)
  <2>1. Len(b) = 0
    BY <1>1, <1>2, <1>5, <1>6
  <2>2. b = <<>>
    BY <1>5, <2>1, EmptySeq
  <2>3. GetUVarInt(b) = [dest |-> 0, len |-> 0]
    BY <2>2 DEF GetUVarInt
  <2>. QED
    BY <1>2, <1>5, <1>6, <2>3 DEF Read
<1>7. CASE k # Len(s)
  <2>1. k + 1 \in 1..Len(s) /\ (k + 1) - 1 = k
    BY <1>1, <1>7
  <2>2. PICK part \in StreamPart : /\ part = s[k + 1] /\ Holds(part.number, part.len)
    BY <2>1, Ending
  <2>3. PICK len \in {1, 2, 4, 8}, number \in Nat, payload \in Seq(0..255) :
            len = part.len /\ number = part.number /\ payload = part.payload
    BY <2>2, PartBytes
  <2>4. PICK m \in Nat : m = Len(payload)
    BY LenProperties
  <2>5. Holds(number, len) /\ len \in Nat
    BY <2>2, <2>3
  <2>6. /\ \A i \in 1..len : bytesOf(part)[i] = PutWide(number, len)[i]
        /\ \A i \in 1..m : bytesOf(part)[len + i] = payload[i]
    BY <2>2, <2>3, <2>4, PartBytes
  <2>7. /\ ends(s, k + 1) = a + (len + m)
        /\ \A i \in 1..len + m : B[a + i] = bytesOf(part)[i]
    <3>1. PICK n \in 1..Len(s) : n = k + 1 /\ n - 1 = k
      BY <2>1
    <3>2. /\ ends(s, n) = ends(s, n - 1) + (s[n].len + Len(s[n].payload))
          /\ \A i \in 1..s[n].len + Len(s[n].payload) :
                 bytes(s, Len(s))[ends(s, n - 1) + i] = bytesOf(s[n])[i]
      BY Ending, Laid
    <3>3. ends(s, n - 1) = a /\ s[n].len = len /\ Len(s[n].payload) = m /\ s[n] = part
      BY <1>2, <2>2, <2>3, <2>4, <3>1
    <3>. QED
      BY <1>3, <3>1, <3>2, <3>3
  <2>8. \A i \in 1..len : B[a + i] = PutWide(number, len)[i]
    <3>1. \A i \in 1..len : i \in 1..len + m
      BY <2>5
    <3>. QED
      BY <2>6, <2>7, <3>1
  <2>9. ASSUME Len(b) < len
        PROVE  GetUVarInt(b) = [dest |-> 0, len |-> 0]
    <3>1. \A i \in 1..Len(b) : b[i] = PutWide(number, len)[i]
      <4>1. \A i \in 1..Len(b) : i \in 1..len /\ i \in 1..h - a
        BY <1>5, <2>5, <2>9
      <4>. QED
        BY <1>5, <2>8, <4>1
    <3>. QED
      BY <1>5, <2>5, <2>9, <3>1, Incomplete, ZenonT(60)
  <2>10. ASSUME ~(Len(b) < len)
         PROVE  GetUVarInt(b) = [dest |-> number, len |-> len]
    <3>1. Len(b) >= len
      BY <1>5, <2>5, <2>10
    <3>2. \A i \in 1..len : b[i] = PutWide(number, len)[i]
      <4>1. \A i \in 1..len : i \in 1..h - a
        BY <1>5, <2>5, <3>1
      <4>. QED
        BY <1>5, <2>8, <4>1
    <3>3. Begins(b, number, len)
      BY <3>1, <3>2 DEF Begins
    <3>. QED
      <4>1. \A n \in Nat, l \in {1, 2, 4, 8} : Holds(n, l) =>
                \A q \in Seq(0..255) : Begins(q, n, l)
                    => GetUVarInt(q) = [dest |-> n, len |-> l]
        BY ReadBack
      <4>. QED
        BY <1>5, <2>5, <3>3, <4>1, ZenonT(60)
  <2>11. ASSUME ends(s, k + 1) <= h
         PROVE  /\ SubSeq(b, len + 1, len + m) = payload
                /\ SubSeq(b, (len + m) + 1, Len(b)) = SubSeq(B, ends(s, k + 1) + 1, h)
    <3>0. PICK S \in {0..255} : S = 0..255
      OBVIOUS
    <3>1. B \in Seq(S) /\ b \in Seq(S) /\ payload \in Seq(S)
      BY <1>5, <3>0
    <3>2. PICK j \in Nat : j = len + m
      BY <2>5
    <3>3. j <= h - a /\ len <= j /\ j <= Len(b) /\ j - len = m
      <4>1. a + j <= h /\ len \in Nat /\ Len(b) = h - a
        BY <1>5, <2>5, <2>7, <2>11, <3>2
      <4>2. len <= j /\ j - len = m /\ j \in Int
        BY <2>5, <3>2
      <4>3. j <= h - a
        BY <4>1
      <4>. QED
        BY <4>1, <4>2, <4>3
    <3>4. SubSeq(b, j + 1, Len(b)) = SubSeq(B, (a + j) + 1, h)
      <4>1. a <= h /\ h <= Len(B) /\ j <= h - a
        BY <1>4, <3>3
      <4>2. \A c \in Seq(S), i \in Nat : c = SubSeq(B, a + 1, h) /\ i <= h - a
                => SubSeq(c, i + 1, Len(c)) = SubSeq(B, (a + i) + 1, h)
        BY <3>1, <4>1, Inner
      <4>. QED
        BY <1>4, <3>1, <4>1, <4>2
    <3>5. \A i \in 1..m : payload[i] = b[len + i]
      <4>1. \A i \in 1..m : len + i \in 1..h - a /\ len + i \in 1..len + m
        BY <2>5, <3>2, <3>3
      <4>2. \A i \in 1..h - a : b[i] = B[a + i]
        BY <1>5
      <4>3. \A i \in 1..m : b[len + i] = bytesOf(part)[len + i]
        BY <2>7, <4>1, <4>2
      <4>. QED
        BY <2>6, <4>3
    <3>6. payload = SubSeq(b, len + 1, j)
      <4>1. PICK c \in Nat : c = len
        BY <2>5
      <4>2. c <= j /\ j <= Len(b) /\ Len(payload) = j - c
        BY <2>4, <3>3, <4>1
      <4>3. \A i \in 1..j - c : payload[i] = b[c + i]
        BY <3>3, <3>5, <4>1
      <4>4. payload = SubSeq(b, c + 1, j)
        BY <3>1, <4>2, <4>3, Exactly
      <4>. QED
        BY <4>1, <4>4
    <3>. QED
      BY <2>7, <3>2, <3>4, <3>6
  <2>12. /\ s[k + 1].len = len /\ s[k + 1].number = number /\ s[k + 1].payload = payload
         /\ Len(s[k + 1].payload) = m
    BY <2>2, <2>3, <2>4
  <2>. QED
    BY <1>2, <1>3, <1>5, <1>7, <2>9, <2>10, <2>11, <2>12 DEF Read
<1>. QED
  BY <1>6, <1>7

-------------------------------------------------------------------------------
(* What has come, and what was made of it.                                   *)

\* What is left of the h bytes of stream s that have come, when k parts were read.
Feed(s, B, h, b, k) ==
    /\ B = bytes(s, Len(s)) /\ k \in 0..Len(s)
    /\ ends(s, k) <= h /\ h <= ends(s, Len(s))
    /\ b = SubSeq(B, ends(s, k) + 1, h)

LEMMA FeedBegins ==
    ASSUME NEW s \in Streams
    PROVE  Feed(s, bytes(s, Len(s)), 0, <<>>, 0) /\ 0 < ends(s, 1)
<1>1. Len(s) \in Nat /\ Len(s) # 0 /\ ends(s, Len(s)) \in Nat /\ ends(s, 0) = 0
  <2>1. Len(s) \in Nat /\ Len(s) # 0 /\ Len(s) \in 0..Len(s) /\ ends(s, 0) = 0
    BY Ending
  <2>. QED
    BY <2>1, Ending
<1>2. 0 < ends(s, 1)
  <2>1. 1 \in 1..Len(s) /\ 1 - 1 = 0
    BY <1>1
  <2>2. PICK n \in 1..Len(s) : n = 1 /\ n - 1 = 0
    BY <2>1
  <2>3. /\ s[n].len \in {1, 2, 4, 8} /\ Len(s[n].payload) \in Nat
        /\ ends(s, n) = ends(s, n - 1) + (s[n].len + Len(s[n].payload))
    BY Ending
  <2>4. ends(s, n) = 0 + (s[n].len + Len(s[n].payload))
    BY <1>1, <2>2, <2>3
  <2>5. PICK l \in {1, 2, 4, 8}, m \in Nat : l = s[n].len /\ m = Len(s[n].payload)
    BY <2>3
  <2>6. 0 < 0 + (l + m)
    OBVIOUS
  <2>. QED
    BY <2>2, <2>4, <2>5, <2>6
<1>3. <<>> = SubSeq(bytes(s, Len(s)), 0 + 1, 0)
  BY SubSeqEmpty
<1>. QED
  BY <1>1, <1>2, <1>3 DEF Feed

\* One read brings more.
LEMMA FeedComes ==
    ASSUME NEW s \in Streams, NEW B, NEW h \in Nat, NEW b, NEW k, Feed(s, B, h, b, k),
           NEW n \in h + 1..Len(B)
    PROVE  n \in Nat /\ Feed(s, B, n, b \o SubSeq(B, h + 1, n), k)
<1>1. /\ B = bytes(s, Len(s)) /\ k \in 0..Len(s) /\ ends(s, k) <= h
      /\ h <= ends(s, Len(s)) /\ b = SubSeq(B, ends(s, k) + 1, h)
  BY DEF Feed
<1>2. Len(s) \in Nat /\ Len(s) \in 0..Len(s) /\ ends(s, Len(s)) \in Nat
  <2>1. Len(s) \in Nat /\ Len(s) \in 0..Len(s)
    BY Ending
  <2>. QED
    BY <2>1, Ending
<1>3. PICK S \in {0..255} : B \in Seq(S)
  BY <1>1, <1>2, Upto
<1>4. Len(B) = ends(s, Len(s))
  BY <1>1 DEF ends
<1>5. n \in Nat /\ h <= n /\ n <= Len(B) /\ h <= Len(B)
  BY <1>2, <1>4
<1>6. PICK a \in Nat : a = ends(s, k)
  BY <1>1, Ending
<1>7. a <= h
  BY <1>1, <1>6
<1>8. /\ b \in Seq(S) /\ Len(b) = h - a /\ h - a \in Nat
      /\ \A i \in 1..h - a : b[i] = B[a + i]
  <2>1. /\ SubSeq(B, a + 1, h) \in Seq(S) /\ Len(SubSeq(B, a + 1, h)) = h - a
        /\ h - a \in Nat /\ \A i \in 1..h - a : SubSeq(B, a + 1, h)[i] = B[a + i]
    BY <1>3, <1>5, <1>7, Piece
  <2>2. b = SubSeq(B, a + 1, h)
    BY <1>1, <1>6
  <2>. QED
    BY <2>1, <2>2
<1> DEFINE c == SubSeq(B, h + 1, n)
<1>9. /\ c \in Seq(S) /\ Len(c) = n - h /\ n - h \in Nat
      /\ \A i \in 1..n - h : c[i] = B[h + i]
  <2>1. PICK q \in Nat : q = n /\ h <= q /\ q <= Len(B)
    BY <1>5
  <2>2. PICK C \in Seq(S) : C = B
    BY <1>3
  <2>3. /\ SubSeq(C, h + 1, q) \in Seq(S) /\ Len(SubSeq(C, h + 1, q)) = q - h
        /\ q - h \in Nat /\ \A i \in 1..q - h : SubSeq(C, h + 1, q)[i] = C[h + i]
    <3>1. h <= q /\ q <= Len(C)
      BY <2>1, <2>2
    <3>. QED
      BY <3>1, Piece
  <2>. QED
    BY <2>1, <2>2, <2>3
<1>. HIDE DEF c
<1>10. /\ b \o c \in Seq(S) /\ Len(b \o c) = Len(b) + Len(c)
       /\ \A i \in 1..Len(b) + Len(c) : (b \o c)[i] = IF i <= Len(b) THEN b[i] ELSE c[i - Len(b)]
  BY <1>8, <1>9, ConcatProperties
<1>11. PICK m \in Nat : m = h - a /\ h = a + m /\ Len(b) = m
  BY <1>8
<1>12. Len(b) + Len(c) = n - a /\ a <= n
  BY <1>5, <1>7, <1>9, <1>11
<1>13. \A i \in 1..n - a : (b \o c)[i] = B[a + i]
  <2>. TAKE i \in 1..n - a
  <2>1. i \in Nat /\ i >= 1 /\ i <= n - a /\ n - a \in Nat
    BY <1>5, <1>12
  <2>2. (b \o c)[i] = IF i <= m THEN b[i] ELSE c[i - m]
    BY <1>10, <1>11, <1>12
  <2>3. CASE i <= m
    <3>1. i \in 1..h - a
      BY <1>11, <2>1, <2>3
    <3>. QED
      BY <1>8, <2>2, <2>3, <3>1
  <2>4. CASE ~(i <= m)
    <3>1. i - m \in 1..n - h /\ h + (i - m) = a + i
      BY <1>5, <1>11, <2>1, <2>4
    <3>2. c[i - m] = B[h + (i - m)]
      BY <1>9, <3>1
    <3>. QED
      BY <2>2, <2>4, <3>1, <3>2
  <2>. QED
    BY <2>3, <2>4
<1>14. PICK d \in Seq(S) : d = b \o c /\ Len(d) = n - a /\ \A i \in 1..n - a : d[i] = B[a + i]
  BY <1>10, <1>12, <1>13
<1>15. d = SubSeq(B, a + 1, n)
  <2>1. PICK q \in Nat : q = n /\ a <= q /\ q <= Len(B)
    BY <1>5, <1>12
  <2>2. PICK C \in Seq(S) : C = B
    BY <1>3
  <2>3. a <= q /\ q <= Len(C) /\ Len(d) = q - a /\ \A i \in 1..q - a : d[i] = C[a + i]
    BY <1>14, <2>1, <2>2
  <2>4. d = SubSeq(C, a + 1, q)
    BY <2>3, Exactly
  <2>. QED
    BY <2>1, <2>2, <2>4
<1>16. b \o c = SubSeq(B, ends(s, k) + 1, n)
  BY <1>6, <1>14, <1>15
<1>17. ends(s, k) <= n /\ n <= ends(s, Len(s))
  BY <1>4, <1>5, <1>6, <1>12
<1>. QED
  BY <1>1, <1>5, <1>16, <1>17 DEF Feed, c

\* What is read of it is the next part, once its length is there, and its payload once
\* that is there.
Reading(s, B, h, b, k, m) ==
    /\ GetUVarInt(b).len # 0 =>
           /\ k + 1 \in 1..Len(s) /\ m \in Nat
           /\ GetUVarInt(b) = [dest |-> s[k + 1].number, len |-> s[k + 1].len]
           /\ ~(Len(b) < GetUVarInt(b).len + m) =>
                  /\ SubSeq(b, GetUVarInt(b).len + 1, GetUVarInt(b).len + m) = s[k + 1].payload
                  /\ Feed(s, B, h, SubSeq(b, (GetUVarInt(b).len + m) + 1, Len(b)), k + 1)
           /\ ~(Len(b) < GetUVarInt(b).len)
    /\ GetUVarInt(b).len = 0 \/ Len(b) < GetUVarInt(b).len + m
           => k = Len(s) \/ h < ends(s, k + 1)

LEMMA Reads ==
    ASSUME NEW s \in Streams, NEW B, NEW h \in Nat, NEW b, NEW k, Feed(s, B, h, b, k),
           NEW m, m = Len(s[k + 1].payload)
    PROVE  Reading(s, B, h, b, k, m)
<1>1. /\ B = bytes(s, Len(s)) /\ k \in 0..Len(s) /\ ends(s, k) <= h
      /\ h <= ends(s, Len(s)) /\ b = SubSeq(bytes(s, Len(s)), ends(s, k) + 1, h)
  BY DEF Feed
<1>2. Len(s) \in Nat /\ ends(s, k) \in Nat
  BY <1>1, Ending
<1>3. Read(s, k, h, b)
  <2>1. PICK j \in 0..Len(s) : j = k
    BY <1>1
  <2>2. /\ ends(s, j) <= h /\ h <= ends(s, Len(s))
        /\ b = SubSeq(bytes(s, Len(s)), ends(s, j) + 1, h)
    BY <1>1, <2>1
  <2>. QED
    BY <2>1, <2>2, Chunk
<1>4. CASE k = Len(s)
  <2>1. GetUVarInt(b).len = 0
    BY <1>3, <1>4 DEF Read
  <2>. QED
    BY <1>4, <2>1 DEF Reading
<1>5. CASE k # Len(s)
  <2>1. k + 1 \in 1..Len(s) /\ (k + 1) - 1 = k /\ k + 1 \in 0..Len(s)
    BY <1>1, <1>2, <1>5
  <2>2. PICK n \in 1..Len(s) : n = k + 1 /\ n - 1 = k
    BY <2>1
  <2>3. PICK l \in {1, 2, 4, 8} : l = s[k + 1].len
    BY <2>2, Ending
  <2>4. m \in Nat /\ ends(s, k + 1) = ends(s, k) + (l + m) /\ l \in Nat /\ l # 0
    <3>1. Len(s[n].payload) \in Nat /\ ends(s, n) = ends(s, n - 1) + (s[n].len + Len(s[n].payload))
      BY Ending
    <3>2. l \in Nat /\ l # 0
      OBVIOUS
    <3>. QED
      BY <2>2, <2>3, <3>1, <3>2
  <2>5. PICK a \in Nat : a = ends(s, k)
    BY <1>2
  <2>6. ends(s, k + 1) = a + (l + m) /\ Len(b) = h - a
    BY <1>3, <2>4, <2>5 DEF Read
  <2>7. CASE Len(b) < l
    <3>1. GetUVarInt(b).len = 0
      BY <1>3, <1>5, <2>3, <2>7 DEF Read
    <3>2. h < ends(s, k + 1)
      BY <2>4, <2>6, <2>7
    <3>. QED
      BY <3>1, <3>2 DEF Reading
  <2>8. CASE ~(Len(b) < l)
    <3>1. GetUVarInt(b) = [dest |-> s[k + 1].number, len |-> l]
      BY <1>3, <1>5, <2>3, <2>8 DEF Read
    <3>2. GetUVarInt(b).len = l
      BY <3>1
    <3>3. ASSUME Len(b) < l + m
          PROVE  h < ends(s, k + 1)
      BY <2>4, <2>6, <3>3
    <3>4. ASSUME ~(Len(b) < l + m)
          PROVE  /\ SubSeq(b, l + 1, l + m) = s[k + 1].payload
                 /\ Feed(s, B, h, SubSeq(b, (l + m) + 1, Len(b)), k + 1)
      <4>1. ends(s, k + 1) <= h
        BY <2>4, <2>6, <3>4
      <4>2. /\ SubSeq(b, l + 1, l + m) = s[k + 1].payload
            /\ SubSeq(b, (l + m) + 1, Len(b)) = SubSeq(B, ends(s, k + 1) + 1, h)
        BY <1>1, <1>3, <1>5, <2>3, <4>1 DEF Read
      <4>. QED
        BY <1>1, <2>1, <4>1, <4>2 DEF Feed
    <3>. QED
      BY <2>1, <2>3, <2>4, <2>8, <3>1, <3>2, <3>3, <3>4 DEF Reading
  <2>. QED
    BY <2>7, <2>8
<1>. QED
  BY <1>4, <1>5

\* The parts that were read: the status code and then the frames.
parsed == (IF rx.status THEN 1 ELSE 0) + Len(past.received)
Resting == "frames" \notin doing("loop") /\ "status" \notin doing("loop")

\* Before the first connection there is nothing; then what was read is the beginning of what
\* the peer sent, and what is left is the rest of what has come.  Nothing whole is left
\* when neither the status code nor the frames are being read.
Unopened ==
    /\ past.received = <<>> /\ ~rx.status /\ ~conn.open_notified
    /\ doing("loop") = {} /\ "connect" \notin doing("app")
Fed ==
    /\ Feed(peer.stream, peer.bytes, peer.handed, rx.buffer, parsed)
    /\ \A i \in DOMAIN past.received : past.received[i] = peer.stream[i + 1].payload
    /\ ~rx.status => past.received = <<>> /\ ~conn.open_notified
    /\ rx.status => (conn.open_notified <=> peer.stream[1].number = 200)
Tended ==
    /\ "frames" \in doing("loop") => rx.status
    /\ "status" \in doing("loop") => ~rx.status
    /\ Resting /\ ~rx.status => peer.handed < ends(peer.stream, 1)
    /\ Resting /\ conn.open_notified =>
           parsed = Len(peer.stream) \/ peer.handed < ends(peer.stream, parsed + 1)
Data ==
    /\ peer.stream = <<>> => Unopened
    /\ peer.stream # <<>> => Fed /\ Tended

\* What an action has to leave alone.
Leaves ==
    /\ rx' = rx /\ peer' = peer /\ past'.received = past.received
    /\ conn'.open_notified = conn.open_notified

LEMMA DataStays ==
    ASSUME Data, Leaves, doing("loop") = {} => doing("loop")' = {},
           "connect" \in doing("app")' => "connect" \in doing("app"),
           "frames" \in doing("loop")' <=> "frames" \in doing("loop"),
           "status" \in doing("loop")' <=> "status" \in doing("loop")
    PROVE  Data'
<1>1. parsed' = parsed /\ (Resting' <=> Resting)
  BY DEF Leaves, parsed, Resting
<1>2. CASE peer.stream = <<>>
  <2>1. Unopened'
    BY <1>2 DEF Data, Leaves, Unopened
  <2>. QED
    BY <1>2, <2>1 DEF Data, Leaves
<1>3. CASE peer.stream # <<>>
  <2>1. Fed'
    BY <1>1, <1>3 DEF Data, Leaves, Fed
  <2>2. Tended'
    BY <1>1, <1>3 DEF Data, Leaves, Tended
  <2>. QED
    BY <1>3, <2>1, <2>2 DEF Data, Leaves
<1>. QED
  BY <1>2, <1>3

\* Most steps have nothing to do with it.
LEMMA Passes ==
    ASSUME Control, Data, Leaves, NEW t \in Threads, NEW s, At(t, s),
           s \notin {"init", "status", "frames"}, NEW steps \in Becomes(t, s),
           steps # <<"frames", "events">>, steps # <<"status", "events">>, Then(t, steps)
    PROVE  Data'
<1>1. PICK T \in SUBSET After(s) :
          /\ doing(t) = {s} \cup T /\ doing(t)' = elems(steps) \cup T
          /\ s \in StepsOf(t) /\ \A u \in Threads : u # t => doing(u)' = doing(u)
  BY Advance
<1>2. /\ "connect" \notin elems(steps) /\ "frames" \notin elems(steps)
      /\ "status" \notin elems(steps)
  <2>1. \/ steps \in {<<>>, <<"fireError">>, <<"openStream">>, <<"fireError", "socketClose">>}
        \/ steps \in {<<"storeClosing", "socketClose">>, <<"socketClose">>, <<"onClose">>}
        \/ steps \in {<<"marker", "params", "events">>, <<"fireError", "events">>}
        \/ steps \in {<<"onClose", "events">>, <<"local">>, <<"remote">>, <<"callback">>}
        \/ steps \in {<<"send">>, <<"requestClose">>}
    BY DEF Becomes
  <2>. QED
    BY <2>1, Elems
<1>3. CASE t = "app"
  <2>1. doing("loop")' = doing("loop")
    BY <1>1, <1>3 DEF Threads
  <2>2. "connect" \in doing("app")' => "connect" \in doing("app")
    BY <1>1, <1>2, <1>3
  <2>. QED
    BY <2>1, <2>2, DataStays
<1>4. CASE t = "loop"
  <2>1. doing("app")' = doing("app")
    BY <1>1, <1>4 DEF Threads
  <2>2. /\ doing("loop") # {}
        /\ "frames" \in doing("loop")' <=> "frames" \in doing("loop")
        /\ "status" \in doing("loop")' <=> "status" \in doing("loop")
    BY <1>1, <1>2, <1>4
  <2>. QED
    BY <2>1, <2>2, DataStays
<1>. QED
  BY <1>3, <1>4 DEF Threads

LEMMA DataStep ==
    ASSUME Control, Types, Data, NEW t \in Threads, Step(t)
    PROVE  Data'
<1>1. conn \in Conns /\ past \in Pasts
  BY DEF Types
<1>2. CASE Send(t)
  <2>1. At(t, "send")
    BY <1>2 DEF Send
  <2>2. PICK steps \in Becomes(t, "send") :
            /\ Then(t, steps) /\ steps # <<"frames", "events">>
            /\ steps # <<"status", "events">>
    BY <1>2 DEF Send, Becomes, Threads
  <2>3. Leaves
    BY <1>1, <1>2 DEF Send, Leaves, Conns, Pasts, OnlyConn, OnlySocket, Logged
  <2>. QED
    BY <2>1, <2>2, <2>3, Passes
<1>3. CASE RequestClose(t)
  <2>1. At(t, "requestClose")
    BY <1>3 DEF RequestClose
  <2>2. PICK steps \in Becomes(t, "requestClose") :
            /\ Then(t, steps) /\ steps # <<"frames", "events">>
            /\ steps # <<"status", "events">>
    BY <1>3 DEF RequestClose, Becomes, Threads
  <2>3. Leaves
    BY <1>1, <1>3 DEF RequestClose, Leaves, Conns, Pasts, OnlyConn, OnlySocket, Logged
  <2>. QED
    BY <2>1, <2>2, <2>3, Passes
<1>4. CASE StoreClosing(t)
  <2>1. At(t, "storeClosing")
    BY <1>4 DEF StoreClosing
  <2>2. PICK steps \in Becomes(t, "storeClosing") :
            /\ Then(t, steps) /\ steps # <<"frames", "events">>
            /\ steps # <<"status", "events">>
    BY <1>4 DEF StoreClosing, Becomes, Threads
  <2>3. Leaves
    BY <1>1, <1>4 DEF StoreClosing, Leaves, Conns, Pasts, OnlyConn, OnlySocket, Logged
  <2>. QED
    BY <2>1, <2>2, <2>3, Passes
<1>5. CASE SocketClose(t)
  <2>1. At(t, "socketClose")
    BY <1>5 DEF SocketClose
  <2>2. PICK steps \in Becomes(t, "socketClose") :
            /\ Then(t, steps) /\ steps # <<"frames", "events">>
            /\ steps # <<"status", "events">>
    BY <1>5 DEF SocketClose, Becomes, Threads
  <2>3. Leaves
    BY <1>1, <1>5 DEF SocketClose, Leaves, Conns, Pasts, OnlyConn, OnlySocket, Logged
  <2>. QED
    BY <2>1, <2>2, <2>3, Passes
<1>6. CASE FireError(t)
  <2>1. At(t, "fireError")
    BY <1>6 DEF FireError
  <2>2. PICK steps \in Becomes(t, "fireError") :
            /\ Then(t, steps) /\ steps # <<"frames", "events">>
            /\ steps # <<"status", "events">>
    BY <1>6 DEF FireError, Becomes, Threads
  <2>3. Leaves
    BY <1>1, <1>6 DEF FireError, Leaves, Conns, Pasts, OnlyConn, OnlySocket, Logged
  <2>. QED
    BY <2>1, <2>2, <2>3, Passes
<1>7. CASE Callback(t)
  <2>1. At(t, "callback")
    BY <1>7 DEF Callback
  <2>2. PICK steps \in Becomes(t, "callback") :
            /\ Then(t, steps) /\ steps # <<"frames", "events">>
            /\ steps # <<"status", "events">>
    BY <1>7 DEF Callback, Becomes, Threads
  <2>3. Leaves
    BY <1>1, <1>7 DEF Callback, Leaves, Conns, Pasts, OnlyConn, OnlySocket, Logged
  <2>. QED
    BY <2>1, <2>2, <2>3, Passes
<1>. QED
  BY <1>2, <1>3, <1>4, <1>5, <1>6, <1>7 DEF Step

LEMMA DataOther ==
    ASSUME Control, Types, Data,
           \/ Opened \/ Join \/ Settle \/ OpenStream \/ StreamOpens \/ Fails \/ Ends
           \/ OnClose("loop") \/ FireClose \/ LoopEnds
    PROVE  Data'
<1>1. conn \in Conns /\ past \in Pasts /\ "app" \in Threads /\ "loop" \in Threads
  BY DEF Types, Threads
<1>2. CASE Opened
  <2>1. At("app", "opened")
    BY <1>2 DEF Opened
  <2>2. PICK steps \in Becomes("app", "opened") :
            /\ Then("app", steps) /\ steps # <<"frames", "events">>
            /\ steps # <<"status", "events">>
    BY <1>2 DEF Opened, Becomes
  <2>3. Leaves
    BY <1>1, <1>2 DEF Opened, Leaves, Conns, Pasts, OnlyConn, OnlySocket, OnlyTodo, Logged
  <2>. QED
    BY <1>1, <2>1, <2>2, <2>3, Passes
<1>3. CASE Join
  <2>1. At("app", "join")
    BY <1>3 DEF Join
  <2>2. PICK steps \in Becomes("app", "join") :
            /\ Then("app", steps) /\ steps # <<"frames", "events">>
            /\ steps # <<"status", "events">>
    BY <1>3 DEF Join, Becomes
  <2>3. Leaves
    BY <1>1, <1>3 DEF Join, Leaves, Conns, Pasts, OnlyConn, OnlySocket, OnlyTodo, Logged
  <2>. QED
    BY <1>1, <2>1, <2>2, <2>3, Passes
<1>4. CASE Settle
  <2>1. At("app", "settle")
    BY <1>4 DEF Settle
  <2>2. PICK steps \in Becomes("app", "settle") :
            /\ Then("app", steps) /\ steps # <<"frames", "events">>
            /\ steps # <<"status", "events">>
    BY <1>4 DEF Settle, Becomes
  <2>3. Leaves
    BY <1>1, <1>4 DEF Settle, Leaves, Conns, Pasts, OnlyConn, OnlySocket, OnlyTodo, Logged
  <2>. QED
    BY <1>1, <2>1, <2>2, <2>3, Passes
<1>5. CASE OpenStream
  <2>1. At("app", "openStream")
    BY <1>5 DEF OpenStream
  <2>2. PICK steps \in Becomes("app", "openStream") :
            /\ Then("app", steps) /\ steps # <<"frames", "events">>
            /\ steps # <<"status", "events">>
    BY <1>5 DEF OpenStream, Becomes
  <2>3. Leaves
    BY <1>1, <1>5 DEF OpenStream, Leaves, Conns, Pasts, OnlyConn, OnlySocket, OnlyTodo, Logged
  <2>. QED
    BY <1>1, <2>1, <2>2, <2>3, Passes
<1>6. CASE StreamOpens
  <2>1. At("loop", "events")
    BY <1>6 DEF StreamOpens
  <2>2. PICK steps \in Becomes("loop", "events") :
            /\ Then("loop", steps) /\ steps # <<"frames", "events">>
            /\ steps # <<"status", "events">>
    BY <1>6 DEF StreamOpens, Becomes
  <2>3. Leaves
    BY <1>1, <1>6 DEF StreamOpens, Leaves, Conns, Pasts, OnlyConn, OnlySocket, OnlyTodo, Logged
  <2>. QED
    BY <1>1, <2>1, <2>2, <2>3, Passes
<1>7. CASE Fails
  <2>1. At("loop", "events")
    BY <1>7 DEF Fails
  <2>2. PICK steps \in Becomes("loop", "events") :
            /\ Then("loop", steps) /\ steps # <<"frames", "events">>
            /\ steps # <<"status", "events">>
    BY <1>7 DEF Fails, Becomes
  <2>3. Leaves
    BY <1>1, <1>7 DEF Fails, Leaves, Conns, Pasts, OnlyConn, OnlySocket, OnlyTodo, Logged
  <2>. QED
    BY <1>1, <2>1, <2>2, <2>3, Passes
<1>8. CASE Ends
  <2>1. At("loop", "events")
    BY <1>8 DEF Ends
  <2>2. PICK steps \in Becomes("loop", "events") :
            /\ Then("loop", steps) /\ steps # <<"frames", "events">>
            /\ steps # <<"status", "events">>
    BY <1>8 DEF Ends, Becomes
  <2>3. Leaves
    BY <1>1, <1>8 DEF Ends, Leaves, Conns, Pasts, OnlyConn, OnlySocket, OnlyTodo, Logged
  <2>. QED
    BY <1>1, <2>1, <2>2, <2>3, Passes
<1>9. CASE OnClose("loop")
  <2>1. At("loop", "onClose")
    BY <1>9 DEF OnClose
  <2>2. PICK steps \in Becomes("loop", "onClose") :
            /\ Then("loop", steps) /\ steps # <<"frames", "events">>
            /\ steps # <<"status", "events">>
    BY <1>9 DEF OnClose, Becomes
  <2>3. Leaves
    BY <1>1, <1>9 DEF OnClose, Leaves, Conns, Pasts, OnlyConn, OnlySocket, OnlyTodo, Logged
  <2>. QED
    BY <1>1, <2>1, <2>2, <2>3, Passes
<1>10. CASE FireClose
  <2>1. PICK how \in {"local", "remote"} :
            /\ At("loop", how) /\ (Then("loop", <<>>) \/ Then("loop", <<"callback">>))
    BY <1>10 DEF FireClose
  <2>2. PICK steps \in Becomes("loop", how) :
            /\ Then("loop", steps) /\ steps # <<"frames", "events">>
            /\ steps # <<"status", "events">>
    BY <2>1 DEF Becomes
  <2>3. Leaves
    BY <1>1, <1>10 DEF FireClose, Leaves, Conns, Pasts, OnlyConn, Logged
  <2>. QED
    BY <1>1, <2>1, <2>2, <2>3, Passes
<1>11. CASE LoopEnds
  <2>1. At("loop", "events")
    BY <1>11 DEF LoopEnds
  <2>2. PICK steps \in Becomes("loop", "events") :
            /\ Then("loop", steps) /\ steps # <<"frames", "events">>
            /\ steps # <<"status", "events">>
    BY <1>11 DEF LoopEnds, Becomes
  <2>3. Leaves
    BY <1>1, <1>11 DEF LoopEnds, Leaves, Conns, Pasts, OnlyConn, OnlySocket, OnlyTodo, Logged
  <2>. QED
    BY <1>1, <2>1, <2>2, <2>3, Passes
<1>. QED
  BY <1>2, <1>3, <1>4, <1>5, <1>6, <1>7, <1>8, <1>9, <1>10, <1>11

\* What a thread does begins with its first step.
LEMMA Foremost ==
    ASSUME Control, NEW t \in Threads, NEW s, At(t, s)
    PROVE  s \in doing(t) /\ \A x \in doing(t) : x = s \/ x \in After(s)
<1>1. todo[t] # <<>> /\ Head(todo[t]) = s
  BY DEF At
<1>2. /\ DOMAIN todo[t] = 1..Len(todo[t]) /\ 1 \in DOMAIN todo[t]
      /\ todo[t][1] = s /\ Len(todo[t]) \in Nat
  BY <1>1, Indices DEF Control
<1>3. \A j \in DOMAIN todo[t] : j = 1 \/ 1 < j
  BY <1>2
<1>4. \A x \in doing(t) : x = s \/ x \in After(s)
  BY <1>2, <1>3 DEF doing, elems, Control, Ordered, Ordering
<1>. QED
  BY <1>2, <1>4 DEF doing, elems

LEMMA DataCall ==
    ASSUME Control, Types, Data, Open \/ CallSend \/ CloseAsync \/ Close
    PROVE  Data'
<1>1. PICK steps \in {<<"socketClose", "join", "init">>, <<"send">>, <<"requestClose">>,
                      <<"requestClose", "socketClose", "join", "settle">>} :
          todo' = [todo EXCEPT !["app"] = steps]
  BY DEF Open, CallSend, CloseAsync, Close, Starts
<1>2. todo \in [Threads -> Seq(QuicSteps)] /\ "loop" \in Threads /\ "app" \in Threads
  BY DEF Control, Todos, Threads
<1>3. todo'["loop"] = todo["loop"] /\ todo'["app"] = steps
  BY <1>1, <1>2
<1>4. doing("loop")' = doing("loop")
  BY <1>3 DEF doing
<1>5. "connect" \notin doing("app")'
  <2>1. \A i \in DOMAIN steps : steps[i] # "connect"
    OBVIOUS
  <2>. QED
    BY <1>3, <2>1 DEF doing, elems
<1>6. Leaves
  BY DEF Open, CallSend, CloseAsync, Close, Leaves, Types, Pasts
<1>. QED
  BY <1>4, <1>5, <1>6, DataStays

LEMMA DataSendHead ==
    ASSUME Control, Types, Data, SendHead
    PROVE  Data'
<1>1. PICK part \in {"marker", "params"} :
          /\ At("loop", part)
          /\ \/ Then("loop", <<>>)
             \/ todo' = [todo EXCEPT !["loop"] = << "fireError", "socketClose", "events" >>]
  BY DEF SendHead
<1>2. Leaves
  BY DEF SendHead, Leaves, Types, Pasts
<1>3. todo \in [Threads -> Seq(QuicSteps)] /\ "loop" \in Threads /\ "app" \in Threads
  BY DEF Control, Todos, Threads
<1>4. CASE Then("loop", <<>>)
  <2>1. PICK steps \in Becomes("loop", part) :
            /\ Then("loop", steps) /\ steps # <<"frames", "events">>
            /\ steps # <<"status", "events">>
    BY <1>4 DEF Becomes
  <2>. QED
    BY <1>1, <1>2, <1>3, <2>1, Passes
<1>5. CASE todo' = [todo EXCEPT !["loop"] = << "fireError", "socketClose", "events" >>]
  <2>1. part \in doing("loop") /\ \A x \in doing("loop") : x = part \/ x \in After(part)
    BY <1>1, <1>3, Foremost
  <2>2. "frames" \notin doing("loop") /\ "status" \notin doing("loop") /\ doing("loop") # {}
    BY <2>1 DEF After
  <2>3. todo'["app"] = todo["app"] /\ todo'["loop"] = << "fireError", "socketClose", "events" >>
    BY <1>3, <1>5
  <2>4. doing("app")' = doing("app")
    BY <2>3 DEF doing
  <2>5. doing("loop")' = {"fireError", "socketClose", "events"}
    BY <2>3, Elems DEF doing
  <2>. QED
    BY <1>2, <2>2, <2>4, <2>5, DataStays
<1>. QED
  BY <1>1, <1>4, <1>5

LEMMA DataConnect ==
    ASSUME Control, Types, Flow, Data, Connect
    PROVE  Data'
<1>1. /\ At("app", "connect") /\ Leaves
      /\ "loop" \in Threads /\ "app" \in Threads /\ todo \in [Threads -> Seq(QuicSteps)]
  BY DEF Connect, OnlySocket, Leaves, Threads, Control, Todos
<1>2. CASE Then("app", <<"fireError">>)
  <2>1. PICK steps \in Becomes("app", "connect") :
            /\ Then("app", steps) /\ steps # <<"frames", "events">>
            /\ steps # <<"status", "events">>
    BY <1>2 DEF Becomes
  <2>. QED
    BY <1>1, <2>1, Passes
<1>3. CASE todo' = [todo EXCEPT !["app"] = << "openStream" >> \o Tail(@),
                               !["loop"] = << "events" >>]
  <2>1. /\ "connect" \in doing("app")
        /\ \A x \in doing("app") : x = "connect" \/ x \in After("connect")
    BY <1>1, Foremost
  <2>2. peer.stream # <<>> /\ Fed /\ Tended
    BY <2>1 DEF Data, Unopened
  <2>3. todo'["loop"] = << "events" >>
    BY <1>1, <1>3
  <2>4. doing("loop")' = {"events"}
    BY <2>3, Elems DEF doing
  <2>5. parsed' = parsed
    BY <1>1 DEF Leaves, parsed
  <2>6. Fed'
    BY <1>1, <2>2, <2>5 DEF Fed, Leaves
  <2>7. "frames" \notin doing("loop") /\ "status" \notin doing("loop")
    BY <2>1 DEF Flow, Lives
  <2>8. Tended'
    BY <1>1, <2>2, <2>4, <2>5, <2>7 DEF Tended, Resting, Leaves
  <2>. QED
    BY <1>1, <2>2, <2>6, <2>8 DEF Data, Leaves
<1>. QED
  BY <1>2, <1>3 DEF Connect

LEMMA DataInit ==
    ASSUME Control, Types, Flow, Data, InitAll
    PROVE  Data'
<1>1. /\ At("app", "init") /\ "app" \in Threads /\ "loop" \in Threads
      /\ todo \in [Threads -> Seq(QuicSteps)]
  BY DEF InitAll, Threads, Control, Todos
<1>2. PICK s \in Streams :
          /\ peer' = [stream |-> s, bytes |-> bytes(s, Len(s)), handed |-> 0]
          /\ rx' = [buffer |-> <<>>, status |-> FALSE]
          /\ past'.received = <<>> /\ ~conn'.open_notified
  BY DEF InitAll, Types, Pasts
<1>3. doing("loop")' = {}
  <2>1. "init" \in doing("app") /\ \A x \in doing("app") : x = "init" \/ x \in After("init")
    BY <1>1, Foremost
  <2>2. "join" \notin doing("app")
    BY <2>1 DEF After
  <2>3. doing("loop") = {}
    BY <2>1, <2>2 DEF Flow, Lives, Meets
  <2>4. todo'["loop"] = todo["loop"]
    BY <1>1 DEF InitAll, Then
  <2>. QED
    BY <2>3, <2>4 DEF doing
<1>4. s # <<>>
  BY QuicAssumption
<1>5. Feed(s, bytes(s, Len(s)), 0, <<>>, 0) /\ 0 < ends(s, 1)
  BY FeedBegins
<1>6. parsed' = 0
  BY <1>2 DEF parsed
<1>7. Fed'
  BY <1>2, <1>5, <1>6 DEF Fed
<1>8. Tended'
  BY <1>2, <1>3, <1>5 DEF Tended
<1>. QED
  BY <1>2, <1>4, <1>7, <1>8 DEF Data

LEMMA DataRecv ==
    ASSUME Control, Types, Data, Recv
    PROVE  Data'
<1>1. "loop" \in Threads /\ "app" \in Threads /\ At("loop", "events")
  BY DEF Recv, Threads
<1>2. PICK n \in peer.handed + 1..Len(peer.bytes) :
          /\ rx' = [rx EXCEPT !.buffer = @ \o SubSeq(peer.bytes, peer.handed + 1, n)]
          /\ peer' = [peer EXCEPT !.handed = n]
  BY DEF Recv
<1>3. past' = past /\ conn' = conn
  BY DEF Recv
<1>4. PICK step \in {"frames", "status"} :
          /\ Then("loop", <<step, "events">>)
          /\ step = "frames" <=> rx.status
  BY DEF Recv
<1>5. PICK steps \in Becomes("loop", "events") : Then("loop", steps) /\ steps = <<step, "events">>
  BY <1>4 DEF Becomes
<1>6. PICK T \in SUBSET After("events") :
          /\ doing("loop") = {"events"} \cup T /\ doing("loop")' = elems(steps) \cup T
  <2>1. PICK list \in Becomes("loop", "events") : list = steps /\ Then("loop", list)
    BY <1>5
  <2>2. PICK T \in SUBSET After("events") :
            /\ doing("loop") = {"events"} \cup T /\ doing("loop")' = elems(list) \cup T
    BY <1>1, <2>1, Advance
  <2>. QED
    BY <2>1, <2>2
<1>7. doing("loop")' = {step, "events"}
  BY <1>5, <1>6, Elems DEF After
<1>8. peer.stream # <<>> /\ Fed
  BY <1>6 DEF Data, Unopened
<1>9. PICK s \in Streams : s = peer.stream
  BY <1>8 DEF Types, Peers
<1>10. /\ peer'.stream = s /\ peer'.bytes = peer.bytes /\ peer'.handed = n
       /\ rx'.status = rx.status
       /\ rx'.buffer = rx.buffer \o SubSeq(peer.bytes, peer.handed + 1, n)
  BY <1>2, <1>9 DEF Types, Peers, Rxs
<1>11. Feed(s, peer.bytes, n, rx'.buffer, parsed)
  <2>1. PICK h \in Nat : h = peer.handed
    BY DEF Types, Peers
  <2>2. PICK B, b, k : B = peer.bytes /\ b = rx.buffer /\ k = parsed
    OBVIOUS
  <2>3. Feed(s, B, h, b, k)
    BY <1>8, <1>9, <2>1, <2>2 DEF Fed
  <2>4. n \in h + 1..Len(B)
    BY <2>1, <2>2
  <2>5. Feed(s, B, n, b \o SubSeq(B, h + 1, n), k)
    BY <2>3, <2>4, FeedComes
  <2>. QED
    BY <1>10, <2>1, <2>2, <2>5
<1>12. parsed' = parsed
  BY <1>3, <1>10 DEF parsed
<1>13. Fed'
  BY <1>3, <1>8, <1>9, <1>10, <1>11, <1>12 DEF Fed
<1>14. Tended'
  BY <1>4, <1>7, <1>10 DEF Tended, Resting
<1>. QED
  BY <1>8, <1>9, <1>10, <1>13, <1>14 DEF Data

LEMMA DataStatus ==
    ASSUME Control, Types, Data, Status
    PROVE  Data'
<1>1. "loop" \in Threads /\ "app" \in Threads /\ At("loop", "status")
  BY DEF Status, Threads
<1>2. "status" \in doing("loop")
  BY <1>1, Foremost
<1>3. peer.stream # <<>> /\ Fed /\ ~rx.status /\ past.received = <<>> /\ ~conn.open_notified
  BY <1>2 DEF Data, Unopened, Tended, Fed
<1>4. PICK s \in Streams : s = peer.stream
  BY <1>3 DEF Types, Peers
<1>5. peer' = peer /\ conn \in Conns /\ past \in Pasts /\ rx \in Rxs
  BY DEF Status, Types
<1> DEFINE code == GetUVarInt(rx.buffer)
           m == Len(s[0 + 1].payload)
<1>6. parsed = 0
  BY <1>3 DEF parsed
<1>7. Reading(s, peer.bytes, peer.handed, rx.buffer, 0, m)
  <2>1. PICK h \in Nat : h = peer.handed
    BY DEF Types, Peers
  <2>2. PICK B, b, k, l : B = peer.bytes /\ b = rx.buffer /\ k = 0 /\ l = m
    OBVIOUS
  <2>3. Feed(s, B, h, b, k)
    BY <1>3, <1>4, <1>6, <2>1, <2>2 DEF Fed
  <2>4. l = Len(s[k + 1].payload)
    BY <2>2
  <2>5. Reading(s, B, h, b, k, l)
    BY <2>3, <2>4, Reads
  <2>. QED
    BY <2>1, <2>2, <2>5
<1>8. /\ Len(s) # 0 /\ m = 0 /\ s[1].payload = <<>> /\ 0 + 1 = 1
      /\ code.len \in Nat
  <2>1. s[1].payload = <<>> /\ Len(s) # 0
    BY QuicAssumption, Ending
  <2>2. rx.buffer \in Seq(0..255)
    BY DEF Types, Rxs
  <2>3. GetUVarInt(rx.buffer).len \in {0, 1, 2, 4, 8}
    BY <2>2, ReadTypes
  <2>4. \A x \in {0, 1, 2, 4, 8} : x \in Nat
    OBVIOUS
  <2>. QED
    BY <2>1, <2>3, <2>4
<1>9. CASE code.len = 0
  <2>1. Then("loop", <<>>) /\ rx' = rx /\ past' = past /\ conn' = conn
    BY <1>9 DEF Status
  <2>2. PICK steps \in Becomes("loop", "status") : Then("loop", steps) /\ steps = <<>>
    BY <2>1 DEF Becomes
  <2>3. PICK T \in SUBSET After("status") :
            /\ doing("loop") = {"status"} \cup T /\ doing("loop")' = elems(steps) \cup T
    BY <1>1, <2>2, Advance
  <2>4. "frames" \notin doing("loop")' /\ "status" \notin doing("loop")'
    BY <2>2, <2>3, Elems DEF After
  <2>5. peer.handed < ends(s, 1)
    BY <1>7, <1>8, <1>9 DEF Reading
  <2>6. parsed' = parsed
    BY <2>1 DEF parsed
  <2>7. Fed'
    BY <1>3, <1>5, <2>1, <2>6 DEF Fed
  <2>8. Tended'
    BY <1>3, <1>4, <1>5, <2>1, <2>4, <2>5 DEF Tended
  <2>. QED
    BY <1>3, <1>5, <2>7, <2>8 DEF Data
<1>10. CASE code.len # 0
  <2>1. /\ rx' = [buffer |-> SubSeq(rx.buffer, code.len + 1, Len(rx.buffer)), status |-> TRUE]
        /\ IF code.dest # 200
             THEN Then("loop", << "fireError", "socketClose" >>) /\ conn' = conn /\ past' = past
             ELSE /\ conn' = [conn EXCEPT !.open_notified = TRUE, !.state = "Open"]
                  /\ Logged("open") /\ Then("loop", << "callback", "frames" >>)
    BY <1>10 DEF Status
  <2>2. PICK steps \in Becomes("loop", "status") :
            /\ Then("loop", steps)
            /\ steps = IF code.dest # 200 THEN << "fireError", "socketClose" >>
                                          ELSE << "callback", "frames" >>
    BY <2>1 DEF Becomes
  <2>3. PICK T \in SUBSET After("status") :
            /\ doing("loop") = {"status"} \cup T /\ doing("loop")' = elems(steps) \cup T
    BY <1>1, <2>2, Advance
  <2>4. /\ "status" \notin doing("loop")'
        /\ code.dest = 200 => "frames" \in doing("loop")'
    BY <2>2, <2>3, Elems DEF After
  <2>5. /\ past'.received = <<>> /\ rx'.status
        /\ conn'.open_notified <=> code.dest = 200
    <3>1. past'.received = past.received /\ rx'.status
      BY <1>5, <2>1 DEF Pasts, Logged
    <3>2. CASE code.dest = 200
      <4>1. conn' = [conn EXCEPT !.open_notified = TRUE, !.state = "Open"]
        BY <2>1, <3>2
      <4>2. conn'.open_notified
        BY <1>5, <4>1 DEF Conns
      <4>. HIDE DEF code
      <4>. QED
        BY <1>3, <3>1, <3>2, <4>2
    <3>3. CASE code.dest # 200
      <4>1. conn' = conn
        BY <2>1, <3>3
      <4>. HIDE DEF code
      <4>. QED
        BY <1>3, <3>1, <3>3, <4>1
    <3>. QED
      BY <3>2, <3>3
  <2>6. parsed' = 1
    BY <2>5 DEF parsed
  <2>7. code.dest = s[1].number
    <3>1. code = [dest |-> s[0 + 1].number, len |-> s[0 + 1].len]
      BY <1>7, <1>10 DEF Reading
    <3>2. code.dest = s[0 + 1].number
      BY <3>1
    <3>. HIDE DEF code
    <3>. QED
      BY <1>8, <3>2
  <2>8. Feed(s, peer.bytes, peer.handed, rx'.buffer, 1)
    <3>1. code.len + m = code.len
      BY <1>8
    <3>2. Feed(s, peer.bytes, peer.handed,
               SubSeq(rx.buffer, (code.len + m) + 1, Len(rx.buffer)), 0 + 1)
      BY <1>7, <1>10, <3>1 DEF Reading
    <3>. HIDE DEF code, m
    <3>. QED
      BY <1>8, <2>1, <3>1, <3>2
  <2>9. Fed'
    BY <1>4, <1>5, <2>5, <2>6, <2>7, <2>8 DEF Fed
  <2>10. Tended'
    BY <2>4, <2>5 DEF Tended, Resting
  <2>. QED
    BY <1>3, <1>5, <2>9, <2>10 DEF Data
<1>. QED
  BY <1>9, <1>10

LEMMA DataFrames ==
    ASSUME Control, Types, Data, Frames
    PROVE  Data'
<1>1. "loop" \in Threads /\ "app" \in Threads /\ At("loop", "frames")
  BY DEF Frames, Threads
<1>2. "frames" \in doing("loop")
  BY <1>1, Foremost
<1>3. peer.stream # <<>> /\ Fed /\ rx.status
  BY <1>2 DEF Data, Unopened, Tended
<1>4. PICK s \in Streams : s = peer.stream
  BY <1>3 DEF Types, Peers
<1>5. peer' = peer /\ conn' = conn /\ past \in Pasts /\ rx \in Rxs
  BY DEF Frames, Types
<1>6. PICK n \in Nat : n = Len(past.received) /\ parsed = 1 + n /\ DOMAIN past.received = 1..n
  <2>1. Len(past.received) \in Nat /\ DOMAIN past.received = 1..Len(past.received)
    BY <1>5, LenProperties DEF Pasts, Frameses
  <2>. QED
    BY <1>3, <2>1 DEF parsed
<1>7. PICK k \in Nat : k = parsed /\ k = 1 + n
  BY <1>6
<1> DEFINE code == GetUVarInt(rx.buffer)
           m == Len(s[k + 1].payload)
<1>8. Reading(s, peer.bytes, peer.handed, rx.buffer, k, m)
  <2>1. PICK h \in Nat : h = peer.handed
    BY DEF Types, Peers
  <2>2. PICK B, b, l : B = peer.bytes /\ b = rx.buffer /\ l = m
    OBVIOUS
  <2>3. Feed(s, B, h, b, k)
    BY <1>3, <1>4, <1>7, <2>1, <2>2 DEF Fed
  <2>4. l = Len(s[k + 1].payload)
    BY <2>2
  <2>5. Reading(s, B, h, b, k, l)
    BY <2>3, <2>4, Reads
  <2>. QED
    BY <2>1, <2>2, <2>5
<1>9. code.len # 0 => code.dest = m
  <2>. SUFFICES ASSUME code.len # 0 PROVE code.dest = m
    OBVIOUS
  <2>1. code = [dest |-> s[k + 1].number, len |-> s[k + 1].len] /\ k + 1 \in 1..Len(s)
    BY <1>8 DEF Reading
  <2>2. k + 1 \in 2..Len(s)
    BY <1>7, <2>1, Ending
  <2>3. s[k + 1].number = Len(s[k + 1].payload)
    BY <2>2, QuicAssumption
  <2>. QED
    BY <2>1, <2>3
<1>10. CASE code.len = 0 \/ Len(rx.buffer) < code.len + code.dest
  <2>1. Then("loop", <<>>) /\ rx' = rx /\ past' = past
    BY <1>10 DEF Frames
  <2>2. PICK steps \in Becomes("loop", "frames") : Then("loop", steps) /\ steps = <<>>
    BY <2>1 DEF Becomes
  <2>3. PICK T \in SUBSET After("frames") :
            /\ doing("loop") = {"frames"} \cup T /\ doing("loop")' = elems(steps) \cup T
    BY <1>1, <2>2, Advance
  <2>4. "frames" \notin doing("loop")' /\ "status" \notin doing("loop")'
    BY <2>2, <2>3, Elems DEF After
  <2>5. k = Len(s) \/ peer.handed < ends(s, k + 1)
    <3>1. code.len = 0 \/ Len(rx.buffer) < code.len + m
      BY <1>9, <1>10
    <3>. QED
      BY <1>8, <3>1 DEF Reading
  <2>6. parsed' = parsed
    BY <2>1 DEF parsed
  <2>7. Fed'
    BY <1>3, <1>5, <2>1, <2>6 DEF Fed
  <2>8. Tended'
    BY <1>3, <1>4, <1>5, <1>7, <2>1, <2>4, <2>5, <2>6 DEF Tended
  <2>. QED
    BY <1>3, <1>5, <2>7, <2>8 DEF Data
<1>11. CASE ~(code.len = 0 \/ Len(rx.buffer) < code.len + code.dest)
  <2>1. /\ Then("loop", << "callback", "frames" >>)
        /\ rx' = [rx EXCEPT !.buffer = SubSeq(@, (code.len + code.dest) + 1, Len(@))]
        /\ past' = [past EXCEPT !.received =
                        Append(@, SubSeq(rx.buffer, code.len + 1, code.len + code.dest))]
    BY <1>11 DEF Frames
  <2>2. PICK steps \in Becomes("loop", "frames") :
            Then("loop", steps) /\ steps = << "callback", "frames" >>
    BY <2>1 DEF Becomes
  <2>3. PICK T \in SUBSET After("frames") :
            /\ doing("loop") = {"frames"} \cup T /\ doing("loop")' = elems(steps) \cup T
    BY <1>1, <2>2, Advance
  <2>4. "status" \notin doing("loop")' /\ "frames" \in doing("loop")'
    BY <2>2, <2>3, Elems DEF After
  <2>5. code.dest = m /\ code.len # 0
    BY <1>9, <1>11
  <2>6. /\ SubSeq(rx.buffer, code.len + 1, code.len + m) = s[k + 1].payload
        /\ Feed(s, peer.bytes, peer.handed,
                SubSeq(rx.buffer, (code.len + m) + 1, Len(rx.buffer)), k + 1)
        /\ k + 1 \in 1..Len(s)
    <3>1. ~(Len(rx.buffer) < code.len + m)
      BY <1>11, <2>5
    <3>. QED
      BY <1>8, <2>5, <3>1 DEF Reading
  <2>7. PICK payload \in Seq(0..255) : payload = s[k + 1].payload
    <3>1. s[k + 1] \in StreamPart
      BY <2>6, Ending
    <3>. QED
      BY <3>1 DEF StreamPart
  <2>8. /\ rx'.status /\ past'.received = Append(past.received, payload)
        /\ rx'.buffer = SubSeq(rx.buffer, (code.len + m) + 1, Len(rx.buffer))
    <3>1. SubSeq(rx.buffer, code.len + 1, code.len + code.dest) = payload
      BY <2>5, <2>6, <2>7
    <3>2. past' = [past EXCEPT !.received = Append(@, payload)]
      BY <2>1, <3>1
    <3>3. rx' = [rx EXCEPT !.buffer = SubSeq(@, (code.len + m) + 1, Len(@))]
      BY <2>1, <2>5
    <3>. HIDE DEF code, m
    <3>. QED
      BY <1>3, <1>5, <3>2, <3>3 DEF Pasts, Rxs
  <2>9. /\ Len(past'.received) = n + 1 /\ DOMAIN past'.received = 1..n + 1
        /\ past'.received[n + 1] = payload
        /\ \A i \in 1..n : past'.received[i] = past.received[i]
    <3>1. past.received \in Frameses
      BY <1>5 DEF Pasts
    <3>0. PICK S \in {Seq(0..255)} : S = Seq(0..255)
      OBVIOUS
    <3>2. PICK q \in Seq(S) : q = past.received /\ payload \in S
      BY <3>0, <3>1 DEF Frameses
    <3>3. /\ Append(q, payload) \in Seq(S) /\ Len(Append(q, payload)) = Len(q) + 1
          /\ \A i \in 1..Len(q) : Append(q, payload)[i] = q[i]
          /\ Append(q, payload)[Len(q) + 1] = payload
      BY <3>2, AppendProperties
    <3>4. DOMAIN Append(q, payload) = 1..Len(q) + 1
      BY <3>3, LenProperties
    <3>. QED
      BY <1>6, <2>8, <3>2, <3>3, <3>4
  <2>10. parsed' = k + 1
    <3>1. parsed' = 1 + Len(past'.received)
      BY <2>8 DEF parsed
    <3>2. 1 + (n + 1) = k + 1
      BY <1>7
    <3>. QED
      BY <2>9, <3>1, <3>2
  <2>11. Feed(s, peer.bytes, peer.handed, rx'.buffer, k + 1)
    BY <2>6, <2>8
  <2>12. \A i \in DOMAIN past'.received : past'.received[i] = s[i + 1].payload
    <3>. TAKE i \in DOMAIN past'.received
    <3>1. CASE i = n + 1
      <4>1. i + 1 = k + 1
        BY <1>7, <3>1
      <4>. QED
        BY <2>7, <2>9, <3>1, <4>1
    <3>2. CASE i # n + 1
      <4>1. i \in 1..n
        BY <2>9, <3>2
      <4>. QED
        BY <1>3, <1>4, <1>6, <2>9, <4>1 DEF Fed
    <3>. QED
      BY <3>1, <3>2
  <2>13. Fed'
    <3>1. rx'.status => (conn'.open_notified <=> s[1].number = 200)
      BY <1>3, <1>4, <1>5 DEF Fed
    <3>. QED
      BY <1>4, <1>5, <2>8, <2>10, <2>11, <2>12, <3>1 DEF Fed
  <2>14. Tended'
    BY <2>4, <2>8 DEF Tended, Resting
  <2>. QED
    BY <1>3, <1>5, <2>13, <2>14 DEF Data
<1>. QED
  BY <1>10, <1>11

LEMMA DataBegins == Init => Data
<1>. SUFFICES ASSUME Init PROVE Data
  OBVIOUS
<1>1. doing("loop") = {} /\ doing("app") = {}
  BY Elems DEF Init, doing, Threads
<1>. QED
  BY <1>1 DEF Init, Data, Unopened

LEMMA DataNext == Control /\ Types /\ Flow /\ Data /\ [Next]_vars => Data'
<1>. SUFFICES ASSUME Control, Types, Flow, Data, [Next]_vars PROVE Data'
  OBVIOUS
<1>1. CASE UNCHANGED vars
  <2>1. Leaves /\ doing("app")' = doing("app") /\ doing("loop")' = doing("loop")
    BY <1>1 DEF vars, Leaves, doing
  <2>. QED
    BY <2>1, DataStays
<1>2. ASSUME NEW t \in Threads, Step(t)
      PROVE  Data'
  BY <1>2, DataStep
<1>3. CASE AppStep
  BY <1>2, <1>3, DataInit, DataConnect, DataOther DEF AppStep, Threads
<1>4. CASE LoopStep
  BY <1>2, <1>4, DataSendHead, DataStatus, DataFrames, DataOther DEF LoopStep, Threads
<1>5. CASE Open \/ CallSend \/ CloseAsync \/ Close
  BY <1>5, DataCall
<1>6. CASE StreamOpens \/ Recv \/ Fails \/ Ends
  BY <1>6, DataRecv, DataOther
<1>. QED
  BY <1>1, <1>3, <1>4, <1>5, <1>6 DEF Next

LEMMA DataHolds == Spec => [](Types /\ Control /\ Flow /\ Data)
<1>1. Init => Types /\ Control /\ Flow /\ Data
  BY TypesInit, FlowInit, DataBegins
<1>2. (Types /\ Control /\ Flow /\ Data) /\ [Next]_vars => (Types /\ Control /\ Flow /\ Data)'
  BY TypesNext, FlowNext, DataNext
<1>. QED
  BY <1>1, <1>2, PTL DEF Spec

\* on_recv gets the frames of the peer in order and whole, each as soon as its last byte
\* has come, and no other status code than 200 opens the socket, wherever the reads end
\* (handleDataFramesLocked).
THEOREM DeliversFramesCorrect == Spec => []DeliversFrames
<1>1. Types /\ Control /\ Data => DeliversFrames
  <2>. SUFFICES ASSUME Types, Control, Data PROVE DeliversFrames
    OBVIOUS
  <2> DEFINE frames == [n \in 1..Len(peer.stream) - 1 |-> peer.stream[n + 1].payload]
             r == past.received
  <2>1. r \in Seq(Seq(0..255)) /\ Len(r) \in Nat /\ DOMAIN r = 1..Len(r)
    BY LenProperties DEF Types, Pasts, Frameses
  <2>2. CASE peer.stream = <<>>
    <3>1. r = <<>> /\ ~At("loop", "events")
      <4>1. doing("loop") = {} /\ r = <<>> /\ "loop" \in Threads
        BY <2>2 DEF Data, Unopened, Threads
      <4>. QED
        BY <4>1, Foremost
    <3>2. IsPrefix(r, frames)
      <4>1. frames = <<>>
        BY <2>2
      <4>. HIDE DEF frames
      <4>. QED
        BY <3>1, <4>1 DEF IsPrefix
    <3>3. Len(r) <= Cardinality(whole)
      <4>1. whole = {}
        BY <2>2 DEF whole
      <4>. QED
        BY <3>1, <4>1, FS_EmptySet
    <3>. QED
      BY <3>1, <3>2, <3>3 DEF DeliversFrames
  <2>3. CASE peer.stream # <<>>
    <3>1. PICK s \in Streams : s = peer.stream
      BY <2>3 DEF Types, Peers
    <3>2. Fed /\ Tended
      BY <2>3 DEF Data
    <3>3. PICK size \in Nat : size = Len(s) /\ size # 0
      BY Ending
    <3>4. PICK h \in Nat : h = peer.handed
      BY DEF Types, Peers
    <3>5. PICK n \in Nat : n = Len(r) /\ DOMAIN r = 1..n
      BY <2>1
    <3>6. /\ parsed \in 0..size /\ ends(s, parsed) <= h
          /\ \A i \in 1..n : r[i] = s[i + 1].payload
      BY <3>1, <3>2, <3>3, <3>4, <3>5 DEF Fed, Feed
    <3>7. ~rx.status => n = 0 /\ ~conn.open_notified
      BY <3>2, <3>5 DEF Fed
    <3>8. rx.status => parsed = 1 + n
      BY <3>5 DEF parsed
    <3>9. n <= size - 1
      BY <3>3, <3>6, <3>7, <3>8
    <3>10. /\ \A i \in 0..size : ends(s, i) \in Nat
           /\ \A i, j \in 0..size : i <= j => ends(s, i) <= ends(s, j)
      BY <3>3, Ending, InStream
    <3>11. \A i \in 1..n : i \in whole
      <4>1. ASSUME NEW i \in 1..n
            PROVE  i \in 1..size - 1 /\ ends(s, i + 1) <= h
        <5>1. /\ rx.status /\ i + 1 \in 0..size /\ i \in 1..size - 1 /\ i + 1 <= parsed
          BY <3>3, <3>7, <3>8, <3>9
        <5>2. PICK p \in 0..size : p = parsed
          BY <3>6
        <5>3. PICK j \in 0..size : j = i + 1 /\ j <= p
          BY <5>1, <5>2
        <5>4. ends(s, j) <= ends(s, p) /\ ends(s, p) <= h /\ ends(s, j) \in Nat
              /\ ends(s, p) \in Nat
          BY <3>6, <3>10, <5>2, <5>3
        <5>5. ends(s, j) <= h
          BY <5>4
        <5>. QED
          BY <5>1, <5>3, <5>5
      <4>. QED
        BY <3>1, <3>3, <3>4, <4>1 DEF whole, ends
    <3>12. Cardinality(1..n) = n /\ IsFiniteSet(whole) /\ Cardinality(whole) \in Nat
      <4>1. IsFiniteSet(1..n) /\ Cardinality(1..n) = n
        BY FS_Interval
      <4>2. IsFiniteSet(1..size - 1)
        BY FS_Interval
      <4>3. whole \subseteq 1..size - 1
        BY <3>1, <3>3 DEF whole
      <4>4. IsFiniteSet(whole)
        BY <4>2, <4>3, FS_Subset
      <4>. QED
        BY <4>1, <4>4, FS_CardinalityType
    <3>13. n <= Cardinality(whole)
      <4>1. 1..n \subseteq whole
        BY <3>11
      <4>2. Cardinality(1..n) <= Cardinality(whole)
        BY <3>12, <4>1, FS_Subset
      <4>. QED
        BY <3>12, <4>2
    <3>14. IsPrefix(r, frames)
      <4>1. DOMAIN frames = 1..size - 1 /\ size - 1 \in Nat
            /\ \A i \in 1..size - 1 : frames[i] = s[i + 1].payload
        BY <3>1, <3>3
      <4>2. \A i \in 1..size - 1 : frames[i] \in Seq(0..255)
        <5>1. \A i \in 1..size - 1 : i + 1 \in 1..Len(s)
          BY <3>3
        <5>2. \A i \in 1..Len(s) : s[i].payload \in Seq(0..255)
          BY Ending DEF StreamPart
        <5>. QED
          BY <4>1, <5>1, <5>2
      <4>3. PICK S \in {Seq(0..255)} : S = Seq(0..255)
        OBVIOUS
      <4>4. frames \in [1..size - 1 -> S]
        BY <4>1, <4>2, <4>3
      <4>5. PICK f \in Seq(S) : f = frames /\ Len(f) = size - 1
        <5>1. PICK m \in Nat : m = size - 1
          BY <4>1
        <5>. HIDE DEF frames
        <5>2. PICK g \in [1..m -> S] : g = frames
          BY <4>4, <5>1
        <5>3. g \in Seq(S) /\ Len(g) = m
          OBVIOUS
        <5>. QED
          BY <5>1, <5>2, <5>3
      <4>6. \A i \in 1..size - 1 : f[i] = s[i + 1].payload
        BY <4>1, <4>5
      <4>7. PICK q \in Seq(S) : q = r
        BY <2>1, <4>3
      <4>8. \A i \in 1..n - 0 : q[i] = f[0 + i]
        <5>1. \A i \in 1..n - 0 : i \in 1..size - 1 /\ 0 + i = i /\ i \in 1..n
          BY <3>3, <3>9
        <5>. QED
          BY <3>6, <4>6, <4>7, <5>1
      <4>9. 0 \in Nat /\ 0 <= n /\ n <= Len(f) /\ Len(q) = n - 0
        <5>1. Len(q) = n /\ n - 0 = n /\ 0 <= n
          BY <3>5, <4>7
        <5>2. n <= Len(f)
          BY <3>9, <4>5
        <5>. QED
          BY <5>1, <5>2
      <4>10. q = SubSeq(f, 0 + 1, n)
        BY <4>8, <4>9, Exactly
      <4>11. IsPrefix(q, f)
        <5>1. Len(q) = n /\ Len(q) <= Len(f)
          BY <4>9
        <5>. QED
          BY <4>10, <5>1 DEF IsPrefix
      <4>. HIDE DEF frames
      <4>. QED
        BY <4>5, <4>7, <4>11
    <3>15. ASSUME At("loop", "events")
           PROVE  Resting
      <4>1. \A x \in doing("loop") : x = "events" \/ x \in After("events")
        BY <3>15, Foremost DEF Threads
      <4>. QED
        BY <4>1 DEF After, Resting
    <3>16. ASSUME At("loop", "events"), conn.open_notified
           PROVE  n = Cardinality(whole)
      <4>1. rx.status /\ parsed = 1 + n /\ (parsed = size \/ h < ends(s, parsed + 1))
        BY <3>1, <3>2, <3>3, <3>4, <3>7, <3>8, <3>15, <3>16 DEF Tended
      <4>2. ASSUME NEW i \in whole
            PROVE  i \in 1..n
        <5>1. i \in 1..size - 1 /\ ends(s, i + 1) <= h
          BY <3>1, <3>3, <3>4 DEF whole, ends
        <5>2. CASE parsed = size
          BY <3>3, <4>1, <5>1, <5>2
        <5>3. CASE parsed # size /\ ~(i <= n)
          <6>1. PICK p \in 0..size : p = parsed + 1 /\ h < ends(s, p)
            BY <3>3, <3>6, <4>1, <5>3
          <6>2. PICK j \in 0..size : j = i + 1 /\ p <= j
            BY <3>3, <4>1, <5>1, <5>3, <6>1
          <6>3. ends(s, p) <= ends(s, j) /\ ends(s, j) <= h /\ ends(s, j) \in Nat
                /\ ends(s, p) \in Nat
            BY <3>10, <5>1, <6>1, <6>2
          <6>4. FALSE
            BY <6>1, <6>3
          <6>. QED
            BY <6>4
        <5>. QED
          BY <3>3, <5>1, <5>2, <5>3
      <4>3. whole = 1..n
        BY <3>11, <4>2
      <4>. QED
        BY <3>12, <4>3
    <3>17. ASSUME At("loop", "events"), h >= ends(s, 1)
           PROVE  conn.open_notified = (s[1].number = 200)
      <4>1. ends(s, 1) \in Nat
        BY <3>3, <3>10
      <4>2. rx.status
        BY <3>1, <3>2, <3>4, <3>15, <3>17, <4>1 DEF Tended
      <4>3. conn.open_notified <=> s[1].number = 200
        BY <3>1, <3>2, <4>2 DEF Fed
      <4>4. conn.open_notified \in BOOLEAN
        BY DEF Types, Conns
      <4>. QED
        BY <4>3, <4>4
    <3>. HIDE DEF frames
    <3>. QED
      BY <3>1, <3>4, <3>5, <3>13, <3>14, <3>16, <3>17 DEF DeliversFrames, ends, frames
  <2>. QED
    BY <2>2, <2>3
<1>. QED
  BY <1>1, DataHolds, PTL
-------------------------------------------------------------------------------
(* What a Signal sees.                                                       *)

\* The flags and the log say the same; an open that has begun can be joined, and goes on
\* until its end was reported or the loop is up; a close that is reported as a local one was
\* asked for, and the state is Closed only after an end was reported.
Story ==
    /\ conn.close_called <=> endings # {}
    /\ conn.open_notified <=> "open" \in said
    /\ Meets("app", {"connect", "openStream", "fireError"}) => "opened" \in doing("app")
    /\ past.joinable => conn.close_called \/ Meets("app", {"connect", "fireError"}) \/ socket.up
    /\ "opened" \in doing("app") => past.joinable
    /\ Meets("app", {"settle", "init"}) /\ "join" \notin doing("app") => ~past.joinable
    /\ socket.up \/ "connect" \in doing("app") =>
           /\ conn.state = "Closed" => conn.close_called
           /\ conn.local_close_requested => "request" \in said \/ conn.close_called
    /\ "local" \in doing("loop") => conn.local_close_requested

\* open() goes on as long as it is to end.
LEMMA LastOpened ==
    ASSUME NEW S, NEW list \in Seq(S),
           \A i, j \in DOMAIN list : i < j => list[j] \in After(list[i])
    PROVE  (list # <<>> /\ list[Len(list)] = "opened") <=> "opened" \in elems(list)
<1>1. DOMAIN list = 1..Len(list) /\ Len(list) \in Nat /\ (list # <<>> => Len(list) # 0)
  BY LenProperties, EmptySeq
<1>2. list # <<>> =>
          Len(list) \in DOMAIN list /\ \A i \in DOMAIN list : i = Len(list) \/ i < Len(list)
  BY <1>1
<1>3. list = <<>> => DOMAIN list = {}
  OBVIOUS
<1>4. After("opened") = {}
  BY DEF After
<1>. QED
  BY <1>2, <1>3, <1>4 DEF elems

Upness == socket.up \/ "opened" \in doing("app")

LEMMA UpIs == Control => (Up <=> Upness)
<1>. SUFFICES ASSUME Control PROVE Up <=> Upness
  OBVIOUS
<1>1. PICK list \in Seq(StepsOf("app")) : list = todo["app"]
  BY DEF Control, Todos, Threads
<1>2. \A i, j \in DOMAIN list : i < j => list[j] \in After(list[i])
  BY <1>1 DEF Control, Ordered, Ordering, Threads
<1>3. (list # <<>> /\ list[Len(list)] = "opened") <=> "opened" \in elems(list)
  BY <1>2, LastOpened
<1>. QED
  BY <1>1, <1>3 DEF Up, Upness, doing

LEMMA UpNext == Control' => (Up' <=> Upness')
<1>. SUFFICES ASSUME Control' PROVE Up' <=> Upness'
  OBVIOUS
<1>1. PICK list \in Seq(StepsOf("app")) : list = todo'["app"]
  BY DEF Control, Todos, Threads
<1>2. \A i, j \in DOMAIN list : i < j => list[j] \in After(list[i])
  BY <1>1 DEF Control, Ordered, Ordering, Threads
<1>3. (list # <<>> /\ list[Len(list)] = "opened") <=> "opened" \in elems(list)
  BY <1>2, LastOpened
<1>. QED
  BY <1>1, <1>3 DEF Up, Upness, doing

\* What a step may do to the log, to the connection, and to the object that joins it.
Stutters ==
    past'.log = past.log /\ (Up' <=> Up) /\ past'.joinable = past.joinable
Falls ==
    /\ past'.log = past.log /\ Up /\ ~Up' /\ past'.joinable = past.joinable
    /\ endings # {}
Joins ==
    past'.log = past.log /\ ~Up /\ ~Up' /\ ~past'.joinable /\ endings # {}
Tells(e) ==
    /\ past'.log = Append(past.log, e) /\ Up /\ Up' /\ past'.joinable = past.joinable
    /\ e = "open" => endings = {} /\ "open" \notin said
    /\ e = "remote" => endings = {}
    /\ e = "local" => endings = {} /\ "request" \in said
Settles ==
    /\ past'.log = Append(past.log, "local") /\ ~Up /\ ~Up' /\ ~past.joinable
    /\ ~past'.joinable /\ endings = {}
Begun == past'.log = <<>> /\ ~past.joinable /\ Up' /\ past'.joinable
Kinds ==
    Stutters \/ Falls \/ Joins \/ (\E e \in Events : Tells(e)) \/ Settles \/ Begun

\* Only an event changes what the log holds.
LEMMA LogSame ==
    ASSUME past'.log = past.log
    PROVE  said' = said /\ endings' = endings /\ marks' = marks
BY DEF said, endings, marks

LEMMA LogEmpty ==
    ASSUME past'.log = <<>>
    PROVE  said' = {} /\ endings' = {} /\ marks' = {}
<1>1. DOMAIN past'.log = {} /\ \A x : x \notin ToSet(past'.log)
  BY DEF ToSet
<1>. QED
  BY <1>1 DEF said, endings, marks

LEMMA Says ==
    ASSUME Types, NEW e \in Events, past'.log = Append(past.log, e)
    PROVE  LET n == Len(past.log) + 1
           IN  /\ n \in Nat /\ past'.log[n] = e
               /\ \A i \in DOMAIN past.log : past'.log[i] = past.log[i]
               /\ \A i \in endings \cup marks : i \in DOMAIN past.log /\ i \in Nat /\ i < n
               /\ said' = said \cup {e}
               /\ endings' = IF e \in Terminal THEN endings \cup {n} ELSE endings
               /\ marks' = IF e \in {"open", "request"} THEN marks \cup {n} ELSE marks
<1> DEFINE n == Len(past.log) + 1
<1>1. past.log \in Seq(Events)
  BY DEF Types, Pasts, Logs
<1>2. /\ n \in Nat /\ DOMAIN past.log = 1..(n - 1) /\ DOMAIN past'.log = 1..n
      /\ past'.log[n] = e
      /\ \A i \in 1..(n - 1) : past'.log[i] = past.log[i] /\ i \in Nat /\ i < n
  <2>1. /\ past'.log \in Seq(Events) /\ Len(past'.log) = n /\ Len(past.log) \in Nat
        /\ \A i \in 1..Len(past.log) : past'.log[i] = past.log[i]
        /\ past'.log[n] = e
    BY <1>1, AppendProperties
  <2>2. DOMAIN past.log = 1..Len(past.log) /\ n - 1 = Len(past.log) /\ DOMAIN past'.log = 1..n
    BY <1>1, <2>1, LenProperties
  <2>. HIDE DEF n
  <2>3. n \in Nat /\ \A i \in 1..(n - 1) : i \in Nat /\ i < n
    BY <2>1, <2>2 DEF n
  <2>. QED
    BY <2>1, <2>2, <2>3
<1>3. \A i : i \in DOMAIN past'.log <=> i \in DOMAIN past.log \/ i = n
  <2>. HIDE DEF n
  <2>. QED
    BY <1>2
<1>4. n \notin DOMAIN past.log
  <2>. HIDE DEF n
  <2>. QED
    BY <1>2
<1>5. \A i \in DOMAIN past.log : past'.log[i] = past.log[i] /\ i \in Nat /\ i < n
  BY <1>2
<1>. HIDE DEF n
<1>6. said' = said \cup {e}
  BY <1>2, <1>3, <1>5 DEF said, ToSet
<1>7. endings' = IF e \in Terminal THEN endings \cup {n} ELSE endings
  BY <1>2, <1>3, <1>4, <1>5 DEF endings
<1>8. marks' = IF e \in {"open", "request"} THEN marks \cup {n} ELSE marks
  BY <1>2, <1>3, <1>4, <1>5 DEF marks
<1>9. \A i \in endings \cup marks : i \in DOMAIN past.log /\ i \in Nat /\ i < n
  BY <1>5 DEF endings, marks
<1>. QED
  BY <1>2, <1>5, <1>6, <1>7, <1>8, <1>9 DEF n

\* An event is said, and an end ends.
LEMMA SaysSo ==
    ASSUME Types, NEW e \in Events, past'.log = Append(past.log, e)
    PROVE  /\ said' = said \cup {e}
           /\ e \in Terminal => endings' # {}
           /\ e \notin Terminal => endings' = endings
BY Says
\* What most steps leave alone.
Same ==
    /\ past'.log = past.log /\ past'.joinable = past.joinable /\ socket'.up = socket.up
    /\ conn'.close_called = conn.close_called /\ conn'.open_notified = conn.open_notified
    /\ conn'.local_close_requested = conn.local_close_requested
    /\ conn'.state = conn.state \/ conn'.state # "Closed"

LEMMA Mildly ==
    ASSUME Control, Control', Story, Same,
           "opened" \in doing("app")' <=> "opened" \in doing("app"),
           "connect" \in doing("app")' <=> "connect" \in doing("app"),
           "fireError" \in doing("app") => "fireError" \in doing("app")',
           Meets("app", {"connect", "openStream", "fireError"})' =>
               Meets("app", {"connect", "openStream", "fireError"}),
           Meets("app", {"settle", "init"})' /\ "join" \notin doing("app")' =>
               Meets("app", {"settle", "init"}) /\ "join" \notin doing("app"),
           "local" \in doing("loop")' => "local" \in doing("loop") \/ conn.local_close_requested
    PROVE  Story' /\ Stutters
<1>1. said' = said /\ endings' = endings
  BY LogSame DEF Same
<1>2. Up' <=> Up
  BY UpIs, UpNext DEF Upness, Same
<1>3. Stutters
  BY <1>2 DEF Stutters, Same
<1>4. Story'
  BY <1>1 DEF Story, Same, Meets
<1>. QED
  BY <1>3, <1>4

\* A step of a thread that neither begins nor ends a connection.
LEMMA StepsMildly ==
    ASSUME Control, Story, Same, NEW t \in Threads, NEW s, At(t, s),
           s \notin {"init", "connect", "join", "opened"},
           s = "fireError" => t = "loop",
           NEW steps \in Becomes(t, s), Then(t, steps),
           "local" \in elems(steps) => conn.local_close_requested
    PROVE  Control' /\ Story' /\ Stutters
<1>1. PICK T \in SUBSET After(s) :
          /\ doing(t) = {s} \cup T /\ doing(t)' = elems(steps) \cup T
          /\ Control' /\ s \in StepsOf(t) /\ \A u \in Threads : u # t => doing(u)' = doing(u)
  BY Advance
<1>2. CASE t = "loop"
  <2>1. doing("app")' = doing("app")
    BY <1>1, <1>2 DEF Threads
  <2>2. "local" \in doing("loop")' => "local" \in doing("loop") \/ conn.local_close_requested
    BY <1>1, <1>2
  <2>. QED
    BY <1>1, <2>1, <2>2, Mildly DEF Meets
<1>3. CASE t = "app"
  <2>1. doing("loop")' = doing("loop")
    BY <1>1, <1>3 DEF Threads
  <2>2. /\ "opened" \notin elems(steps) /\ "connect" \notin elems(steps)
        /\ "openStream" \notin elems(steps) /\ "settle" \notin elems(steps)
        /\ "init" \notin elems(steps)
        /\ "fireError" \in elems(steps) => s = "openStream"
    <3>1. s \in Asked \cup {"openStream", "settle"}
      BY <1>1, <1>3 DEF StepsOf
    <3>2. \/ steps \in {<<>>, <<"callback">>, <<"send">>, <<"requestClose">>}
          \/ steps \in {<<"storeClosing", "socketClose">>, <<"socketClose">>, <<"onClose">>}
          \/ s = "openStream" /\ steps = <<"fireError", "socketClose">>
      BY <1>3, <3>1 DEF Becomes, Asked
    <3>. QED
      BY <3>2, Elems
  <2>3. /\ "opened" \in doing("app")' <=> "opened" \in doing("app")
        /\ "connect" \in doing("app")' <=> "connect" \in doing("app")
        /\ "fireError" \in doing("app") => "fireError" \in doing("app")'
    BY <1>1, <1>3, <2>2
  <2>4. Meets("app", {"connect", "openStream", "fireError"})' =>
            Meets("app", {"connect", "openStream", "fireError"})
    BY <1>1, <1>3, <2>2 DEF Meets
  <2>5. Meets("app", {"settle", "init"})' /\ "join" \notin doing("app")' =>
            Meets("app", {"settle", "init"}) /\ "join" \notin doing("app")
    BY <1>1, <1>3, <2>2 DEF Meets
  <2>. QED
    BY <1>1, <2>1, <2>3, <2>4, <2>5, Mildly
<1>. QED
  BY <1>2, <1>3 DEF Threads
\* What a thread does on its own, and a close that is asked for.
LEMMA RequestStory ==
    ASSUME Control, Types, Flow, Story, NEW t \in Threads, RequestClose(t)
    PROVE  Story' /\ Kinds
<1>1. /\ At(t, "requestClose") /\ conn' = [conn EXCEPT !.local_close_requested = TRUE]
      /\ socket' = socket
      /\ \/ conn.state = "Closed" /\ past' = past
         \/ conn.state # "Closed" /\ Up /\ past' = [past EXCEPT !.log = Append(@, "request")]
         \/ conn.state # "Closed" /\ ~Up /\ past' = past
  BY DEF RequestClose, OnlyConn, Logged
<1>2. PICK steps \in Becomes(t, "requestClose") : Then(t, steps)
  BY DEF RequestClose, Becomes
<1>3. PICK T \in SUBSET After("requestClose") :
          /\ doing(t) = {"requestClose"} \cup T /\ doing(t)' = elems(steps) \cup T
          /\ \A u \in Threads : u # t => doing(u)' = doing(u)
          /\ Control' /\ "requestClose" \in StepsOf(t)
  BY <1>1, <1>2, Advance
<1>4. elems(steps) \in {{}, {"socketClose"}, {"storeClosing", "socketClose"}}
  BY <1>2, Elems DEF Becomes
<1>5. /\ conn'.state = conn.state /\ conn'.close_called = conn.close_called
      /\ conn'.open_notified = conn.open_notified /\ conn'.local_close_requested
      /\ past'.joinable = past.joinable
      /\ past'.log = past.log \/ (past'.log = Append(past.log, "request") /\ Up)
  BY <1>1 DEF Types, Conns, Pasts
<1>6. \A u \in {"app", "loop"} :
          /\ \A x \in {"opened", "connect", "fireError", "openStream", "local", "init",
                       "settle", "join"} :
                 x \in doing(u)' <=> x \in doing(u)
  BY <1>3, <1>4 DEF Threads
<1>7. Up' <=> Up
  BY <1>1, <1>3, <1>6, UpIs, UpNext DEF Upness
<1>8. "request" \in Events /\ "request" \notin Terminal
  BY DEF Events, Terminal
<1>9. /\ endings' = endings
      /\ "open" \in said' <=> "open" \in said
      /\ "request" \in said => "request" \in said'
      /\ past'.log # past.log => "request" \in said'
  <2>1. CASE past'.log = past.log
    BY <2>1, LogSame
  <2>2. CASE past'.log = Append(past.log, "request")
    BY <1>8, <2>2, SaysSo
  <2>. QED
    BY <1>5, <2>1, <2>2
<1>10. socket.up \/ "connect" \in doing("app") =>
           "request" \in said' \/ conn.close_called
  <2>1. SUFFICES ASSUME socket.up \/ "connect" \in doing("app"), ~conn.close_called
                 PROVE  "request" \in said'
    OBVIOUS
  <2>2. conn.state # "Closed"
    BY <2>1 DEF Story
  <2>3. Up
    BY <2>1, UpIs DEF Upness, Story, Meets
  <2>4. past'.log = Append(past.log, "request")
    BY <1>1, <2>2, <2>3 DEF Types, Pasts
  <2>. QED
    BY <1>8, <2>4, SaysSo
<1>13. /\ \A x \in {"opened", "connect", "fireError", "openStream", "init", "settle", "join"} :
              x \in doing("app")' <=> x \in doing("app")
       /\ "local" \in doing("loop")' <=> "local" \in doing("loop")
  BY <1>6
<1>14. /\ "opened" \in doing("app")' <=> "opened" \in doing("app")
       /\ "connect" \in doing("app")' <=> "connect" \in doing("app")
       /\ "join" \in doing("app")' <=> "join" \in doing("app")
       /\ \A S \in {{"connect", "openStream", "fireError"}, {"connect", "fireError"},
                    {"settle", "init"}} : Meets("app", S)' <=> Meets("app", S)
  BY <1>13 DEF Meets
<1>11. Story'
  BY <1>1, <1>5, <1>9, <1>10, <1>13, <1>14 DEF Story
<1>12. Kinds
  <2>1. CASE past'.log = past.log
    BY <1>5, <1>7, <2>1 DEF Kinds, Stutters
  <2>2. CASE past'.log = Append(past.log, "request") /\ Up
    <3>1. Tells("request")
      BY <1>5, <1>7, <2>2 DEF Tells
    <3>. QED
      BY <1>8, <3>1 DEF Kinds
  <2>. QED
    BY <1>5, <2>1, <2>2
<1>. QED
  BY <1>11, <1>12

LEMMA FireErrorStory ==
    ASSUME Control, Types, Flow, Story, NEW t \in Threads, FireError(t)
    PROVE  Story' /\ Kinds
<1>1. /\ At(t, "fireError") /\ socket' = socket
      /\ \/ conn.error_reported /\ conn' = conn /\ past' = past /\ Then(t, <<>>)
         \/ /\ conn' = [conn EXCEPT !.error_reported = TRUE, !.close_called = TRUE,
                                    !.state = "Closed", !.running = FALSE]
            /\ past' = [past EXCEPT !.log = Append(@, "error")] /\ Then(t, <<"callback">>)
  BY DEF FireError, OnlyConn, Logged
<1>2. PICK steps \in Becomes(t, "fireError") : Then(t, steps)
  BY <1>1 DEF Becomes
<1>3. PICK T \in SUBSET After("fireError") :
          /\ doing(t) = {"fireError"} \cup T /\ doing(t)' = elems(steps) \cup T
          /\ \A u \in Threads : u # t => doing(u)' = doing(u)
          /\ Control' /\ "fireError" \in StepsOf(t)
  BY <1>1, <1>2, Advance
<1>4. elems(steps) \in {{}, {"callback"}}
  BY <1>2, Elems DEF Becomes
<1>5. /\ conn'.close_called
      /\ conn'.open_notified = conn.open_notified
      /\ conn'.local_close_requested = conn.local_close_requested
      /\ past'.joinable = past.joinable
      /\ (past'.log = past.log /\ conn.close_called) \/ past'.log = Append(past.log, "error")
  <2>1. CASE conn.error_reported /\ conn' = conn /\ past' = past
    BY <2>1 DEF Flow, Closes
  <2>2. CASE /\ conn' = [conn EXCEPT !.error_reported = TRUE, !.close_called = TRUE,
                                     !.state = "Closed", !.running = FALSE]
             /\ past' = [past EXCEPT !.log = Append(@, "error")]
    BY <2>2 DEF Types, Conns, Pasts
  <2>. QED
    BY <1>1, <2>1, <2>2
<1>6. \A u \in {"app", "loop"} :
          /\ \A x \in {"opened", "connect", "openStream", "local", "init", "settle", "join"} :
                 x \in doing(u)' <=> x \in doing(u)
          /\ "fireError" \in doing(u)' => "fireError" \in doing(u)
  BY <1>3, <1>4 DEF Threads
<1>7. Up' <=> Up
  BY <1>1, <1>3, <1>6, UpIs, UpNext DEF Upness
<1>8. Up
  <2>1. CASE t = "app"
    BY <1>3, <2>1, UpIs DEF Upness, Story, Meets
  <2>2. CASE t = "loop"
    BY <1>3, <2>2, UpIs DEF Upness, Flow, Lives
  <2>. QED
    BY <2>1, <2>2 DEF Threads
<1>9. "error" \in Events /\ "error" \in Terminal
  BY DEF Events, Terminal
<1>10. /\ endings' # {}
       /\ "open" \in said' <=> "open" \in said
       /\ "request" \in said => "request" \in said'
  <2>1. CASE past'.log = past.log /\ conn.close_called
    BY <2>1, LogSame DEF Story
  <2>2. CASE past'.log = Append(past.log, "error")
    BY <1>9, <2>2, SaysSo
  <2>. QED
    BY <1>5, <2>1, <2>2
<1>13. /\ \A x \in {"opened", "connect", "openStream", "init", "settle", "join"} :
              x \in doing("app")' <=> x \in doing("app")
       /\ "fireError" \in doing("app")' => "fireError" \in doing("app")
       /\ "local" \in doing("loop")' <=> "local" \in doing("loop")
  BY <1>6
<1>14. /\ "opened" \in doing("app")' <=> "opened" \in doing("app")
       /\ "join" \in doing("app")' <=> "join" \in doing("app")
       /\ Meets("app", {"connect", "openStream", "fireError"})' =>
              Meets("app", {"connect", "openStream", "fireError"})
       /\ Meets("app", {"settle", "init"})' <=> Meets("app", {"settle", "init"})
  BY <1>13 DEF Meets
<1>11. Story'
  BY <1>1, <1>5, <1>10, <1>13, <1>14 DEF Story
<1>12. Kinds
  <2>1. CASE past'.log = past.log
    BY <1>5, <1>7, <2>1 DEF Kinds, Stutters
  <2>2. CASE past'.log = Append(past.log, "error")
    <3>1. Tells("error")
      BY <1>5, <1>7, <1>8, <2>2 DEF Tells
    <3>. QED
      BY <1>9, <3>1 DEF Kinds
  <2>. QED
    BY <1>5, <2>1, <2>2
<1>. QED
  BY <1>11, <1>12

LEMMA StepStory ==
    ASSUME Control, Types, Flow, Story, NEW t \in Threads, Step(t)
    PROVE  Story' /\ Kinds
<1>1. conn \in Conns /\ past \in Pasts /\ socket \in Sockets
  BY DEF Types
<1>2. CASE Send(t)
  <2>1. At(t, "send") /\ Then(t, <<>>) /\ Same
    BY <1>1, <1>2 DEF Send, Same, Pasts
  <2>2. <<>> \in Becomes(t, "send") /\ "local" \notin elems(<<>>)
    BY Elems DEF Becomes
  <2>. QED
    BY <2>1, <2>2, StepsMildly DEF Kinds
<1>3. CASE StoreClosing(t)
  <2>1. At(t, "storeClosing") /\ Then(t, <<>>) /\ Same
    BY <1>1, <1>3 DEF StoreClosing, Same, OnlyConn, Conns
  <2>2. <<>> \in Becomes(t, "storeClosing") /\ "local" \notin elems(<<>>)
    BY Elems DEF Becomes
  <2>. QED
    BY <2>1, <2>2, StepsMildly DEF Kinds
<1>4. CASE SocketClose(t)
  <2>1. At(t, "socketClose") /\ Same
    BY <1>1, <1>4 DEF SocketClose, Same, OnlySocket, Sockets
  <2>2. PICK steps \in {<<>>, <<"onClose">>} : steps \in Becomes(t, "socketClose") /\ Then(t, steps)
    BY <1>4 DEF SocketClose, Becomes
  <2>3. "local" \notin elems(steps)
    BY Elems
  <2>. QED
    BY <2>1, <2>2, <2>3, StepsMildly DEF Kinds
<1>5. CASE Callback(t)
  <2>1. At(t, "callback") /\ Same
    BY <1>1, <1>5 DEF Callback, Same, Pasts
  <2>2. PICK steps \in {<<>>, <<"send">>, <<"requestClose">>} :
            steps \in Becomes(t, "callback") /\ Then(t, steps)
    BY <1>5 DEF Callback, Becomes
  <2>3. "local" \notin elems(steps)
    BY Elems
  <2>. QED
    BY <2>1, <2>2, <2>3, StepsMildly DEF Kinds
<1>. QED
  BY <1>2, <1>3, <1>4, <1>5, RequestStory, FireErrorStory DEF Step
LEMMA InitStory ==
    ASSUME Control, Types, Flow, Story, InitAll
    PROVE  Story' /\ Kinds
<1>1. At("app", "init") /\ "app" \in Threads
  BY DEF InitAll, Threads
<1>2. PICK steps \in Becomes("app", "init") :
          /\ Then("app", steps)
          /\ \/ steps = <<"connect", "opened">> /\ conn'.running
             \/ steps = <<"fireError", "opened">>
  BY DEF InitAll, Becomes
<1>3. PICK T \in SUBSET After("init") :
          /\ doing("app") = {"init"} \cup T /\ doing("app")' = elems(steps) \cup T
          /\ \A u \in Threads : u # "app" => doing(u)' = doing(u)
          /\ Control'
  BY <1>1, <1>2, Advance
<1>4. /\ elems(steps) = {"connect", "opened"} /\ conn'.running
      \/ elems(steps) = {"fireError", "opened"}
  BY <1>2, Elems
<1>5. /\ ~conn'.close_called /\ ~conn'.open_notified /\ ~conn'.local_close_requested
      /\ conn'.running => conn'.state # "Closed"
      /\ ~socket'.up
  <2>1. PICK x : conn' = [state |-> x, running |-> x = "Connecting", open_notified |-> FALSE,
                          error_reported |-> FALSE, close_called |-> FALSE,
                          local_close_requested |-> FALSE]
    BY DEF InitAll
  <2>2. ~socket'.up
    BY DEF InitAll, NoSocket
  <2>. QED
    BY <2>1, <2>2
<1>6. past'.log = <<>> /\ past'.joinable
  BY DEF InitAll, Types, Pasts
<1>7. said' = {} /\ endings' = {}
  BY <1>6, LogEmpty
<1>8. After("init") = {} /\ doing("app") = {"init"} /\ doing("app")' = elems(steps)
  BY <1>3 DEF After
<1>9. ~past.joinable /\ doing("loop") = {} /\ doing("loop")' = {}
  <2>1. Meets("app", {"settle", "init"}) /\ "join" \notin doing("app")
    BY <1>8 DEF Meets
  <2>2. doing("loop") = {}
    BY <2>1 DEF Flow, Lives
  <2>. QED
    BY <1>3, <2>1, <2>2 DEF Story, Threads
<1>10. Story'
  <2>1. /\ "opened" \in doing("app")' /\ ~Meets("app", {"settle", "init"})'
        /\ Meets("app", {"connect", "fireError"})'
        /\ "connect" \in doing("app")' => conn'.running
    BY <1>4, <1>8 DEF Meets
  <2>. QED
    BY <1>5, <1>6, <1>7, <1>9, <2>1 DEF Story
<1>11. Up'
  BY <1>3, <1>4, <1>8, UpNext DEF Upness
<1>. QED
  BY <1>6, <1>9, <1>10, <1>11 DEF Kinds, Begun

LEMMA ConnectStory ==
    ASSUME Control, Control', Types, Flow, Story, Connect
    PROVE  Story' /\ Kinds
<1>1. /\ At("app", "connect") /\ conn' = conn /\ past' = past
      /\ "app" \in Threads /\ "loop" \in Threads /\ todo \in [Threads -> Seq(QuicSteps)]
  BY DEF Connect, OnlySocket, Threads, Control, Todos
<1>2. "connect" \in doing("app") /\ \A x \in doing("app") : x = "connect" \/ x \in After("connect")
  BY <1>1, Foremost
<1>3. "opened" \in doing("app") /\ \A x \in doing("app") : x \in {"connect", "opened"}
  BY <1>2 DEF Story, Meets, After
<1>4. said' = said /\ endings' = endings
  BY <1>1, LogSame
<1>5. CASE Then("app", <<"fireError">>) /\ socket' = socket
  <2>1. PICK steps \in Becomes("app", "connect") : Then("app", steps) /\ steps = <<"fireError">>
    BY <1>5 DEF Becomes
  <2>2. PICK T \in SUBSET After("connect") :
            /\ doing("app") = {"connect"} \cup T /\ doing("app")' = elems(steps) \cup T
            /\ \A u \in Threads : u # "app" => doing(u)' = doing(u)
    BY <1>1, <2>1, Advance
  <2>3. doing("app")' = {"fireError", "opened"} /\ doing("loop")' = doing("loop")
    BY <1>1, <1>3, <2>1, <2>2, Elems DEF After
  <2>4. Story'
    BY <1>1, <1>3, <1>4, <1>5, <2>3 DEF Story, Meets
  <2>5. Up' <=> Up
    BY <1>1, <1>3, <2>3, UpIs, UpNext DEF Upness
  <2>. QED
    BY <1>1, <2>4, <2>5 DEF Kinds, Stutters
<1>6. CASE /\ socket' = [socket EXCEPT !.up = TRUE]
           /\ todo' = [todo EXCEPT !["app"] = << "openStream" >> \o Tail(@),
                                   !["loop"] = << "events" >>]
  <2>1. /\ todo["app"] # <<>> /\ todo["app"] \in Seq(StepsOf("app"))
        /\ Head(todo["app"]) = "connect"
    BY <1>1 DEF Control, Todos, At
  <2>2. todo'["app"] = << "openStream" >> \o Tail(todo["app"]) /\ todo'["loop"] = << "events" >>
    BY <1>1, <1>6
  <2>3. PICK s \in {"connect"} : s = "connect" /\ At("app", s)
    BY <1>1
  <2>4. PICK steps \in Becomes("app", s) : steps = << "openStream" >>
    BY <2>3 DEF Becomes
  <2>5. PICK t \in Threads : t = "app"
    BY <1>1
  <2>6. At(t, s) /\ steps \in Becomes(t, s) /\ todo'[t] = steps \o Tail(todo[t])
    BY <2>2, <2>3, <2>4, <2>5
  <2>7. PICK T \in SUBSET After(s) :
            doing(t) = {s} \cup T /\ doing(t)' = elems(steps) \cup T
    BY <2>6, AdvanceIn, ZenonT(60)
  <2>8. doing("app")' = {"openStream", "opened"}
    BY <1>3, <2>3, <2>4, <2>5, <2>7, Elems DEF After
  <2>9. doing("loop")' = {"events"}
    BY <2>2, Elems DEF doing
  <2>10. socket'.up
    BY <1>6 DEF Types, Sockets
  <2>11. Story'
    BY <1>1, <1>2, <1>3, <1>4, <2>8, <2>9, <2>10 DEF Story, Meets
  <2>12. Up' /\ Up
    BY <1>3, <2>10, UpIs, UpNext DEF Upness
  <2>. QED
    BY <1>1, <2>11, <2>12 DEF Kinds, Stutters
<1>. QED
  BY <1>5, <1>6 DEF Connect

LEMMA OpenedStory ==
    ASSUME Control, Types, Flow, Story, Opened
    PROVE  Story' /\ Kinds
<1>1. At("app", "opened") /\ "app" \in Threads /\ conn' = conn /\ socket' = socket /\ past' = past
  BY DEF Opened, OnlyTodo, Threads
<1>2. PICK steps \in Becomes("app", "opened") : Then("app", steps) /\ steps = <<>>
  BY DEF Opened, Becomes
<1>3. PICK T \in SUBSET After("opened") :
          /\ doing("app") = {"opened"} \cup T /\ doing("app")' = elems(steps) \cup T
          /\ \A u \in Threads : u # "app" => doing(u)' = doing(u)
          /\ Control'
  BY <1>1, <1>2, Advance
<1>4. doing("app") = {"opened"} /\ doing("app")' = {} /\ doing("loop")' = doing("loop")
  BY <1>2, <1>3, Elems DEF After, Threads
<1>5. said' = said /\ endings' = endings
  BY <1>1, LogSame
<1>6. past.joinable /\ (conn.close_called \/ socket.up)
  BY <1>4 DEF Story, Meets
<1>7. Story'
  BY <1>1, <1>4, <1>5, <1>6 DEF Story, Meets
<1>8. CASE socket.up
  <2>1. Up' /\ Up
    BY <1>1, <1>3, <1>8, UpIs, UpNext DEF Upness
  <2>. QED
    BY <1>1, <1>7, <2>1 DEF Kinds, Stutters
<1>9. CASE ~socket.up
  <2>1. ~Up' /\ Up
    BY <1>1, <1>3, <1>4, <1>9, UpIs, UpNext DEF Upness
  <2>2. endings # {}
    BY <1>6, <1>9 DEF Story
  <2>. QED
    BY <1>1, <1>7, <2>1, <2>2 DEF Kinds, Falls
<1>. QED
  BY <1>8, <1>9

LEMMA JoinStory ==
    ASSUME Control, Types, Flow, Story, Join
    PROVE  Story' /\ Kinds
<1>1. /\ At("app", "join") /\ "app" \in Threads /\ conn' = conn /\ ~socket.up
      /\ past' = [past EXCEPT !.joinable = FALSE] /\ socket' = [socket EXCEPT !.made = FALSE]
  BY DEF Join, OnlySocket, Threads
<1>2. PICK steps \in Becomes("app", "join") : Then("app", steps) /\ steps = <<>>
  BY DEF Join, Becomes
<1>3. PICK T \in SUBSET After("join") :
          /\ doing("app") = {"join"} \cup T /\ doing("app")' = elems(steps) \cup T
          /\ \A u \in Threads : u # "app" => doing(u)' = doing(u)
          /\ Control'
  BY <1>1, <1>2, Advance
<1>4. /\ \A x \in doing("app") : x \in {"join", "settle", "init"}
      /\ \A x \in doing("app")' : x \in {"settle", "init"}
      /\ doing("loop")' = doing("loop")
  BY <1>2, <1>3, Elems DEF After, Threads
<1>5. ~past'.joinable /\ past'.log = past.log /\ ~socket'.up
  BY <1>1 DEF Types, Pasts, Sockets
<1>6. said' = said /\ endings' = endings
  BY <1>5, LogSame
<1>7. ~Up /\ ~Up'
  BY <1>1, <1>3, <1>4, <1>5, UpIs, UpNext DEF Upness
<1>8. Story'
  BY <1>1, <1>4, <1>5, <1>6 DEF Story, Meets
<1>9. CASE past.joinable
  <2>1. endings # {}
    BY <1>1, <1>4, <1>9 DEF Story, Meets
  <2>. QED
    BY <1>5, <1>7, <1>8, <2>1 DEF Kinds, Joins
<1>10. CASE ~past.joinable
  <2>1. past'.joinable = past.joinable
    BY <1>1, <1>10 DEF Types, Pasts
  <2>. QED
    BY <1>5, <1>7, <1>8, <2>1 DEF Kinds, Stutters
<1>. QED
  BY <1>9, <1>10

LEMMA SettleStory ==
    ASSUME Control, Types, Flow, Story, Settle
    PROVE  Story' /\ Kinds
<1>1. /\ At("app", "settle") /\ "app" \in Threads /\ socket' = socket
      /\ conn' = [conn EXCEPT !.state = "Closed", !.running = FALSE, !.close_called = TRUE]
      /\ \/ (conn.close_called \/ conn.error_reported) /\ past' = past
         \/ ~conn.close_called /\ past' = [past EXCEPT !.log = Append(@, "local")]
  BY DEF Settle, OnlyConn, Threads, Logged
<1>2. PICK steps \in Becomes("app", "settle") : Then("app", steps)
  BY DEF Settle, Becomes
<1>3. PICK T \in SUBSET After("settle") :
          /\ doing("app") = {"settle"} \cup T /\ doing("app")' = elems(steps) \cup T
          /\ \A u \in Threads : u # "app" => doing(u)' = doing(u)
          /\ Control'
  BY <1>1, <1>2, Advance
<1>4. /\ doing("app") = {"settle"} /\ \A x \in doing("app")' : x = "callback"
      /\ doing("loop")' = doing("loop")
  BY <1>2, <1>3, Elems DEF After, Becomes, Threads
<1>5. ~socket.up /\ ~past.joinable
  BY <1>4 DEF Flow, Lives, Story, Meets
<1>6. ~Up /\ ~Up'
  BY <1>1, <1>3, <1>4, <1>5, UpIs, UpNext DEF Upness
<1>7. /\ past'.joinable = past.joinable /\ conn'.close_called
      /\ conn'.open_notified = conn.open_notified
      /\ conn'.local_close_requested = conn.local_close_requested
      /\ \/ conn.close_called /\ past'.log = past.log
         \/ ~conn.close_called /\ past'.log = Append(past.log, "local")
  BY <1>1 DEF Types, Conns, Pasts, Flow, Closes
<1>8. "local" \in Events /\ "local" \in Terminal
  BY DEF Events, Terminal
<1>9. /\ endings' # {}
      /\ "open" \in said' <=> "open" \in said
  <2>1. CASE conn.close_called /\ past'.log = past.log
    BY <2>1, LogSame DEF Story
  <2>2. CASE past'.log = Append(past.log, "local")
    BY <1>8, <2>2, SaysSo
  <2>. QED
    BY <1>7, <2>1, <2>2
<1>10. Story'
  BY <1>1, <1>4, <1>5, <1>7, <1>9 DEF Story, Meets
<1>11. CASE past'.log = past.log
  BY <1>6, <1>7, <1>10, <1>11 DEF Kinds, Stutters
<1>12. CASE ~conn.close_called /\ past'.log = Append(past.log, "local")
  <2>1. endings = {}
    BY <1>12 DEF Story
  <2>. QED
    BY <1>5, <1>6, <1>7, <1>10, <1>12, <2>1 DEF Kinds, Settles
<1>. QED
  BY <1>7, <1>11, <1>12
LEMMA CallStory ==
    ASSUME Control, Control', Types, Story, Open \/ CallSend \/ CloseAsync \/ Close
    PROVE  Story' /\ Kinds
<1>1. PICK steps \in {<<"socketClose", "join", "init">>, <<"send">>, <<"requestClose">>,
                      <<"requestClose", "socketClose", "join", "settle">>} :
          todo["app"] = <<>> /\ todo' = [todo EXCEPT !["app"] = steps]
  BY DEF Open, CallSend, CloseAsync, Close, Starts
<1>2. todo \in [Threads -> Seq(QuicSteps)] /\ "loop" \in Threads /\ "app" \in Threads
  BY DEF Control, Todos, Threads
<1>3. todo'["loop"] = todo["loop"] /\ todo'["app"] = steps
  BY <1>1, <1>2
<1>4. doing("loop")' = doing("loop") /\ doing("app") = {} /\ doing("app")' = elems(steps)
  BY <1>1, <1>3, Elems DEF doing
<1>5. /\ \A x \in elems(steps) :
             x \in {"socketClose", "join", "init", "send", "requestClose", "settle"}
      /\ "init" \in elems(steps) \/ "settle" \in elems(steps) => "join" \in elems(steps)
  BY <1>1 DEF elems
<1>6. Same
  BY DEF Open, CallSend, CloseAsync, Close, Same, Types, Pasts
<1>7. /\ "opened" \in doing("app")' <=> "opened" \in doing("app")
      /\ "connect" \in doing("app")' <=> "connect" \in doing("app")
      /\ "fireError" \in doing("app") => "fireError" \in doing("app")'
      /\ ~Meets("app", {"connect", "openStream", "fireError"})'
      /\ ~(Meets("app", {"settle", "init"})' /\ "join" \notin doing("app")')
  BY <1>4, <1>5 DEF Meets
<1>. QED
  BY <1>4, <1>6, <1>7, Mildly DEF Kinds

\* A step of the loop that leaves the flags and the log alone.
LEMMA LoopMildly ==
    ASSUME Control, Types, Story,
           StreamOpens \/ Recv \/ Fails \/ Ends \/ Frames \/ OnClose("loop")
    PROVE  Story' /\ Kinds
<1>1. /\ conn \in Conns /\ past \in Pasts /\ socket \in Sockets /\ "loop" \in Threads
  BY DEF Types, Threads
<1>2. Same
  BY <1>1 DEF StreamOpens, Recv, Fails, Ends, Frames, OnClose, Same, OnlySocket, OnlyTodo,
              Sockets, Pasts
<1>3. CASE StreamOpens \/ Recv \/ Fails \/ Ends
  <2>1. PICK steps \in {<<"marker", "params", "events">>, <<"frames", "events">>,
                        <<"status", "events">>, <<"fireError", "events">>,
                        <<"onClose", "events">>} :
            At("loop", "events") /\ Then("loop", steps)
    BY <1>3 DEF StreamOpens, Recv, Fails, Ends
  <2>2. steps \in Becomes("loop", "events") /\ "local" \notin elems(steps)
    BY Elems DEF Becomes
  <2>. QED
    BY <1>1, <1>2, <2>1, <2>2, StepsMildly DEF Kinds
<1>4. CASE Frames
  <2>1. PICK steps \in {<<>>, <<"callback", "frames">>} :
            At("loop", "frames") /\ Then("loop", steps)
    BY <1>4 DEF Frames
  <2>2. steps \in Becomes("loop", "frames") /\ "local" \notin elems(steps)
    BY Elems DEF Becomes
  <2>. QED
    BY <1>1, <1>2, <2>1, <2>2, StepsMildly DEF Kinds
<1>5. CASE OnClose("loop")
  <2>1. PICK steps \in {<<"local">>, <<"remote">>} :
            /\ At("loop", "onClose") /\ Then("loop", steps)
            /\ steps = <<"local">> => conn.local_close_requested
    BY <1>5 DEF OnClose
  <2>2. /\ steps \in Becomes("loop", "onClose")
        /\ "local" \in elems(steps) => conn.local_close_requested
    BY <2>1, Elems DEF Becomes
  <2>. QED
    BY <1>1, <1>2, <2>1, <2>2, StepsMildly DEF Kinds
<1>. QED
  BY <1>3, <1>4, <1>5

LEMMA SendHeadStory ==
    ASSUME Control, Control', Types, Story, SendHead
    PROVE  Story' /\ Kinds
<1>1. PICK part \in {"marker", "params"} :
          /\ At("loop", part)
          /\ \/ Then("loop", <<>>)
             \/ todo' = [todo EXCEPT !["loop"] = << "fireError", "socketClose", "events" >>]
  BY DEF SendHead
<1>2. Same
  BY DEF SendHead, Same, Types, Pasts
<1>3. todo \in [Threads -> Seq(QuicSteps)] /\ "loop" \in Threads /\ "app" \in Threads
  BY DEF Control, Todos, Threads
<1>4. CASE Then("loop", <<>>)
  <2>1. <<>> \in Becomes("loop", part) /\ "local" \notin elems(<<>>)
    BY Elems DEF Becomes
  <2>. QED
    BY <1>1, <1>2, <1>3, <1>4, <2>1, StepsMildly DEF Kinds
<1>5. CASE todo' = [todo EXCEPT !["loop"] = << "fireError", "socketClose", "events" >>]
  <2>1. todo'["app"] = todo["app"] /\ todo'["loop"] = << "fireError", "socketClose", "events" >>
    BY <1>3, <1>5
  <2>2. doing("app")' = doing("app") /\ doing("loop")' = {"fireError", "socketClose", "events"}
    BY <2>1, Elems DEF doing
  <2>. QED
    BY <1>2, <2>2, Mildly DEF Kinds, Meets
<1>. QED
  BY <1>1, <1>4, <1>5

LEMMA LoopEndsStory ==
    ASSUME Control, Control', Types, Flow, Story, LoopEnds
    PROVE  Story' /\ Kinds
<1>1. /\ At("loop", "events") /\ "loop" \in Threads /\ Then("loop", <<>>) /\ socket.over
      /\ conn' = conn /\ past' = past /\ ~socket'.up
  BY DEF LoopEnds, OnlySocket, Threads, Types, Sockets
<1>2. PICK steps \in Becomes("loop", "events") : Then("loop", steps) /\ steps = <<>>
  BY <1>1 DEF Becomes
<1>3. PICK T \in SUBSET After("events") :
          /\ doing("loop") = {"events"} \cup T /\ doing("loop")' = elems(steps) \cup T
          /\ \A u \in Threads : u # "loop" => doing(u)' = doing(u)
  BY <1>1, <1>2, Advance
<1>4. doing("loop") = {"events"} /\ doing("loop")' = {} /\ doing("app")' = doing("app")
  BY <1>2, <1>3, Elems DEF After, Threads
<1>5. socket.up /\ conn.close_called
  BY <1>1, <1>4 DEF Flow, Lives, Closes, Meets
<1>6. said' = said /\ endings' = endings
  BY <1>1, LogSame
<1>7. Story'
  BY <1>1, <1>4, <1>5, <1>6 DEF Story, Meets
<1>8. Up
  BY <1>5, UpIs DEF Upness
<1>9. endings # {}
  BY <1>5 DEF Story
<1>. QED
  BY <1>1, <1>7, <1>8, <1>9 DEF Kinds, Stutters, Falls

LEMMA StatusStory ==
    ASSUME Control, Types, Flow, Data, Story, Status
    PROVE  Story' /\ Kinds
<1>1. At("loop", "status") /\ "loop" \in Threads /\ socket' = socket
  BY DEF Status, Threads
<1>2. CASE conn' = conn /\ past' = past
  <2>1. PICK steps \in {<<>>, <<"fireError", "socketClose">>, <<"callback", "frames">>} :
            Then("loop", steps)
    BY DEF Status
  <2>2. steps \in Becomes("loop", "status") /\ "local" \notin elems(steps)
    BY Elems DEF Becomes
  <2>3. Same
    BY <1>1, <1>2 DEF Same
  <2>. QED
    BY <1>1, <2>1, <2>2, <2>3, StepsMildly DEF Kinds
<1>3. CASE /\ conn' = [conn EXCEPT !.open_notified = TRUE, !.state = "Open"]
           /\ Logged("open") /\ Then("loop", << "callback", "frames" >>)
  <2>1. PICK steps \in Becomes("loop", "status") :
            Then("loop", steps) /\ steps = <<"callback", "frames">>
    BY <1>3 DEF Becomes
  <2>2. PICK T \in SUBSET After("status") :
            /\ doing("loop") = {"status"} \cup T /\ doing("loop")' = elems(steps) \cup T
            /\ \A u \in Threads : u # "loop" => doing(u)' = doing(u)
            /\ Control'
    BY <1>1, <2>1, Advance
  <2>3. /\ "status" \in doing("loop") /\ "local" \notin doing("loop")'
        /\ doing("app")' = doing("app")
    BY <2>1, <2>2, Elems DEF After, Threads
  <2>4. ~conn.close_called /\ socket.up
    BY <2>3 DEF Flow, Lives, Closes
  <2>5. ~rx.status /\ ~conn.open_notified
    BY <2>3 DEF Data, Unopened, Fed, Tended
  <2>6. endings = {} /\ "open" \notin said
    BY <2>4, <2>5 DEF Story
  <2>7. /\ past'.log = Append(past.log, "open") /\ past'.joinable = past.joinable
        /\ conn'.open_notified /\ conn'.state = "Open" /\ conn'.close_called = conn.close_called
        /\ conn'.local_close_requested = conn.local_close_requested
    BY <1>3 DEF Logged, Types, Conns, Pasts
  <2>8. "open" \in Events /\ "open" \notin Terminal
    BY DEF Events, Terminal
  <2>9. said' = said \cup {"open"} /\ endings' = endings
    BY <2>7, <2>8, SaysSo
  <2>10. Story'
    BY <1>1, <2>3, <2>6, <2>7, <2>9 DEF Story, Meets
  <2>11. Up /\ Up'
    BY <1>1, <2>2, <2>4, UpIs, UpNext DEF Upness
  <2>12. Tells("open")
    BY <2>6, <2>7, <2>11 DEF Tells
  <2>. QED
    BY <2>8, <2>10, <2>12 DEF Kinds
<1>. QED
  BY <1>2, <1>3 DEF Status

LEMMA FireCloseStory ==
    ASSUME Control, Types, Flow, Story, FireClose
    PROVE  Story' /\ Kinds
<1>1. PICK how \in {"local", "remote"} :
          /\ At("loop", how) /\ socket' = socket
          /\ \/ /\ conn.close_called \/ conn.error_reported
                /\ Then("loop", <<>>) /\ past' = past
                /\ conn' = [conn EXCEPT !.close_called = TRUE]
             \/ /\ ~conn.close_called
                /\ conn' = [conn EXCEPT !.close_called = TRUE, !.state = "Closed",
                                        !.running = FALSE]
                /\ Logged(how) /\ Then("loop", <<"callback">>)
  BY DEF FireClose, OnlyConn
<1>2. "loop" \in Threads
  BY DEF Threads
<1>3. PICK steps \in Becomes("loop", how) : Then("loop", steps)
  BY <1>1 DEF Becomes
<1>4. PICK T \in SUBSET After(how) :
          /\ doing("loop") = {how} \cup T /\ doing("loop")' = elems(steps) \cup T
          /\ \A u \in Threads : u # "loop" => doing(u)' = doing(u)
          /\ Control'
  BY <1>1, <1>2, <1>3, Advance
<1>5. /\ how \in doing("loop") /\ doing("app")' = doing("app")
      /\ "local" \in doing("loop")' => "local" \in doing("loop")
  BY <1>3, <1>4, Elems DEF Becomes, Threads
<1>6. socket.up
  BY <1>5 DEF Flow, Lives
<1>7. /\ past'.joinable = past.joinable /\ conn'.close_called
      /\ conn'.open_notified = conn.open_notified
      /\ conn'.local_close_requested = conn.local_close_requested
      /\ \/ conn.close_called /\ past'.log = past.log
         \/ ~conn.close_called /\ past'.log = Append(past.log, how)
  <2>1. conn.error_reported => conn.close_called
    BY DEF Flow, Closes
  <2>. QED
    BY <1>1, <2>1 DEF Types, Conns, Pasts, Logged
<1>8. how \in Events /\ how \in Terminal
  BY DEF Events, Terminal
<1>9. /\ endings' # {}
      /\ "open" \in said' <=> "open" \in said
  <2>1. CASE conn.close_called /\ past'.log = past.log
    BY <2>1, LogSame DEF Story
  <2>2. CASE past'.log = Append(past.log, how)
    BY <1>8, <2>2, SaysSo
  <2>. QED
    BY <1>7, <2>1, <2>2
<1>10. Story'
  BY <1>1, <1>5, <1>7, <1>9 DEF Story, Meets
<1>11. Up /\ Up'
  BY <1>1, <1>4, <1>6, UpIs, UpNext DEF Upness
<1>12. CASE past'.log = past.log
  BY <1>7, <1>10, <1>11, <1>12 DEF Kinds, Stutters
<1>13. CASE ~conn.close_called /\ past'.log = Append(past.log, how)
  <2>1. endings = {}
    BY <1>13 DEF Story
  <2>2. how = "local" => "request" \in said
    BY <1>5, <1>6, <1>13 DEF Story
  <2>3. Tells(how)
    BY <1>7, <1>11, <1>13, <2>1, <2>2 DEF Tells
  <2>. QED
    BY <1>8, <1>10, <2>3 DEF Kinds
<1>. QED
  BY <1>7, <1>12, <1>13

LEMMA OpenStreamStory ==
    ASSUME Control, Types, Story, OpenStream
    PROVE  Story' /\ Kinds
<1>1. At("app", "openStream") /\ Same /\ "app" \in Threads
  BY DEF OpenStream, Same, OnlySocket, Types, Sockets, Threads
<1>2. PICK steps \in {<<>>, <<"fireError", "socketClose">>} : Then("app", steps)
  BY DEF OpenStream
<1>3. steps \in Becomes("app", "openStream") /\ "local" \notin elems(steps)
  BY Elems DEF Becomes
<1>. QED
  BY <1>1, <1>2, <1>3, StepsMildly DEF Kinds

LEMMA StoryNext ==
    Control /\ Control' /\ Types /\ Flow /\ Data /\ Story /\ [Next]_vars => Story' /\ Kinds
<1>. SUFFICES ASSUME Control, Control', Types, Flow, Data, Story, [Next]_vars
              PROVE  Story' /\ Kinds
  OBVIOUS
<1>1. CASE UNCHANGED vars
  <2>1. /\ Same /\ doing("app")' = doing("app") /\ doing("loop")' = doing("loop")
    BY <1>1 DEF vars, Same, doing
  <2>. QED
    BY <2>1, Mildly DEF Kinds, Meets
<1>2. ASSUME NEW t \in Threads, Step(t)
      PROVE  Story' /\ Kinds
  BY <1>2, StepStory
<1>3. CASE AppStep
  BY <1>2, <1>3, InitStory, ConnectStory, OpenStreamStory, OpenedStory, JoinStory, SettleStory
  DEF AppStep, Threads
<1>4. CASE LoopStep
  BY <1>2, <1>4, SendHeadStory, StatusStory, LoopMildly, FireCloseStory, LoopEndsStory
  DEF LoopStep, Threads
<1>5. CASE Open \/ CallSend \/ CloseAsync \/ Close
  BY <1>5, CallStory
<1>6. CASE StreamOpens \/ Recv \/ Fails \/ Ends
  BY <1>6, LoopMildly
<1>. QED
  BY <1>1, <1>3, <1>4, <1>5, <1>6 DEF Next
-------------------------------------------------------------------------------
(* The invariant.                                                            *)

\* The last event that says how the socket stands, and the first end.
LastMark == marks # {} => \E m \in marks : \A i \in marks : m >= i
FirstEnd == endings # {} => \E m \in endings : \A i \in endings : m <= i

LEMMA LogGrows ==
    ASSUME Kinds
    PROVE  \/ past'.log = past.log \/ past'.log = <<>>
           \/ \E e \in Events : past'.log = Append(past.log, e)
<1>1. ASSUME NEW e \in Events, Tells(e)
      PROVE  past'.log = Append(past.log, e)
  BY <1>1 DEF Tells
<1>2. "local" \in Events
  BY DEF Events, Terminal
<1>. QED
  BY <1>1, <1>2 DEF Kinds, Stutters, Falls, Joins, Settles, Begun

LEMMA FirstLast ==
    ASSUME Types, LastMark, FirstEnd, Kinds
    PROVE  LastMark' /\ FirstEnd'
<1>1. CASE past'.log = past.log
  BY <1>1, LogSame DEF LastMark, FirstEnd
<1>2. CASE past'.log = <<>>
  BY <1>2, LogEmpty DEF LastMark, FirstEnd
<1>3. ASSUME NEW e \in Events, past'.log = Append(past.log, e)
      PROVE  LastMark' /\ FirstEnd'
  <2> DEFINE n == Len(past.log) + 1
  <2>1. /\ n \in Nat
        /\ \A i \in endings \cup marks : i \in Nat /\ i < n
        /\ endings' = IF e \in Terminal THEN endings \cup {n} ELSE endings
        /\ marks' = IF e \in {"open", "request"} THEN marks \cup {n} ELSE marks
    BY <1>3, Says
  <2>. HIDE DEF n
  <2>2. LastMark'
    <3>1. CASE e \in {"open", "request"}
      <4>1. n \in marks' /\ \A i \in marks' : n >= i
        BY <2>1, <3>1
      <4>. QED
        BY <4>1 DEF LastMark
    <3>2. CASE e \notin {"open", "request"}
      BY <2>1, <3>2 DEF LastMark
    <3>. QED
      BY <3>1, <3>2
  <2>3. FirstEnd'
    <3>1. CASE e \in Terminal /\ endings = {}
      <4>1. endings' = {n}
        BY <2>1, <3>1
      <4>2. n <= n
        BY <2>1
      <4>. QED
        BY <4>1, <4>2 DEF FirstEnd
    <3>2. CASE e \in Terminal /\ endings # {}
      <4>1. PICK m \in endings : \A i \in endings : m <= i
        BY <3>2 DEF FirstEnd
      <4>2. m \in endings' /\ \A i \in endings' : m <= i
        BY <2>1, <3>2, <4>1
      <4>. QED
        BY <4>2 DEF FirstEnd
    <3>3. CASE e \notin Terminal
      BY <2>1, <3>3 DEF FirstEnd
    <3>. QED
      BY <3>1, <3>2, <3>3
  <2>. QED
    BY <2>2, <2>3
<1>. QED
  BY <1>1, <1>2, <1>3, LogGrows

\* What holds of a QuicSocket at all times.
Inv == Types /\ Control /\ Flow /\ Data /\ Story /\ LastMark /\ FirstEnd

LEMMA InitInv == Init => Inv
<1>. SUFFICES ASSUME Init PROVE Inv
  OBVIOUS
<1>1. Types /\ Control /\ Flow /\ Data
  BY TypesInit, FlowInit, DataBegins
<1>2. /\ conn.close_called = FALSE /\ conn.open_notified = FALSE
      /\ conn.local_close_requested = FALSE /\ past.log = <<>> /\ past.joinable = FALSE
      /\ socket.up = FALSE
  BY DEF Init, NoSocket
<1>3. doing("app") = {} /\ doing("loop") = {}
  BY Elems DEF Init, doing, Threads
<1>4. said = {} /\ endings = {} /\ marks = {}
  <2>1. DOMAIN past.log = {} /\ \A x : x \notin ToSet(past.log)
    BY <1>2 DEF ToSet
  <2>. QED
    BY <2>1 DEF said, endings, marks
<1>5. Story
  BY <1>2, <1>3, <1>4 DEF Story, Meets
<1>. QED
  BY <1>1, <1>4, <1>5 DEF Inv, LastMark, FirstEnd

LEMMA InvHolds == Spec => []Inv
<1>1. Init => Inv
  BY InitInv
<1>2. Inv /\ [Next]_vars => Inv'
  <2>1. SUFFICES ASSUME Inv, [Next]_vars PROVE Inv'
    OBVIOUS
  <2>2. Types' /\ Control' /\ Flow' /\ Data'
    BY <2>1, TypesNext, FlowNext, DataNext DEF Inv
  <2>3. Story' /\ Kinds
    BY <2>1, <2>2, StoryNext DEF Inv
  <2>. QED
    BY <2>1, <2>2, <2>3, FirstLast DEF Inv
<1>. QED
  BY <1>1, <1>2, PTL DEF Spec

-------------------------------------------------------------------------------
(* A QuicSocket is a Transport.                                              *)


\* The transport as IsTransport reads it.
sock == [state |-> shown, alive |-> Up, joinable |-> past.joinable, stop |-> "request" \in said,
         notified |-> "open" \in said, reported |-> endings # {}]
heard == IF endings # {} THEN past.log[Min(endings)]
         ELSE IF "open" \in said THEN "open" ELSE "none"

Sock(st, up, had, stop, notified, reported) ==
    [state |-> st, alive |-> up, joinable |-> had, stop |-> stop, notified |-> notified,
     reported |-> reported]
Yes == TRUE
No == FALSE
Reported(s) == [s EXCEPT !.reported = TRUE]

\* What becomes of it.
LEMMA SockSteps ==
    ASSUME NEW st, NEW up, NEW had, NEW stop, NEW notified, NEW reported
    PROVE  LET s == Sock(st, up, had, stop, notified, reported)
           IN  /\ s.state = st /\ s.alive = up /\ s.joinable = had /\ s.stop = stop
               /\ s.notified = notified /\ s.reported = reported
               /\ Seen!Ended(s) = Sock("Closed", No, had, stop, notified, reported)
               /\ Seen!Joined(s) = Sock("Closed", up, No, stop, notified, Yes)
               /\ st # "Closed" =>
                      Seen!CloseRequested(s) = Sock("Closing", up, had, Yes, notified, reported)
               /\ Seen!OpenedUp(s) = Sock("Open", up, had, stop, Yes, reported)
               /\ Reported(s) = Sock(st, up, had, stop, notified, Yes)
<1>1. PICK s : s = Sock(st, up, had, stop, notified, reported)
  OBVIOUS
<1>2. /\ s.state = st /\ s.alive = up /\ s.joinable = had /\ s.stop = stop
      /\ s.notified = notified /\ s.reported = reported
  BY <1>1 DEF Sock
<1>3. Seen!Ended(s) = Sock("Closed", No, had, stop, notified, reported)
  <2>1. PICK r : r = [s EXCEPT !.alive = No]
    OBVIOUS
  <2>2. r = Sock(st, No, had, stop, notified, reported)
    BY <1>1, <2>1 DEF Sock
  <2>3. Seen!Ended(s) = [r EXCEPT !.state = "Closed"]
    BY <2>1 DEF Seen!Ended, No
  <2>. QED
    BY <2>2, <2>3 DEF Sock
<1>4. Seen!Joined(s) = Sock("Closed", up, No, stop, notified, Yes)
  <2>1. PICK r : r = [s EXCEPT !.state = "Closed"]
    OBVIOUS
  <2>2. r = Sock("Closed", up, had, stop, notified, reported)
    BY <1>1, <2>1 DEF Sock
  <2>3. PICK q : q = [r EXCEPT !.joinable = No]
    OBVIOUS
  <2>4. q = Sock("Closed", up, No, stop, notified, reported)
    BY <2>2, <2>3 DEF Sock
  <2>5. Seen!Joined(s) = [q EXCEPT !.reported = Yes]
    BY <2>1, <2>3 DEF Seen!Joined, Yes, No
  <2>. QED
    BY <2>4, <2>5 DEF Sock
<1>5. ASSUME st # "Closed"
      PROVE  Seen!CloseRequested(s) = Sock("Closing", up, had, Yes, notified, reported)
  <2>1. PICK r : r = [s EXCEPT !.state = "Closing"]
    OBVIOUS
  <2>2. r = Sock("Closing", up, had, stop, notified, reported)
    BY <1>1, <2>1 DEF Sock
  <2>3. Seen!CloseRequested(s) = [r EXCEPT !.stop = Yes]
    BY <1>2, <1>5, <2>1 DEF Seen!CloseRequested, Yes
  <2>. QED
    BY <2>2, <2>3 DEF Sock
<1>6. Seen!OpenedUp(s) = Sock("Open", up, had, stop, Yes, reported)
  <2>1. PICK r : r = [s EXCEPT !.notified = Yes]
    OBVIOUS
  <2>2. r = Sock(st, up, had, stop, Yes, reported)
    BY <1>1, <2>1 DEF Sock
  <2>3. Seen!OpenedUp(s) = [r EXCEPT !.state = "Open"]
    BY <2>1 DEF Seen!OpenedUp, Yes
  <2>. QED
    BY <2>2, <2>3 DEF Sock
<1>7. Reported(s) = Sock(st, up, had, stop, notified, Yes)
  <2>1. PICK r : r = [s EXCEPT !.reported = Yes]
    OBVIOUS
  <2>2. r = Sock(st, up, had, stop, notified, Yes)
    BY <1>1, <2>1 DEF Sock
  <2>. QED
    BY <2>1, <2>2 DEF Reported, Yes
<1>. QED
  BY <1>1, <1>2, <1>3, <1>4, <1>5, <1>6, <1>7

\* The steps of Transport.
LEMMA SeenSteps ==
    /\ Seen!Init <=> sock = Seen!NeverOpened /\ heard = "none"
    /\ Seen!Open <=> ~sock.joinable /\ sock' = Seen!Opened /\ heard' = "none"
    /\ Seen!RequestClose <=> sock' = Seen!CloseRequested(sock) /\ heard' = heard
    /\ Seen!Opens <=> Seen!MayOpen(sock) /\ sock' = Seen!OpenedUp(sock) /\ heard' = "open"
    /\ \A how : Seen!Ends(how) <=> sock' = Reported(sock) /\ heard' = how
    /\ Seen!Fails <=> Seen!MayFail(sock) /\ Seen!Ends("error")
    /\ Seen!ClosedByPeer <=> Seen!MayBeClosed(sock) /\ Seen!Ends("remote")
    /\ Seen!Stops <=> Seen!MayStop(sock) /\ Seen!Ends("local")
    /\ Seen!ThreadEnds <=> Seen!MayEnd(sock) /\ sock' = Seen!Ended(sock) /\ heard' = heard
    /\ Seen!Join <=> /\ ~sock.alive /\ sock' = Seen!Joined(sock)
                     /\ heard' = IF sock.reported THEN heard ELSE "local"
<1>. USE DEF sock, heard
<1>1. Seen!Init <=> sock = Seen!NeverOpened /\ heard = "none"
  BY DEF Seen!Init
<1>2. Seen!Open <=> ~sock.joinable /\ sock' = Seen!Opened /\ heard' = "none"
  BY DEF Seen!Open
<1>3. Seen!RequestClose <=> sock' = Seen!CloseRequested(sock) /\ heard' = heard
  BY DEF Seen!RequestClose
<1>4. Seen!Opens <=> Seen!MayOpen(sock) /\ sock' = Seen!OpenedUp(sock) /\ heard' = "open"
  BY DEF Seen!Opens
<1>5. \A how : Seen!Ends(how) <=> sock' = Reported(sock) /\ heard' = how
  BY DEF Seen!Ends, Reported
<1>6. /\ Seen!Fails <=> Seen!MayFail(sock) /\ Seen!Ends("error")
      /\ Seen!ClosedByPeer <=> Seen!MayBeClosed(sock) /\ Seen!Ends("remote")
      /\ Seen!Stops <=> Seen!MayStop(sock) /\ Seen!Ends("local")
  BY DEF Seen!Fails, Seen!ClosedByPeer, Seen!Stops
<1>7. Seen!ThreadEnds <=> Seen!MayEnd(sock) /\ sock' = Seen!Ended(sock) /\ heard' = heard
  BY DEF Seen!ThreadEnds
<1>8. Seen!Join <=> /\ ~sock.alive /\ sock' = Seen!Joined(sock)
                    /\ heard' = IF sock.reported THEN heard ELSE "local"
  BY DEF Seen!Join
<1>. HIDE DEF sock, heard
<1>. QED
  BY <1>1, <1>2, <1>3, <1>4, <1>5, <1>6, <1>7, <1>8

\* An extreme of a set of numbers is the only one.
LEMMA Extremes ==
    /\ \A S \in SUBSET Nat : \A m \in S : (\A i \in S : m >= i) => Max(S) = m
    /\ \A S \in SUBSET Nat : \A m \in S : (\A i \in S : m <= i) => Min(S) = m
<1>1. ASSUME NEW S \in SUBSET Nat, NEW m \in S, \A i \in S : m >= i
      PROVE  Max(S) = m
  <2>1. Max(S) \in S /\ \A i \in S : Max(S) >= i
    BY <1>1 DEF Max
  <2>2. m \in Nat /\ Max(S) \in Nat /\ m >= Max(S) /\ Max(S) >= m
    BY <1>1, <2>1
  <2>. QED
    BY <2>2
<1>2. ASSUME NEW S \in SUBSET Nat, NEW m \in S, \A i \in S : m <= i
      PROVE  Min(S) = m
  <2>1. Min(S) \in S /\ \A i \in S : Min(S) <= i
    BY <1>2 DEF Min
  <2>2. m \in Nat /\ Min(S) \in Nat /\ m <= Min(S) /\ Min(S) <= m
    BY <1>2, <2>1
  <2>. QED
    BY <2>2
<1>. QED
  BY <1>1, <1>2

\* What an event changes of what is read off the log.
LEMMA Hears ==
    ASSUME Types, LastMark, FirstEnd, NEW e \in Events, past'.log = Append(past.log, e)
    PROVE  /\ said' = said \cup {e}
           /\ e \in {"open", "request"} => marks' # {} /\ past'.log[Max(marks')] = e
           /\ e \notin {"open", "request"} =>
                  /\ marks' = marks
                  /\ marks # {} => past'.log[Max(marks)] = past.log[Max(marks)]
           /\ endings # {} =>
                  endings' # {} /\ past'.log[Min(endings')] = past.log[Min(endings)]
           /\ endings = {} /\ e \in Terminal => endings' # {} /\ past'.log[Min(endings')] = e
           /\ endings = {} /\ e \notin Terminal => endings' = {}
<1> DEFINE n == Len(past.log) + 1
<1>1. /\ n \in Nat /\ past'.log[n] = e
      /\ \A i \in DOMAIN past.log : past'.log[i] = past.log[i]
      /\ \A i \in endings \cup marks : i \in DOMAIN past.log /\ i \in Nat /\ i < n
      /\ said' = said \cup {e}
      /\ endings' = IF e \in Terminal THEN endings \cup {n} ELSE endings
      /\ marks' = IF e \in {"open", "request"} THEN marks \cup {n} ELSE marks
  BY Says
<1>. HIDE DEF n
<1>2. ASSUME e \in {"open", "request"}
      PROVE  marks' # {} /\ past'.log[Max(marks')] = e
  <2>1. marks' \in SUBSET Nat /\ n \in marks' /\ \A i \in marks' : n >= i
    BY <1>1, <1>2
  <2>2. Max(marks') = n
    BY <2>1, Extremes
  <2>. QED
    BY <1>1, <2>1, <2>2
<1>3. ASSUME e \notin {"open", "request"}
      PROVE  marks' = marks /\ (marks # {} => past'.log[Max(marks)] = past.log[Max(marks)])
  <2>1. ASSUME marks # {}
        PROVE  past'.log[Max(marks)] = past.log[Max(marks)]
    <3>1. PICK m \in marks : \A i \in marks : m >= i
      BY <2>1 DEF LastMark
    <3>2. marks \in SUBSET Nat
      BY <1>1
    <3>3. Max(marks) = m
      BY <3>1, <3>2, Extremes
    <3>. QED
      BY <1>1, <3>3
  <2>. QED
    BY <1>1, <1>3, <2>1
<1>4. ASSUME endings # {}
      PROVE  endings' # {} /\ past'.log[Min(endings')] = past.log[Min(endings)]
  <2>1. PICK m \in endings : \A i \in endings : m <= i
    BY <1>4 DEF FirstEnd
  <2>2. endings \in SUBSET Nat /\ endings' \in SUBSET Nat
    BY <1>1
  <2>3. m \in endings' /\ \A i \in endings' : m <= i
    BY <1>1, <2>1
  <2>4. Min(endings) = m /\ Min(endings') = m
    BY <2>1, <2>2, <2>3, Extremes
  <2>. QED
    BY <1>1, <2>3, <2>4
<1>5. ASSUME endings = {}, e \in Terminal
      PROVE  endings' # {} /\ past'.log[Min(endings')] = e
  <2>1. endings' \in SUBSET Nat /\ n \in endings' /\ \A i \in endings' : n <= i
    BY <1>1, <1>5
  <2>2. Min(endings') = n
    BY <2>1, Extremes
  <2>. QED
    BY <1>1, <2>1, <2>2
<1>. QED
  BY <1>1, <1>2, <1>3, <1>4, <1>5

\* What is read off is true or false.
LEMMA Truths ==
    ASSUME Inv, Inv'
    PROVE  /\ Up => Up = Yes
           /\ ~Up => Up = No
           /\ Up' => Up' = Yes
           /\ ~Up' => Up' = No
           /\ past.joinable => past.joinable = Yes
           /\ ~past.joinable => past.joinable = No
           /\ past'.joinable => past'.joinable = Yes
           /\ ~past'.joinable => past'.joinable = No
           /\ endings # {} => (endings # {}) = Yes
           /\ endings = {} => (endings # {}) = No
           /\ endings' # {} => (endings' # {}) = Yes
           /\ endings' = {} => (endings' # {}) = No
           /\ \A e : e \in said => (e \in said) = Yes
           /\ \A e : e \notin said => (e \in said) = No
           /\ \A e : e \in said' => (e \in said') = Yes
           /\ \A e : e \notin said' => (e \in said') = No
           /\ \A e : (e \in said' <=> e \in said) => (e \in said') = (e \in said)
<1>1. Up \in BOOLEAN /\ Up' \in BOOLEAN
  BY DEF Up
<1>2. past.joinable \in BOOLEAN /\ past'.joinable \in BOOLEAN
  BY DEF Inv, Types, Pasts
<1>4. /\ past.joinable => past.joinable = TRUE
      /\ ~past.joinable => past.joinable = FALSE
      /\ past'.joinable => past'.joinable = TRUE
      /\ ~past'.joinable => past'.joinable = FALSE
  BY <1>2
<1>5. /\ endings # {} => (endings # {}) = TRUE
      /\ endings = {} => (endings # {}) = FALSE
      /\ endings' # {} => (endings' # {}) = TRUE
      /\ endings' = {} => (endings' # {}) = FALSE
  OBVIOUS
<1>6. /\ \A e : e \in said => (e \in said) = TRUE
      /\ \A e : e \notin said => (e \in said) = FALSE
      /\ \A e : e \in said' => (e \in said') = TRUE
      /\ \A e : e \notin said' => (e \in said') = FALSE
      /\ \A e : (e \in said' <=> e \in said) => (e \in said') = (e \in said)
  OBVIOUS
<1>8. /\ Up => Up = TRUE
      /\ ~Up => Up = FALSE
      /\ Up' => Up' = TRUE
      /\ ~Up' => Up' = FALSE
  BY <1>1
<1>. QED
  BY <1>4, <1>5, <1>6, <1>8 DEF Yes, No

LEMMA TransportInit == Init => Seen!Init
<1>. SUFFICES ASSUME Init PROVE Seen!Init
  OBVIOUS
<1>1. past.log = <<>> /\ past.joinable = FALSE /\ socket.up = FALSE /\ todo["app"] = <<>>
  BY DEF Init, NoSocket, Threads
<1>2. said = {} /\ endings = {}
  <2>1. DOMAIN past.log = {} /\ \A x : x \notin ToSet(past.log)
    BY <1>1 DEF ToSet
  <2>. QED
    BY <2>1 DEF said, endings
<1>3. Up = FALSE /\ past.joinable = FALSE /\ ("request" \in said) = FALSE
      /\ ("open" \in said) = FALSE /\ (endings # {}) = FALSE
  BY <1>1, <1>2 DEF Up
<1>4. shown = "Closed"
  BY <1>3 DEF shown
<1>5. sock = Seen!NeverOpened
  BY <1>3, <1>4 DEF sock, Seen!NeverOpened
<1>6. heard = "none"
  BY <1>2 DEF heard
<1>. QED
  BY <1>5, <1>6, SeenSteps

LEMMA TransportNext ==
    ASSUME Inv, Inv', [Next]_vars
    PROVE  Seen!Next \/ (sock' = sock /\ heard' = heard)
<1>0. Types /\ LastMark /\ FirstEnd /\ Kinds
  BY StoryNext DEF Inv
<1>a. PICK up : up = Up
  OBVIOUS
<1>b. PICK had : had = past.joinable
  OBVIOUS
<1>c. PICK stop : stop = ("request" \in said)
  OBVIOUS
<1>d. PICK notified : notified = ("open" \in said)
  OBVIOUS
<1>e. PICK reported : reported = (endings # {})
  OBVIOUS
<1>f. sock = Sock(shown, up, had, stop, notified, reported)
  BY <1>a, <1>b, <1>c, <1>d, <1>e DEF sock, Sock
<1>h. /\ sock.state = shown
      /\ sock.alive = up /\ sock.joinable = had /\ sock.stop = stop
      /\ sock.notified = notified /\ sock.reported = reported
  BY <1>f, SockSteps
<1>g. ASSUME NEW st, NEW u, NEW h, NEW s, NEW n, NEW r,
             shown' = st, Up' = u, past'.joinable = h, ("request" \in said') = s,
             ("open" \in said') = n, (endings' # {}) = r
      PROVE  sock' = Sock(st, u, h, s, n, r)
  BY <1>g DEF sock, Sock
<1>1. ASSUME past'.log = past.log
      PROVE  said' = said /\ endings' = endings /\ marks' = marks /\ heard' = heard
  BY <1>1, LogSame DEF heard
<1>2. CASE Stutters
  <2>1. shown' = shown
    BY <1>1, <1>2 DEF Stutters, shown
  <2>2. Up' = Up /\ past'.joinable = past.joinable
    BY <1>2, Truths DEF Stutters
  <2>. QED
    BY <1>1, <1>2, <2>1, <2>2 DEF sock, Stutters
<1>3. CASE Falls
  <2>1. shown' = "Closed" /\ Up' = No /\ up = Yes /\ reported = Yes /\ past'.joinable = had
    BY <1>3, <1>a, <1>b, <1>e, Truths DEF Falls, shown
  <2>2. ("request" \in said') = stop /\ ("open" \in said') = notified
        /\ (endings' # {}) = reported
    BY <1>1, <1>3, <1>c, <1>d, <1>e DEF Falls
  <2>3. sock' = Sock("Closed", No, had, stop, notified, reported)
    BY <1>g, <2>1, <2>2
  <2>4. sock' = Seen!Ended(sock)
    BY <1>f, <2>3, SockSteps
  <2>5. Seen!MayEnd(sock)
    BY <1>h, <2>1 DEF Seen!MayEnd, Yes
  <2>. QED
    BY <1>1, <1>3, <2>4, <2>5, SeenSteps DEF Falls, Seen!Next
<1>4. CASE Joins
  <2>1. shown' = "Closed" /\ Up' = No /\ up = No /\ reported = Yes /\ past'.joinable = No
    BY <1>4, <1>a, <1>e, Truths DEF Joins, shown
  <2>2. ("request" \in said') = stop /\ ("open" \in said') = notified
        /\ (endings' # {}) = Yes
    BY <1>1, <1>4, <1>c, <1>d, <1>e, <2>1 DEF Joins
  <2>3. sock' = Sock("Closed", up, No, stop, notified, Yes)
    BY <1>g, <2>1, <2>2
  <2>4. sock' = Seen!Joined(sock)
    BY <1>f, <2>3, SockSteps
  <2>5. ~sock.alive /\ sock.reported
    BY <1>h, <2>1 DEF Yes, No
  <2>. QED
    BY <1>1, <1>4, <2>4, <2>5, SeenSteps DEF Joins, Seen!Next
<1>5. CASE Settles
  <2>1. /\ shown' = "Closed" /\ Up' = No /\ up = No /\ reported = No /\ past'.joinable = No
        /\ past'.log = Append(past.log, "local") /\ "local" \in Events /\ "local" \in Terminal
    BY <1>5, <1>a, <1>e, Truths DEF Settles, Events, Terminal, shown
  <2>2. /\ said' = said \cup {"local"} /\ endings' # {} /\ past'.log[Min(endings')] = "local"
    BY <1>0, <1>5, <2>1, Hears DEF Settles
  <2>3. ("request" \in said' <=> "request" \in said) /\ ("open" \in said' <=> "open" \in said)
    BY <2>2
  <2>4. ("request" \in said') = stop /\ ("open" \in said') = notified /\ (endings' # {}) = Yes
    BY <1>c, <1>d, <2>2, <2>3, Truths
  <2>5. sock' = Sock("Closed", up, No, stop, notified, Yes)
    BY <1>g, <2>1, <2>4
  <2>6. sock' = Seen!Joined(sock)
    BY <1>f, <2>5, SockSteps
  <2>7. heard' = "local"
    BY <2>2 DEF heard
  <2>8. ~sock.alive /\ ~sock.reported
    BY <1>h, <2>1 DEF No
  <2>. QED
    BY <2>6, <2>7, <2>8, SeenSteps DEF Seen!Next
<1>6. CASE Begun
  <2>1. /\ Up' = Yes /\ had = No /\ past'.joinable = Yes
        /\ said' = {} /\ endings' = {} /\ marks' = {}
    BY <1>6, <1>b, Truths, LogEmpty DEF Begun
  <2>2. shown' = "Connecting"
    BY <1>6, <2>1 DEF Begun, shown
  <2>3. ("request" \in said') = No /\ ("open" \in said') = No /\ (endings' # {}) = No
    BY <2>1 DEF No
  <2>4. sock' = Sock("Connecting", Yes, Yes, No, No, No)
    BY <1>g, <2>1, <2>2, <2>3
  <2>5. sock' = Seen!Opened
    BY <2>4 DEF Seen!Opened, Sock, Yes, No
  <2>6. ~sock.joinable
    BY <1>h, <2>1 DEF No
  <2>7. heard' = "none"
    BY <2>1 DEF heard
  <2>. QED
    BY <2>5, <2>6, <2>7, SeenSteps DEF Seen!Next
<1>7. ASSUME NEW e \in Events, Tells(e)
      PROVE  Seen!Next \/ (sock' = sock /\ heard' = heard)
  <2>1. /\ Up /\ Up' /\ up = Yes /\ Up' = Yes /\ past'.joinable = had
        /\ past'.log = Append(past.log, e)
    BY <1>7, <1>a, <1>b, Truths DEF Tells
  <2>2. /\ said' = said \cup {e}
        /\ e \in {"open", "request"} => marks' # {} /\ past'.log[Max(marks')] = e
        /\ e \notin {"open", "request"} =>
               /\ marks' = marks
               /\ marks # {} => past'.log[Max(marks)] = past.log[Max(marks)]
        /\ endings # {} =>
               endings' # {} /\ past'.log[Min(endings')] = past.log[Min(endings)]
        /\ endings = {} /\ e \in Terminal => endings' # {} /\ past'.log[Min(endings')] = e
        /\ endings = {} /\ e \notin Terminal => endings' = {}
    BY <1>0, <2>1, Hears
  <2>3. e \notin {"open", "request"} => shown' = shown
    BY <2>1, <2>2 DEF shown
  <2>4. /\ e # "request" => ("request" \in said' <=> "request" \in said)
        /\ e # "open" => ("open" \in said' <=> "open" \in said)
        /\ e \in said'
    BY <2>2
  <2>5. /\ e # "request" => ("request" \in said') = stop
        /\ e # "open" => ("open" \in said') = notified
        /\ (e \in said') = Yes
    BY <1>c, <1>d, <2>4, Truths
  <2>6. CASE e = "request"
    <3>1. shown # "Closed" /\ shown' = "Closing" /\ "request" \notin Terminal
      BY <2>1, <2>2, <2>6 DEF shown, Terminal
    <3>2. (endings' # {}) <=> (endings # {})
      BY <2>2, <2>6, <3>1
    <3>3. (endings' # {}) = reported
      BY <1>e, <3>2
    <3>4. heard' = heard
      BY <2>2, <2>4, <2>6, <3>1, <3>2 DEF heard
    <3>5. ("request" \in said') = Yes /\ ("open" \in said') = notified
      BY <2>5, <2>6
    <3>6. sock' = Sock("Closing", up, had, Yes, notified, reported)
      BY <1>g, <2>1, <3>1, <3>3, <3>5
    <3>7. sock' = Seen!CloseRequested(sock)
      BY <1>f, <3>1, <3>6, SockSteps
    <3>. QED
      BY <3>4, <3>7, SeenSteps DEF Seen!Next
  <2>7. CASE e = "open"
    <3>1. reported = No /\ notified = No /\ endings = {} /\ "open" \notin Terminal
      BY <1>7, <1>d, <1>e, <2>7, Truths DEF Tells, Terminal
    <3>2. shown' = "Open" /\ endings' = {} /\ (endings' # {}) = No
      BY <2>1, <2>2, <2>7, <3>1, Truths DEF shown
    <3>3. ("request" \in said') = stop /\ ("open" \in said') = Yes
      BY <2>5, <2>7
    <3>4. sock' = Sock("Open", up, had, stop, Yes, reported)
      BY <1>g, <2>1, <3>1, <3>2, <3>3
    <3>5. sock' = Seen!OpenedUp(sock)
      BY <1>f, <3>4, SockSteps
    <3>8. shown # "Closed"
      BY <2>1 DEF shown
    <3>7. Seen!MayOpen(sock)
      BY <1>h, <2>1, <3>1, <3>8 DEF Seen!MayOpen, Yes, No
    <3>6. heard' = "open"
      BY <2>4, <2>7, <3>2 DEF heard
    <3>. QED
      BY <3>5, <3>6, <3>7, SeenSteps DEF Seen!Next
  <2>8. CASE e \in Terminal /\ endings # {}
    <3>1. e \notin {"open", "request"} /\ reported = Yes
      BY <1>e, <2>8, Truths DEF Terminal
    <3>2. heard' = heard /\ (endings' # {}) = Yes
      BY <2>2, <2>8, Truths DEF heard
    <3>3. ("request" \in said') = stop /\ ("open" \in said') = notified
      BY <2>5, <3>1
    <3>4. sock' = Sock(shown, up, had, stop, notified, reported)
      BY <1>g, <2>1, <2>3, <3>1, <3>2, <3>3
    <3>. QED
      BY <1>f, <3>2, <3>4
  <2>9. CASE e \in Terminal /\ endings = {}
    <3>1. e \notin {"open", "request"} /\ reported = No
      BY <1>e, <2>9, Truths DEF Terminal
    <3>2. endings' # {} /\ heard' = e /\ (endings' # {}) = Yes
      BY <2>2, <2>9, Truths DEF heard
    <3>3. ("request" \in said') = stop /\ ("open" \in said') = notified
      BY <2>5, <3>1
    <3>4. sock' = Sock(shown, up, had, stop, notified, Yes)
      BY <1>g, <2>1, <2>3, <3>1, <3>2, <3>3
    <3>5. sock' = Reported(sock)
      BY <1>f, <3>4, SockSteps
    <3>6. e = "local" => stop = Yes
      BY <1>7, <1>c, Truths DEF Tells
    <3>7. /\ Seen!MayFail(sock) /\ Seen!MayBeClosed(sock)
          /\ e = "local" => Seen!MayStop(sock)
      <4>1. sock.alive = Yes /\ sock.reported = No /\ sock.stop = stop
        BY <1>h, <2>1, <3>1
      <4>. QED
        BY <3>6, <4>1 DEF Seen!MayFail, Seen!MayBeClosed, Seen!MayStop, Yes, No
    <3>8. Seen!Ends(e)
      BY <3>2, <3>5, SeenSteps
    <3>9. Seen!Fails \/ Seen!ClosedByPeer \/ Seen!Stops
      BY <2>9, <3>7, <3>8, SeenSteps DEF Terminal
    <3>. QED
      BY <3>9 DEF Seen!Next
  <2>. QED
    BY <2>6, <2>7, <2>8, <2>9 DEF Events
<1>. QED
  BY <1>0, <1>2, <1>3, <1>4, <1>5, <1>6, <1>7 DEF Kinds

\* A QuicSocket is the transport SignalLink reckons with: each of its steps opens it,
\* asks for a close, opens, ends or joins it as Transport has it, or changes nothing a
\* Signal sees (IsTransport).
THEOREM TransportCorrect == Spec => IsTransport
<1>1. Inv /\ Inv' /\ [Next]_vars => [Seen!Next]_<<sock, heard>>
  BY TransportNext
<1>. QED
  BY <1>1, InvHolds, TransportInit, PTL DEF Spec, IsTransport, Seen!Spec, sock, heard
===============================================================================
