---------------------------- MODULE LogFilesProofs -----------------------------
(***************************************************************************)
(* Where lines are and what the server gets of them, for any number of     *)
(* threads, lines, logs and uploads.                                       *)
(*                                                                         *)
(* Lines: what the boxes hold is a function from boxes to sequences; a     *)
(* step moves what one box holds to another one, renames boxes or drops    *)
(* what one holds, and each of these keeps every line where it is, once.   *)
(* The boxes hold the lines that are in no file, not lost and not          *)
(* uploaded; the files, the lost and the uploaded ones are disjoint.       *)
(* Files: a claim is a file still to be read or an upload; all claims are  *)
(* in uploadingPaths and no two are of one file.  What is on its way is    *)
(* still in its file, or lost, so nobody else can read it.                 *)
(***************************************************************************)
EXTENDS LogFilesProperties, SequenceLemmas

-------------------------------------------------------------------------------
(* Boxes.                                                                    *)

\* L holds every number of S, and no other, at one place.
Once(L, S) ==
    /\ \A b \in DOMAIN L : L[b] \in Seq(Nat)
    /\ \A a, b \in DOMAIN L : \A i \in DOMAIN L[a], j \in DOMAIN L[b] :
           L[a][i] = L[b][j] => a = b /\ i = j
    /\ \A n : n \in S <=> \E b \in DOMAIN L : \E i \in DOMAIN L[b] : L[b][i] = n

\* What is in a box goes to the end of another one.
LEMMA Moved ==
    ASSUME NEW L, NEW S, Once(L, S), NEW a \in DOMAIN L, NEW c \in DOMAIN L, a # c,
           NEW M, DOMAIN M = DOMAIN L, M[c] = L[c] \o L[a], M[a] = <<>>,
           \A b \in DOMAIN L : b # a /\ b # c => M[b] = L[b]
    PROVE  Once(M, S)
<1>1. L[a] \in Seq(Nat) /\ L[c] \in Seq(Nat)
  BY DEF Once
<1>2. /\ M[c] \in Seq(Nat)
      /\ DOMAIN M[c] = 1..(Len(L[c]) + Len(L[a]))
      /\ DOMAIN L[c] = 1..Len(L[c]) /\ DOMAIN L[a] = 1..Len(L[a])
      /\ Len(L[c]) \in Nat /\ Len(L[a]) \in Nat
      /\ \A i \in DOMAIN L[c] : M[c][i] = L[c][i]
      /\ \A i \in DOMAIN M[c] : i \notin DOMAIN L[c] =>
             i - Len(L[c]) \in DOMAIN L[a] /\ M[c][i] = L[a][i - Len(L[c])]
  <2>1. /\ M[c] \in Seq(Nat) /\ Len(M[c]) = Len(L[c]) + Len(L[a])
        /\ \A i \in 1..(Len(L[c]) + Len(L[a])) :
               M[c][i] = IF i <= Len(L[c]) THEN L[c][i] ELSE L[a][i - Len(L[c])]
    BY <1>1, ConcatProperties
  <2>2. /\ DOMAIN M[c] = 1..(Len(L[c]) + Len(L[a]))
        /\ DOMAIN L[c] = 1..Len(L[c]) /\ DOMAIN L[a] = 1..Len(L[a])
        /\ Len(L[c]) \in Nat /\ Len(L[a]) \in Nat
    BY <1>1, <2>1, LenProperties
  <2>. QED
    BY <2>1, <2>2
<1>3. DOMAIN M[a] = {} /\ M[a] \in Seq(Nat)
  OBVIOUS
<1>4. ASSUME NEW b \in DOMAIN M PROVE M[b] \in Seq(Nat)
  <2>1. CASE b # a /\ b # c
    <3>1. L[b] \in Seq(Nat)
      BY DEF Once
    <3>. QED
      BY <2>1, <3>1
  <2>. QED
    BY <1>2, <1>3, <2>1
\* Where a place of M was in L.
<1> DEFINE box(b, i) == IF b = c /\ i \notin DOMAIN L[c] THEN a ELSE b
           pos(b, i) == IF b = c /\ i \notin DOMAIN L[c] THEN i - Len(L[c]) ELSE i
<1>5. \A b \in DOMAIN M : \A i \in DOMAIN M[b] :
          /\ box(b, i) \in DOMAIN L /\ pos(b, i) \in DOMAIN L[box(b, i)]
          /\ M[b][i] = L[box(b, i)][pos(b, i)]
  BY <1>2, <1>3
<1>6. \A b, d \in DOMAIN M : \A i \in DOMAIN M[b], j \in DOMAIN M[d] :
          box(b, i) = box(d, j) /\ pos(b, i) = pos(d, j) => b = d /\ i = j
  BY <1>2, <1>3
<1>7. \A b \in DOMAIN L : \A i \in DOMAIN L[b] :
          \E d \in DOMAIN M : \E j \in DOMAIN M[d] : M[d][j] = L[b][i]
  <2>. TAKE b \in DOMAIN L
  <2>. TAKE i \in DOMAIN L[b]
  <2>1. CASE b = a
    <3>1. i + Len(L[c]) \in DOMAIN M[c] /\ i + Len(L[c]) \notin DOMAIN L[c]
      BY <1>2, <2>1
    <3>2. M[c][i + Len(L[c])] = L[a][i]
      BY <1>2, <2>1, <3>1
    <3>. QED
      BY <2>1, <3>1, <3>2
  <2>2. CASE b = c
    <3>1. i \in DOMAIN M[c] /\ M[c][i] = L[b][i]
      BY <1>2, <2>2
    <3>. QED
      BY <2>2, <3>1
  <2>3. CASE b # a /\ b # c
    BY <2>3
  <2>. QED
    BY <2>1, <2>2, <2>3
<1>. HIDE DEF box, pos
<1>8. \A b, d \in DOMAIN M : \A i \in DOMAIN M[b], j \in DOMAIN M[d] :
          M[b][i] = M[d][j] => b = d /\ i = j
  <2>. SUFFICES ASSUME NEW b \in DOMAIN M, NEW d \in DOMAIN M, NEW i \in DOMAIN M[b],
                       NEW j \in DOMAIN M[d], M[b][i] = M[d][j]
                PROVE  b = d /\ i = j
    OBVIOUS
  <2>1. L[box(b, i)][pos(b, i)] = L[box(d, j)][pos(d, j)]
    BY <1>5
  <2>2. box(b, i) = box(d, j) /\ pos(b, i) = pos(d, j)
    BY <1>5, <2>1 DEF Once
  <2>. QED
    BY <1>6, <2>2
<1>9. \A n : n \in S <=> \E b \in DOMAIN M : \E i \in DOMAIN M[b] : M[b][i] = n
  BY <1>5, <1>7 DEF Once
<1>. QED
  BY <1>4, <1>8, <1>9 DEF Once

\* Boxes get other names, and empty ones vanish or appear.
LEMMA Renamed ==
    ASSUME NEW L, NEW S, Once(L, S), NEW M, NEW h,
           \A b \in DOMAIN M : \/ h[b] \in DOMAIN L /\ M[b] = L[h[b]]
                               \/ M[b] = <<>>,
           \A a, b \in DOMAIN M : h[a] = h[b] => a = b \/ M[a] = <<>> \/ M[b] = <<>>,
           \A a \in DOMAIN L : L[a] = <<>> \/ \E b \in DOMAIN M : M[b] = L[a]
    PROVE  Once(M, S)
<1>1. ASSUME NEW b \in DOMAIN M PROVE M[b] \in Seq(Nat)
  <2>1. CASE h[b] \in DOMAIN L /\ M[b] = L[h[b]]
    BY <2>1 DEF Once
  <2>2. CASE M[b] = <<>>
    BY <2>2
  <2>. QED
    BY <2>1, <2>2
<1>2. \A b, d \in DOMAIN M : \A i \in DOMAIN M[b], j \in DOMAIN M[d] :
          M[b][i] = M[d][j] => b = d /\ i = j
  <2>. SUFFICES ASSUME NEW b \in DOMAIN M, NEW d \in DOMAIN M, NEW i \in DOMAIN M[b],
                       NEW j \in DOMAIN M[d], M[b][i] = M[d][j]
                PROVE  b = d /\ i = j
    OBVIOUS
  <2>1. M[b] # <<>> /\ M[d] # <<>>
    OBVIOUS
  <2>2. h[b] = h[d] /\ i = j
    BY <2>1 DEF Once
  <2>. QED
    BY <2>1, <2>2
<1>3. \A n : n \in S <=> \E b \in DOMAIN M : \E i \in DOMAIN M[b] : M[b][i] = n
  <2>1. ASSUME NEW n \in S
        PROVE  \E b \in DOMAIN M : \E i \in DOMAIN M[b] : M[b][i] = n
    <3>1. PICK a \in DOMAIN L : \E i \in DOMAIN L[a] : L[a][i] = n
      BY DEF Once
    <3>. QED
      BY <3>1
  <2>2. ASSUME NEW n, NEW b \in DOMAIN M, NEW i \in DOMAIN M[b], M[b][i] = n
        PROVE  n \in S
    <3>1. M[b] # <<>>
      OBVIOUS
    <3>. QED
      BY <2>2, <3>1 DEF Once
  <2>. QED
    BY <2>1, <2>2
<1>. QED
  BY <1>1, <1>2, <1>3 DEF Once

\* What is in a box is gone.
LEMMA Emptied ==
    ASSUME NEW L, NEW S, Once(L, S), NEW a \in DOMAIN L,
           NEW M, DOMAIN M = DOMAIN L, M[a] = <<>>,
           \A b \in DOMAIN L : b # a => M[b] = L[b]
    PROVE  Once(M, S \ ToSet(L[a]))
<1>1. DOMAIN M[a] = {} /\ M[a] \in Seq(Nat)
  OBVIOUS
<1>2. \A b \in DOMAIN M : M[b] \in Seq(Nat)
  <2>. TAKE b \in DOMAIN M
  <2>1. L[b] \in Seq(Nat)
    BY DEF Once
  <2>. QED
    BY <1>1, <2>1
<1>3. \A b, d \in DOMAIN M : \A i \in DOMAIN M[b], j \in DOMAIN M[d] :
          M[b][i] = M[d][j] => b = d /\ i = j
  <2>. SUFFICES ASSUME NEW b \in DOMAIN M, NEW d \in DOMAIN M, NEW i \in DOMAIN M[b],
                       NEW j \in DOMAIN M[d], M[b][i] = M[d][j]
                PROVE  b = d /\ i = j
    OBVIOUS
  <2>1. b # a /\ d # a
    BY <1>1
  <2>. QED
    BY <2>1 DEF Once
<1>4. ASSUME NEW n
      PROVE  n \in S \ ToSet(L[a]) <=> \E b \in DOMAIN M : \E i \in DOMAIN M[b] : M[b][i] = n
  <2>1. n \in ToSet(L[a]) <=> \E i \in DOMAIN L[a] : L[a][i] = n
    BY DEF ToSet
  <2>2. ASSUME n \in S, n \notin ToSet(L[a])
        PROVE  \E b \in DOMAIN M : \E i \in DOMAIN M[b] : M[b][i] = n
    <3>1. PICK b \in DOMAIN L : \E i \in DOMAIN L[b] : L[b][i] = n
      BY <2>2 DEF Once
    <3>2. b # a
      BY <2>1, <2>2, <3>1
    <3>. QED
      BY <3>1, <3>2
  <2>3. ASSUME NEW b \in DOMAIN M, NEW i \in DOMAIN M[b], M[b][i] = n
        PROVE  n \in S /\ n \notin ToSet(L[a])
    <3>1. b # a
      BY <1>1
    <3>2. i \in DOMAIN L[b] /\ L[b][i] = n
      BY <2>3, <3>1
    <3>3. \A k \in DOMAIN L[a] : L[a][k] # n
      BY <3>1, <3>2 DEF Once
    <3>. QED
      BY <2>1, <3>2, <3>3 DEF Once
  <2>. QED
    BY <2>2, <2>3
<1>. QED
  BY <1>2, <1>3, <1>4 DEF Once

\* A new line.
LEMMA Added ==
    ASSUME NEW L, NEW S, Once(L, S), NEW a \in DOMAIN L, L[a] = <<>>,
           NEW n \in Nat, n \notin S,
           NEW M, DOMAIN M = DOMAIN L, M[a] = <<n>>,
           \A b \in DOMAIN L : b # a => M[b] = L[b]
    PROVE  Once(M, S \cup {n})
<1>1. DOMAIN M[a] = {1} /\ M[a][1] = n /\ M[a] \in Seq(Nat) /\ DOMAIN L[a] = {}
  OBVIOUS
<1>2. \A b \in DOMAIN M : M[b] \in Seq(Nat)
  <2>. TAKE b \in DOMAIN M
  <2>1. L[b] \in Seq(Nat)
    BY DEF Once
  <2>. QED
    BY <1>1, <2>1
<1>3. \A b \in DOMAIN L : \A i \in DOMAIN L[b] :
          b # a /\ b \in DOMAIN M /\ i \in DOMAIN M[b] /\ M[b][i] = L[b][i] /\ L[b][i] # n
  <2>. TAKE b \in DOMAIN L
  <2>. TAKE i \in DOMAIN L[b]
  <2>1. b # a
    BY <1>1
  <2>2. L[b][i] \in S
    BY DEF Once
  <2>. QED
    BY <2>1, <2>2
<1>4. \A b \in DOMAIN M : \A i \in DOMAIN M[b] :
          \/ b = a /\ i = 1 /\ M[b][i] = n
          \/ b # a /\ i \in DOMAIN L[b] /\ M[b][i] = L[b][i]
  <2>. TAKE b \in DOMAIN M
  <2>. TAKE i \in DOMAIN M[b]
  <2>1. CASE b = a
    BY <1>1, <2>1
  <2>2. CASE b # a
    BY <2>2
  <2>. QED
    BY <2>1, <2>2
<1>5. \A b, d \in DOMAIN M : \A i \in DOMAIN M[b], j \in DOMAIN M[d] :
          M[b][i] = M[d][j] => b = d /\ i = j
  BY <1>3, <1>4 DEF Once
<1>6. \A k : k \in S \cup {n} <=> \E b \in DOMAIN M : \E i \in DOMAIN M[b] : M[b][i] = k
  BY <1>1, <1>3, <1>4 DEF Once
<1>. QED
  BY <1>2, <1>5, <1>6 DEF Once

-------------------------------------------------------------------------------
(* Types.                                                                    *)

\* The steps there may be when there are n files.
Steps(n) ==
    ({"enqueue", "pend"} \X Seq(Nat))
    \cup ({"write"} \X [message : Seq(Nat), f : 0..n])
    \cup ({"swap"} \X (1..n))
    \cup {<<"date">>, <<"pop">>, <<"stop">>}
    \cup ({"files"} \X Nat)
    \cup ({"claim"} \X [call : Nat, files : SUBSET (1..n)])
    \cup ({"read"} \X [call : Nat, file : 1..n])
LogFile == [name : Nat, lines : SUBSET Nat, open : BOOLEAN, exists : BOOLEAN]
Uploads(n) ==
    [call : Nat, file : 1..n, payload : SUBSET Nat,
     at : {"sent", "failed", "last", "done", "taken", "unseen"}]
Pasts(n) == [lines : Nat, lost : SUBSET Nat, accepted : SUBSET Uploads(n)]
Calls == [total : Nat, pending : Int, reports : Int]

Typed ==
    /\ todo \in [Threads -> Seq(Steps(Len(disk)))]
    /\ file \in 0..Len(disk)
    /\ queue \in Seq(Seq(Nat)) /\ pending \in Seq(Nat)
    /\ disk \in Seq(LogFile) /\ \A f \in DOMAIN disk : disk[f].name \in 1..Len(disk)
    /\ uploads \in SUBSET Uploads(Len(disk))
    /\ calls \in Seq(Calls)
    /\ past \in Pasts(Len(disk))

\* Only the first step of a thread has lines, a file to log to or files to claim.
Later == {"date", "stop", "files", "pop", "read"}
Shape == \A t \in Threads : \A i \in DOMAIN todo[t] : i # 1 => todo[t][i][1] \in Later

LEMMA MoreSteps ==
    ASSUME NEW n \in Nat
    PROVE  /\ Steps(n) \subseteq Steps(n + 1) /\ Uploads(n) \subseteq Uploads(n + 1)
           /\ Pasts(n) \subseteq Pasts(n + 1)
<1>1. 0..n \subseteq 0..(n + 1) /\ 1..n \subseteq 1..(n + 1)
  OBVIOUS
<1>2. /\ [message : Seq(Nat), f : 0..n] \subseteq [message : Seq(Nat), f : 0..(n + 1)]
      /\ [call : Nat, files : SUBSET (1..n)] \subseteq [call : Nat, files : SUBSET (1..(n + 1))]
      /\ [call : Nat, file : 1..n] \subseteq [call : Nat, file : 1..(n + 1)]
  BY <1>1
<1>3. Steps(n) \subseteq Steps(n + 1)
  BY <1>1, <1>2 DEF Steps
<1>4. Uploads(n) \subseteq Uploads(n + 1)
  BY <1>1 DEF Uploads
<1>5. Pasts(n) \subseteq Pasts(n + 1)
  BY <1>4 DEF Pasts
<1>. QED
  BY <1>3, <1>4, <1>5

-------------------------------------------------------------------------------
(* A thread's steps.                                                         *)

linesOf(step) ==
    CASE step[1] \in {"enqueue", "pend"} -> step[2]
      [] step[1] = "write" -> step[2].message
      [] OTHER -> <<>>

LEMMA Hand ==
    ASSUME NEW t
    PROVE  inHand(t) = IF todo[t] = <<>> THEN <<>> ELSE linesOf(Head(todo[t]))
BY DEF inHand, linesOf, At, arg

\* The files that were to be read and still are.
ReadsKept ==
    \E d \in [Threads -> Int] : \A t \in Threads : \A i \in DOMAIN todo'[t] :
        todo'[t][i][1] = "read" =>
            i + d[t] \in DOMAIN todo[t] /\ todo[t][i + d[t]] = todo'[t][i]

\* Some steps in place of the first one.
LEMMA ThenSteps ==
    ASSUME NEW S, todo \in [Threads -> Seq(S)], Shape,
           NEW t \in Threads, todo[t] # <<>>, NEW steps \in Seq(S), Then(t, steps),
           \A i \in DOMAIN steps : i # 1 => steps[i][1] \in Later
    PROVE  /\ todo' \in [Threads -> Seq(S)] /\ Shape'
           /\ \A u \in Threads : u # t => todo'[u] = todo[u]
           /\ inHand(t)' = IF steps = <<>> THEN <<>> ELSE linesOf(steps[1])
           /\ \A u \in Threads : u # t => inHand(u)' = inHand(u)
           /\ \A i \in DOMAIN todo'[t] :
                  \/ i \in DOMAIN steps /\ todo'[t][i] = steps[i]
                  \/ /\ i \notin DOMAIN steps
                     /\ i - Len(steps) + 1 \in DOMAIN todo[t] /\ i - Len(steps) + 1 # 1
                     /\ todo'[t][i] = todo[t][i - Len(steps) + 1]
           /\ (\A i \in DOMAIN steps : steps[i][1] # "read") => ReadsKept
<1> DEFINE new == steps \o Tail(todo[t])
<1>1. /\ todo' = [todo EXCEPT ![t] = new] /\ todo[t] \in Seq(S)
      /\ Tail(todo[t]) \in Seq(S) /\ Len(Tail(todo[t])) = Len(todo[t]) - 1
      /\ \A i \in 1..Len(Tail(todo[t])) : Tail(todo[t])[i] = todo[t][i + 1]
  BY HeadTailProperties DEF Then
<1>2. /\ new \in Seq(S) /\ Len(new) = Len(steps) + Len(todo[t]) - 1
      /\ \A i \in 1..Len(new) :
             new[i] = IF i <= Len(steps) THEN steps[i] ELSE Tail(todo[t])[i - Len(steps)]
  BY <1>1, ConcatProperties, LenProperties
<1>3. /\ DOMAIN new = 1..Len(new) /\ DOMAIN steps = 1..Len(steps)
      /\ DOMAIN todo[t] = 1..Len(todo[t])
      /\ Len(new) \in Nat /\ Len(steps) \in Nat /\ Len(todo[t]) \in Nat
  BY <1>1, <1>2, LenProperties
<1>. HIDE DEF new
<1>4. todo' \in [Threads -> Seq(S)] /\ todo'[t] = new
      /\ \A u \in Threads : u # t => todo'[u] = todo[u]
  BY <1>1, <1>2
<1>5. \A i \in DOMAIN new :
          \/ i \in DOMAIN steps /\ new[i] = steps[i]
          \/ /\ i \notin DOMAIN steps
             /\ i - Len(steps) + 1 \in DOMAIN todo[t] /\ i - Len(steps) + 1 # 1
             /\ new[i] = todo[t][i - Len(steps) + 1]
  <2>. TAKE i \in DOMAIN new
  <2>1. CASE i <= Len(steps)
    BY <1>2, <1>3, <2>1
  <2>2. CASE ~(i <= Len(steps))
    <3>1. i - Len(steps) \in 1..Len(Tail(todo[t]))
      BY <1>1, <1>2, <1>3, <2>2
    <3>2. new[i] = todo[t][i - Len(steps) + 1]
      BY <1>1, <1>2, <1>3, <2>2, <3>1
    <3>. QED
      BY <1>1, <1>3, <2>2, <3>1, <3>2
  <2>. QED
    BY <2>1, <2>2
<1>6. \A i \in DOMAIN new : i # 1 => new[i][1] \in Later
  BY <1>5 DEF Shape
<1>7. Shape'
  BY <1>4, <1>6 DEF Shape
<1>8. \A u \in Threads : u # t => inHand(u)' = inHand(u)
  BY <1>4 DEF inHand, At, arg
<1>9. inHand(t)' = IF steps = <<>> THEN <<>> ELSE linesOf(steps[1])
  <2>1. inHand(t)' = IF new = <<>> THEN <<>> ELSE linesOf(new[1])
    <3>1. inHand(t)' = IF todo'[t] = <<>> THEN <<>> ELSE linesOf(Head(todo'[t]))
      BY DEF inHand, linesOf, At, arg
    <3>. QED
      BY <1>2, <1>4, <3>1
  <2>2. CASE steps # <<>>
    <3>1. 1 \in DOMAIN steps /\ 1 \in DOMAIN new
      BY <1>1, <1>2, <1>3, <2>2
    <3>2. new # <<>> /\ new[1] = steps[1]
      BY <1>2, <1>3, <3>1
    <3>. QED
      BY <2>1, <2>2, <3>2
  <2>3. CASE steps = <<>> /\ new # <<>>
    <3>1. 1 \in DOMAIN new /\ 1 \notin DOMAIN steps
      BY <1>2, <1>3, <2>3
    <3>2. new[1][1] \in Later
      BY <1>5, <3>1 DEF Shape
    <3>3. linesOf(new[1]) = <<>>
      BY <3>2 DEF linesOf, Later
    <3>. QED
      BY <2>1, <2>3, <3>3
  <2>. QED
    BY <2>1, <2>2, <2>3
<1>10. ASSUME \A i \in DOMAIN steps : steps[i][1] # "read" PROVE ReadsKept
  <2> DEFINE d == [u \in Threads |-> IF u = t THEN 1 - Len(steps) ELSE 0]
  <2>1. d \in [Threads -> Int]
    BY <1>3
  <2>2. ASSUME NEW u \in Threads, NEW i \in DOMAIN todo'[u], todo'[u][i][1] = "read"
        PROVE  i + d[u] \in DOMAIN todo[u] /\ todo[u][i + d[u]] = todo'[u][i]
    <3>1. CASE u = t
      <4>1. i \in Int /\ i + d[t] = i - Len(steps) + 1
        BY <1>3, <1>4, <2>2, <3>1
      <4>. QED
        BY <1>4, <1>5, <1>10, <2>2, <3>1, <4>1
    <3>2. CASE u # t
      <4>1. i \in Int /\ i + d[u] = i
        <5>1. todo[u] \in Seq(S) /\ todo'[u] = todo[u]
          BY <1>4, <3>2
        <5>2. i \in 1..Len(todo[u])
          BY <2>2, <5>1, LenProperties
        <5>. QED
          BY <3>2, <5>2
      <4>. QED
        BY <1>4, <2>2, <3>2, <4>1
    <3>. QED
      BY <3>1, <3>2
  <2>. QED
    BY <2>1, <2>2 DEF ReadsKept
<1>. QED
  BY <1>4, <1>5, <1>7, <1>8, <1>9, <1>10

\* The steps of a thread that had none.
LEMMA StartSteps ==
    ASSUME NEW S, todo \in [Threads -> Seq(S)], Shape,
           NEW t \in Threads, NEW steps \in Seq(S), Starts(t, steps), steps # <<>>,
           \A i \in DOMAIN steps : i # 1 => steps[i][1] \in Later,
           \A i \in DOMAIN steps : steps[i][1] # "read"
    PROVE  /\ todo' \in [Threads -> Seq(S)] /\ Shape'
           /\ todo'[t] = steps /\ \A u \in Threads : u # t => todo'[u] = todo[u]
           /\ inHand(t) = <<>> /\ inHand(t)' = linesOf(steps[1])
           /\ \A u \in Threads : u # t => inHand(u)' = inHand(u)
           /\ ReadsKept
<1>1. todo[t] = <<>> /\ todo' = [todo EXCEPT ![t] = steps]
  BY DEF Starts
<1>2. todo' \in [Threads -> Seq(S)] /\ todo'[t] = steps
      /\ \A u \in Threads : u # t => todo'[u] = todo[u]
  BY <1>1
<1>3. Shape'
  BY <1>2 DEF Shape
<1>4. inHand(t) = <<>> /\ \A u \in Threads : u # t => inHand(u)' = inHand(u)
  BY <1>1, <1>2 DEF inHand, At, arg
<1>5. inHand(t)' = linesOf(steps[1])
  BY <1>2 DEF inHand, linesOf, At, arg
<1>6. ReadsKept
  <2> DEFINE d == [u \in Threads |-> 0]
  <2>1. d \in [Threads -> Int]
    OBVIOUS
  <2>2. ASSUME NEW u \in Threads, NEW i \in DOMAIN todo'[u], todo'[u][i][1] = "read"
        PROVE  i + d[u] \in DOMAIN todo[u] /\ todo[u][i + d[u]] = todo'[u][i]
    <3>1. u # t
      BY <1>2, <2>2
    <3>2. todo[u] \in Seq(S) /\ todo'[u] = todo[u]
      BY <1>2, <3>1
    <3>3. i \in 1..Len(todo[u])
      BY <2>2, <3>2, LenProperties
    <3>. QED
      BY <3>2, <3>3, <2>2
  <2>. QED
    BY <2>1, <2>2 DEF ReadsKept
<1>. QED
  BY <1>2, <1>3, <1>4, <1>5, <1>6

-------------------------------------------------------------------------------
(* The invariant.                                                            *)

isRead(t, i) == i \in DOMAIN todo[t] /\ todo[t][i][1] = "read"

\* Every claim is in uploadingPaths, and no two are of one file.
Claimed ==
    /\ \A t \in Threads : \A i \in DOMAIN todo[t] :
           isRead(t, i) => todo[t][i][2].file \in uploading
    /\ \A u \in uploads : u.file \in uploading
    /\ \A t1, t2 \in Threads : \A i \in DOMAIN todo[t1], j \in DOMAIN todo[t2] :
           /\ isRead(t1, i) /\ isRead(t2, j)
           /\ todo[t1][i][2].file = todo[t2][j][2].file
           => t1 = t2 /\ i = j
    /\ \A t \in Threads : \A i \in DOMAIN todo[t] : \A u \in uploads :
           isRead(t, i) => todo[t][i][2].file # u.file
    /\ \A u, v \in uploads : u.file = v.file => u = v

\* What is in the files.
onDisk == UNION {disk[f].lines : f \in DOMAIN disk}

\* A line that is in a file is in one that exists, was written there once, and is neither
\* lost nor uploaded.
DiskApart ==
    /\ onDisk \cup past.lost \cup uploaded \subseteq 1..past.lines
    /\ onDisk \cap (past.lost \cup uploaded) = {}
    /\ \A f, g \in DOMAIN disk : f # g => disk[f].lines \cap disk[g].lines = {}
    /\ \A f \in DOMAIN disk : ~disk[f].exists => disk[f].lines = {}

\* What is on its way is still in its file, or lost; no line is on its way twice, or again
\* when it was taken.
OnItsWay == {u \in uploads : u.at = "sent"}
Taken == {u \in past.accepted : u.at = "taken"}
Sent ==
    /\ \A u \in OnItsWay : u.payload \subseteq In(u.file) \cup past.lost
    /\ \A u, v \in OnItsWay \cup Taken : u # v => u.payload \cap v.payload = {}
    /\ \A u \in past.accepted : u.at \in {"taken", "unseen"}

\* With one log and no upload, every file that a writer finds is open.
AllOpen ==
    /\ past.lost = {}
    /\ \A t \in Threads : \A i \in DOMAIN todo[t] :
           todo[t][i][1] \in {"enqueue", "pend", "write", "swap", "date", "pop"}
    /\ \A f \in DOMAIN disk : disk[f].open /\ disk[f].exists
    /\ \A t \in Threads : At(t, "write") => arg(t).f # 0
    /\ queue # <<>> => file # 0
    /\ \A t \in Threads : At(t, "enqueue") => file # 0
    /\ \A t1, t2 \in Threads : At(t1, "swap") /\ At(t2, "swap") => t1 = t2
    /\ \A t \in Threads : At(t, "swap") => file = 0
Early == Len(disk) <= 1 /\ DOMAIN calls = {} => AllOpen /\ uploads = {}

\* The lines that are in no file, and should be in one box.
there == (1..past.lines) \ (onDisk \cup past.lost \cup uploaded)
LinesApart == Once(content, there)

Placed == DiskApart /\ Sent /\ LinesApart

Inv == Typed /\ Shape /\ Claimed /\ Early /\ Placed

-------------------------------------------------------------------------------
(* What the steps do to the types and to the threads' hands.                 *)

LEMMA ArgTypes ==
    ASSUME Typed, NEW t \in Threads, todo[t] # <<>>
    PROVE  /\ At(t, "enqueue") \/ At(t, "pend") => arg(t) \in Seq(Nat) /\ inHand(t) = arg(t)
           /\ At(t, "write") => /\ arg(t) \in [message : Seq(Nat), f : 0..Len(disk)]
                                /\ inHand(t) = arg(t).message
           /\ At(t, "swap") => arg(t) \in 1..Len(disk)
           /\ At(t, "files") => arg(t) \in Nat
           /\ At(t, "claim") => arg(t) \in [call : Nat, files : SUBSET (1..Len(disk))]
           /\ At(t, "read") => arg(t) \in [call : Nat, file : 1..Len(disk)]
           /\ ~(At(t, "enqueue") \/ At(t, "pend") \/ At(t, "write")) => inHand(t) = <<>>
<1>1. Head(todo[t]) \in Steps(Len(disk))
  BY HeadTailProperties DEF Typed
<1>2. inHand(t) = linesOf(Head(todo[t]))
  BY Hand
<1>. HIDE DEF Typed
<1>3. \A e \in Steps(Len(disk)) :
          /\ e[1] \in {"enqueue", "pend"} => e[2] \in Seq(Nat)
          /\ e[1] = "write" => e[2] \in [message : Seq(Nat), f : 0..Len(disk)]
          /\ e[1] = "swap" => e[2] \in 1..Len(disk)
          /\ e[1] = "files" => e[2] \in Nat
          /\ e[1] = "claim" => e[2] \in [call : Nat, files : SUBSET (1..Len(disk))]
          /\ e[1] = "read" => e[2] \in [call : Nat, file : 1..Len(disk)]
  <2>. TAKE e \in Steps(Len(disk))
  <2>1. \A name, args : e \in {name} \X args => e[1] = name /\ e[2] \in args
    OBVIOUS
  <2>a. \A args : e \in {"enqueue", "pend"} \X args =>
                     e[1] \in {"enqueue", "pend"} /\ e[2] \in args
    OBVIOUS
  <2>2. e \in {<<"date">>, <<"pop">>, <<"stop">>} => e[1] \in {"date", "pop", "stop"}
    OBVIOUS
  <2>3. \/ e \in {"enqueue", "pend"} \X Seq(Nat)
        \/ e \in {"write"} \X [message : Seq(Nat), f : 0..Len(disk)]
        \/ e \in {"swap"} \X (1..Len(disk))
        \/ e \in {<<"date">>, <<"pop">>, <<"stop">>}
        \/ e \in {"files"} \X Nat
        \/ e \in {"claim"} \X [call : Nat, files : SUBSET (1..Len(disk))]
        \/ e \in {"read"} \X [call : Nat, file : 1..Len(disk)]
    BY DEF Steps
  <2>4. \/ e[1] \in {"enqueue", "pend"} /\ e[2] \in Seq(Nat)
        \/ e[1] = "write" /\ e[2] \in [message : Seq(Nat), f : 0..Len(disk)]
        \/ e[1] = "swap" /\ e[2] \in 1..Len(disk)
        \/ e[1] \in {"date", "pop", "stop"}
        \/ e[1] = "files" /\ e[2] \in Nat
        \/ e[1] = "claim" /\ e[2] \in [call : Nat, files : SUBSET (1..Len(disk))]
        \/ e[1] = "read" /\ e[2] \in [call : Nat, file : 1..Len(disk)]
    <3>1. CASE e \in {"enqueue", "pend"} \X Seq(Nat)
      BY <2>a, <3>1
    <3>2. CASE e \in {"write"} \X [message : Seq(Nat), f : 0..Len(disk)]
      BY <2>1, <3>2
    <3>3. CASE e \in {"swap"} \X (1..Len(disk))
      BY <2>1, <3>3
    <3>4. CASE e \in {"files"} \X Nat
      BY <2>1, <3>4
    <3>5. CASE e \in {"claim"} \X [call : Nat, files : SUBSET (1..Len(disk))]
      BY <2>1, <3>5
    <3>6. CASE e \in {"read"} \X [call : Nat, file : 1..Len(disk)]
      BY <2>1, <3>6
    <3>. QED
      BY <2>2, <2>3, <3>1, <3>2, <3>3, <3>4, <3>5, <3>6
  <2>. QED
    BY <2>4
<1>. QED
  BY <1>1, <1>2, <1>3 DEF At, arg, linesOf

\* A thread's hands hold these lines now, the others' what they did.
Hands(t, lines) ==
    inHand(t)' = lines /\ \A u \in Threads : u # t => inHand(u)' = inHand(u)

\* The steps are steps of the files there are.
Stepped == todo' \in [Threads -> Seq(Steps(Len(disk)))] /\ Shape'

\* No steps, a step, or two in place of the first one.
LEMMA ThenNone ==
    ASSUME Typed, Shape, NEW t \in Threads, todo[t] # <<>>, Then(t, <<>>)
    PROVE  Stepped /\ ReadsKept /\ Hands(t, <<>>)
<1>1. <<>> \in Seq(Steps(Len(disk))) /\ DOMAIN <<>> = {}
  BY EmptySeq
<1>. QED
  BY <1>1, ThenSteps DEF Typed, Stepped, Hands

LEMMA ThenOne ==
    ASSUME Typed, Shape, NEW t \in Threads, todo[t] # <<>>,
           NEW e \in Steps(Len(disk)), e[1] # "read", Then(t, <<e>>)
    PROVE  Stepped /\ ReadsKept /\ Hands(t, linesOf(e))
<1> DEFINE one == <<e>>
<1>1. /\ one \in Seq(Steps(Len(disk))) /\ DOMAIN one = {1} /\ one[1] = e
      /\ one # <<>> /\ Then(t, one)
  OBVIOUS
<1>. HIDE DEF one
<1>2. /\ \A i \in DOMAIN one : i # 1 => one[i][1] \in Later
      /\ \A i \in DOMAIN one : one[i][1] # "read"
  BY <1>1
<1>3. todo \in [Threads -> Seq(Steps(Len(disk)))]
  BY DEF Typed
<1>4. /\ Stepped /\ ReadsKept /\ inHand(t)' = linesOf(one[1])
      /\ \A u \in Threads : u # t => inHand(u)' = inHand(u)
  BY <1>1, <1>2, <1>3, ThenSteps DEF Stepped
<1>. QED
  BY <1>1, <1>4 DEF Hands

LEMMA ThenTwo ==
    ASSUME Typed, Shape, NEW t \in Threads, todo[t] # <<>>,
           NEW e \in Steps(Len(disk)), e[1] # "read",
           NEW f \in Steps(Len(disk)), f[1] \in {"stop", "pop"}, Then(t, <<e, f>>)
    PROVE  Stepped /\ ReadsKept /\ Hands(t, linesOf(e))
<1> DEFINE two == <<e, f>>
<1>1. /\ two \in Seq(Steps(Len(disk))) /\ DOMAIN two = {1, 2} /\ two[1] = e /\ two[2] = f
      /\ two # <<>> /\ Then(t, two)
  OBVIOUS
<1>. HIDE DEF two
<1>2. /\ \A i \in DOMAIN two : i # 1 => two[i][1] \in Later
      /\ \A i \in DOMAIN two : two[i][1] # "read"
  BY <1>1 DEF Later
<1>3. todo \in [Threads -> Seq(Steps(Len(disk)))]
  BY DEF Typed
<1>4. /\ Stepped /\ ReadsKept /\ inHand(t)' = linesOf(two[1])
      /\ \A u \in Threads : u # t => inHand(u)' = inHand(u)
  BY <1>1, <1>2, <1>3, ThenSteps DEF Stepped
<1>. QED
  BY <1>1, <1>4 DEF Hands

LEMMA WriteStep ==
    ASSUME Typed
    PROVE  /\ write[1] \in Steps(Len(disk)) /\ write = <<write[1]>>
           /\ write[1][1] \in {"enqueue", "pend"} /\ write[1][1] # "read"
           /\ linesOf(write[1]) = <<past.lines + 1>>
           /\ write[1][1] = "enqueue" => file # 0
<1>1. past.lines + 1 \in Nat
  BY DEF Typed, Pasts
<1>2. <<past.lines + 1>> \in Seq(Nat)
  BY <1>1
<1> DEFINE name == IF file # 0 THEN "enqueue" ELSE "pend"
<1>3. write = << <<name, <<past.lines + 1>> >> >>
  BY DEF write
<1>4. name \in {"enqueue", "pend"} /\ (name = "enqueue" => file # 0)
  OBVIOUS
<1>. HIDE DEF name
<1>5. write[1] = <<name, <<past.lines + 1>> >>
  BY <1>3
<1>6. <<name, <<past.lines + 1>> >> \in Steps(Len(disk))
  BY <1>2, <1>4 DEF Steps
<1>. QED
  BY <1>3, <1>4, <1>5, <1>6 DEF linesOf

\* FILEs keep their names; and what is in them.
SameFiles ==
    /\ disk' \in Seq(LogFile) /\ Len(disk') = Len(disk) /\ DOMAIN disk' = DOMAIN disk
    /\ \A f \in DOMAIN disk : disk'[f].name = disk[f].name
SameLines ==
    \A f \in DOMAIN disk :
        disk'[f].lines = disk[f].lines /\ disk'[f].exists = disk[f].exists

LEMMA Disk ==
    ASSUME Typed
    PROVE  /\ DOMAIN disk = 1..Len(disk) /\ Len(disk) \in Nat
           /\ \A f \in DOMAIN disk : disk[f] \in LogFile /\ disk[f].name \in 1..Len(disk)
<1>1. disk \in Seq(LogFile) /\ \A f \in DOMAIN disk : disk[f].name \in 1..Len(disk)
  BY DEF Typed
<1>2. DOMAIN disk = 1..Len(disk) /\ Len(disk) \in Nat
  BY <1>1, LenProperties
<1>. QED
  BY <1>1, <1>2, ElementOfSeq

\* The names stay in range.
LEMMA FilesTyped ==
    ASSUME Typed, SameFiles
    PROVE  /\ disk' \in Seq(LogFile) /\ Len(disk') = Len(disk)
           /\ \A f \in DOMAIN disk' : disk'[f].name \in 1..Len(disk')
BY Disk DEF SameFiles

LEMMA CloseFile ==
    ASSUME Typed, disk' = Closed(file)
    PROVE  SameFiles /\ SameLines /\ (file = 0 => disk' = disk)
<1>1. CASE file = 0
  BY <1>1 DEF Closed, Typed, SameFiles, SameLines
<1>2. CASE file # 0
  <2> DEFINE r == [disk[file] EXCEPT !.open = FALSE]
  <2>1. disk \in Seq(LogFile) /\ file \in DOMAIN disk
    BY <1>2, LenProperties DEF Typed
  <2>2. disk[file] \in LogFile
    BY <2>1, LenProperties, ElementOfSeq
  <2>3. r \in LogFile /\ r.exists = disk[file].exists /\ r.lines = disk[file].lines
        /\ r.name = disk[file].name
    BY <2>2 DEF LogFile
  <2>4. disk' = [disk EXCEPT ![file] = r]
    BY <1>2 DEF Closed
  <2>. HIDE DEF r
  <2>5. /\ disk' \in Seq(LogFile) /\ Len(disk') = Len(disk) /\ DOMAIN disk' = DOMAIN disk
        /\ disk'[file] = r /\ \A j \in DOMAIN disk : j # file => disk'[j] = disk[j]
    BY <2>1, <2>3, <2>4, ReplacedIf
  <2>. QED
    BY <1>2, <2>3, <2>5 DEF SameFiles, SameLines
<1>. QED
  BY <1>1, <1>2

\* What is in a file is in the FILEs that it was opened with.
LEMMA InFile ==
    ASSUME Typed, NEW name
    PROVE  In(name) \subseteq onDisk /\ onDisk \subseteq Nat
<1>1. \A f \in DOMAIN disk : disk[f].lines \subseteq Nat
  BY Disk DEF LogFile
<1>. QED
  BY <1>1 DEF In, Named, onDisk

\* Lines leave the files, and no others come into them.
LEMMA WithoutFile ==
    ASSUME Typed, NEW gone
    PROVE  /\ Without(gone) \in Seq(LogFile) /\ Len(Without(gone)) = Len(disk)
           /\ DOMAIN Without(gone) = DOMAIN disk
           /\ \A f \in DOMAIN disk :
                  /\ Without(gone)[f].lines = disk[f].lines \ gone
                  /\ Without(gone)[f].name = disk[f].name
                  /\ Without(gone)[f].open = disk[f].open
                  /\ Without(gone)[f].exists = disk[f].exists
                  /\ Without(gone)[f] \in LogFile
<1> DEFINE new(f) == [disk[f] EXCEPT !.lines = @ \ gone]
<1>1. \A f \in DOMAIN disk : /\ new(f) \in LogFile /\ new(f).lines = disk[f].lines \ gone
                             /\ new(f).name = disk[f].name /\ new(f).open = disk[f].open
                             /\ new(f).exists = disk[f].exists
  <2>. TAKE f \in DOMAIN disk
  <2>1. disk[f] \in LogFile
    BY Disk
  <2>. QED
    BY <2>1 DEF LogFile
<1>2. Without(gone) = [f \in DOMAIN disk |-> new(f)]
  BY DEF Without
<1>. HIDE DEF new
<1>3. Without(gone) \in [1..Len(disk) -> LogFile] /\ DOMAIN Without(gone) = DOMAIN disk
  BY <1>1, <1>2, Disk
<1>4. Without(gone) \in Seq(LogFile)
  BY <1>3, Disk
<1>5. Len(Without(gone)) = Len(disk)
  <2>1. 1..Len(Without(gone)) = 1..Len(disk) /\ Len(Without(gone)) \in Nat
    BY <1>3, <1>4, Disk, LenProperties
  <2>. QED
    BY <2>1, Disk, SameInterval
<1>. QED
  BY <1>1, <1>2, <1>3, <1>4, <1>5

\* Lines leave the files (gone) and new ones come, into f (come), or nowhere (out).
old(f) == IF f \in DOMAIN disk THEN disk[f].lines ELSE {}
Shift(gone, f, come, out) ==
    /\ \A g \in DOMAIN disk :
           /\ g \in DOMAIN disk'
           /\ disk'[g].name = disk[g].name /\ disk'[g].exists = disk[g].exists
    /\ \A g \in DOMAIN disk' :
           disk'[g].lines = (old(g) \ gone) \cup IF g = f THEN come ELSE {}
    /\ come # {} => f \in DOMAIN disk /\ disk[f].exists
    /\ gone \subseteq onDisk
    /\ past'.lost = past.lost \cup gone \cup out
    /\ past'.lines = past.lines /\ past'.accepted = past.accepted

LEMMA Losing ==
    ASSUME Typed, NEW lines \in SUBSET Nat, Lose(lines)
    PROVE  /\ past' \in Pasts(Len(disk))
           /\ past'.lost = past.lost \cup lines
           /\ past'.lines = past.lines /\ past'.accepted = past.accepted
<1> DEFINE A == SUBSET Uploads(Len(disk))
<1>1. past \in [lines : Nat, lost : SUBSET Nat, accepted : A]
  BY DEF Typed, Pasts
<1>2. past' = [past EXCEPT !.lost = @ \cup lines]
  BY DEF Lose
<1>. HIDE DEF A
<1>3. /\ past' \in [lines : Nat, lost : SUBSET Nat, accepted : A]
      /\ past'.lost = past.lost \cup lines
      /\ past'.lines = past.lines /\ past'.accepted = past.accepted
  BY <1>1, <1>2
<1>. QED
  BY <1>3 DEF A, Pasts

LEMMA WrittenInto ==
    ASSUME Typed, NEW f \in DOMAIN disk, NEW m \in SUBSET Nat, Into(f, m)
    PROVE  /\ SameFiles /\ past' \in Pasts(Len(disk))
           /\ \A g \in DOMAIN disk : /\ disk'[g].open = disk[g].open
                                     /\ disk'[g].exists = disk[g].exists
           /\ \E gone, come, out \in SUBSET Nat :
                  /\ Shift(gone, f, come, out) /\ come \cup out = m
                  /\ disk[f].exists => out = {}
                  /\ gone \subseteq In(disk[f].name) \ disk[f].lines
<1>1. CASE ~disk[f].exists
  <2>1. Lose(m) /\ disk' = disk
    BY <1>1 DEF Into
  <2>2. Shift({}, f, {}, m)
    BY <2>1, Losing DEF Shift, old
  <2>3. past' \in Pasts(Len(disk))
    BY <2>1, Losing
  <2>4. SameFiles
    BY <2>1 DEF SameFiles, Typed
  <2>5. \E gone, come, out \in SUBSET Nat :
            /\ Shift(gone, f, come, out) /\ come \cup out = m
            /\ disk[f].exists => out = {}
            /\ gone \subseteq In(disk[f].name) \ disk[f].lines
    <3>. WITNESS {} \in SUBSET Nat, {} \in SUBSET Nat, m \in SUBSET Nat
    <3>. QED
      BY <1>1, <2>2
  <2>. QED
    BY <2>1, <2>3, <2>4, <2>5
<1>2. CASE disk[f].exists
  <2>1. PICK over \in SUBSET (In(disk[f].name) \ disk[f].lines) :
          disk' = [Without(over) EXCEPT ![f].lines = @ \cup m] /\ Lose(over)
    BY <1>2 DEF Into
  <2> DEFINE r == [Without(over)[f] EXCEPT !.lines = @ \cup m]
  <2>2. /\ r \in LogFile /\ r.lines = (disk[f].lines \ over) \cup m
        /\ r.name = disk[f].name /\ r.open = disk[f].open /\ r.exists = disk[f].exists
    <3>1. /\ Without(over)[f] \in LogFile /\ Without(over)[f].lines = disk[f].lines \ over
          /\ Without(over)[f].name = disk[f].name /\ Without(over)[f].open = disk[f].open
          /\ Without(over)[f].exists = disk[f].exists
      BY WithoutFile
    <3>. QED
      BY <3>1 DEF LogFile
  <2>3. disk' = [Without(over) EXCEPT ![f] = r]
    BY <2>1
  <2>. HIDE DEF r
  <2>4. /\ disk' \in Seq(LogFile) /\ Len(disk') = Len(disk) /\ DOMAIN disk' = DOMAIN disk
        /\ disk'[f] = r /\ \A j \in DOMAIN disk : j # f => disk'[j] = Without(over)[j]
    <3>1. Without(over) \in Seq(LogFile) /\ f \in DOMAIN Without(over)
          /\ DOMAIN Without(over) = DOMAIN disk /\ Len(Without(over)) = Len(disk)
      BY WithoutFile
    <3>2. \A new : new = [Without(over) EXCEPT ![f] = r] =>
            /\ new \in Seq(LogFile) /\ DOMAIN new = DOMAIN disk /\ Len(new) = Len(disk)
            /\ new[f] = r /\ \A j \in DOMAIN disk : j # f => new[j] = Without(over)[j]
      BY <2>2, <3>1, ReplacedIf
    <3>. QED
      BY <2>3, <3>2
  <2>5. \A g \in DOMAIN disk :
            /\ disk'[g].lines = (disk[g].lines \ over) \cup IF g = f THEN m ELSE {}
            /\ disk'[g].name = disk[g].name /\ disk'[g].open = disk[g].open
            /\ disk'[g].exists = disk[g].exists
    BY <2>2, <2>4, WithoutFile
  <2>6. over \in SUBSET Nat /\ over \subseteq onDisk
    BY <2>1, InFile
  <2>7. /\ past' \in Pasts(Len(disk)) /\ past'.lost = past.lost \cup over
        /\ past'.lines = past.lines /\ past'.accepted = past.accepted
    BY <2>1, <2>6, Losing
  <2>8. Shift(over, f, m, {})
    BY <1>2, <2>4, <2>5, <2>6, <2>7 DEF Shift, old
  <2>9. SameFiles
    BY <2>4, <2>5 DEF SameFiles
  <2>10. over \subseteq In(disk[f].name) \ disk[f].lines
    BY <2>1
  <2>. QED
    BY <2>5, <2>6, <2>7, <2>8, <2>9, <2>10
<1>. QED
  BY <1>1, <1>2

\* What Write may do: it writes into a file, or the message is lost.
LEMMA Writes ==
    ASSUME Typed, NEW t \in Threads, Write(t)
    PROVE  \/ /\ \E f \in DOMAIN disk : Into(f, ToSet(arg(t).message))
              /\ arg(t).f # 0
              /\ disk[arg(t).f].open => Into(arg(t).f, ToSet(arg(t).message))
           \/ /\ arg(t).f # 0 => ~disk[arg(t).f].open
              /\ Lose(ToSet(arg(t).message)) /\ UNCHANGED disk
<1>1. arg(t).f \in 0..Len(disk) /\ file \in 0..Len(disk)
  <2>1. At(t, "write") /\ todo[t] # <<>>
    BY DEF Write, At
  <2>. QED
    BY <2>1, ArgTypes DEF Typed
<1>2. \A f \in 0..Len(disk) : f # 0 => f \in DOMAIN disk
  BY Disk
<1>3. \/ arg(t).f # 0 /\ disk[arg(t).f].open /\ Into(arg(t).f, ToSet(arg(t).message))
      \/ /\ arg(t).f # 0 => ~disk[arg(t).f].open
         /\ Lose(ToSet(arg(t).message)) /\ UNCHANGED disk
      \/ /\ arg(t).f # 0 /\ ~disk[arg(t).f].open /\ file # 0
         /\ Into(file, ToSet(arg(t).message))
  BY DEF Write
<1>. QED
  BY <1>1, <1>2, <1>3

-------------------------------------------------------------------------------
(* The steps, one by one: their types, the reads kept, the hands.            *)

LEMMA Waiting ==
    ASSUME NEW t, NEW name, At(t, name)
    PROVE  todo[t] # <<>>
BY DEF At

LEMMA EnqueueFacts ==
    ASSUME Typed, Shape, NEW t \in Threads, Enqueue(t)
    PROVE  /\ Typed' /\ Shape' /\ ReadsKept /\ Hands(t, <<>>)
           /\ arg(t) \in Seq(Nat) /\ inHand(t) = arg(t)
<1>1. At(t, "enqueue") /\ Then(t, <<>>) /\ todo[t] # <<>>
  BY Waiting DEF Enqueue
<1>2. Stepped /\ ReadsKept /\ Hands(t, <<>>)
  BY <1>1, ThenNone
<1>3. arg(t) \in Seq(Nat) /\ inHand(t) = arg(t)
  BY <1>1, ArgTypes
<1>4. queue' \in Seq(Seq(Nat))
  BY <1>3, AppendProperties DEF Enqueue, Typed
<1>5. UNCHANGED <<file, pending, disk, uploads, calls, past>>
  BY DEF Enqueue, OnlyLines
<1>6. Typed' /\ Shape'
  BY <1>2, <1>4, <1>5 DEF Typed, Stepped
<1>. QED
  BY <1>2, <1>3, <1>6

LEMMA PendFacts ==
    ASSUME Typed, Shape, NEW t \in Threads, Pend(t)
    PROVE  /\ Typed' /\ Shape' /\ ReadsKept /\ Hands(t, <<>>)
           /\ arg(t) \in Seq(Nat) /\ inHand(t) = arg(t)
<1>1. At(t, "pend") /\ Then(t, <<>>) /\ todo[t] # <<>>
  BY Waiting DEF Pend
<1>2. Stepped /\ ReadsKept /\ Hands(t, <<>>)
  BY <1>1, ThenNone
<1>3. arg(t) \in Seq(Nat) /\ inHand(t) = arg(t)
  BY <1>1, ArgTypes
<1>4. pending' \in Seq(Nat)
  BY <1>3, ConcatProperties DEF Pend, Typed
<1>5. UNCHANGED <<file, queue, disk, uploads, calls, past>>
  BY DEF Pend, OnlyLines
<1>6. Typed' /\ Shape'
  BY <1>2, <1>4, <1>5 DEF Typed, Stepped
<1>. QED
  BY <1>2, <1>3, <1>6

\* One more line.
LEMMA LineTyped ==
    ASSUME Typed, past' = [past EXCEPT !.lines = @ + 1]
    PROVE  /\ past' \in Pasts(Len(disk)) /\ past'.lines = past.lines + 1
           /\ past'.lost = past.lost /\ past'.accepted = past.accepted
<1> DEFINE D == SUBSET Nat
           A == SUBSET Uploads(Len(disk))
<1>1. past \in [lines : Nat, lost : D, accepted : A]
  BY DEF Typed, Pasts
<1>. HIDE DEF D, A
<1>2. /\ past' \in [lines : Nat, lost : D, accepted : A] /\ past'.lines = past.lines + 1
      /\ past'.lost = past.lost /\ past'.accepted = past.accepted
  BY <1>1
<1>. QED
  BY <1>2 DEF D, A, Pasts

LEMMA DateFacts ==
    ASSUME Typed, Shape, NEW t \in Threads, Date(t)
    PROVE  /\ Typed' /\ Shape' /\ ReadsKept /\ Hands(t, <<past.lines + 1>>)
           /\ inHand(t) = <<>>
           /\ past' = [past EXCEPT !.lines = @ + 1]
<1>1. At(t, "date") /\ Then(t, write) /\ todo[t] # <<>>
  BY Waiting DEF Date
<1>2. Stepped /\ ReadsKept /\ Hands(t, <<past.lines + 1>>)
  <2> DEFINE e == write[1]
  <2>1. /\ e \in Steps(Len(disk)) /\ e[1] # "read" /\ linesOf(e) = <<past.lines + 1>>
        /\ Then(t, <<e>>)
    BY <1>1, WriteStep
  <2>. HIDE DEF e
  <2>. QED
    BY <1>1, <2>1, ThenOne
<1>3. inHand(t) = <<>>
  BY <1>1, ArgTypes DEF At
<1>4. past' = [past EXCEPT !.lines = @ + 1]
  BY DEF Date
<1>5. past' \in Pasts(Len(disk))
  BY <1>4, LineTyped
<1>6. UNCHANGED <<file, queue, pending, disk, uploads, calls>>
  BY DEF Date
<1>7. Typed' /\ Shape'
  BY <1>2, <1>5, <1>6 DEF Typed, Stepped
<1>. QED
  BY <1>2, <1>3, <1>4, <1>7

LEMMA LogFacts ==
    ASSUME Typed, Shape, NEW t \in Threads, Log(t)
    PROVE  /\ Typed' /\ Shape' /\ ReadsKept /\ Hands(t, <<past.lines + 1>>)
           /\ inHand(t) = <<>>
           /\ past' = [past EXCEPT !.lines = @ + 1]
<1>1. Starts(t, write) /\ past' = [past EXCEPT !.lines = @ + 1]
      /\ UNCHANGED <<file, queue, pending, disk, uploads, calls>>
  BY DEF Log
<1>2. /\ write \in Seq(Steps(Len(disk))) /\ write # <<>> /\ DOMAIN write = {1}
      /\ write[1][1] # "read" /\ linesOf(write[1]) = <<past.lines + 1>>
  <2>1. /\ write[1] \in Steps(Len(disk)) /\ write = <<write[1]>>
        /\ write[1][1] # "read" /\ linesOf(write[1]) = <<past.lines + 1>>
    BY WriteStep
  <2> DEFINE e == write[1]
  <2>2. <<e>> \in Seq(Steps(Len(disk))) /\ <<e>> # <<>> /\ DOMAIN <<e>> = {1}
    BY <2>1
  <2>. QED
    BY <2>1, <2>2
<1>3. /\ todo' \in [Threads -> Seq(Steps(Len(disk)))] /\ Shape'
      /\ inHand(t) = <<>> /\ inHand(t)' = linesOf(write[1])
      /\ \A u \in Threads : u # t => inHand(u)' = inHand(u)
      /\ ReadsKept
  <2>1. todo \in [Threads -> Seq(Steps(Len(disk)))]
    BY DEF Typed
  <2>2. \A i \in DOMAIN write : i # 1 => write[i][1] \in Later
    BY <1>2
  <2>3. \A i \in DOMAIN write : write[i][1] # "read"
    BY <1>2
  <2>. QED
    BY <1>1, <1>2, <2>1, <2>2, <2>3, StartSteps
<1>4. past' \in Pasts(Len(disk))
  BY <1>1, LineTyped
<1>5. Typed'
  BY <1>1, <1>3, <1>4 DEF Typed
<1>. QED
  BY <1>1, <1>2, <1>3, <1>5 DEF Hands

\* Pop and Drain take a message.
LEMMA TakeFacts ==
    ASSUME Typed, Shape, NEW t \in Threads, todo[t] # <<>>, queue # <<>>,
           queue' = Tail(queue), NEW name \in {"stop", "pop"},
           Then(t, << <<"write", [message |-> Head(queue), f |-> file]>>, <<name>> >>),
           UNCHANGED <<file, pending, disk, uploads, calls, past>>
    PROVE  Typed' /\ Shape' /\ ReadsKept /\ Hands(t, Head(queue))
<1> DEFINE w == <<"write", [message |-> Head(queue), f |-> file]>>
           next == <<name>>
<1>1. /\ Head(queue) \in Seq(Nat) /\ Tail(queue) \in Seq(Seq(Nat))
      /\ file \in 0..Len(disk)
  BY HeadTailProperties DEF Typed
<1>2. w \in Steps(Len(disk)) /\ w[1] # "read" /\ linesOf(w) = Head(queue)
  BY <1>1 DEF Steps, linesOf
<1>3. next \in Steps(Len(disk)) /\ next[1] \in {"stop", "pop"}
  BY DEF Steps
<1>4. Then(t, <<w, next>>)
  OBVIOUS
<1>. HIDE DEF w, next
<1>5. Stepped /\ ReadsKept /\ Hands(t, linesOf(w))
  BY <1>2, <1>3, <1>4, ThenTwo
<1>6. Typed' /\ Shape'
  BY <1>1, <1>5 DEF Typed, Stepped
<1>. QED
  BY <1>2, <1>5, <1>6

LEMMA WriteFacts ==
    ASSUME Typed, Shape, NEW t \in Threads, Write(t)
    PROVE  /\ Typed' /\ Shape' /\ ReadsKept /\ Hands(t, <<>>)
           /\ arg(t).message \in Seq(Nat) /\ inHand(t) = arg(t).message
           /\ ToSet(arg(t).message) \in SUBSET Nat
           /\ SameFiles /\ UNCHANGED <<file, queue, pending, uploading, uploads, calls>>
<1>1. At(t, "write") /\ Then(t, <<>>) /\ todo[t] # <<>>
      /\ UNCHANGED <<file, queue, pending, uploading, uploads, calls>>
  BY Waiting DEF Write, OnlyFiles
<1>2. Stepped /\ ReadsKept /\ Hands(t, <<>>)
  BY <1>1, ThenNone
<1>3. arg(t).message \in Seq(Nat) /\ inHand(t) = arg(t).message
  BY <1>1, ArgTypes
<1>4. ToSet(arg(t).message) \in SUBSET Nat
  BY <1>3, OfSequence
<1>5. SameFiles /\ past' \in Pasts(Len(disk))
  <2>1. CASE \E f \in DOMAIN disk : Into(f, ToSet(arg(t).message))
    BY <1>4, <2>1, WrittenInto
  <2>2. CASE Lose(ToSet(arg(t).message)) /\ UNCHANGED disk
    BY <1>4, <2>2, Losing DEF SameFiles, Typed
  <2>. QED
    BY <2>1, <2>2, Writes
<1>6. Typed' /\ Shape'
  BY <1>1, <1>2, <1>5, FilesTyped DEF Typed, Stepped
<1>. QED
  BY <1>1, <1>2, <1>3, <1>4, <1>5, <1>6

LEMMA SwapFacts ==
    ASSUME Typed, Shape, NEW t \in Threads, Swap(t)
    PROVE  /\ Typed' /\ Shape' /\ ReadsKept /\ Hands(t, pending)
           /\ inHand(t) = <<>> /\ SameFiles /\ SameLines
<1>1. /\ At(t, "swap") /\ todo[t] # <<>> /\ arg(t) \in 1..Len(disk) /\ inHand(t) = <<>>
      /\ pending \in Seq(Nat)
  <2>1. At(t, "swap") /\ todo[t] # <<>>
    BY Waiting DEF Swap
  <2>. QED
    BY <2>1, ArgTypes DEF At, Typed
<1>2. SameFiles /\ SameLines
  BY CloseFile DEF Swap
<1>3. Stepped /\ ReadsKept /\ Hands(t, pending)
  <2>1. CASE pending = <<>>
    BY <1>1, <2>1, ThenNone DEF Swap
  <2>2. CASE pending # <<>>
    <3> DEFINE e == <<"enqueue", pending>>
    <3>1. e \in Steps(Len(disk)) /\ e[1] # "read" /\ linesOf(e) = pending
      BY <1>1 DEF Steps, linesOf
    <3>2. Then(t, <<e>>)
      BY <2>2 DEF Swap
    <3>. HIDE DEF e
    <3>3. Stepped /\ ReadsKept /\ Hands(t, linesOf(e))
      BY <1>1, <3>1, <3>2, ThenOne
    <3>. QED
      BY <3>1, <3>3
  <2>. QED
    BY <2>1, <2>2
<1>4. file' \in 0..Len(disk) /\ pending' = <<>> /\ UNCHANGED <<queue, uploads, calls, past>>
  BY <1>1 DEF Swap, Typed
<1>5. Typed' /\ Shape'
  BY <1>2, <1>3, <1>4, EmptySeq, FilesTyped DEF Typed, Stepped
<1>. QED
  BY <1>1, <1>2, <1>3, <1>5

\* Drain, when nothing is left to drain.
DrainEnds(t) ==
    disk' = Closed(file) /\ file' = 0 /\ Then(t, <<>>) /\ UNCHANGED queue

LEMMA DrainEndFacts ==
    ASSUME Typed, Shape, NEW t \in Threads, Drain(t), DrainEnds(t)
    PROVE  /\ Typed' /\ Shape' /\ ReadsKept /\ Hands(t, <<>>)
           /\ inHand(t) = <<>> /\ SameFiles /\ SameLines
<1>1. At(t, "stop") /\ todo[t] # <<>> /\ inHand(t) = <<>>
  <2>1. At(t, "stop") /\ todo[t] # <<>>
    BY Waiting DEF Drain
  <2>. QED
    BY <2>1, ArgTypes DEF At
<1>2. SameFiles /\ SameLines
  BY CloseFile DEF DrainEnds
<1>3. Stepped /\ ReadsKept /\ Hands(t, <<>>)
  BY <1>1, ThenNone DEF DrainEnds
<1>4. file' = 0 /\ UNCHANGED <<queue, pending, uploads, calls, past>>
  BY DEF Drain, DrainEnds, OnlyFiles
<1>5. file' \in 0..Len(disk)
  BY <1>4, LenProperties DEF Typed
<1>6. Typed' /\ Shape'
  BY <1>2, <1>3, <1>4, <1>5, FilesTyped DEF Typed, Stepped
<1>. QED
  BY <1>1, <1>2, <1>3, <1>6

LEMMA FilesFacts ==
    ASSUME Typed, Shape, NEW t \in Threads, Files(t)
    PROVE  Typed' /\ Shape' /\ ReadsKept /\ Hands(t, <<>>) /\ inHand(t) = <<>>
<1>1. At(t, "files") /\ todo[t] # <<>> /\ inHand(t) = <<>> /\ arg(t) \in Nat
  <2>1. At(t, "files") /\ todo[t] # <<>>
    BY Waiting DEF Files
  <2>. QED
    BY <2>1, ArgTypes DEF At
<1> DEFINE all == {disk[f].name : f \in {g \in DOMAIN disk : disk[g].exists}}
           e == <<"claim", [call |-> arg(t), files |-> all]>>
<1>2. Then(t, <<e>>)
  BY DEF Files
<1>3. all \in SUBSET (1..Len(disk))
  BY Disk
<1>. HIDE DEF all
<1>4. e \in Steps(Len(disk)) /\ e[1] # "read" /\ linesOf(e) = <<>>
  BY <1>1, <1>3 DEF Steps, linesOf
<1>. HIDE DEF e
<1>5. Stepped /\ ReadsKept /\ Hands(t, linesOf(e))
  BY <1>1, <1>2, <1>4, ThenOne
<1>6. UNCHANGED <<file, queue, pending, disk, uploads, calls, past>>
  BY DEF Files, OnlyUploads
<1>7. Typed' /\ Shape'
  BY <1>5, <1>6 DEF Typed, Stepped
<1>. QED
  BY <1>1, <1>4, <1>5, <1>7

LEMMA ReadFacts ==
    ASSUME Typed, Shape, NEW t \in Threads, Read(t)
    PROVE  /\ Typed' /\ Shape' /\ ReadsKept /\ Hands(t, <<>>) /\ inHand(t) = <<>>
           /\ \E r \in Uploads(Len(disk)) :
                  /\ uploads' = uploads \cup {r} /\ r.file = arg(t).file
                  /\ r.at \in {"sent", "failed"} /\ r.at = "sent" => r.payload = In(r.file)
           /\ UNCHANGED <<disk, past, uploading, queue, pending>>
<1>1. At(t, "read") /\ todo[t] # <<>> /\ inHand(t) = <<>>
      /\ arg(t) \in [call : Nat, file : 1..Len(disk)]
  <2>1. At(t, "read") /\ todo[t] # <<>>
    BY Waiting DEF Read
  <2>. QED
    BY <2>1, ArgTypes DEF At
<1>2. Stepped /\ ReadsKept /\ Hands(t, <<>>)
  BY <1>1, ThenNone DEF Read
<1>3. PICK payload \in {In(arg(t).file), {}} :
          uploads' = uploads \cup {[call |-> arg(t).call, file |-> arg(t).file,
                                    payload |-> payload,
                                    at |-> IF payload = {} THEN "failed" ELSE "sent"]}
  BY DEF Read
<1> DEFINE at == IF payload = {} THEN "failed" ELSE "sent"
           r == [call |-> arg(t).call, file |-> arg(t).file, payload |-> payload, at |-> at]
<1>4. payload \in SUBSET Nat
  BY InFile
<1>5. at \in {"sent", "failed"} /\ (at = "sent" => payload = In(arg(t).file))
  OBVIOUS
<1>6. uploads' = uploads \cup {r}
  BY <1>3
<1>. HIDE DEF at
<1>7. r \in Uploads(Len(disk)) /\ r.file = arg(t).file /\ r.at = at /\ r.payload = payload
  BY <1>1, <1>4, <1>5 DEF Uploads
<1>. HIDE DEF r
<1>8. uploads' \in SUBSET Uploads(Len(disk))
  BY <1>6, <1>7 DEF Typed
<1>9. UNCHANGED <<file, queue, pending, disk, calls, past, uploading>>
  BY DEF Read, OnlyUploads
<1>10. Typed' /\ Shape'
  BY <1>2, <1>8, <1>9 DEF Typed, Stepped
<1>. QED
  BY <1>1, <1>2, <1>5, <1>6, <1>7, <1>9, <1>10

\* The reads of a claim are of different files; the others are kept.
Claims(t, each) ==
    \E d \in [Threads -> Int] : \A u \in Threads : \A i \in DOMAIN todo'[u] :
        todo'[u][i][1] = "read" =>
            \/ u = t /\ i \in DOMAIN each /\ todo'[u][i][2].file = each[i]
            \/ i + d[u] \in DOMAIN todo[u] /\ todo[u][i + d[u]] = todo'[u][i]

LEMMA CallReplaced ==
    ASSUME Typed, NEW k, NEW r,
           k \in DOMAIN calls => r \in Calls, calls' = [calls EXCEPT ![k] = r]
    PROVE  calls' \in Seq(Calls) /\ DOMAIN calls' = DOMAIN calls
<1>1. calls \in Seq(Calls)
  BY DEF Typed
<1>2. \A new : new = [calls EXCEPT ![k] = r] => new \in Seq(Calls) /\ DOMAIN new = DOMAIN calls
  BY <1>1, ReplacedIf
<1>. QED
  BY <1>2

LEMMA ClaimFacts ==
    ASSUME Typed, Shape, NEW t \in Threads, Claim(t)
    PROVE  /\ Typed' /\ Shape' /\ Hands(t, <<>>) /\ inHand(t) = <<>>
           /\ DOMAIN calls' = DOMAIN calls
           /\ UNCHANGED <<file, queue, pending, disk, uploads, past>>
           /\ \E mine : \E each \in Seq(mine) :
                  /\ uploading' = uploading \cup mine /\ mine \cap uploading = {}
                  /\ \A i, j \in DOMAIN each : each[i] = each[j] => i = j
                  /\ Claims(t, each)
<1>1. At(t, "claim") /\ todo[t] # <<>> /\ inHand(t) = <<>>
      /\ arg(t) \in [call : Nat, files : SUBSET (1..Len(disk))]
  <2>1. At(t, "claim") /\ todo[t] # <<>>
    BY Waiting DEF Claim
  <2>. QED
    BY <2>1, ArgTypes DEF At
<1> DEFINE k == arg(t).call
           mine == arg(t).files \ uploading
           n == Cardinality(mine)
           each == SetToSeq(mine)
           steps == [i \in DOMAIN each |-> <<"read", [call |-> k, file |-> each[i]]>>]
<1>2. /\ uploading' = uploading \cup mine
      /\ calls' = [calls EXCEPT ![k].total = n, ![k].pending = n,
                                ![k].reports = IF n = 0 THEN 1 ELSE 0]
      /\ Then(t, steps)
      /\ UNCHANGED <<file, queue, pending, disk, uploads, past>>
  BY DEF Claim, OnlyUploads
<1>3. IsFiniteSet(mine) /\ mine \subseteq 1..Len(disk) /\ n \in Nat
  <2>1. Len(disk) \in Nat
    BY LenProperties DEF Typed
  <2>2. IsFiniteSet(1..Len(disk))
    BY <2>1, FS_Interval
  <2>3. mine \in SUBSET (1..Len(disk))
    BY <1>1
  <2>4. IsFiniteSet(mine)
    BY <2>2, <2>3, FS_Subset
  <2>. QED
    BY <2>3, <2>4, FS_CardinalityType
<1>. HIDE DEF mine
<1>4. /\ each \in Seq(mine) /\ DOMAIN each = 1..Len(each) /\ Len(each) \in Nat
      /\ \A i, j \in DOMAIN each : each[i] = each[j] => i = j
  <2>1. each \in Seq(mine) /\ Len(each) = n
        /\ \A i, j \in 1..n : each[i] = each[j] => i = j
    BY <1>3, AsSequence
  <2>. QED
    BY <2>1, LenProperties
<1>. HIDE DEF each, n
<1>5. /\ steps \in Seq(Steps(Len(disk))) /\ DOMAIN steps = DOMAIN each
      /\ Len(steps) = Len(each)
      /\ \A i \in DOMAIN steps : steps[i][1] = "read" /\ steps[i][2].file = each[i]
                               /\ linesOf(steps[i]) = <<>>
  <2>1. \A i \in DOMAIN each : <<"read", [call |-> k, file |-> each[i]]>> \in Steps(Len(disk))
    <3>. TAKE i \in DOMAIN each
    <3>1. each[i] \in 1..Len(disk) /\ k \in Nat
      BY <1>1, <1>3, <1>4, ElementOfSeq
    <3>. QED
      BY <3>1 DEF Steps
  <2>2. steps \in [1..Len(each) -> Steps(Len(disk))]
    BY <1>4, <2>1
  <2>. QED
    BY <1>4, <2>2 DEF linesOf
<1>. HIDE DEF steps
<1>6. \A i \in DOMAIN steps : i # 1 => steps[i][1] \in Later
  BY <1>5 DEF Later
<1>7. /\ todo' \in [Threads -> Seq(Steps(Len(disk)))] /\ Shape'
      /\ \A u \in Threads : u # t => todo'[u] = todo[u]
      /\ inHand(t)' = IF steps = <<>> THEN <<>> ELSE linesOf(steps[1])
      /\ \A u \in Threads : u # t => inHand(u)' = inHand(u)
      /\ \A i \in DOMAIN todo'[t] :
             \/ i \in DOMAIN steps /\ todo'[t][i] = steps[i]
             \/ /\ i \notin DOMAIN steps
                /\ i - Len(steps) + 1 \in DOMAIN todo[t] /\ i - Len(steps) + 1 # 1
                /\ todo'[t][i] = todo[t][i - Len(steps) + 1]
  <2>1. todo \in [Threads -> Seq(Steps(Len(disk)))]
    BY DEF Typed
  <2>. QED
    BY <1>1, <1>2, <1>5, <1>6, <2>1, ThenSteps
<1>8. Hands(t, <<>>)
  <2>1. steps # <<>> => 1 \in DOMAIN steps
    BY <1>4, <1>5
  <2>. QED
    BY <1>5, <1>7, <2>1 DEF Hands
<1>9. Claims(t, each)
  <2> DEFINE d == [u \in Threads |-> IF u = t THEN 1 - Len(each) ELSE 0]
  <2>1. d \in [Threads -> Int]
    BY <1>4
  <2>2. ASSUME NEW u \in Threads, NEW i \in DOMAIN todo'[u], todo'[u][i][1] = "read"
        PROVE  \/ u = t /\ i \in DOMAIN each /\ todo'[u][i][2].file = each[i]
               \/ i + d[u] \in DOMAIN todo[u] /\ todo[u][i + d[u]] = todo'[u][i]
    <3>0. i \in Int
      <4>1. todo'[u] \in Seq(Steps(Len(disk)))
        BY <1>7
      <4>2. i \in 1..Len(todo'[u])
        BY <2>2, <4>1, LenProperties
      <4>. QED
        BY <4>2
    <3>1. CASE u = t
      <4>1. i + d[t] = i - Len(steps) + 1
        BY <1>4, <1>5, <3>0
      <4>. QED
        BY <1>5, <1>7, <2>2, <3>1, <4>1
    <3>2. CASE u # t
      <4>1. i + d[u] = i
        BY <3>0, <3>2
      <4>. QED
        BY <1>7, <2>2, <3>2, <4>1
    <3>. QED
      BY <3>1, <3>2
  <2>. HIDE DEF d
  <2>. QED
    BY <2>1, <2>2 DEF Claims
<1>10. calls' \in Seq(Calls) /\ DOMAIN calls' = DOMAIN calls
  <2> DEFINE r == [calls[k] EXCEPT !.total = n, !.pending = n,
                                   !.reports = IF n = 0 THEN 1 ELSE 0]
  <2>1. ASSUME k \in DOMAIN calls PROVE r \in Calls
    <3>. HIDE DEF k
    <3>1. calls[k] \in Calls
      <4>1. calls \in Seq(Calls)
        BY DEF Typed
      <4>. QED
        BY <2>1, <4>1, LenProperties, ElementOfSeq
    <3>2. (IF n = 0 THEN 1 ELSE 0) \in Int /\ n \in Nat /\ n \in Int
      BY <1>3
    <3>. QED
      BY <3>1, <3>2 DEF Calls
  <2>2. calls' = [calls EXCEPT ![k] = r]
    BY <1>2
  <2>. HIDE DEF r, k
  <2>. QED
    BY <2>1, <2>2, CallReplaced
<1>11. Typed'
  BY <1>2, <1>7, <1>10 DEF Typed
<1>12. mine \cap uploading = {}
  BY DEF mine
<1>. QED
  BY <1>1, <1>2, <1>4, <1>7, <1>8, <1>9, <1>10, <1>11, <1>12

LEMMA NewLogFacts ==
    ASSUME Typed, Shape, NEW t \in Threads, NewLog(t)
    PROVE  /\ Typed' /\ Shape' /\ ReadsKept /\ Hands(t, <<>>) /\ inHand(t) = <<>>
           /\ Len(disk') = Len(disk) + 1 /\ Len(disk) \in Nat
           /\ DOMAIN disk = 1..Len(disk) /\ DOMAIN disk' = 1..(Len(disk) + 1)
           /\ disk'[Len(disk) + 1].open /\ disk'[Len(disk) + 1].exists
           /\ \E name : Shift(In(name), Len(disk) + 1, {}, {})
           /\ \A f \in DOMAIN disk : disk'[f].open = disk[f].open
           /\ UNCHANGED <<file, queue, pending, uploading, uploads, calls>>
           /\ todo[t] = <<>> /\ todo'[t] = << <<"swap", Len(disk) + 1>>, <<"date">> >>
           /\ \A u \in Threads : u # t => todo'[u] = todo[u]
<1>1. PICK name \in {disk[f].name : f \in DOMAIN disk} \cup {Len(disk) + 1} :
          /\ disk' = Append(Without(In(name)),
                            [name |-> name, lines |-> {}, open |-> TRUE, exists |-> TRUE])
          /\ Lose(In(name))
  BY DEF NewLog
<1> DEFINE r == [name |-> name, lines |-> {}, open |-> TRUE, exists |-> TRUE]
           n == Len(disk) + 1
           two == << <<"swap", n>>, <<"date">> >>
           gone == In(name)
<1>2. disk' = Append(Without(gone), r) /\ Lose(gone) /\ Starts(t, two)
      /\ UNCHANGED <<file, queue, pending, uploading, uploads, calls>>
  BY <1>1 DEF NewLog
<1>3. disk \in Seq(LogFile) /\ Len(disk) \in Nat /\ DOMAIN disk = 1..Len(disk) /\ n \in Nat
      /\ n = Len(disk) + 1 /\ Len(disk) + 1 \notin DOMAIN disk
      /\ 1..Len(disk) \subseteq 1..n /\ n \in 1..n
  <2>1. disk \in Seq(LogFile) /\ Len(disk) \in Nat /\ DOMAIN disk = 1..Len(disk)
    BY Disk DEF Typed
  <2>. QED
    BY <2>1
<1>4. r \in LogFile /\ name \in 1..n /\ r.name = name /\ r.lines = {} /\ r.open /\ r.exists
  <2>1. name \in 1..n
    BY <1>1, <1>3, Disk
  <2>2. name \in Nat
    BY <1>3, <2>1
  <2>. QED
    BY <2>1, <2>2 DEF LogFile
<1>5. /\ Without(gone) \in Seq(LogFile) /\ Len(Without(gone)) = Len(disk)
      /\ \A f \in DOMAIN disk :
             /\ Without(gone)[f].lines = disk[f].lines \ gone
             /\ Without(gone)[f].name = disk[f].name
             /\ Without(gone)[f].open = disk[f].open
             /\ Without(gone)[f].exists = disk[f].exists
  BY WithoutFile
<1>6. gone \in SUBSET Nat /\ gone \subseteq onDisk
  BY InFile
<1>. HIDE DEF two, n, r, gone
<1>7. /\ disk' \in Seq(LogFile) /\ Len(disk') = Len(disk) + 1 /\ Len(disk') = n
      /\ \A f \in DOMAIN disk : disk'[f] = Without(gone)[f]
      /\ disk'[Len(disk) + 1] = r
  BY <1>2, <1>3, <1>4, <1>5, AppendProperties
<1>8. DOMAIN disk' = 1..(Len(disk) + 1) /\ DOMAIN disk' = DOMAIN disk \cup {Len(disk) + 1}
  BY <1>3, <1>7, LenProperties
<1>9. \A f \in DOMAIN disk' : disk'[f].name \in 1..Len(disk')
  <2>1. \A f \in DOMAIN disk : disk'[f].name \in 1..Len(disk)
    BY <1>5, <1>7, Disk
  <2>. QED
    BY <1>3, <1>4, <1>7, <1>8, <2>1
<1>10. Steps(Len(disk)) \subseteq Steps(n) /\ Uploads(Len(disk)) \subseteq Uploads(n)
       /\ Pasts(Len(disk)) \subseteq Pasts(n)
  BY <1>3, MoreSteps
<1>11. todo \in [Threads -> Seq(Steps(n))]
  <2>1. todo \in [Threads -> Seq(Steps(Len(disk)))]
    BY DEF Typed
  <2>2. \A u \in Threads : todo[u] \in Seq(Steps(n))
    BY <1>10, <2>1, SeqMonotonic
  <2>. QED
    BY <2>1, <2>2
<1>12. /\ two \in Seq(Steps(n)) /\ two # <<>> /\ DOMAIN two = {1, 2}
       /\ two[1] = <<"swap", n>> /\ two[2] = <<"date">>
  <2>1. <<"swap", n>> \in Steps(n) /\ <<"date">> \in Steps(n)
    BY <1>3 DEF Steps
  <2> DEFINE a == <<"swap", n>>
             b == <<"date">>
  <2>2. a \in Steps(n) /\ b \in Steps(n) /\ two = <<a, b>>
    BY <2>1 DEF two
  <2>. HIDE DEF a, b
  <2>3. /\ <<a, b>> \in Seq(Steps(n)) /\ <<a, b>> # <<>> /\ DOMAIN <<a, b>> = {1, 2}
        /\ <<a, b>>[1] = a /\ <<a, b>>[2] = b
    BY <2>2
  <2>. QED
    BY <2>2, <2>3 DEF a, b
<1>13. /\ \A i \in DOMAIN two : i # 1 => two[i][1] \in Later
       /\ \A i \in DOMAIN two : two[i][1] # "read"
       /\ linesOf(two[1]) = <<>>
  BY <1>12 DEF Later, linesOf
<1>14. /\ todo' \in [Threads -> Seq(Steps(n))] /\ Shape'
       /\ todo'[t] = two /\ \A u \in Threads : u # t => todo'[u] = todo[u]
       /\ inHand(t) = <<>> /\ inHand(t)' = linesOf(two[1])
       /\ \A u \in Threads : u # t => inHand(u)' = inHand(u)
       /\ ReadsKept
  BY <1>2, <1>11, <1>12, <1>13, StartSteps
<1>15. past' \in Pasts(n) /\ uploads' \in SUBSET Uploads(n) /\ file' \in 0..n
  <2>1. uploads' \in SUBSET Uploads(n)
    BY <1>2, <1>10 DEF Typed
  <2>2. file' \in 0..n
    BY <1>2, <1>3 DEF Typed, n
  <2>3. past' \in Pasts(n)
    BY <1>2, <1>6, <1>10, Losing
  <2>. QED
    BY <2>1, <2>2, <2>3
<1>16. Typed'
  <2>1. queue' \in Seq(Seq(Nat)) /\ pending' \in Seq(Nat) /\ calls' \in Seq(Calls)
    BY <1>2 DEF Typed
  <2>2. Len(disk') = n
    BY <1>7
  <2>. QED
    BY <1>7, <1>9, <1>14, <1>15, <2>1, <2>2 DEF Typed
<1>17. Hands(t, <<>>)
  BY <1>13, <1>14 DEF Hands
<1>18. todo[t] = <<>>
  BY <1>2 DEF Starts
<1>19. Shift(gone, Len(disk) + 1, {}, {})
  <2>1. /\ past'.lost = past.lost \cup gone
        /\ past'.lines = past.lines /\ past'.accepted = past.accepted
    BY <1>2, <1>6, Losing
  <2>2. \A g \in DOMAIN disk : /\ g \in DOMAIN disk' /\ disk'[g].name = disk[g].name
                               /\ disk'[g].exists = disk[g].exists
                               /\ disk'[g].lines = old(g) \ gone
    BY <1>5, <1>7, <1>8 DEF old
  <2>3. disk'[Len(disk) + 1].lines = old(Len(disk) + 1) \ gone
    BY <1>3, <1>4, <1>7 DEF old
  <2>4. \A g \in DOMAIN disk' : disk'[g].lines = old(g) \ gone
    BY <1>8, <2>2, <2>3
  <2>. HIDE DEF old
  <2>. QED
    BY <1>6, <2>1, <2>2, <2>4 DEF Shift
<1>. QED
  BY <1>2, <1>3, <1>4, <1>5, <1>7, <1>8, <1>14, <1>16, <1>17, <1>18, <1>19 DEF two, n, gone

LEMMA UploadFacts ==
    ASSUME Typed, Shape, NEW t \in Threads, UploadAllLogs(t)
    PROVE  /\ Typed' /\ Shape' /\ ReadsKept /\ Hands(t, <<>>) /\ inHand(t) = <<>>
           /\ DOMAIN calls' # {}
<1> DEFINE k == Len(calls) + 1
           r == [total |-> 0, pending |-> 0, reports |-> 0]
           a == <<"stop">>
           b == <<"files", k>>
           two == <<a, b>>
<1>1. calls' = Append(calls, r) /\ Starts(t, two)
      /\ UNCHANGED <<file, queue, pending, disk, uploads, past>>
  BY DEF UploadAllLogs, OnlyUploads
<1>2. r \in Calls /\ k \in Nat /\ calls \in Seq(Calls)
  BY LenProperties DEF Typed, Calls
<1>3. calls' \in Seq(Calls) /\ Len(calls') = k
  BY <1>1, <1>2, AppendProperties
<1>4. DOMAIN calls' # {}
  <2>1. DOMAIN calls' = 1..k /\ k >= 1
    BY <1>2, <1>3, LenProperties
  <2>. QED
    BY <1>2, <2>1
<1>5. a \in Steps(Len(disk)) /\ b \in Steps(Len(disk)) /\ a[1] = "stop" /\ b[1] = "files"
      /\ linesOf(a) = <<>>
  BY <1>2 DEF Steps, linesOf
<1>. HIDE DEF a, b
<1>6. /\ two \in Seq(Steps(Len(disk))) /\ two # <<>> /\ DOMAIN two = {1, 2}
      /\ two[1] = a /\ two[2] = b
  BY <1>5
<1>. HIDE DEF two
<1>7. /\ \A i \in DOMAIN two : i # 1 => two[i][1] \in Later
      /\ \A i \in DOMAIN two : two[i][1] # "read"
  BY <1>5, <1>6 DEF Later
<1>8. /\ todo' \in [Threads -> Seq(Steps(Len(disk)))] /\ Shape'
      /\ inHand(t) = <<>> /\ inHand(t)' = linesOf(two[1])
      /\ \A u \in Threads : u # t => inHand(u)' = inHand(u)
      /\ ReadsKept
  <2>1. todo \in [Threads -> Seq(Steps(Len(disk)))]
    BY DEF Typed
  <2>. QED
    BY <1>1, <1>6, <1>7, <2>1, StartSteps
<1>9. Typed'
  BY <1>1, <1>3, <1>8 DEF Typed
<1>. QED
  BY <1>4, <1>5, <1>6, <1>8, <1>9 DEF Hands

\* A file is gone, with what is in it.
LEMMA RemovedFile ==
    ASSUME Typed, NEW name, disk' = Removed(name)
    PROVE  /\ SameFiles
           /\ \A f \in DOMAIN disk :
                  /\ disk'[f].open = disk[f].open
                  /\ f \in Named(name) => disk'[f].lines = {} /\ ~disk'[f].exists
                  /\ f \notin Named(name) => disk'[f] = disk[f]
<1> DEFINE none(f) == [disk[f] EXCEPT !.lines = {}, !.exists = FALSE]
           new(f) == IF f \in Named(name) THEN none(f) ELSE disk[f]
<1>1. \A f \in DOMAIN disk : /\ none(f) \in LogFile /\ none(f).lines = {} /\ ~none(f).exists
                             /\ none(f).name = disk[f].name /\ none(f).open = disk[f].open
  <2>. TAKE f \in DOMAIN disk
  <2>1. disk[f] \in LogFile
    BY Disk
  <2>. QED
    BY <2>1 DEF LogFile
<1>2. disk' = [f \in DOMAIN disk |-> new(f)]
  BY DEF Removed
<1>. HIDE DEF none
<1>3. \A f \in DOMAIN disk : /\ new(f) \in LogFile /\ new(f).name = disk[f].name
                             /\ new(f).open = disk[f].open
                             /\ f \in Named(name) => new(f).lines = {} /\ ~new(f).exists
                             /\ f \notin Named(name) => new(f) = disk[f]
  BY <1>1, Disk
<1>. HIDE DEF new
<1>4. disk' \in [1..Len(disk) -> LogFile] /\ DOMAIN disk' = DOMAIN disk
  BY <1>2, <1>3, Disk
<1>5. disk' \in Seq(LogFile)
  BY <1>4, Disk
<1>6. Len(disk') = Len(disk)
  <2>1. 1..Len(disk') = 1..Len(disk) /\ Len(disk') \in Nat
    BY <1>4, <1>5, Disk, LenProperties
  <2>. QED
    BY <2>1, Disk, SameInterval
<1>. QED
  BY <1>2, <1>3, <1>4, <1>5, <1>6 DEF SameFiles

hows == {"taken", "unseen", "refused"}
LEMMA FinishFacts ==
    ASSUME Typed, Shape, NEW u \in uploads, NEW how \in hows, FinishOne(u, how)
    PROVE  /\ Typed' /\ UNCHANGED <<todo, file, queue, pending, uploading>>
           /\ DOMAIN calls' = DOMAIN calls /\ SameFiles
           /\ disk' = IF how = "taken" THEN Removed(u.file) ELSE disk
           /\ how # "refused" => u.at = "sent"
           /\ past'.lines = past.lines
           /\ past'.lost = past.lost \cup (IF how = "taken" THEN In(u.file) \ u.payload ELSE {})
           /\ how = "refused" => past'.accepted = past.accepted
           /\ how # "refused" =>
                  \E x \in Uploads(Len(disk)) : /\ x.payload = u.payload /\ x.at = how
                                                /\ past'.accepted = past.accepted \cup {x}
           /\ \E w \in Uploads(Len(disk)) :
                  /\ uploads' = (uploads \ {u}) \cup {w}
                  /\ w.file = u.file /\ w.at \in {"last", "done"}
<1>1. u \in Uploads(Len(disk))
  BY DEF Typed
<1>2. /\ disk' = IF how = "taken" THEN Removed(u.file) ELSE disk
      /\ UNCHANGED <<todo, file, queue, pending, uploading>>
      /\ how # "refused" => u.at = "sent"
  BY DEF FinishOne, OnlyUploads, hows
<1>3. SameFiles
  <2>1. CASE how = "taken"
    BY <1>2, <2>1, RemovedFile
  <2>2. CASE how # "taken"
    BY <1>2, <2>2 DEF SameFiles, Typed
  <2>. QED
    BY <2>1, <2>2
<1> DEFINE w == [u EXCEPT !.at = IF calls[u.call].pending = 1 THEN "last" ELSE "done"]
           x == [u EXCEPT !.at = how]
           out == IF how = "taken" THEN In(u.file) \ u.payload ELSE {}
           new == IF how = "refused" THEN {} ELSE {x}
<1>4. uploads' = (uploads \ {u}) \cup {w}
  BY DEF FinishOne
<1>5. w \in Uploads(Len(disk)) /\ w.file = u.file /\ w.at \in {"last", "done"}
  BY <1>1 DEF Uploads
<1>6. how # "refused" => x \in Uploads(Len(disk)) /\ x.payload = u.payload /\ x.at = how
  BY <1>1 DEF Uploads, hows
<1>7. past' = [past EXCEPT !.lost = @ \cup out, !.accepted = @ \cup new]
  BY DEF FinishOne
<1>8. out \in SUBSET Nat
  BY InFile
<1>9. new \in SUBSET Uploads(Len(disk))
  BY <1>6
<1>. HIDE DEF w, x, out
<1>10. /\ past' \in Pasts(Len(disk)) /\ past'.lines = past.lines
       /\ past'.lost = past.lost \cup out /\ past'.accepted = past.accepted \cup new
  <2> DEFINE A == SUBSET Uploads(Len(disk))
             N == SUBSET Nat
  <2>1. past \in [lines : Nat, lost : N, accepted : A]
    BY DEF Typed, Pasts
  <2>2. past.accepted \cup new \in A /\ past.lost \cup out \in N
    BY <1>8, <1>9, <2>1
  <2>. HIDE DEF A, N, new
  <2>3. /\ past' \in [lines : Nat, lost : N, accepted : A] /\ past'.lines = past.lines
        /\ past'.lost = past.lost \cup out /\ past'.accepted = past.accepted \cup new
    BY <1>7, <2>1, <2>2
  <2>. QED
    BY <2>3 DEF A, N, Pasts
<1>11. uploads' \in SUBSET Uploads(Len(disk))
  BY <1>4, <1>5 DEF Typed
<1>12. calls' \in Seq(Calls) /\ DOMAIN calls' = DOMAIN calls
  <2> DEFINE k == u.call
             r == [calls[k] EXCEPT !.pending = @ - 1]
  <2>1. ASSUME k \in DOMAIN calls PROVE r \in Calls
    <3>1. calls \in Seq(Calls)
      BY DEF Typed
    <3>. HIDE DEF k
    <3>2. calls[k] \in Calls
      BY <2>1, <3>1, LenProperties, ElementOfSeq
    <3>. QED
      BY <3>2 DEF Calls
  <2>2. calls' = [calls EXCEPT ![k] = r]
    BY DEF FinishOne
  <2>. HIDE DEF r, k
  <2>. QED
    BY <2>1, <2>2, CallReplaced
<1>13. Typed'
  BY <1>2, <1>3, <1>10, <1>11, <1>12, FilesTyped DEF Typed
<1>14. how = "refused" => past'.accepted = past.accepted
  BY <1>10
<1>15. how # "refused" => past'.accepted = past.accepted \cup {x}
  BY <1>10
<1>. QED
  BY <1>2, <1>3, <1>4, <1>5, <1>6, <1>10, <1>12, <1>13, <1>14, <1>15 DEF out

LEMMA ReleaseFacts ==
    ASSUME Typed, Shape, NEW u \in uploads, Release(u)
    PROVE  /\ Typed' /\ UNCHANGED <<todo, file, queue, pending, disk, past>>
           /\ DOMAIN calls' = DOMAIN calls
           /\ uploading' = uploading \ {u.file} /\ uploads' = uploads \ {u}
<1>1. /\ UNCHANGED <<todo, file, queue, pending, disk, past>>
      /\ uploading' = uploading \ {u.file} /\ uploads' = uploads \ {u}
  BY DEF Release, OnlyUploads
<1>2. calls' \in Seq(Calls) /\ DOMAIN calls' = DOMAIN calls
  <2> DEFINE k == u.call
             more == IF u.at = "last" THEN 1 ELSE 0
             r == [calls[k] EXCEPT !.reports = @ + more]
  <2>0. more \in Int
    OBVIOUS
  <2>1. ASSUME k \in DOMAIN calls PROVE r \in Calls
    <3>1. calls \in Seq(Calls)
      BY DEF Typed
    <3>. HIDE DEF k, more
    <3>2. calls[k] \in Calls
      BY <2>1, <3>1, LenProperties, ElementOfSeq
    <3>. QED
      BY <2>0, <3>2 DEF Calls
  <2>2. calls' = [calls EXCEPT ![k] = r]
    BY DEF Release
  <2>. HIDE DEF r, k
  <2>. QED
    BY <2>1, <2>2, CallReplaced
<1>3. Typed'
  BY <1>1, <1>2 DEF Typed
<1>. QED
  BY <1>1, <1>2, <1>3

\* Pop, and Drain while there are messages.
Takes(t) ==
    /\ queue # <<>> /\ queue' = Tail(queue)
    /\ \E name \in {"stop", "pop"} :
           /\ At(t, name)
           /\ Then(t, << <<"write", [message |-> Head(queue), f |-> file]>>, <<name>> >>)
    /\ UNCHANGED <<file, pending, disk, uploading, uploads, calls, past>>

LEMMA TakesFacts ==
    ASSUME Typed, Shape, NEW t \in Threads, Takes(t)
    PROVE  Typed' /\ Shape' /\ ReadsKept /\ Hands(t, Head(queue)) /\ inHand(t) = <<>>
<1>1. PICK name \in {"stop", "pop"} :
          /\ At(t, name)
          /\ Then(t, << <<"write", [message |-> Head(queue), f |-> file]>>, <<name>> >>)
  BY DEF Takes
<1>2. todo[t] # <<>>
  BY <1>1, Waiting
<1>3. Typed' /\ Shape' /\ ReadsKept /\ Hands(t, Head(queue))
  <2>1. queue # <<>> /\ queue' = Tail(queue)
        /\ UNCHANGED <<file, pending, disk, uploads, calls, past>>
    BY DEF Takes
  <2>. QED
    BY <1>1, <1>2, <2>1, TakeFacts
<1>4. inHand(t) = <<>>
  BY <1>1, <1>2, ArgTypes DEF At
<1>. QED
  BY <1>3, <1>4

\* What a step may be.
Steppable(t) ==
    \/ Log(t) \/ Date(t) \/ Enqueue(t) \/ Pend(t) \/ Takes(t) \/ Write(t) \/ NewLog(t)
    \/ Swap(t) \/ (Drain(t) /\ DrainEnds(t)) \/ UploadAllLogs(t) \/ Files(t)

LEMMA NextCases ==
    ASSUME Next
    PROVE  \/ \E t \in Threads : Steppable(t) \/ Claim(t) \/ Read(t)
           \/ \E u \in uploads : (\E how \in hows : FinishOne(u, how)) \/ Release(u)
<1>1. Pop => "worker" \in Threads /\ Takes("worker")
  BY DEF Pop, Takes, Threads, OnlyLines
<1>2. \A t : Drain(t) => Takes(t) \/ DrainEnds(t)
  <2>. SUFFICES ASSUME NEW t, Drain(t), ~DrainEnds(t)
                PROVE  Takes(t)
    OBVIOUS
  <2>1. /\ At(t, "stop") /\ queue # <<>> /\ queue' = Tail(queue)
        /\ Then(t, << <<"write", [message |-> Head(queue), f |-> file]>>, <<"stop">> >>)
        /\ UNCHANGED <<file, disk>>
    BY DEF Drain, DrainEnds
  <2>2. UNCHANGED <<pending, uploading, uploads, calls, past>>
    BY DEF Drain, OnlyFiles
  <2>. QED
    BY <2>1, <2>2 DEF Takes
<1>3. Loggers \subseteq Threads
  BY DEF Threads
<1>4. CASE \E t \in Loggers : Log(t) \/ NewLog(t) \/ UploadAllLogs(t)
  BY <1>3, <1>4 DEF Steppable
<1>5. CASE \E t \in Threads : Step(t)
  BY <1>2, <1>5 DEF Step, Steppable
<1>6. CASE Pop
  BY <1>1, <1>6 DEF Steppable
<1>7. CASE Finish
  BY <1>7 DEF Finish, hows
<1>. QED
  BY <1>4, <1>5, <1>6, <1>7 DEF Next

\* Most steps leave uploads alone.
Quiet == ReadsKept /\ UNCHANGED <<uploading, uploads>>
LEMMA QuietSteps ==
    ASSUME Typed, Shape, NEW t \in Threads, Steppable(t)
    PROVE  Typed' /\ Shape' /\ Quiet
<1>1. CASE Log(t) \/ Date(t)
  BY <1>1, LogFacts, DateFacts DEF Log, Date, Quiet
<1>2. CASE Enqueue(t) \/ Pend(t)
  BY <1>2, EnqueueFacts, PendFacts DEF Quiet, Enqueue, Pend, OnlyLines
<1>3. CASE Takes(t)
  BY <1>3, TakesFacts DEF Quiet, Takes
<1>4. CASE Write(t)
  BY <1>4, WriteFacts DEF Quiet
<1>5. CASE NewLog(t)
  BY <1>5, NewLogFacts DEF Quiet
<1>6. CASE Swap(t)
  BY <1>6, SwapFacts DEF Quiet, Swap
<1>7. CASE Drain(t) /\ DrainEnds(t)
  BY <1>7, DrainEndFacts DEF Quiet, Drain, OnlyFiles
<1>8. CASE UploadAllLogs(t)
  BY <1>8, UploadFacts DEF Quiet, UploadAllLogs
<1>9. CASE Files(t)
  BY <1>9, FilesFacts DEF Quiet, Files
<1>. QED
  BY <1>1, <1>2, <1>3, <1>4, <1>5, <1>6, <1>7, <1>8, <1>9 DEF Steppable

-------------------------------------------------------------------------------
(* The uploads.                                                              *)

\* The types are kept.
LEMMA TypesKeep ==
    ASSUME Typed, Shape, [Next]_vars
    PROVE  Typed' /\ Shape'
<1>1. CASE UNCHANGED vars
  BY <1>1 DEF vars, Typed, Shape
<1>2. CASE \E t \in Threads : Steppable(t) \/ Claim(t) \/ Read(t)
  BY <1>2, QuietSteps, ClaimFacts, ReadFacts
<1>3. CASE \E u \in uploads : (\E how \in hows : FinishOne(u, how)) \/ Release(u)
  <2>1. Typed' /\ UNCHANGED todo
    BY <1>3, FinishFacts, ReleaseFacts
  <2>. QED
    BY <2>1 DEF Shape
<1>. QED
  BY <1>1, <1>2, <1>3, NextCases

LEMMA Indices ==
    ASSUME Typed, NEW t \in Threads
    PROVE  DOMAIN todo[t] \subseteq Int
<1>1. todo[t] \in Seq(Steps(Len(disk)))
  BY DEF Typed
<1>. QED
  BY <1>1, LenProperties

\* The reads left are those there were, but one.
LEMMA ReadGone ==
    ASSUME Typed, Shape, NEW t \in Threads, Read(t)
    PROVE  /\ isRead(t, 1) /\ todo[t][1][2] = arg(t)
           /\ \A i \in DOMAIN todo'[t] : /\ i + 1 \in DOMAIN todo[t] /\ i + 1 # 1
                                         /\ todo'[t][i] = todo[t][i + 1]
           /\ \A u \in Threads : u # t => todo'[u] = todo[u]
<1>1. todo[t] # <<>> /\ At(t, "read") /\ Then(t, <<>>)
  BY Waiting DEF Read
<1>2. isRead(t, 1) /\ todo[t][1][2] = arg(t)
  <2>1. todo[t] \in Seq(Steps(Len(disk)))
    BY DEF Typed
  <2>2. 1 \in DOMAIN todo[t] /\ Head(todo[t]) = todo[t][1]
    BY <1>1, <2>1, LenProperties
  <2>. QED
    BY <1>1, <2>2 DEF isRead, At, arg
<1>3. <<>> \in Seq(Steps(Len(disk))) /\ DOMAIN <<>> = {} /\ Len(<<>>) = 0
  BY EmptySeq
<1>4. /\ \A u \in Threads : u # t => todo'[u] = todo[u]
      /\ \A i \in DOMAIN todo'[t] :
             i - 0 + 1 \in DOMAIN todo[t] /\ i - 0 + 1 # 1 /\ todo'[t][i] = todo[t][i - 0 + 1]
  <2>1. todo \in [Threads -> Seq(Steps(Len(disk)))]
    BY DEF Typed
  <2>. QED
    BY <1>1, <1>3, <2>1, ThenSteps
<1>5. \A i \in DOMAIN todo'[t] : i - 0 + 1 = i + 1
  <2>1. Typed'
    BY ReadFacts
  <2>2. todo'[t] \in Seq(Steps(Len(disk')))
    BY <2>1 DEF Typed
  <2>3. DOMAIN todo'[t] \subseteq Int
    BY <2>2, LenProperties
  <2>. QED
    BY <2>3
<1>. QED
  BY <1>2, <1>4, <1>5

LEMMA ClaimedKeeps ==
    ASSUME Typed, Shape, Claimed, [Next]_vars
    PROVE  Claimed'
<1>1. ASSUME ReadsKept, UNCHANGED <<uploading, uploads>>
      PROVE  Claimed'
  <2>1. PICK d \in [Threads -> Int] : \A t \in Threads : \A i \in DOMAIN todo'[t] :
          todo'[t][i][1] = "read" =>
              i + d[t] \in DOMAIN todo[t] /\ todo[t][i + d[t]] = todo'[t][i]
    BY <1>1 DEF ReadsKept
  <2>2. \A t \in Threads : \A i \in DOMAIN todo'[t] : isRead(t, i)' =>
          /\ i + d[t] \in DOMAIN todo[t] /\ isRead(t, i + d[t])
          /\ todo'[t][i][2].file = todo[t][i + d[t]][2].file
    BY <2>1 DEF isRead
  <2>3. Typed'
    BY TypesKeep
  <2>4. \A t \in Threads : \A i, j \in DOMAIN todo'[t] : i + d[t] = j + d[t] => i = j
    <3>. TAKE t \in Threads
    <3>1. todo'[t] \in Seq(Steps(Len(disk')))
      BY <2>3 DEF Typed
    <3>2. DOMAIN todo'[t] \subseteq Int
      BY <3>1, LenProperties
    <3>3. d[t] \in Int
      OBVIOUS
    <3>4. \A i, j, n \in Int : i + n = j + n => i = j
      OBVIOUS
    <3>. QED
      BY <3>2, <3>3, <3>4
  <2>. HIDE DEF isRead
  <2>. QED
    BY <1>1, <2>2, <2>4 DEF Claimed
<1>2. CASE UNCHANGED vars
  BY <1>2 DEF vars, Claimed, isRead
<1>3. ASSUME NEW t \in Threads, Claim(t)
      PROVE  Claimed'
  <2>1. Typed' /\ UNCHANGED <<disk, uploads>>
    BY <1>3, ClaimFacts
  <2>2. PICK mine : \E each \in Seq(mine) :
            /\ uploading' = uploading \cup mine /\ mine \cap uploading = {}
            /\ \A i, j \in DOMAIN each : each[i] = each[j] => i = j
            /\ Claims(t, each)
    BY <1>3, ClaimFacts
  <2>3. PICK each \in Seq(mine) :
            /\ uploading' = uploading \cup mine /\ mine \cap uploading = {}
            /\ \A i, j \in DOMAIN each : each[i] = each[j] => i = j
            /\ Claims(t, each)
    BY <2>2
  <2>4. PICK d \in [Threads -> Int] : \A u \in Threads : \A i \in DOMAIN todo'[u] :
            todo'[u][i][1] = "read" =>
                \/ u = t /\ i \in DOMAIN each /\ todo'[u][i][2].file = each[i]
                \/ i + d[u] \in DOMAIN todo[u] /\ todo[u][i + d[u]] = todo'[u][i]
    BY <2>3 DEF Claims
  <2>5. \A i \in DOMAIN each : each[i] \in mine
    BY <2>3, LenProperties, ElementOfSeq
  <2>6. \A u \in Threads : \A i \in DOMAIN todo'[u] : isRead(u, i)' =>
            \/ /\ u = t /\ i \in DOMAIN each /\ todo'[u][i][2].file = each[i]
               /\ todo'[u][i][2].file \in mine
            \/ /\ i + d[u] \in DOMAIN todo[u] /\ isRead(u, i + d[u])
               /\ todo'[u][i][2].file = todo[u][i + d[u]][2].file
               /\ todo'[u][i][2].file \in uploading
    BY <2>4, <2>5 DEF isRead, Claimed
  <2>7. \A u \in Threads : \A i, j \in DOMAIN todo'[u] : i + d[u] = j + d[u] => i = j
    <3>. TAKE u \in Threads
    <3>1. todo'[u] \in Seq(Steps(Len(disk')))
      BY <2>1 DEF Typed
    <3>2. DOMAIN todo'[u] \subseteq Int
      BY <3>1, LenProperties
    <3>3. d[u] \in Int
      OBVIOUS
    <3>4. \A i, j, n \in Int : i + n = j + n => i = j
      OBVIOUS
    <3>. QED
      BY <3>2, <3>3, <3>4
  <2>. HIDE DEF isRead
  <2>8. ASSUME NEW t1 \in Threads, NEW t2 \in Threads,
               NEW i \in DOMAIN todo'[t1], NEW j \in DOMAIN todo'[t2],
               isRead(t1, i)', isRead(t2, j)',
               todo'[t1][i][2].file = todo'[t2][j][2].file
        PROVE  t1 = t2 /\ i = j
    <3>1. CASE todo'[t1][i][2].file \in mine
      <4>1. todo'[t1][i][2].file \notin uploading
        BY <2>3, <3>1
      <4>2. /\ t1 = t /\ i \in DOMAIN each /\ todo'[t1][i][2].file = each[i]
            /\ t2 = t /\ j \in DOMAIN each /\ todo'[t2][j][2].file = each[j]
        BY <2>6, <2>8, <4>1
      <4>. QED
        BY <2>3, <2>8, <4>2
    <3>2. CASE todo'[t1][i][2].file \notin mine
      <4>1. /\ i + d[t1] \in DOMAIN todo[t1] /\ isRead(t1, i + d[t1])
            /\ todo'[t1][i][2].file = todo[t1][i + d[t1]][2].file
            /\ j + d[t2] \in DOMAIN todo[t2] /\ isRead(t2, j + d[t2])
            /\ todo'[t2][j][2].file = todo[t2][j + d[t2]][2].file
        BY <2>6, <2>8, <3>2
      <4>2. t1 = t2 /\ i + d[t1] = j + d[t2]
        BY <2>8, <4>1 DEF Claimed
      <4>. QED
        BY <2>7, <4>2
    <3>. QED
      BY <3>1, <3>2
  <2>9. ASSUME NEW t1 \in Threads, NEW i \in DOMAIN todo'[t1], NEW u \in uploads',
               isRead(t1, i)'
        PROVE  todo'[t1][i][2].file # u.file
    <3>1. u \in uploads /\ u.file \in uploading
      BY <2>1 DEF Claimed
    <3>. QED
      BY <2>3, <2>6, <2>9, <3>1 DEF Claimed
  <2>10. \A t1 \in Threads : \A i \in DOMAIN todo'[t1] :
             isRead(t1, i)' => todo'[t1][i][2].file \in uploading'
    BY <2>3, <2>6
  <2>11. /\ \A u \in uploads' : u.file \in uploading'
         /\ \A u, v \in uploads' : u.file = v.file => u = v
    BY <2>1, <2>3 DEF Claimed
  <2>. QED
    BY <2>8, <2>9, <2>10, <2>11 DEF Claimed
<1>4. ASSUME NEW t \in Threads, Read(t)
      PROVE  Claimed'
  <2>1. /\ isRead(t, 1) /\ todo[t][1][2] = arg(t) /\ 1 \in DOMAIN todo[t]
        /\ \A i \in DOMAIN todo'[t] : /\ i + 1 \in DOMAIN todo[t] /\ i + 1 # 1
                                      /\ todo'[t][i] = todo[t][i + 1]
        /\ \A u \in Threads : u # t => todo'[u] = todo[u]
    BY <1>4, ReadGone DEF isRead
  <2>2. Typed' /\ UNCHANGED uploading
    BY <1>4, ReadFacts DEF Read
  <2>3. PICK w : uploads' = uploads \cup {w} /\ w.file = todo[t][1][2].file
    <3>1. PICK r \in Uploads(Len(disk)) : uploads' = uploads \cup {r} /\ r.file = arg(t).file
      BY <1>4, ReadFacts
    <3>. QED
      BY <2>1, <3>1
  <2> DEFINE was(u, i) == IF u = t THEN i + 1 ELSE i
  <2>4. \A u \in Threads : \A i \in DOMAIN todo'[u] :
            /\ was(u, i) \in DOMAIN todo[u] /\ todo'[u][i] = todo[u][was(u, i)]
            /\ isRead(u, i)' => isRead(u, was(u, i))
            /\ u = t => was(u, i) # 1
    BY <2>1 DEF isRead
  <2>5. \A u \in Threads : \A i, j \in DOMAIN todo'[u] : was(u, i) = was(u, j) => i = j
    <3>. TAKE u \in Threads
    <3>1. todo'[u] \in Seq(Steps(Len(disk')))
      BY <2>2 DEF Typed
    <3>2. DOMAIN todo'[u] \subseteq Int
      BY <3>1, LenProperties
    <3>3. \A i, j \in Int : i + 1 = j + 1 => i = j
      OBVIOUS
    <3>. QED
      BY <3>2, <3>3
  <2>. HIDE DEF isRead, was
  <2>6. \A u \in Threads : \A i \in DOMAIN todo'[u] :
            isRead(u, i)' => todo'[u][i][2].file # todo[t][1][2].file
    BY <2>1, <2>4 DEF Claimed
  <2>7. /\ todo[t][1][2].file \in uploading
        /\ \A u \in uploads : u.file # todo[t][1][2].file
    BY <2>1 DEF Claimed
  <2>. QED
    BY <2>2, <2>3, <2>4, <2>5, <2>6, <2>7 DEF Claimed
<1>5. ASSUME NEW u \in uploads, NEW how \in hows, FinishOne(u, how)
      PROVE  Claimed'
  <2>1. UNCHANGED <<todo, uploading>>
    BY <1>5, FinishFacts
  <2>2. PICK w : uploads' = (uploads \ {u}) \cup {w} /\ w.file = u.file
    BY <1>5, FinishFacts
  <2>3. \A t, i : isRead(t, i)' <=> isRead(t, i)
    BY <2>1 DEF isRead
  <2>. HIDE DEF isRead
  <2>. QED
    BY <2>1, <2>2, <2>3 DEF Claimed
<1>6. ASSUME NEW u \in uploads, Release(u)
      PROVE  Claimed'
  <2>1. UNCHANGED todo /\ uploading' = uploading \ {u.file} /\ uploads' = uploads \ {u}
    BY <1>6, ReleaseFacts
  <2>3. \A t, i : isRead(t, i)' <=> isRead(t, i)
    BY <2>1 DEF isRead
  <2>. HIDE DEF isRead
  <2>. QED
    BY <2>1, <2>3 DEF Claimed
<1>. QED
  BY <1>1, <1>2, <1>3, <1>4, <1>5, <1>6, NextCases, QuietSteps DEF Quiet

-------------------------------------------------------------------------------
(* One log and no upload.                                                    *)

\* What a thread is at when steps took the place of its first one.
LEMMA Heads ==
    ASSUME Typed, Shape, NEW t \in Threads, todo[t] # <<>>,
           NEW steps \in Seq(Steps(Len(disk))), Then(t, steps),
           \A i \in DOMAIN steps : i # 1 => steps[i][1] \in Later
    PROVE  /\ \A u \in Threads : u # t => todo'[u] = todo[u]
           /\ \A n : At(t, n)' => \/ steps # <<>> /\ steps[1][1] = n /\ arg(t)' = steps[1][2]
                                  \/ steps = <<>> /\ n \in Later
           /\ \A i \in DOMAIN todo'[t] : \/ i \in DOMAIN steps /\ todo'[t][i] = steps[i]
                                         \/ \E j \in DOMAIN todo[t] : todo'[t][i] = todo[t][j]
<1>1. todo \in [Threads -> Seq(Steps(Len(disk)))]
  BY DEF Typed
<1>2. /\ todo' \in [Threads -> Seq(Steps(Len(disk)))]
      /\ \A u \in Threads : u # t => todo'[u] = todo[u]
      /\ \A i \in DOMAIN todo'[t] :
             \/ i \in DOMAIN steps /\ todo'[t][i] = steps[i]
             \/ /\ i \notin DOMAIN steps
                /\ i - Len(steps) + 1 \in DOMAIN todo[t] /\ i - Len(steps) + 1 # 1
                /\ todo'[t][i] = todo[t][i - Len(steps) + 1]
  BY <1>1, ThenSteps
<1>3. ASSUME NEW n, At(t, n)'
      PROVE  \/ steps # <<>> /\ steps[1][1] = n /\ arg(t)' = steps[1][2]
             \/ steps = <<>> /\ n \in Later
  <2>1. todo'[t] # <<>> /\ Head(todo'[t])[1] = n /\ arg(t)' = Head(todo'[t])[2]
    BY <1>3 DEF At, arg
  <2>2. 1 \in DOMAIN todo'[t] /\ Head(todo'[t]) = todo'[t][1]
    <3>1. todo'[t] \in Seq(Steps(Len(disk)))
      BY <1>2
    <3>. QED
      BY <2>1, <3>1, LenProperties
  <2>3. 1 \in DOMAIN steps <=> steps # <<>>
    BY LenProperties
  <2>4. CASE 1 \in DOMAIN steps
    BY <1>2, <2>1, <2>2, <2>3, <2>4
  <2>5. CASE 1 \notin DOMAIN steps
    <3>1. PICK j \in DOMAIN todo[t] : j # 1 /\ todo'[t][1] = todo[t][j]
      BY <1>2, <2>2, <2>5
    <3>2. todo'[t][1][1] \in Later
      BY <3>1 DEF Shape
    <3>. QED
      BY <2>1, <2>2, <2>3, <2>5, <3>2
  <2>. QED
    BY <2>4, <2>5
<1>. QED
  BY <1>2, <1>3

\* A thread goes on, and no file is closed.
LEMMA OpenGoesOn ==
    ASSUME Typed, Shape, AllOpen, NEW t \in Threads, todo[t] # <<>>,
           NEW steps \in Seq(Steps(Len(disk))), Then(t, steps),
           \A i \in DOMAIN steps : i # 1 => steps[i][1] \in {"date", "pop"},
           steps # <<>> => steps[1][1] \in {"enqueue", "pend", "write"},
           steps # <<>> /\ steps[1][1] = "write" => steps[1][2].f # 0,
           queue' # <<>> \/ (steps # <<>> /\ steps[1][1] = "enqueue") => file' # 0,
           file' = file \/ (file' # 0 /\ \A u \in Threads : At(u, "swap") => u = t),
           past'.lost = {}, \A f \in DOMAIN disk' : disk'[f].open /\ disk'[f].exists
    PROVE  AllOpen'
<1>1. /\ \A u \in Threads : u # t => todo'[u] = todo[u]
      /\ \A n : At(t, n)' => \/ steps # <<>> /\ steps[1][1] = n /\ arg(t)' = steps[1][2]
                             \/ steps = <<>> /\ n \in Later
      /\ \A i \in DOMAIN todo'[t] : \/ i \in DOMAIN steps /\ todo'[t][i] = steps[i]
                                    \/ \E j \in DOMAIN todo[t] : todo'[t][i] = todo[t][j]
  <2>1. \A i \in DOMAIN steps : i # 1 => steps[i][1] \in Later
    BY DEF Later
  <2>. QED
    BY <2>1, Heads
<1>2. \A u \in Threads : \A n : u # t => (At(u, n)' <=> At(u, n)) /\ arg(u)' = arg(u)
  BY <1>1 DEF At, arg
<1>3. \A u \in Threads : \A i \in DOMAIN todo'[u] :
          todo'[u][i][1] \in {"enqueue", "pend", "write", "swap", "date", "pop"}
  <2>1. \A i \in DOMAIN steps : steps[i][1] \in {"enqueue", "pend", "write", "date", "pop"}
    OBVIOUS
  <2>. QED
    BY <1>1, <2>1 DEF AllOpen
<1>4. ~At(t, "swap")' /\ (At(t, "write")' => arg(t)'.f # 0) /\ (At(t, "enqueue")' => file' # 0)
  BY <1>1 DEF Later
<1>5. file # 0 => file' # 0
  OBVIOUS
<1>6. \A u \in Threads : At(u, "write")' => arg(u)'.f # 0
  BY <1>2, <1>4 DEF AllOpen
<1>7. \A u \in Threads : At(u, "enqueue")' => file' # 0
  BY <1>2, <1>4, <1>5 DEF AllOpen
<1>8. \A u, v \in Threads : At(u, "swap")' /\ At(v, "swap")' => u = v
  BY <1>2, <1>4 DEF AllOpen
<1>9. \A u \in Threads : At(u, "swap")' => file' = 0
  BY <1>2, <1>4 DEF AllOpen
<1>. QED
  BY <1>3, <1>6, <1>7, <1>8, <1>9 DEF AllOpen

\* What a thread is at that starts.
LEMMA Starting ==
    ASSUME NEW t \in Threads, todo \in [Threads -> Seq(Steps(Len(disk)))],
           NEW steps, steps # <<>>, Starts(t, steps)
    PROVE  /\ todo'[t] = steps /\ \A u \in Threads : u # t => todo'[u] = todo[u]
           /\ \A u \in Threads : \A n : u # t => (At(u, n)' <=> At(u, n)) /\ arg(u)' = arg(u)
           /\ \A n : At(t, n)' <=> Head(steps)[1] = n
<1>1. todo'[t] = steps /\ \A u \in Threads : u # t => todo'[u] = todo[u]
  BY DEF Starts
<1>. QED
  BY <1>1 DEF At, arg

LEMMA LogOpen ==
    ASSUME Typed, Shape, AllOpen, NEW t \in Threads, Log(t)
    PROVE  AllOpen'
<1>1. /\ Starts(t, write) /\ UNCHANGED <<file, queue, disk>>
      /\ past'.lost = past.lost
  BY LineTyped DEF Log
<1>2. /\ write # <<>> /\ DOMAIN write = {1} /\ write[1] = Head(write)
      /\ write[1][1] \in {"enqueue", "pend"} /\ (write[1][1] = "enqueue" => file # 0)
  <2>1. /\ write = <<write[1]>>
        /\ write[1][1] \in {"enqueue", "pend"} /\ (write[1][1] = "enqueue" => file # 0)
    BY WriteStep
  <2> DEFINE e == write[1]
  <2>2. <<e>> # <<>> /\ DOMAIN <<e>> = {1} /\ e = Head(<<e>>)
    OBVIOUS
  <2>. QED
    BY <2>1, <2>2
<1>3. /\ todo'[t] = write /\ \A u \in Threads : u # t => todo'[u] = todo[u]
      /\ \A u \in Threads : \A n : u # t => (At(u, n)' <=> At(u, n)) /\ arg(u)' = arg(u)
      /\ \A n : At(t, n)' <=> write[1][1] = n
  <2>1. todo \in [Threads -> Seq(Steps(Len(disk)))]
    BY DEF Typed
  <2>2. /\ todo'[t] = write /\ \A u \in Threads : u # t => todo'[u] = todo[u]
        /\ \A u \in Threads : \A n : u # t => (At(u, n)' <=> At(u, n)) /\ arg(u)' = arg(u)
        /\ \A n : At(t, n)' <=> Head(write)[1] = n
    BY <1>1, <1>2, <2>1, Starting
  <2>. QED
    BY <1>2, <2>2
<1>4. \A u \in Threads : \A i \in DOMAIN todo'[u] :
          todo'[u][i][1] \in {"enqueue", "pend", "write", "swap", "date", "pop"}
  BY <1>2, <1>3 DEF AllOpen
<1>5. ~At(t, "swap")' /\ ~At(t, "write")' /\ (At(t, "enqueue")' => file' # 0)
  BY <1>1, <1>2, <1>3
<1>6. \A u \in Threads : At(u, "write")' => arg(u)'.f # 0
  BY <1>3, <1>5 DEF AllOpen
<1>7. /\ \A u \in Threads : At(u, "enqueue")' => file' # 0
      /\ \A u \in Threads : At(u, "swap")' => file' = 0
      /\ \A u, v \in Threads : At(u, "swap")' /\ At(v, "swap")' => u = v
  BY <1>1, <1>3, <1>5 DEF AllOpen
<1>8. /\ past'.lost = {} /\ (queue' # <<>> => file' # 0)
      /\ \A f \in DOMAIN disk' : disk'[f].open /\ disk'[f].exists
  BY <1>1 DEF AllOpen
<1>. QED
  BY <1>4, <1>6, <1>7, <1>8 DEF AllOpen

\* The first log: no other thread is about to begin one, or to write.
LEMMA NewLogOpen ==
    ASSUME Typed, Shape, AllOpen, NEW t \in Threads, NewLog(t), Len(disk') <= 1
    PROVE  AllOpen'
<1>1. Len(disk) = 0 /\ DOMAIN disk' = {1} /\ disk'[1].open /\ disk'[1].exists
  <2>1. /\ Len(disk') = Len(disk) + 1 /\ Len(disk) \in Nat
        /\ DOMAIN disk' = 1..(Len(disk) + 1)
        /\ disk'[Len(disk) + 1].open /\ disk'[Len(disk) + 1].exists
    BY NewLogFacts
  <2>2. Len(disk) = 0
    BY <2>1
  <2>. QED
    BY <2>1, <2>2
<1>2. file = 0 /\ \A u \in Threads : ~At(u, "swap")
  <2>1. file = 0
    BY <1>1 DEF Typed
  <2>2. ASSUME NEW u \in Threads, At(u, "swap") PROVE FALSE
    <3>1. arg(u) \in 1..Len(disk)
      BY <2>2, ArgTypes, Waiting
    <3>. QED
      BY <1>1, <3>1
  <2>. QED
    BY <2>1, <2>2
<1>3. UNCHANGED <<file, queue>> /\ past'.lost = {}
  <2>1. PICK name : Shift(In(name), Len(disk) + 1, {}, {})
    BY NewLogFacts
  <2>2. onDisk = {}
    BY <1>1, Disk DEF onDisk
  <2>. QED
    BY <2>1, <2>2, NewLogFacts DEF Shift, AllOpen
<1>4. /\ todo[t] = <<>> /\ todo'[t] = << <<"swap", Len(disk) + 1>>, <<"date">> >>
      /\ \A u \in Threads : u # t => todo'[u] = todo[u]
  BY NewLogFacts
<1>5. \A u \in Threads : \A n : u # t => (At(u, n)' <=> At(u, n)) /\ arg(u)' = arg(u)
  BY <1>4 DEF At, arg
<1> DEFINE a == <<"swap", Len(disk) + 1>>
           b == <<"date">>
<1>6. todo'[t] = <<a, b>> /\ a[1] = "swap" /\ b[1] = "date"
  BY <1>4
<1>. HIDE DEF a, b
<1>7. /\ DOMAIN todo'[t] = {1, 2} /\ todo'[t][1][1] = "swap" /\ todo'[t][2][1] = "date"
      /\ Head(todo'[t])[1] = "swap"
  BY <1>6
<1>8. \A n : At(t, n)' => n = "swap"
  BY <1>7 DEF At
<1>9. \A u \in Threads : \A i \in DOMAIN todo'[u] :
          todo'[u][i][1] \in {"enqueue", "pend", "write", "swap", "date", "pop"}
  BY <1>4, <1>7 DEF AllOpen
<1>. QED
  BY <1>1, <1>2, <1>3, <1>5, <1>8, <1>9 DEF AllOpen

\* FILEs and calls do not vanish.
LEMMA Grows ==
    ASSUME Typed, Shape, [Next]_vars
    PROVE  Len(disk) <= Len(disk') /\ (DOMAIN calls' = {} => DOMAIN calls = {})
<1>0. Len(disk) \in Nat
  BY Disk
<1>1. CASE UNCHANGED vars
  BY <1>0, <1>1 DEF vars
<1>2. ASSUME NEW t \in Threads, Steppable(t) \/ Claim(t) \/ Read(t)
      PROVE  Len(disk) <= Len(disk') /\ (DOMAIN calls' = {} => DOMAIN calls = {})
  <2>1. CASE Log(t) \/ Date(t) \/ Enqueue(t) \/ Pend(t) \/ Takes(t) \/ Files(t) \/ Read(t)
    <3>1. UNCHANGED <<disk, calls>>
      BY <2>1 DEF Log, Date, Enqueue, Pend, Takes, Files, Read, OnlyLines
    <3>. QED
      BY <1>0, <3>1
  <2>2. CASE Write(t)
    BY <1>0, <2>2, WriteFacts DEF SameFiles
  <2>3. CASE NewLog(t)
    BY <1>0, <2>3, NewLogFacts
  <2>4. CASE Swap(t)
    BY <1>0, <2>4, SwapFacts DEF SameFiles, Swap
  <2>5. CASE Drain(t) /\ DrainEnds(t)
    BY <1>0, <2>5, DrainEndFacts DEF SameFiles, Drain, OnlyFiles
  <2>6. CASE UploadAllLogs(t)
    <3>1. disk' = disk /\ DOMAIN calls' # {}
      BY <2>6, UploadFacts DEF UploadAllLogs
    <3>. QED
      BY <1>0, <3>1
  <2>7. CASE Claim(t)
    BY <1>0, <2>7, ClaimFacts
  <2>. QED
    BY <1>2, <2>1, <2>2, <2>3, <2>4, <2>5, <2>6, <2>7 DEF Steppable
<1>3. ASSUME NEW u \in uploads, NEW how \in hows, FinishOne(u, how)
      PROVE  Len(disk) <= Len(disk') /\ (DOMAIN calls' = {} => DOMAIN calls = {})
  BY <1>0, <1>3, FinishFacts DEF SameFiles
<1>4. ASSUME NEW u \in uploads, Release(u)
      PROVE  Len(disk) <= Len(disk') /\ (DOMAIN calls' = {} => DOMAIN calls = {})
  BY <1>0, <1>4, ReleaseFacts
<1>. QED
  BY <1>1, <1>2, <1>3, <1>4, NextCases

LEMMA EarlyKeeps ==
    ASSUME Typed, Shape, Early, [Next]_vars
    PROVE  Early'
<1>. SUFFICES ASSUME Len(disk') <= 1, DOMAIN calls' = {}
              PROVE  AllOpen' /\ uploads' = {}
  BY DEF Early
<1>0. <<>> \in Seq(Steps(Len(disk))) /\ DOMAIN <<>> = {}
  BY EmptySeq
<1>1. AllOpen /\ uploads = {}
  <2>1. Len(disk) <= 1
    BY Grows, Disk, TypesKeep, Disk DEF Typed
  <2>. QED
    BY <2>1, Grows DEF Early
<1>5. ASSUME NEW t \in Threads, Steppable(t) \/ Claim(t)
      PROVE  uploads' = {}
  BY <1>1, <1>5, QuietSteps, ClaimFacts DEF Quiet
<1>6. ASSUME NEW t \in Threads, Read(t)
      PROVE  FALSE
  <2>1. At(t, "read") /\ todo[t] # <<>>
    BY <1>6, Waiting DEF Read
  <2>2. todo[t] \in Seq(Steps(Len(disk)))
    BY DEF Typed
  <2>3. 1 \in DOMAIN todo[t] /\ todo[t][1][1] = "read"
    BY <2>1, <2>2, LenProperties DEF At
  <2>. QED
    BY <1>1, <2>3 DEF AllOpen
<1>2. CASE UNCHANGED vars
  <2>1. UNCHANGED <<todo, file, queue, disk, past, uploads>>
    BY <1>2 DEF vars
  <2>2. \A u \in Threads : \A n : (At(u, n)' <=> At(u, n)) /\ arg(u)' = arg(u)
    BY <2>1 DEF At, arg
  <2>. QED
    BY <1>1, <2>1, <2>2 DEF AllOpen
<1>3. ASSUME NEW u \in uploads, (\E how \in hows : FinishOne(u, how)) \/ Release(u)
      PROVE  FALSE
  BY <1>3, <1>1
<1>4. ASSUME NEW t \in Threads, Steppable(t) \/ Claim(t) \/ Read(t)
      PROVE  AllOpen'
  <2>1. CASE Log(t)
    BY <1>1, <2>1, LogOpen
  <2>2. CASE NewLog(t)
    BY <1>1, <2>2, NewLogOpen
  <2>3. CASE UploadAllLogs(t)
    BY <2>3, UploadFacts
  <2>4. CASE Date(t)
    <3>1. /\ UNCHANGED <<file, queue, disk, calls>> /\ past'.lost = past.lost
          /\ At(t, "date") /\ todo[t] # <<>> /\ Then(t, write)
      BY <2>4, Waiting, LineTyped DEF Date
    <3>2. AllOpen
      BY <1>1
    <3>3. /\ write \in Seq(Steps(Len(disk))) /\ DOMAIN write = {1}
          /\ write[1][1] \in {"enqueue", "pend"} /\ (write[1][1] = "enqueue" => file # 0)
      <4>1. /\ write = <<write[1]>> /\ write[1] \in Steps(Len(disk))
            /\ write[1][1] \in {"enqueue", "pend"} /\ (write[1][1] = "enqueue" => file # 0)
        BY WriteStep
      <4> DEFINE e == write[1]
      <4>2. <<e>> \in Seq(Steps(Len(disk))) /\ DOMAIN <<e>> = {1}
        BY <4>1
      <4>. QED
        BY <4>1, <4>2
    <3>. QED
      BY <3>1, <3>2, <3>3, OpenGoesOn DEF AllOpen
  <2>5. CASE Enqueue(t)
    <3>1. /\ UNCHANGED <<file, disk, calls, past>>
          /\ At(t, "enqueue") /\ todo[t] # <<>> /\ Then(t, <<>>)
      BY <2>5, Waiting DEF Enqueue, OnlyLines
    <3>2. AllOpen
      BY <1>1
    <3>. QED
      BY <1>0, <3>1, <3>2, OpenGoesOn DEF AllOpen
  <2>6. CASE Pend(t)
    <3>1. /\ UNCHANGED <<file, queue, disk, calls, past>>
          /\ At(t, "pend") /\ todo[t] # <<>> /\ Then(t, <<>>)
      BY <2>6, Waiting DEF Pend, OnlyLines
    <3>2. AllOpen
      BY <1>1
    <3>. QED
      BY <1>0, <3>1, <3>2, OpenGoesOn DEF AllOpen
  <2>7. CASE Takes(t)
    <3>1. /\ UNCHANGED <<file, disk, calls, past>> /\ queue # <<>> /\ queue' = Tail(queue)
      BY <2>7 DEF Takes
    <3>2. AllOpen
      BY <1>1
    <3>3. PICK name \in {"stop", "pop"} :
              /\ At(t, name)
              /\ Then(t, << <<"write", [message |-> Head(queue), f |-> file]>>, <<name>> >>)
      BY <2>7 DEF Takes
    <3>4. name = "pop" /\ todo[t] # <<>>
      <4>1. todo[t] # <<>> /\ Head(todo[t])[1] = name /\ todo[t] \in Seq(Steps(Len(disk)))
        BY <3>3 DEF At, Typed
      <4>2. 1 \in DOMAIN todo[t] /\ todo[t][1][1] = name
        BY <4>1, LenProperties
      <4>. QED
        BY <3>2, <4>1, <4>2 DEF AllOpen
    <3> DEFINE e == <<"write", [message |-> Head(queue), f |-> file]>>
               f == <<name>>
               steps == <<e, f>>
    <3>5. /\ e \in Steps(Len(disk)) /\ e[1] = "write" /\ e[2].f = file
          /\ f \in Steps(Len(disk)) /\ f[1] = "pop"
      <4>1. Head(queue) \in Seq(Nat) /\ file \in 0..Len(disk)
        BY <3>1, HeadTailProperties DEF Typed
      <4>. QED
        BY <3>4, <4>1 DEF Steps
    <3>6. Then(t, steps)
      BY <3>3
    <3>. HIDE DEF e, f
    <3>7. /\ steps \in Seq(Steps(Len(disk))) /\ DOMAIN steps = {1, 2} /\ steps # <<>>
          /\ steps[1] = e /\ steps[2] = f
      BY <3>5
    <3>. HIDE DEF steps
    <3>. QED
      BY <3>1, <3>2, <3>4, <3>5, <3>6, <3>7, OpenGoesOn DEF AllOpen
  <2>8. CASE Write(t)
    <3>1. /\ UNCHANGED <<file, queue, calls>> /\ SameFiles
          /\ At(t, "write") /\ todo[t] # <<>> /\ Then(t, <<>>)
          /\ arg(t).message \in Seq(Nat)
      BY <2>8, WriteFacts, Waiting DEF Write
    <3>2. AllOpen
      BY <1>1
    <3>3. arg(t).f # 0 /\ disk[arg(t).f].open
      <4>1. arg(t).f # 0 /\ arg(t).f \in 0..Len(disk)
        BY <3>1, <3>2, ArgTypes DEF AllOpen
      <4>2. arg(t).f \in DOMAIN disk
        BY <4>1, LenProperties DEF Typed
      <4>. QED
        BY <3>2, <4>1, <4>2 DEF AllOpen
    <3>4. Into(arg(t).f, ToSet(arg(t).message)) /\ arg(t).f \in DOMAIN disk
      <4>1. arg(t).f \in DOMAIN disk
        BY <3>1, <3>3, ArgTypes, Disk
      <4>. QED
        BY <2>8, <3>3, <4>1, Writes
    <3>5. /\ past'.lost = {} /\ DOMAIN disk' = DOMAIN disk
          /\ \A g \in DOMAIN disk : /\ disk'[g].open = disk[g].open
                                    /\ disk'[g].exists = disk[g].exists
      <4> DEFINE g0 == arg(t).f
                 m == ToSet(arg(t).message)
      <4>1. m \in SUBSET Nat /\ g0 \in DOMAIN disk /\ Into(g0, m)
        BY <2>8, <3>4, WriteFacts
      <4>. HIDE DEF g0, m
      <4>2. /\ SameFiles
            /\ \A g \in DOMAIN disk : /\ disk'[g].open = disk[g].open
                                      /\ disk'[g].exists = disk[g].exists
        BY <4>1, WrittenInto
      <4>3. PICK gone, come, out \in SUBSET Nat :
                /\ Shift(gone, g0, come, out)
                /\ disk[g0].exists => out = {}
                /\ gone \subseteq In(disk[g0].name) \ disk[g0].lines
        BY <4>1, WrittenInto
      <4>4. In(disk[g0].name) \subseteq disk[g0].lines
        <5>1. \A g \in DOMAIN disk : g = g0
          BY <3>1, <4>1, Disk DEF SameFiles
        <5>. QED
          BY <5>1 DEF In, Named
      <4>5. gone = {} /\ out = {}
        BY <3>2, <4>1, <4>3, <4>4 DEF AllOpen
      <4>. QED
        BY <3>2, <4>2, <4>3, <4>5 DEF SameFiles, Shift, AllOpen
    <3>. QED
      BY <1>0, <3>1, <3>2, <3>5, OpenGoesOn DEF AllOpen
  <2>9. CASE Swap(t)
    <3>1. /\ disk' = Closed(file) /\ file' = arg(t) /\ UNCHANGED <<queue, calls, past>>
          /\ At(t, "swap") /\ todo[t] # <<>> /\ arg(t) \in 1..Len(disk)
          /\ Then(t, IF pending = <<>> THEN <<>> ELSE << <<"enqueue", pending>> >>)
      BY <2>9, Waiting, ArgTypes DEF Swap
    <3>2. AllOpen
      BY <1>1
    <3>3. disk' = disk
      <4>1. file = 0
        BY <3>1, <3>2 DEF AllOpen
      <4>. QED
        BY <3>1, <4>1 DEF Closed
    <3>4. file' # 0 /\ \A u \in Threads : At(u, "swap") => u = t
      BY <3>1, <3>2 DEF AllOpen
    <3>5. CASE pending = <<>>
      <4>1. Then(t, <<>>)
        BY <3>1, <3>5
      <4>. QED
        BY <1>0, <3>1, <3>2, <3>3, <3>4, <4>1, OpenGoesOn DEF AllOpen
    <3>6. CASE pending # <<>>
      <4> DEFINE e == <<"enqueue", pending>>
                 steps == <<e>>
      <4>1. e \in Steps(Len(disk)) /\ e[1] = "enqueue"
        BY DEF Steps, Typed
      <4>2. Then(t, steps)
        BY <3>1, <3>6
      <4>. HIDE DEF e
      <4>3. steps \in Seq(Steps(Len(disk))) /\ DOMAIN steps = {1} /\ steps[1] = e
        BY <4>1
      <4>. HIDE DEF steps
      <4>. QED
        BY <3>1, <3>2, <3>3, <3>4, <4>1, <4>2, <4>3, OpenGoesOn DEF AllOpen
    <3>. QED
      BY <3>5, <3>6
  <2>10. CASE (Drain(t) /\ DrainEnds(t)) \/ Files(t) \/ Claim(t) \/ Read(t)
    <3>1. PICK name \in {"stop", "files", "claim", "read"} : At(t, name)
      BY <2>10 DEF Drain, Files, Claim, Read
    <3>2. Len(disk') = Len(disk) /\ DOMAIN calls' = DOMAIN calls
      <4>1. CASE Drain(t) /\ DrainEnds(t)
        BY <4>1, DrainEndFacts DEF SameFiles, Drain, OnlyFiles
      <4>2. CASE Files(t) \/ Read(t)
        BY <4>2 DEF Files, Read
      <4>3. CASE Claim(t)
        BY <4>3, ClaimFacts
      <4>. QED
        BY <2>10, <4>1, <4>2, <4>3
    <3>3. AllOpen
      BY <1>1
    <3>4. todo[t] # <<>> /\ Head(todo[t])[1] = name /\ todo[t] \in Seq(Steps(Len(disk)))
      BY <3>1 DEF At, Typed
    <3>5. 1 \in DOMAIN todo[t] /\ todo[t][1][1] = name
      BY <3>4, LenProperties
    <3>. QED
      BY <3>3, <3>5 DEF AllOpen
  <2>. QED
    BY <1>4, <2>1, <2>2, <2>3, <2>4, <2>5, <2>6, <2>7, <2>8, <2>9, <2>10 DEF Steppable
<1>. QED
  BY <1>1, <1>2, <1>3, <1>4, <1>5, <1>6, NextCases

-------------------------------------------------------------------------------
(* The lines.                                                                *)

H(t) == <<"hand", t>>
Q(i) == <<"queue", i>>
P == <<"pending", 0>>

ContentIs ==
    /\ DOMAIN content = {H(t) : t \in Threads} \cup {Q(i) : i \in DOMAIN queue} \cup {P}
    /\ \A t \in Threads : content[H(t)] = inHand(t)
    /\ \A i \in DOMAIN queue : content[Q(i)] = queue[i]
    /\ content[P] = pending

LEMMA Content == ContentIs /\ ContentIs'
<1>1. ContentIs
  <2>1. DOMAIN content = boxes
    BY DEF content
  <2>2. boxes = {H(t) : t \in Threads} \cup {Q(i) : i \in DOMAIN queue} \cup {P}
    BY DEF boxes, H, Q, P
  <2>3. \A b \in boxes : /\ b[1] = "hand" => content[b] = inHand(b[2])
                         /\ b[1] = "queue" => content[b] = queue[b[2]]
                         /\ b[1] = "pending" => content[b] = pending
    BY DEF content
  <2>. QED
    BY <2>1, <2>2, <2>3 DEF ContentIs, H, Q, P
<1>2. ContentIs'
  <2>1. DOMAIN content' = boxes'
    BY DEF content
  <2>2. boxes' = {H(t) : t \in Threads} \cup {Q(i) : i \in DOMAIN queue'} \cup {P}
    BY DEF boxes, H, Q, P
  <2>3. \A b \in boxes' : /\ b[1] = "hand" => content'[b] = inHand(b[2])'
                          /\ b[1] = "queue" => content'[b] = queue'[b[2]]
                          /\ b[1] = "pending" => content'[b] = pending'
    BY DEF content
  <2>. QED
    BY <2>1, <2>2, <2>3 DEF ContentIs, H, Q, P
<1>. QED
  BY <1>1, <1>2

LEMMA Boxes ==
    /\ \A a, b : (H(a) = H(b) <=> a = b) /\ (Q(a) = Q(b) <=> a = b)
    /\ \A a, b : H(a) # Q(b) /\ H(a) # P /\ Q(a) # P
BY DEF H, Q, P

\* Only a thread's hands change, or also what is pending.
LEMMA OneHand ==
    ASSUME NEW t \in Threads, NEW lines, Hands(t, lines),
           DOMAIN queue' = DOMAIN queue, \A i \in DOMAIN queue : queue'[i] = queue[i]
    PROVE  /\ DOMAIN content' = DOMAIN content
           /\ H(t) \in DOMAIN content /\ P \in DOMAIN content
           /\ content[H(t)] = inHand(t) /\ content'[H(t)] = lines
           /\ content[P] = pending /\ content'[P] = pending'
           /\ \A b \in DOMAIN content : b = H(t) \/ b = P \/ content'[b] = content[b]
<1>1. ContentIs /\ ContentIs'
  BY Content
<1>2. \A u \in Threads : u # t => content'[H(u)] = content[H(u)]
  BY <1>1 DEF ContentIs, Hands
<1>3. \A i \in DOMAIN queue : content'[Q(i)] = content[Q(i)]
  BY <1>1 DEF ContentIs
<1>. QED
  BY <1>1, <1>2, <1>3 DEF ContentIs, Hands
\* The same boxes hold the same.
LEMMA Untouched ==
    ASSUME NEW S, Once(content, S), DOMAIN content' = DOMAIN content,
           \A b \in DOMAIN content : content'[b] = content[b]
    PROVE  Once(content', S)
BY DEF Once

\* What is in the files, lost and uploaded stays.
Resting ==
    SameFiles /\ SameLines /\ past'.lost = past.lost /\ past'.accepted = past.accepted

LEMMA Unmoved ==
    ASSUME Typed, UNCHANGED <<disk, past>>
    PROVE  Resting
BY DEF Typed, Resting, SameFiles, SameLines

LEMMA Rests ==
    ASSUME Typed, Resting
    PROVE  /\ onDisk' = onDisk /\ uploaded' = uploaded /\ Taken' = Taken
           /\ \A name : In(name)' = In(name)
<1>1. DOMAIN disk' = DOMAIN disk /\ \A f \in DOMAIN disk : /\ disk'[f].lines = disk[f].lines
                                                           /\ disk'[f].exists = disk[f].exists
                                                           /\ disk'[f].name = disk[f].name
  BY DEF Resting, SameFiles, SameLines
<1>2. onDisk' = onDisk
  BY <1>1 DEF onDisk
<1>3. \A name : In(name)' = In(name)
  <2>. TAKE name
  <2>1. Named(name)' = Named(name)
    BY <1>1 DEF Named
  <2>2. \A f \in Named(name) : disk'[f].lines = disk[f].lines
    BY <1>1 DEF Named
  <2>. QED
    BY <2>1, <2>2 DEF In
<1>4. uploaded' = uploaded /\ Taken' = Taken
  BY DEF Resting, uploaded, Taken
<1>. QED
  BY <1>2, <1>3, <1>4

LEMMA RestsApart ==
    ASSUME Typed, DiskApart, Sent, Resting, past'.lines \in Nat, past'.lines >= past.lines,
           OnItsWay' \subseteq OnItsWay
    PROVE  DiskApart' /\ Sent'
<1>1. /\ onDisk' = onDisk /\ uploaded' = uploaded /\ Taken' = Taken
      /\ \A name : In(name)' = In(name)
  BY Rests
<1>2. past.lines \in Nat
  BY DEF Typed, Pasts
<1>3. 1..past.lines \subseteq 1..past'.lines
  BY <1>2
<1>4. DOMAIN disk' = DOMAIN disk /\ \A f \in DOMAIN disk : /\ disk'[f].lines = disk[f].lines
                                                           /\ disk'[f].exists = disk[f].exists
  BY DEF Resting, SameFiles, SameLines
<1>5. past'.lost = past.lost /\ past'.accepted = past.accepted
  BY DEF Resting
<1>6. DiskApart'
  BY <1>1, <1>3, <1>4, <1>5 DEF DiskApart
<1>7. Sent'
  BY <1>1, <1>5 DEF Sent
<1>. QED
  BY <1>6, <1>7

LEMMA LineAdded ==
    ASSUME Typed, DiskApart, LinesApart, NEW t \in Threads, Hands(t, <<past.lines + 1>>),
           inHand(t) = <<>>, past' = [past EXCEPT !.lines = @ + 1],
           UNCHANGED <<queue, pending, disk>>
    PROVE  LinesApart'
<1>1. /\ DOMAIN content' = DOMAIN content /\ H(t) \in DOMAIN content
      /\ content[H(t)] = <<>> /\ content'[H(t)] = <<past.lines + 1>>
      /\ \A b \in DOMAIN content : b # H(t) => content'[b] = content[b]
  BY OneHand
<1>2. past.lines \in Nat /\ past.lines + 1 \in Nat /\ past.lines + 1 \notin 1..past.lines
      /\ 1..(past.lines + 1) = 1..past.lines \cup {past.lines + 1}
  BY DEF Typed, Pasts
<1>3. past.lines + 1 \notin onDisk \cup past.lost \cup uploaded /\ past.lines + 1 \notin there
  BY <1>2 DEF DiskApart, there
<1>4. Once(content', there \cup {past.lines + 1})
  BY <1>1, <1>2, <1>3, Added DEF LinesApart
<1>5. past'.lines = past.lines + 1 /\ Resting
  BY LineTyped DEF Resting, SameFiles, SameLines, Typed
<1>6. there' = there \cup {past.lines + 1}
  BY <1>2, <1>3, <1>5, Rests DEF there, Resting
<1>. QED
  BY <1>4, <1>6 DEF LinesApart

\* The steps that log no line, and leave the files.
LEMMA LinesStay ==
    ASSUME Typed, Resting, past'.lines = past.lines, Once(content', there)
    PROVE  LinesApart'
<1>1. there' = there
  BY Rests DEF there, Resting
<1>. QED
  BY <1>1 DEF LinesApart

LEMMA QuietLines ==
    ASSUME LinesApart, NEW t \in Threads, Hands(t, <<>>), inHand(t) = <<>>,
           UNCHANGED <<queue, pending>>
    PROVE  Once(content', there)
<1>1. /\ DOMAIN content' = DOMAIN content
      /\ \A b \in DOMAIN content : content'[b] = content[b]
  BY OneHand
<1>. QED
  BY <1>1, Untouched DEF LinesApart

LEMMA EnqueueLines ==
    ASSUME Typed, Shape, LinesApart, NEW t \in Threads, Enqueue(t)
    PROVE  LinesApart'
<1>1. /\ Hands(t, <<>>) /\ arg(t) \in Seq(Nat) /\ inHand(t) = arg(t)
      /\ queue' = Append(queue, arg(t)) /\ UNCHANGED <<pending, disk, past>>
  BY EnqueueFacts DEF Enqueue, OnlyLines
<1> DEFINE k == Len(queue) + 1
<1>2. /\ DOMAIN queue' = DOMAIN queue \cup {k} /\ k \notin DOMAIN queue
      /\ queue'[k] = arg(t) /\ \A i \in DOMAIN queue : queue'[i] = queue[i]
  <2>1. queue \in Seq(Seq(Nat)) /\ DOMAIN queue = 1..Len(queue) /\ Len(queue) \in Nat
    BY LenProperties DEF Typed
  <2>2. /\ queue' \in Seq(Seq(Nat)) /\ Len(queue') = Len(queue) + 1
        /\ \A i \in 1..Len(queue) : queue'[i] = queue[i]
        /\ queue'[Len(queue) + 1] = arg(t)
    BY <1>1, <2>1, AppendProperties
  <2>3. DOMAIN queue' = 1..(Len(queue) + 1)
    BY <2>2, LenProperties
  <2>. QED
    BY <2>1, <2>2, <2>3
<1>. HIDE DEF k
<1>3. ContentIs /\ ContentIs'
  BY Content
<1>4. /\ DOMAIN content' = DOMAIN content \cup {Q(k)} /\ Q(k) \notin DOMAIN content
      /\ H(t) \in DOMAIN content
      /\ content'[Q(k)] = content[H(t)] /\ content'[H(t)] = <<>>
  BY <1>1, <1>2, <1>3, Boxes DEF ContentIs, Hands
<1>5. \A b \in DOMAIN content : b # H(t) => content'[b] = content[b]
  <2>1. \A u \in Threads : u # t => content'[H(u)] = content[H(u)]
    BY <1>1, <1>3 DEF ContentIs, Hands
  <2>2. \A i \in DOMAIN queue : content'[Q(i)] = content[Q(i)]
    BY <1>2, <1>3 DEF ContentIs
  <2>. QED
    BY <1>1, <1>3, <2>1, <2>2 DEF ContentIs
<1> DEFINE h == [b \in DOMAIN content' |-> IF b = Q(k) THEN H(t) ELSE b]
<1>6. \A b \in DOMAIN content' : \/ h[b] \in DOMAIN content /\ content'[b] = content[h[b]]
                                 \/ content'[b] = <<>>
  BY <1>4, <1>5
<1>7. \A a, b \in DOMAIN content' : h[a] = h[b] =>
          a = b \/ content'[a] = <<>> \/ content'[b] = <<>>
  BY <1>4
<1>8. \A a \in DOMAIN content : content[a] = <<>>
                                \/ \E b \in DOMAIN content' : content'[b] = content[a]
  BY <1>4, <1>5
<1>. HIDE DEF h
<1>9. Once(content', there)
  <2>1. Once(content, there)
    BY DEF LinesApart
  <2>. QED
    BY <1>6, <1>7, <1>8, <2>1, Renamed
<1>. QED
  BY <1>1, <1>9, Unmoved, LinesStay

LEMMA PendLines ==
    ASSUME Typed, Shape, LinesApart, NEW t \in Threads, Pend(t)
    PROVE  LinesApart'
<1>1. /\ Hands(t, <<>>) /\ inHand(t) = arg(t)
      /\ pending' = pending \o arg(t) /\ UNCHANGED <<queue, disk, past>>
  BY PendFacts DEF Pend, OnlyLines
<1>2. /\ DOMAIN content' = DOMAIN content
      /\ H(t) \in DOMAIN content /\ P \in DOMAIN content
      /\ content'[P] = content[P] \o content[H(t)] /\ content'[H(t)] = <<>>
      /\ \A b \in DOMAIN content : b # H(t) /\ b # P => content'[b] = content[b]
  BY <1>1, OneHand
<1>3. H(t) # P
  BY Boxes
<1>4. Once(content', there)
  <2>1. Once(content, there)
    BY DEF LinesApart
  <2>. QED
    BY <1>2, <1>3, <2>1, Moved
<1>. QED
  BY <1>1, <1>4, Unmoved, LinesStay

LEMMA SwapLines ==
    ASSUME Typed, Shape, LinesApart, NEW t \in Threads, Swap(t)
    PROVE  LinesApart'
<1>1. /\ Hands(t, pending) /\ inHand(t) = <<>> /\ pending' = <<>>
      /\ SameFiles /\ SameLines
      /\ UNCHANGED <<queue, past>>
  BY SwapFacts DEF Swap
<1>2. /\ DOMAIN content' = DOMAIN content
      /\ H(t) \in DOMAIN content /\ P \in DOMAIN content
      /\ content'[H(t)] = content[P] /\ content'[P] = <<>> /\ content[H(t)] = <<>>
      /\ \A b \in DOMAIN content : b # H(t) /\ b # P => content'[b] = content[b]
  BY <1>1, OneHand
<1> DEFINE h == [b \in DOMAIN content' |-> IF b = H(t) THEN P ELSE b]
<1>3. \A b \in DOMAIN content' : \/ h[b] \in DOMAIN content /\ content'[b] = content[h[b]]
                                 \/ content'[b] = <<>>
  BY <1>2
<1>4. \A a, b \in DOMAIN content' : h[a] = h[b] =>
          a = b \/ content'[a] = <<>> \/ content'[b] = <<>>
  BY <1>2
<1>5. \A a \in DOMAIN content : content[a] = <<>>
                                \/ \E b \in DOMAIN content' : content'[b] = content[a]
  BY <1>2
<1>. HIDE DEF h
<1>6. Once(content', there)
  <2>1. Once(content, there)
    BY DEF LinesApart
  <2>. QED
    BY <1>3, <1>4, <1>5, <2>1, Renamed
<1>. QED
  BY <1>1, <1>6, LinesStay DEF Resting

LEMMA TakesLines ==
    ASSUME Typed, Shape, LinesApart, NEW t \in Threads, Takes(t)
    PROVE  LinesApart'
<1>1. /\ Hands(t, Head(queue)) /\ inHand(t) = <<>>
      /\ queue # <<>> /\ queue' = Tail(queue) /\ UNCHANGED <<pending, disk, past>>
  BY TakesFacts DEF Takes
<1>2. /\ 1 \in DOMAIN queue /\ Head(queue) = queue[1]
      /\ \A i \in DOMAIN queue' : i + 1 \in DOMAIN queue /\ queue'[i] = queue[i + 1]
      /\ \A i \in DOMAIN queue : i # 1 => i - 1 \in DOMAIN queue' /\ (i - 1) + 1 = i
      /\ DOMAIN queue' \subseteq 1..Len(queue')
  <2>1. /\ queue \in Seq(Seq(Nat)) /\ DOMAIN queue = 1..Len(queue) /\ Len(queue) \in Nat
        /\ Len(queue) # 0
    BY <1>1, LenProperties, EmptySeq DEF Typed
  <2>2. /\ queue' \in Seq(Seq(Nat)) /\ Len(queue') = Len(queue) - 1
        /\ \A i \in 1..Len(queue') : queue'[i] = queue[i + 1]
    BY <1>1, <2>1, HeadTailProperties
  <2>3. DOMAIN queue' = 1..(Len(queue) - 1)
    BY <2>2, LenProperties
  <2>4. 1 \in DOMAIN queue /\ Head(queue) = queue[1]
    BY <2>1
  <2>5. \A i \in DOMAIN queue' : i + 1 \in DOMAIN queue /\ queue'[i] = queue[i + 1]
    BY <2>1, <2>2, <2>3
  <2>6. \A i \in DOMAIN queue : i # 1 => i - 1 \in DOMAIN queue' /\ (i - 1) + 1 = i
    BY <2>1, <2>3
  <2>. QED
    BY <2>2, <2>3, <2>4, <2>5, <2>6
<1>3. ContentIs /\ ContentIs'
  BY Content
<1>4. \A i \in DOMAIN queue' : i \in Int /\ i + 1 # 1
  BY <1>2
<1> DEFINE h == [b \in DOMAIN content' |->
                   IF b = H(t) THEN Q(1)
                   ELSE IF b \in {Q(i) : i \in DOMAIN queue'} THEN Q(b[2] + 1) ELSE b]
<1>5. /\ h[H(t)] = Q(1) /\ content'[H(t)] = content[Q(1)] /\ Q(1) \in DOMAIN content
      /\ H(t) \in DOMAIN content' /\ content[H(t)] = <<>>
  BY <1>1, <1>2, <1>3 DEF ContentIs, Hands
<1>6. \A i \in DOMAIN queue' : /\ Q(i) \in DOMAIN content' /\ Q(i + 1) \in DOMAIN content
                               /\ h[Q(i)] = Q(i + 1) /\ content'[Q(i)] = content[Q(i + 1)]
  <2>1. \A i : Q(i)[2] = i
    BY DEF Q
  <2>. QED
    BY <1>2, <1>3, <2>1, Boxes DEF ContentIs
<1>7. ASSUME NEW b \in DOMAIN content', b # H(t), b \notin {Q(i) : i \in DOMAIN queue'}
      PROVE  /\ h[b] = b /\ b \in DOMAIN content /\ content'[b] = content[b]
             /\ b \notin {Q(i) : i \in DOMAIN queue}
  <2>1. h[b] = b
    BY <1>7
  <2>2. CASE b \in {H(u) : u \in Threads}
    BY <1>1, <1>3, <1>7, <2>1, <2>2, Boxes DEF ContentIs, Hands
  <2>3. CASE b = P
    BY <1>1, <1>3, <2>1, <2>3, Boxes DEF ContentIs
  <2>. QED
    BY <1>1, <1>3, <1>7, <2>2, <2>3 DEF ContentIs
<1>. HIDE DEF h
<1>8. \A b \in DOMAIN content' : h[b] \in DOMAIN content /\ content'[b] = content[h[b]]
  BY <1>5, <1>6, <1>7
<1>9. \A a, b \in DOMAIN content' : h[a] = h[b] => a = b
  <2>. TAKE a, b \in DOMAIN content'
  <2>1. \A i \in DOMAIN queue' : i + 1 # 1
    BY <1>4
  <2>2. \A i, j \in DOMAIN queue' : i + 1 = j + 1 => i = j
    <3>1. \A i, j \in Int : i + 1 = j + 1 => i = j
      OBVIOUS
    <3>. QED
      BY <1>4, <3>1
  <2>3. \A i \in DOMAIN queue' : i + 1 \in DOMAIN queue
    BY <1>2
  <2>. HIDE DEF Q
  <2>7. ASSUME NEW c \in DOMAIN content', c # H(t)
        PROVE  h[c] # Q(1)
    <3>1. CASE c \in {Q(i) : i \in DOMAIN queue'}
      <4>1. PICK i \in DOMAIN queue' : c = Q(i)
        BY <3>1
      <4>2. h[c] = Q(i + 1) /\ i + 1 # 1
        BY <1>6, <2>1, <4>1
      <4>. QED
        BY <4>2, Boxes
    <3>2. CASE c \notin {Q(i) : i \in DOMAIN queue'}
      BY <1>2, <1>7, <2>7, <3>2
    <3>. QED
      BY <3>1, <3>2
  <2>4. CASE a = H(t)
    BY <1>5, <2>4, <2>7
  <2>5. CASE b = H(t)
    BY <1>5, <2>5, <2>7
  <2>6. CASE a # H(t) /\ b # H(t)
    <3>1. CASE a \in {Q(i) : i \in DOMAIN queue'}
      <4>1. PICK i \in DOMAIN queue' : a = Q(i)
        BY <3>1
      <4>2. h[a] = Q(i + 1) /\ i + 1 \in DOMAIN queue
        BY <1>6, <2>3, <4>1
      <4>3. CASE b \in {Q(j) : j \in DOMAIN queue'}
        <5>1. PICK j \in DOMAIN queue' : b = Q(j)
          BY <4>3
        <5>2. h[b] = Q(j + 1)
          BY <1>6, <5>1
        <5>. QED
          BY <2>2, <4>1, <4>2, <5>1, <5>2, Boxes
      <4>4. CASE b \notin {Q(j) : j \in DOMAIN queue'}
        BY <1>7, <2>6, <4>2, <4>4
      <4>. QED
        BY <4>3, <4>4
    <3>2. CASE a \notin {Q(i) : i \in DOMAIN queue'}
      <4>1. h[a] = a /\ a \notin {Q(i) : i \in DOMAIN queue}
        BY <1>7, <2>6, <3>2
      <4>2. CASE b \in {Q(j) : j \in DOMAIN queue'}
        <5>1. PICK j \in DOMAIN queue' : b = Q(j)
          BY <4>2
        <5>2. h[b] = Q(j + 1) /\ j + 1 \in DOMAIN queue
          BY <1>6, <2>3, <5>1
        <5>. QED
          BY <4>1, <5>2
      <4>3. CASE b \notin {Q(j) : j \in DOMAIN queue'}
        BY <1>7, <2>6, <4>1, <4>3
      <4>. QED
        BY <4>2, <4>3
    <3>. QED
      BY <3>1, <3>2
  <2>. QED
    BY <2>4, <2>5, <2>6
<1>10. \A a \in DOMAIN content : content[a] = <<>>
                                 \/ \E b \in DOMAIN content' : content'[b] = content[a]
  <2>. TAKE a \in DOMAIN content
  <2>1. CASE a \in {Q(i) : i \in DOMAIN queue}
    <3>1. PICK i \in DOMAIN queue : a = Q(i)
      BY <2>1
    <3>2. CASE i = 1
      BY <1>5, <3>1, <3>2
    <3>3. CASE i # 1
      <4>1. i - 1 \in DOMAIN queue' /\ (i - 1) + 1 = i
        BY <1>2, <3>3
      <4>2. content'[Q(i - 1)] = content[a] /\ Q(i - 1) \in DOMAIN content'
        BY <1>6, <3>1, <4>1
      <4>. QED
        BY <4>2
    <3>. QED
      BY <3>2, <3>3
  <2>2. CASE a = H(t)
    BY <1>5, <2>2
  <2>3. CASE a \notin {Q(i) : i \in DOMAIN queue} /\ a # H(t)
    <3>1. a \in DOMAIN content' /\ a \notin {Q(i) : i \in DOMAIN queue'}
      <4>1. DOMAIN queue' \subseteq DOMAIN queue
        <5>1. queue \in Seq(Seq(Nat)) /\ queue' = Tail(queue) /\ queue # <<>>
          BY <1>1 DEF Typed
        <5>2. DOMAIN queue = 1..Len(queue) /\ Len(queue) \in Nat
          BY <5>1, LenProperties
        <5>3. queue' \in Seq(Seq(Nat)) /\ Len(queue') = Len(queue) - 1
          BY <5>1, HeadTailProperties
        <5>4. DOMAIN queue' = 1..(Len(queue) - 1)
          BY <5>3, LenProperties
        <5>. QED
          BY <5>2, <5>4
      <4>2. a \in {H(u) : u \in Threads} \cup {P}
        BY <1>3, <2>3 DEF ContentIs
      <4>3. a \in DOMAIN content'
        BY <1>1, <1>3, <4>2 DEF ContentIs
      <4>. QED
        BY <2>3, <4>1, <4>3
    <3>. QED
      BY <1>7, <2>3, <3>1
  <2>. QED
    BY <2>1, <2>2, <2>3
<1>11. Once(content', there)
  <2>1. Once(content, there)
    BY DEF LinesApart
  <2>. QED
    BY <1>8, <1>9, <1>10, <2>1, Renamed
<1>. QED
  BY <1>1, <1>11, Unmoved, LinesStay

\* A step that moves no line, but may begin, read or end uploads.
LEMMA QuietPlaced ==
    ASSUME Typed, Placed, NEW t \in Threads, Hands(t, <<>>), inHand(t) = <<>>,
           UNCHANGED <<queue, pending, uploads>>, Resting, past'.lines = past.lines
    PROVE  Placed'
<1>1. OnItsWay' = OnItsWay
  BY DEF OnItsWay
<1>2. past'.lines \in Nat /\ past'.lines >= past.lines
  BY DEF Typed, Pasts
<1>3. DiskApart' /\ Sent'
  BY <1>1, <1>2, RestsApart DEF Placed
<1>4. LinesApart'
  BY QuietLines, LinesStay DEF Placed
<1>. QED
  BY <1>3, <1>4 DEF Placed

\* Lines come into a file or are lost, and others are lost from the files.
LEMMA ShiftApart ==
    ASSUME Typed, DiskApart, Sent, UNCHANGED uploads,
           NEW gone, NEW f, NEW come, NEW out, Shift(gone, f, come, out),
           DOMAIN disk' \subseteq DOMAIN disk \cup {f},
           come \cup out \subseteq there, come = {} \/ out = {}
    PROVE  DiskApart' /\ Sent' /\ there' = there \ (come \cup out)
<1>1. /\ \A g \in DOMAIN disk : /\ g \in DOMAIN disk' /\ disk'[g].name = disk[g].name
                                /\ disk'[g].exists = disk[g].exists
      /\ \A g \in DOMAIN disk' :
             disk'[g].lines = (old(g) \ gone) \cup IF g = f THEN come ELSE {}
      /\ come # {} => f \in DOMAIN disk /\ disk[f].exists
      /\ gone \subseteq onDisk
      /\ past'.lost = past.lost \cup gone \cup out
      /\ past'.lines = past.lines /\ past'.accepted = past.accepted
  BY DEF Shift
<1>2. uploaded' = uploaded /\ Taken' = Taken /\ OnItsWay' = OnItsWay
  BY <1>1 DEF uploaded, Taken, OnItsWay
<1>3. \A g \in DOMAIN disk' : old(g) = {} \/ (g \in DOMAIN disk /\ old(g) = disk[g].lines)
  <2>. TAKE g \in DOMAIN disk'
  <2>1. CASE g \in DOMAIN disk
    BY <2>1 DEF old
  <2>2. CASE g \notin DOMAIN disk
    BY <2>2 DEF old
  <2>. QED
    BY <2>1, <2>2
<1>4. \A g \in DOMAIN disk : g \in DOMAIN disk' /\ old(g) = disk[g].lines
  BY <1>1 DEF old
<1>. HIDE DEF old
<1>5. \A x : x \in onDisk <=> \E g \in DOMAIN disk : x \in disk[g].lines
  BY DEF onDisk
<1>6. \A x : x \in onDisk' <=> \E g \in DOMAIN disk' : x \in disk'[g].lines
  BY DEF onDisk
<1>7. onDisk' = (onDisk \ gone) \cup come
  <2>1. ASSUME NEW x \in onDisk' PROVE x \in (onDisk \ gone) \cup come
    BY <1>1, <1>3, <1>5, <1>6
  <2>2. ASSUME NEW x \in onDisk, x \notin gone PROVE x \in onDisk'
    BY <1>1, <1>4, <1>5, <1>6, <2>2
  <2>3. ASSUME NEW x \in come PROVE x \in onDisk'
    BY <1>1, <1>6
  <2>. QED
    BY <2>1, <2>2, <2>3
<1>8. /\ come \cup out \subseteq 1..past.lines
      /\ (come \cup out) \cap (onDisk \cup past.lost \cup uploaded) = {}
  BY DEF there
<1>9. there' = there \ (come \cup out)
  BY <1>1, <1>2, <1>7 DEF there
<1>10. /\ onDisk' \cup past'.lost \cup uploaded' \subseteq 1..past'.lines
       /\ onDisk' \cap (past'.lost \cup uploaded') = {}
  BY <1>1, <1>2, <1>7, <1>8 DEF DiskApart
<1>11. \A g, h \in DOMAIN disk' : g # h => disk'[g].lines \cap disk'[h].lines = {}
  <2>. SUFFICES ASSUME NEW g \in DOMAIN disk', NEW h \in DOMAIN disk', g # h,
                       NEW x \in disk'[g].lines, x \in disk'[h].lines
                PROVE  FALSE
    OBVIOUS
  <2>1. x \in old(g) => x \in onDisk /\ x \notin come
    BY <1>3, <1>5, <1>8
  <2>2. x \in old(h) => x \in onDisk /\ x \notin come
    BY <1>3, <1>5, <1>8
  <2>3. x \in old(g) /\ x \in old(h)
    BY <1>1, <2>1, <2>2
  <2>. QED
    BY <1>3, <2>3 DEF DiskApart
<1>12. \A g \in DOMAIN disk' : ~disk'[g].exists => disk'[g].lines = {}
  <2>. SUFFICES ASSUME NEW g \in DOMAIN disk', ~disk'[g].exists
                PROVE  disk'[g].lines = {}
    OBVIOUS
  <2>1. old(g) = {}
    BY <1>1, <1>3 DEF DiskApart
  <2>2. g = f => come = {}
    BY <1>1
  <2>. QED
    BY <1>1, <2>1, <2>2
<1>13. DiskApart'
  BY <1>10, <1>11, <1>12 DEF DiskApart
<1>14. ASSUME NEW u \in OnItsWay', NEW x \in u.payload, x \notin past'.lost
       PROVE  x \in In(u.file)'
  <2>1. x \in In(u.file) /\ x \notin gone
    BY <1>1, <1>2, <1>14 DEF Sent
  <2>2. PICK g \in Named(u.file) : x \in disk[g].lines
    BY <2>1 DEF In
  <2>3. g \in DOMAIN disk /\ disk[g].name = u.file /\ disk[g].exists
    BY <2>2 DEF Named
  <2>4. x \in disk'[g].lines
    BY <1>1, <1>4, <2>1, <2>2, <2>3
  <2>5. g \in Named(u.file)'
    BY <1>1, <2>3 DEF Named
  <2>. QED
    BY <2>4, <2>5 DEF In
<1>15. Sent'
  BY <1>1, <1>2, <1>14 DEF Sent
<1>. QED
  BY <1>9, <1>13, <1>15

LEMMA WritePlaced ==
    ASSUME Typed, Shape, Placed, NEW t \in Threads, Write(t)
    PROVE  Placed'
<1> DEFINE m == ToSet(arg(t).message)
<1>1. /\ Hands(t, <<>>) /\ inHand(t) = arg(t).message /\ m \in SUBSET Nat
      /\ SameFiles /\ UNCHANGED <<queue, pending, uploads>>
  BY WriteFacts
<1>2. DiskApart /\ Sent /\ Once(content, there)
  BY DEF Placed, LinesApart
<1>3. Once(content', there \ m) /\ m \subseteq there
  <2>1. /\ DOMAIN content' = DOMAIN content /\ H(t) \in DOMAIN content
        /\ content[H(t)] = arg(t).message /\ content'[H(t)] = <<>>
        /\ \A b \in DOMAIN content : b # H(t) => content'[b] = content[b]
    BY <1>1, OneHand
  <2>2. Once(content', there \ m)
    BY <1>2, <2>1, Emptied
  <2>3. m \subseteq there
    BY <1>2, <2>1 DEF Once, ToSet
  <2>. QED
    BY <2>2, <2>3
<1>4. \E gone, f, come, out :
          /\ Shift(gone, f, come, out) /\ come \cup out = m /\ (come = {} \/ out = {})
  <2>1. ASSUME NEW f \in DOMAIN disk, Into(f, m)
        PROVE  \E gone, come, out :
                   Shift(gone, f, come, out) /\ come \cup out = m /\ (come = {} \/ out = {})
    <3>. HIDE DEF m
    <3>1. PICK gone, come, out \in SUBSET Nat :
              /\ Shift(gone, f, come, out) /\ come \cup out = m
              /\ disk[f].exists => out = {}
      BY <1>1, <2>1, WrittenInto
    <3>2. come # {} => disk[f].exists
      BY <3>1 DEF Shift
    <3>. QED
      BY <3>1, <3>2
  <2>2. ASSUME Lose(m), UNCHANGED disk
        PROVE  Shift({}, 0, {}, m)
    <3>. HIDE DEF m
    <3>1. /\ past'.lost = past.lost \cup m
          /\ past'.lines = past.lines /\ past'.accepted = past.accepted
      BY <1>1, <2>2, Losing
    <3>. QED
      BY <2>2, <3>1 DEF Shift, old
  <2>3. (\E f \in DOMAIN disk : Into(f, m)) \/ (Lose(m) /\ UNCHANGED disk)
    BY Writes
  <2>. HIDE DEF m
  <2>4. CASE \E f \in DOMAIN disk : Into(f, m)
    BY <2>1, <2>4
  <2>5. CASE Lose(m) /\ UNCHANGED disk
    BY <2>2, <2>5
  <2>. QED
    BY <2>3, <2>4, <2>5
<1>. HIDE DEF m
<1>5. PICK gone, f, come, out :
          Shift(gone, f, come, out) /\ come \cup out = m /\ (come = {} \/ out = {})
  BY <1>4
<1>6. DOMAIN disk' \subseteq DOMAIN disk \cup {f}
  BY <1>1 DEF SameFiles
<1>7. DiskApart' /\ Sent' /\ there' = there \ m
  <2>1. come \cup out \subseteq there
    BY <1>3, <1>5
  <2>2. come = {} \/ out = {}
    BY <1>5
  <2>3. Shift(gone, f, come, out) /\ DiskApart /\ Sent /\ UNCHANGED uploads
    BY <1>1, <1>2, <1>5
  <2>4. DiskApart' /\ Sent' /\ there' = there \ (come \cup out)
    BY <1>6, <2>1, <2>2, <2>3, ShiftApart
  <2>. QED
    BY <1>5, <2>4
<1>. QED
  BY <1>3, <1>7 DEF Placed, LinesApart

LEMMA NewLogPlaced ==
    ASSUME Typed, Shape, Placed, NEW t \in Threads, NewLog(t)
    PROVE  Placed'
<1>1. /\ Hands(t, <<>>) /\ inHand(t) = <<>> /\ UNCHANGED <<queue, pending, uploads>>
      /\ DOMAIN disk' \subseteq DOMAIN disk \cup {Len(disk) + 1}
  <2>1. /\ Hands(t, <<>>) /\ inHand(t) = <<>> /\ UNCHANGED <<queue, pending, uploads>>
        /\ DOMAIN disk = 1..Len(disk) /\ DOMAIN disk' = 1..(Len(disk) + 1) /\ Len(disk) \in Nat
    BY NewLogFacts
  <2>. QED
    BY <2>1
<1>2. PICK name : Shift(In(name), Len(disk) + 1, {}, {})
  BY NewLogFacts
<1>3. DiskApart /\ Sent /\ LinesApart
  BY DEF Placed
<1>4. DiskApart' /\ Sent' /\ there' = there
  <2> DEFINE gone == In(name)
             n == Len(disk) + 1
             none == {}
  <2>1. /\ Shift(gone, n, none, none) /\ DOMAIN disk' \subseteq DOMAIN disk \cup {n}
        /\ DiskApart /\ Sent /\ UNCHANGED uploads
        /\ none = {} /\ none \cup none \subseteq there
    BY <1>1, <1>2, <1>3
  <2>. HIDE DEF gone, n, none
  <2>2. DiskApart' /\ Sent' /\ there' = there \ (none \cup none)
    BY <2>1, ShiftApart
  <2>. QED
    BY <2>1, <2>2
<1>5. Once(content', there)
  BY <1>1, <1>3, QuietLines
<1>. QED
  BY <1>4, <1>5 DEF Placed, LinesApart

\* What is read is in its file only, so in no other upload.
LEMMA ReadPlaced ==
    ASSUME Typed, Shape, Claimed, Placed, NEW t \in Threads, Read(t)
    PROVE  Placed'
<1>1. /\ Hands(t, <<>>) /\ inHand(t) = <<>> /\ UNCHANGED <<disk, past, queue, pending>>
  BY ReadFacts
<1>2. PICK r \in Uploads(Len(disk)) :
          /\ uploads' = uploads \cup {r} /\ r.file = arg(t).file
          /\ r.at \in {"sent", "failed"} /\ r.at = "sent" => r.payload = In(r.file)
  BY ReadFacts
<1>3. DiskApart /\ Sent /\ LinesApart
  BY DEF Placed
<1>4. Resting
  BY <1>1, Unmoved
<1>5. LinesApart'
  BY <1>1, <1>3, <1>4, QuietLines, LinesStay
<1>6. /\ onDisk' = onDisk /\ uploaded' = uploaded /\ Taken' = Taken
      /\ \A name : In(name)' = In(name)
  BY <1>4, Rests
<1>7. DiskApart'
  BY <1>1, <1>3, <1>6 DEF DiskApart
<1>8. \A v \in OnItsWay : v.file # r.file
  <2>1. isRead(t, 1) /\ todo[t][1][2] = arg(t)
    BY ReadGone
  <2>2. 1 \in DOMAIN todo[t]
    BY <2>1 DEF isRead
  <2>. QED
    BY <1>2, <2>1, <2>2 DEF Claimed, OnItsWay
<1>9. r.at = "sent" => r.payload \subseteq onDisk \ (past.lost \cup uploaded)
  BY <1>2, <1>3, InFile DEF DiskApart
<1>10. ASSUME r.at = "sent", NEW v \in OnItsWay, NEW x \in r.payload, x \in v.payload
       PROVE  FALSE
  <2>1. x \in In(r.file) /\ x \in In(v.file)
    BY <1>2, <1>3, <1>9, <1>10 DEF Sent
  <2>2. PICK g \in Named(r.file) : x \in disk[g].lines
    BY <2>1 DEF In
  <2>3. PICK h \in Named(v.file) : x \in disk[h].lines
    BY <2>1 DEF In
  <2>4. g \in DOMAIN disk /\ h \in DOMAIN disk /\ g # h
    BY <1>8 DEF Named
  <2>. QED
    BY <1>3, <2>2, <2>3, <2>4 DEF DiskApart
<1>11. ASSUME r.at = "sent", NEW v \in Taken
       PROVE  r.payload \cap v.payload = {}
  BY <1>9, <1>11 DEF Taken, uploaded
<1>12. OnItsWay' \subseteq OnItsWay \cup (IF r.at = "sent" THEN {r} ELSE {})
  BY <1>2 DEF OnItsWay
<1>13. \A u \in OnItsWay' : u.payload \subseteq In(u.file)' \cup past'.lost
  BY <1>1, <1>2, <1>3, <1>6, <1>12 DEF Sent
<1>14. \A u, v \in OnItsWay' \cup Taken' : u # v => u.payload \cap v.payload = {}
  BY <1>3, <1>6, <1>10, <1>11, <1>12 DEF Sent
<1>15. Sent'
  BY <1>1, <1>3, <1>13, <1>14 DEF Sent
<1>. QED
  BY <1>5, <1>7, <1>15 DEF Placed

\* The file of an upload that was taken is removed: what was uploaded of it is uploaded,
\* the rest lost.
LEMMA TakenPlaced ==
    ASSUME Typed, Shape, Claimed, DiskApart, Sent, NEW u \in uploads,
           FinishOne(u, "taken")
    PROVE  DiskApart' /\ Sent' /\ there' = there
<1>1. "taken" \in hows /\ "taken" # "refused"
  BY DEF hows
<1>2. /\ SameFiles /\ disk' = Removed(u.file) /\ u.at = "sent"
      /\ past'.lines = past.lines
      /\ past'.lost = past.lost \cup (In(u.file) \ u.payload)
  BY <1>1, FinishFacts
<1>3. PICK x \in Uploads(Len(disk)) : /\ x.payload = u.payload /\ x.at = "taken"
                                      /\ past'.accepted = past.accepted \cup {x}
  BY <1>1, FinishFacts
<1>4. PICK w \in Uploads(Len(disk)) :
          /\ uploads' = (uploads \ {u}) \cup {w}
          /\ w.file = u.file /\ w.at \in {"last", "done"}
  BY <1>1, FinishFacts
<1>5. u \in OnItsWay /\ OnItsWay' \subseteq OnItsWay \ {u}
  BY <1>2, <1>4 DEF OnItsWay
<1>6. Taken' = Taken \cup {x} /\ uploaded' = uploaded \cup u.payload
  BY <1>3 DEF Taken, uploaded
<1>7. \A f \in DOMAIN disk : /\ disk'[f].name = disk[f].name
                             /\ f \in Named(u.file) => disk'[f].lines = {} /\ ~disk'[f].exists
                             /\ f \notin Named(u.file) => disk'[f] = disk[f]
  BY <1>2, RemovedFile DEF SameFiles
<1>8. DOMAIN disk' = DOMAIN disk
  BY <1>2 DEF SameFiles
<1>9. ASSUME NEW f \in DOMAIN disk, f \notin Named(u.file)
      PROVE  disk[f].lines \cap In(u.file) = {}
  <2>. SUFFICES ASSUME NEW y \in disk[f].lines, y \in In(u.file) PROVE FALSE
    OBVIOUS
  <2>1. PICK g \in Named(u.file) : y \in disk[g].lines
    BY DEF In
  <2>2. g \in DOMAIN disk /\ g # f
    BY <1>9 DEF Named
  <2>. QED
    BY <2>1, <2>2 DEF DiskApart
<1>10. onDisk' = onDisk \ In(u.file)
  <2>1. ASSUME NEW y \in onDisk' PROVE y \in onDisk \ In(u.file)
    <3>1. PICK f \in DOMAIN disk' : y \in disk'[f].lines
      BY DEF onDisk
    <3>2. f \in DOMAIN disk /\ f \notin Named(u.file) /\ y \in disk[f].lines
      BY <1>7, <1>8, <3>1
    <3>. QED
      BY <1>9, <3>2 DEF onDisk
  <2>2. ASSUME NEW y \in onDisk, y \notin In(u.file) PROVE y \in onDisk'
    <3>1. PICK f \in DOMAIN disk : y \in disk[f].lines
      BY DEF onDisk
    <3>2. f \notin Named(u.file)
      BY <2>2, <3>1 DEF In
    <3>. QED
      BY <1>7, <1>8, <3>1, <3>2 DEF onDisk
  <2>. QED
    BY <2>1, <2>2
<1>11. In(u.file) \subseteq onDisk
  BY InFile
<1>12. u.payload \subseteq In(u.file) \cup past.lost
  BY <1>5 DEF Sent
<1>13. onDisk' \cup past'.lost \cup uploaded' = onDisk \cup past.lost \cup uploaded
  BY <1>2, <1>6, <1>10, <1>11, <1>12
<1>14. there' = there
  BY <1>2, <1>13 DEF there
<1>15. onDisk' \cap (past'.lost \cup uploaded') = {}
  BY <1>2, <1>6, <1>10, <1>11, <1>12 DEF DiskApart
<1>16. /\ \A f, g \in DOMAIN disk' : f # g => disk'[f].lines \cap disk'[g].lines = {}
       /\ \A f \in DOMAIN disk' : ~disk'[f].exists => disk'[f].lines = {}
  BY <1>7, <1>8 DEF DiskApart
<1>17. DiskApart'
  BY <1>2, <1>13, <1>15, <1>16 DEF DiskApart
<1>18. ASSUME NEW v \in OnItsWay', NEW y \in v.payload, y \notin past'.lost
       PROVE  y \in In(v.file)'
  <2>1. v \in OnItsWay /\ v # u /\ v \in uploads
    BY <1>5 DEF OnItsWay
  <2>2. v.file # u.file
    BY <2>1 DEF Claimed
  <2>3. y \in In(v.file)
    BY <1>2, <1>18, <2>1 DEF Sent
  <2>4. PICK g \in Named(v.file) : y \in disk[g].lines
    BY <2>3 DEF In
  <2>5. g \in DOMAIN disk /\ g \notin Named(u.file) /\ disk[g].name = v.file /\ disk[g].exists
    BY <2>2 DEF Named
  <2>6. g \in Named(v.file)' /\ y \in disk'[g].lines
    BY <1>7, <1>8, <2>4, <2>5 DEF Named
  <2>. QED
    BY <2>6 DEF In
<1>19. ASSUME NEW v \in OnItsWay' \cup Taken
       PROVE  v.payload \cap x.payload = {}
  <2>1. v # u
    BY <1>2, <1>5 DEF Taken
  <2>. QED
    BY <1>3, <1>5, <2>1 DEF Sent
<1>20. \A v, z \in OnItsWay' \cup Taken' : v # z => v.payload \cap z.payload = {}
  <2>. SUFFICES ASSUME NEW v \in OnItsWay' \cup Taken', NEW z \in OnItsWay' \cup Taken', v # z
                PROVE  v.payload \cap z.payload = {}
    OBVIOUS
  <2>1. CASE v = x
    BY <1>6, <1>19, <2>1
  <2>2. CASE z = x
    BY <1>6, <1>19, <2>2
  <2>3. CASE v # x /\ z # x
    BY <1>5, <1>6, <2>3 DEF Sent
  <2>. QED
    BY <2>1, <2>2, <2>3
<1>21. \A v \in past'.accepted : v.at \in {"taken", "unseen"}
  BY <1>3 DEF Sent
<1>22. Sent'
  BY <1>18, <1>20, <1>21 DEF Sent
<1>. QED
  BY <1>14, <1>17, <1>22

LEMMA FinishPlaced ==
    ASSUME Typed, Shape, Claimed, Placed, NEW u \in uploads, NEW how \in hows,
           FinishOne(u, how)
    PROVE  Placed'
<1>1. DiskApart /\ Sent /\ LinesApart
  BY DEF Placed
<1>2. DiskApart' /\ Sent' /\ there' = there
  <2>1. CASE how = "taken"
    BY <1>1, <2>1, TakenPlaced
  <2>2. CASE how # "taken"
    <3>1. /\ disk' = disk /\ past'.lines = past.lines /\ past'.lost = past.lost
          /\ how = "refused" => past'.accepted = past.accepted
          /\ how # "refused" => \E x \in Uploads(Len(disk)) :
                 x.at = "unseen" /\ past'.accepted = past.accepted \cup {x}
      BY <2>2, FinishFacts DEF hows
    <3>2. \E w : uploads' = (uploads \ {u}) \cup {w} /\ w.at \in {"last", "done"}
      BY FinishFacts
    <3>3. OnItsWay' \subseteq OnItsWay
      BY <3>2 DEF OnItsWay
    <3>4. Taken' = Taken /\ uploaded' = uploaded
          /\ \A v \in past'.accepted : v.at \in {"taken", "unseen"}
      <4>1. \A v \in past'.accepted : v \in past.accepted \/ v.at = "unseen"
        BY <3>1
      <4>2. past.accepted \subseteq past'.accepted
        BY <3>1
      <4>3. Taken' = Taken
        BY <4>1, <4>2 DEF Taken
      <4>4. uploaded = UNION {v.payload : v \in Taken}
        BY DEF uploaded, Taken
      <4>5. uploaded' = UNION {v.payload : v \in Taken'}
        BY DEF uploaded, Taken
      <4>. QED
        BY <1>1, <4>1, <4>3, <4>4, <4>5 DEF Sent
    <3>5. onDisk' = onDisk /\ \A name : In(name)' = In(name)
      BY <3>1 DEF onDisk, In, Named
    <3>6. DiskApart'
      BY <1>1, <3>1, <3>4, <3>5 DEF DiskApart
    <3>7. Sent'
      BY <1>1, <3>1, <3>3, <3>4, <3>5 DEF Sent
    <3>8. there' = there
      BY <3>1, <3>4, <3>5 DEF there
    <3>. QED
      BY <3>6, <3>7, <3>8
  <2>. QED
    BY <2>1, <2>2
<1>3. Once(content', there)
  <2>1. UNCHANGED <<todo, queue, pending>>
    BY FinishFacts
  <2>2. \A b \in DOMAIN content : content'[b] = content[b]
    BY <2>1 DEF content, boxes, inHand, At, arg
  <2>3. DOMAIN content' = DOMAIN content
    BY <2>1 DEF content, boxes
  <2>. QED
    BY <1>1, <2>2, <2>3, Untouched DEF LinesApart
<1>. QED
  BY <1>2, <1>3 DEF Placed, LinesApart

LEMMA PlacedKeeps ==
    ASSUME Typed, Shape, Claimed, Placed, [Next]_vars
    PROVE  Placed'
<1>1. DiskApart /\ Sent /\ LinesApart /\ past.lines \in Nat
  BY DEF Placed, Typed, Pasts
\* The steps that leave the files and the uploads.
<1>2. ASSUME Resting, past'.lines \in {past.lines, past.lines + 1}, UNCHANGED uploads,
             LinesApart'
      PROVE  Placed'
  <2>1. OnItsWay' = OnItsWay
    BY <1>2 DEF OnItsWay
  <2>2. past'.lines \in Nat /\ past'.lines >= past.lines
    BY <1>1, <1>2
  <2>3. DiskApart' /\ Sent'
    BY <1>1, <1>2, <2>1, <2>2, RestsApart
  <2>. QED
    BY <1>2, <2>3 DEF Placed
\* The boxes stay.
<1>3. ASSUME UNCHANGED <<todo, queue, pending>> PROVE Once(content', there)
  <2>1. \A b \in DOMAIN content : content'[b] = content[b]
    BY <1>3 DEF content, boxes, inHand, At, arg
  <2>2. DOMAIN content' = DOMAIN content
    BY <1>3 DEF content, boxes
  <2>. QED
    BY <1>1, <2>1, <2>2, Untouched DEF LinesApart
<1>4. CASE UNCHANGED vars
  <2>1. UNCHANGED <<todo, queue, pending, disk, past, uploads>>
    BY <1>4 DEF vars
  <2>2. Resting /\ LinesApart'
    BY <1>3, <2>1, Unmoved, LinesStay
  <2>. QED
    BY <1>2, <2>1, <2>2
<1>5. ASSUME NEW u \in uploads, Release(u)
      PROVE  Placed'
  <2>1. UNCHANGED <<todo, queue, pending, disk, past>> /\ uploads' = uploads \ {u}
    BY <1>5, ReleaseFacts
  <2>2. Resting /\ LinesApart'
    BY <1>3, <2>1, Unmoved, LinesStay
  <2>3. OnItsWay' \subseteq OnItsWay
    BY <2>1 DEF OnItsWay
  <2>4. past'.lines \in Nat /\ past'.lines >= past.lines
    BY <1>1, <2>1
  <2>5. DiskApart' /\ Sent'
    BY <1>1, <2>2, <2>3, <2>4, RestsApart
  <2>. QED
    BY <2>2, <2>5 DEF Placed
<1>6. ASSUME NEW t \in Threads, Steppable(t) \/ Claim(t) \/ Read(t)
      PROVE  Placed'
  <2>1. CASE Log(t) \/ Date(t)
    <3>1. /\ past' = [past EXCEPT !.lines = @ + 1] /\ UNCHANGED <<queue, pending, disk, uploads>>
          /\ Hands(t, <<past.lines + 1>>) /\ inHand(t) = <<>>
      BY <2>1, LogFacts, DateFacts DEF Log, Date
    <3>2. LinesApart'
      BY <1>1, <3>1, LineAdded
    <3>3. Resting /\ past'.lines = past.lines + 1
      BY <3>1, LineTyped DEF Resting, SameFiles, SameLines, Typed
    <3>. QED
      BY <1>2, <3>1, <3>2, <3>3
  <2>2. CASE Swap(t)
    <3>1. LinesApart' /\ SameFiles /\ SameLines /\ UNCHANGED <<past, uploads>>
      BY <1>1, <2>2, SwapLines, SwapFacts DEF Swap
    <3>. QED
      BY <1>2, <3>1 DEF Resting
  <2>3. CASE Enqueue(t) \/ Pend(t) \/ Takes(t)
    <3>1. LinesApart' /\ UNCHANGED <<disk, past, uploads>>
      BY <1>1, <2>3, EnqueueLines, PendLines, TakesLines DEF Enqueue, Pend, Takes, OnlyLines
    <3>. QED
      BY <1>2, <3>1, Unmoved
  <2>4. CASE Drain(t) /\ DrainEnds(t)
    <3>1. /\ Hands(t, <<>>) /\ inHand(t) = <<>> /\ SameFiles /\ SameLines
          /\ UNCHANGED <<queue, pending, past, uploads>>
      BY <2>4, DrainEndFacts DEF Drain, DrainEnds, OnlyFiles
    <3>. QED
      BY <3>1, QuietPlaced DEF Resting
  <2>5. CASE UploadAllLogs(t) \/ Files(t) \/ Claim(t)
    <3>1. Hands(t, <<>>) /\ inHand(t) = <<>>
      BY <2>5, UploadFacts, FilesFacts, ClaimFacts
    <3>2. UNCHANGED <<queue, pending, disk, past, uploads>>
      BY <2>5 DEF UploadAllLogs, Files, Claim, OnlyUploads
    <3>. QED
      BY <3>1, <3>2, Unmoved, QuietPlaced
  <2>. QED
    BY <1>6, <2>1, <2>2, <2>3, <2>4, <2>5, WritePlaced, NewLogPlaced, ReadPlaced DEF Steppable
<1>. QED
  BY <1>4, <1>5, <1>6, FinishPlaced, NextCases

-------------------------------------------------------------------------------
(* The theorems.                                                             *)

LEMMA InvInit ==
    ASSUME Init
    PROVE  Inv
<1>1. /\ todo = [t \in Threads |-> IF t = "worker" THEN << <<"pop">> >> ELSE <<>>]
      /\ file = 0 /\ queue = <<>> /\ pending = <<>> /\ disk = <<>>
      /\ uploading = {} /\ uploads = {} /\ calls = <<>>
      /\ past = [lines |-> 0, lost |-> {}, accepted |-> {}]
  BY DEF Init
<1>2. /\ \A t \in Threads : todo[t] = << <<"pop">> >> \/ todo[t] = <<>>
      /\ \A t \in Threads : todo[t] \in Seq(Steps(0))
  <2> DEFINE e == <<"pop">>
  <2>1. e \in Steps(0)
    BY DEF Steps
  <2>. HIDE DEF e
  <2>2. <<e>> \in Seq(Steps(0)) /\ <<>> \in Seq(Steps(0))
    BY <2>1
  <2>3. \A t \in Threads : todo[t] = <<e>> \/ todo[t] = <<>>
    BY <1>1 DEF e
  <2>. QED
    BY <2>2, <2>3 DEF e
<1>3. \A t \in Threads : \A i \in DOMAIN todo[t] : i = 1 /\ todo[t][i][1] = "pop"
  BY <1>2
<1>4. \A t \in Threads : \A n : At(t, n) => n = "pop"
  BY <1>2 DEF At
<1>5. Len(disk) = 0 /\ DOMAIN disk = {} /\ DOMAIN queue = {}
  BY <1>1
<1>6. Typed
  <2>1. past \in Pasts(0) /\ disk \in Seq(LogFile)
    BY <1>1, EmptySeq DEF Pasts
  <2>. QED
    BY <1>1, <1>2, <1>5, <2>1, EmptySeq DEF Typed
<1>7. Shape /\ Claimed
  BY <1>1, <1>3 DEF Shape, Claimed, isRead
<1>10. /\ onDisk = {} /\ uploaded = {} /\ past.lost = {} /\ past.lines = 0
       /\ past.accepted = {} /\ OnItsWay = {} /\ Taken = {}
  BY <1>1, <1>5 DEF onDisk, uploaded, OnItsWay, Taken
<1>11. DiskApart /\ Sent
  BY <1>5, <1>10 DEF DiskApart, Sent
<1>8. Early
  BY <1>1, <1>3, <1>4, <1>5 DEF Early, AllOpen
<1>9. LinesApart
  <2>1. ContentIs
    BY Content
  <2>2. \A t \in Threads : inHand(t) = <<>>
    BY <1>4 DEF inHand
  <2>3. \A b \in DOMAIN content : content[b] = <<>>
    BY <1>1, <1>5, <2>1, <2>2 DEF ContentIs
  <2>4. there = {}
    BY <1>10 DEF there
  <2>5. \A b \in DOMAIN content : content[b] \in Seq(Nat) /\ DOMAIN content[b] = {}
    <3>1. <<>> \in Seq(Nat) /\ DOMAIN <<>> = {}
      OBVIOUS
    <3>. QED
      BY <2>3, <3>1
  <2>. QED
    BY <2>4, <2>5 DEF LinesApart, Once
<1>. QED
  BY <1>6, <1>7, <1>8, <1>9, <1>11 DEF Inv, Placed

LEMMA InvAlways == Spec => []Inv
<1>1. Init => Inv
  BY InvInit
<1>2. Inv /\ [Next]_vars => Inv'
  BY TypesKeep, ClaimedKeeps, EarlyKeeps, PlacedKeeps DEF Inv
<1>. QED
  BY <1>1, <1>2, PTL DEF Spec

\* A line is never in two uploads that the server took or is sent at the same time, but
\* after one whose answer did not come through (AcceptedOnce: uploadingPaths, finishOne).
THEOREM AcceptedOnceCorrect == Spec => []AcceptedOnce
<1>1. ASSUME Inv PROVE AcceptedOnce
  <2>. SUFFICES ASSUME NEW u \in past.accepted \cup {w \in uploads : w.at = "sent"},
                       NEW v \in past.accepted \cup {w \in uploads : w.at = "sent"},
                       u # v, u.payload \cap v.payload # {}, "unseen" \notin {u.at, v.at}
                PROVE  FALSE
    BY DEF AcceptedOnce
  <2>1. Sent
    BY <1>1 DEF Inv, Placed
  <2>2. u \in OnItsWay \cup Taken /\ v \in OnItsWay \cup Taken
    BY <2>1 DEF Sent, OnItsWay, Taken
  <2>. QED
    BY <2>1, <2>2 DEF Sent
<1>. QED
  BY <1>1, InvAlways, PTL

\* A line is in one place, until it is lost, overwritten or uploaded and its file removed
\* (LinesOnce: log, newLog, stop, WorkerLoop, uploadAllLogs).
THEOREM LinesOnceCorrect == Spec => []LinesOnce
<1>1. ASSUME Inv PROVE LinesOnce
  <2>1. Once(content, there) /\ DiskApart
    BY <1>1 DEF Inv, Placed, LinesApart
  <2>2. DOMAIN content = boxes
    BY DEF content
  <2>3. ASSUME NEW line \in 1..past.lines
        PROVE  times(line) = IF line \in past.lost \cup uploaded THEN 0 ELSE 1
    <3> DEFINE inBoxes == UNION {{<<b, i>> : i \in {n \in DOMAIN content[b] :
                                                       content[b][n] = line}} : b \in boxes}
               holders == {g \in DOMAIN disk : disk[g].exists /\ line \in disk[g].lines}
               inFiles == {<<<<"disk", f>>, 0>> : f \in holders}
    <3>1. \A p : p \in inBoxes <=>
                     \E b \in boxes : \E i \in DOMAIN content[b] :
                         content[b][i] = line /\ p = <<b, i>>
      OBVIOUS
    <3>2. places(line) = inBoxes \cup inFiles
      BY DEF places
    <3>. HIDE DEF inBoxes
    <3>3. line \notin there => inBoxes = {}
      BY <2>1, <2>2, <3>1 DEF Once
    <3>4. line \notin onDisk => inFiles = {}
      BY DEF onDisk
    <3>5. CASE line \in past.lost \cup uploaded
      <4>1. line \notin there /\ line \notin onDisk
        BY <2>1, <3>5 DEF there, DiskApart
      <4>2. places(line) = {}
        BY <3>2, <3>3, <3>4, <4>1
      <4>. QED
        BY <3>5, <4>2, FS_EmptySet DEF times
    <3>6. CASE line \in onDisk
      <4>1. line \notin there /\ line \notin past.lost \cup uploaded
        BY <2>1, <3>6 DEF there, DiskApart
      <4>2. PICK f \in DOMAIN disk : line \in disk[f].lines
        BY <3>6 DEF onDisk
      <4>3. holders = {f}
        BY <2>1, <4>2 DEF DiskApart
      <4>4. inFiles = {<<<<"disk", f>>, 0>>}
        BY <4>3
      <4>5. places(line) = {<<<<"disk", f>>, 0>>}
        BY <3>2, <3>3, <4>1, <4>4
      <4>. QED
        BY <4>1, <4>5, FS_Singleton DEF times
    <3>7. CASE line \in there
      <4>1. line \notin onDisk /\ line \notin past.lost \cup uploaded
        BY <3>7 DEF there
      <4>2. PICK b \in boxes : \E i \in DOMAIN content[b] : content[b][i] = line
        BY <2>1, <2>2, <3>7 DEF Once
      <4>3. PICK i \in DOMAIN content[b] : content[b][i] = line
        BY <4>2
      <4>4. \A a \in boxes : \A j \in DOMAIN content[a] : content[a][j] = line => a = b /\ j = i
        BY <2>1, <2>2, <4>3 DEF Once
      <4>5. inBoxes = {<<b, i>>}
        BY <3>1, <4>3, <4>4
      <4>6. places(line) = {<<b, i>>}
        BY <3>2, <3>4, <4>1, <4>5
      <4>. QED
        BY <4>1, <4>6, FS_Singleton DEF times
    <3>. QED
      BY <3>5, <3>6, <3>7 DEF there
  <2>4. Len(disk) <= 1 /\ calls = <<>> => past.lost = {}
    BY <1>1 DEF Inv, Early, AllOpen
  <2>. QED
    BY <2>3, <2>4 DEF LinesOnce
<1>. QED
  BY <1>1, InvAlways, PTL
===============================================================================
