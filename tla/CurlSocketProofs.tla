--------------------------- MODULE CurlSocketProofs ---------------------------
(***************************************************************************)
(* A WebSocket, for any number of threads, messages, frames and closes:    *)
(* its properties, and that it is a Transport.                             *)
(*                                                                         *)
(* Control: what may follow a step in a thread's list, and which steps are *)
(* run with lifecycle_mutex held.  Flow: how the flags, the log and the    *)
(* steps the worker still has to run go together.  Data: what is in the    *)
(* worker's hand and in the buffers.  Kinds: what a step does to the log.  *)
(***************************************************************************)
EXTENDS CurlSocketProperties, SequenceLemmas

-------------------------------------------------------------------------------
(* Control.                                                                  *)

\* The steps of the worker, those of a call, and those of a caller only.
Own ==
    {"start", "loop", "perform", "flush", "sendDirect", "requeue", "poll", "cleanup",
     "conclude", "exit", "fireError", "local", "remote"}
Asked == {"lock", "requestClose", "storeClosing", "storeAbort", "unlock", "push", "callback"}
StepsOf(t) ==
    IF t = "worker" THEN Own \cup Asked
    ELSE IF t = Opener THEN Asked \cup {"join", "settle", "spawn"}
    ELSE Asked \cup {"join", "settle"}
Todos == todo \in [Threads -> Seq(CurlSteps)] /\ \A t \in Threads : todo[t] \in Seq(StepsOf(t))

doing(t) == {todo[t][i] : i \in DOMAIN todo[t]}
spawning == "spawn" \in doing(Opener)

\* What may come after a step in a list.
Flushed == {"flush", "cleanup", "conclude", "exit", "loop", "poll"}
Rest == Flushed \cup {"requeue", "storeAbort", "perform"}
After(s) ==
    IF s \in {"start", "loop", "perform", "poll", "exit", "spawn"} THEN {}
    ELSE IF s = "conclude" THEN {"exit"}
    ELSE IF s = "cleanup" THEN {"conclude", "exit"}
    ELSE IF s \in {"flush", "sendDirect"} THEN Flushed
    ELSE IF s = "requeue" THEN Flushed \cup {"storeAbort"}
    ELSE IF s = "join" THEN {"settle", "unlock"}
    ELSE IF s = "settle" THEN {"unlock"}
    ELSE IF s \in {"fireError", "local", "remote"} THEN Rest
    ELSE IF s \in {"unlock", "push", "callback"} THEN Rest \cup {"unlock"}
    ELSE IF s = "lock" THEN Rest \cup {"requestClose", "join", "settle", "unlock"}
    ELSE Rest \cup {"join", "settle", "unlock"}

\* The steps that take the place of one.
Becomes(s) ==
    IF s \in {"lock", "unlock", "push", "join", "storeClosing", "storeAbort", "requeue",
              "cleanup", "exit"} THEN {<<>>}
    ELSE IF s = "requestClose"
      THEN {<<>>, <<"storeAbort">>, <<"storeClosing", "storeAbort">>}
    ELSE IF s = "settle" THEN {<<>>, <<"callback">>}
    ELSE IF s = "callback" THEN {<<>>, <<"push">>, asyncClose}
    ELSE IF s = "start" THEN {<<"loop">>, <<"fireError">>}
    ELSE IF s = "loop" THEN {<<"perform">>, finish}
    ELSE IF s = "perform"
      THEN {<<"flush", "poll">>, <<"fireError", "flush", "cleanup", "conclude", "exit">>,
            <<"flush", "flush", "cleanup", "conclude", "exit">>, <<"callback", "perform">>,
            <<"perform">>, <<"remote", "storeAbort", "perform">>}
    ELSE IF s = "flush" THEN {<<>>, <<"sendDirect">>}
    ELSE IF s = "sendDirect"
      THEN {<<"flush">>, <<"sendDirect">>, <<"fireError", "requeue", "storeAbort">>,
            <<"requeue">>}
    ELSE IF s = "poll"
      THEN {<<"loop">>, <<"flush", "loop">>, finish,
            <<"fireError", "flush", "cleanup", "conclude", "exit">>}
    ELSE IF s = "conclude" THEN {<<>>, <<"fireError">>, <<"local">>, <<"remote">>}
    ELSE IF s \in {"fireError", "local", "remote"} THEN {<<>>, <<"callback">>}
    ELSE {}

Ordered ==
    \A t \in Threads : \A i, j \in DOMAIN todo[t] : i < j => todo[t][j] \in After(todo[t][i])
Neighbours ==
    \A t \in Threads : \A i \in DOMAIN todo[t] :
        /\ todo[t][i] = "lock" => i + 1 \in DOMAIN todo[t] /\ todo[t][i + 1] = "requestClose"
        /\ todo[t][i] = "requestClose" => i + 1 \in DOMAIN todo[t]
        /\ todo[t][i] = "settle" /\ i # 1 => todo[t][i - 1] = "join"

\* What is run with the lock held, by the thread that holds it; a thread that closes in a
\* callback that close() itself made waits for itself.
Guarded == {"requestClose", "join", "settle", "unlock"}
Locked ==
    \A t \in Threads :
        /\ \A i \in DOMAIN todo[t] :
               /\ todo[t][i] \in Guarded
               /\ \A j \in DOMAIN todo[t] : j < i => todo[t][j] # "lock"
               => lifecycle = t
        /\ \A i, j \in DOMAIN todo[t] :
               i < j /\ todo[t][i] = "unlock" /\ todo[t][j] = "unlock"
                   => todo[t][1] = "lock" /\ lifecycle = t

Control == Todos /\ Ordered /\ Neighbours /\ Locked

\* Steps that may replace s.
Fits(s, steps) ==
    /\ \A i, j \in DOMAIN steps : i < j => steps[j] \in After(steps[i])
    /\ \A i \in DOMAIN steps : After(s) \subseteq After(steps[i])
    /\ \A i \in DOMAIN steps :
           /\ steps[i] = "lock" => i + 1 \in DOMAIN steps /\ steps[i + 1] = "requestClose"
           /\ steps[i] = "requestClose" => i + 1 \in DOMAIN steps
           /\ steps[i] = "settle" => i - 1 \in DOMAIN steps /\ steps[i - 1] = "join"
           /\ steps[i] \in Guarded => steps[1] = "lock"
    /\ \A i, j \in DOMAIN steps : steps[i] = "unlock" /\ steps[j] = "unlock" => i = j
    /\ s = "join" => steps = <<>>

LEMMA Table == \A s \in CurlSteps : \A steps \in Becomes(s) : Fits(s, steps)
<1>. TAKE s \in CurlSteps
<1>. TAKE steps \in Becomes(s)
<1>. USE DEF Becomes, Fits, After, Rest, Flushed, Guarded, finish, asyncClose
<1>1. CASE steps = <<>>
  BY <1>1
<1>2. CASE s = "perform"
  <2>1. steps \in Becomes("perform")
    BY <1>2
  <2>. QED
    BY <1>2, <2>1
<1>3. CASE s = "poll"
  BY <1>3
<1>4. CASE s = "callback"
  BY <1>4
<1>5. CASE s = "sendDirect"
  BY <1>5
<1>6. CASE s = "loop" \/ s = "start"
  BY <1>6
<1>7. CASE s \in {"settle", "flush", "conclude", "requestClose"}
  BY <1>7
<1>8. CASE s \in {"fireError", "local", "remote"}
  BY <1>8
<1>. QED
  BY <1>1, <1>2, <1>3, <1>4, <1>5, <1>6, <1>7, <1>8 DEF CurlSteps

\* A thread runs its own steps only.
LEMMA Belongs ==
    ASSUME NEW t \in Threads, NEW s \in StepsOf(t), NEW steps \in Becomes(s)
    PROVE  steps \in Seq(StepsOf(t))
<1> DEFINE S == StepsOf(t)
<1>1. /\ \A x \in Asked : x \in S
      /\ t = "worker" => \A x \in Own : x \in S
      /\ t # "worker" => s \notin Own
  BY DEF StepsOf, Own, Asked
<1>2. /\ \A x : x \in S => <<x>> \in Seq(S)
      /\ \A x, y : x \in S /\ y \in S => <<x, y>> \in Seq(S)
      /\ \A x, y, z : x \in S /\ y \in S /\ z \in S => <<x, y, z>> \in Seq(S)
      /\ \A x, y, z, u : x \in S /\ y \in S /\ z \in S /\ u \in S => <<x, y, z, u>> \in Seq(S)
      /\ \A x, y, z, u, v : x \in S /\ y \in S /\ z \in S /\ u \in S /\ v \in S
              => <<x, y, z, u, v>> \in Seq(S)
      /\ <<>> \in Seq(S)
  <2>. HIDE DEF S
  <2>. QED
    OBVIOUS
<1>. SUFFICES steps \in Seq(S)
  OBVIOUS
<1>. HIDE DEF S
<1>3. CASE s \in {"lock", "unlock", "push", "join", "storeClosing", "storeAbort", "requeue",
                  "cleanup", "exit"}
  <2>1. \/ steps = <<>>
    BY <1>3 DEF Becomes, finish, asyncClose
  <2>. QED
    BY <1>2, <2>1
<1>4. CASE s = "requestClose"
  <2>1. \/ steps = <<>>
        \/ steps = <<"storeAbort">>
        \/ steps = <<"storeClosing", "storeAbort">>
    BY <1>4 DEF Becomes, finish, asyncClose
  <2>2. {"storeAbort", "storeClosing"} \subseteq S
    BY <1>1, <1>4 DEF Asked
  <2>. QED
    BY <1>2, <2>1, <2>2
<1>5. CASE s = "settle"
  <2>1. \/ steps = <<>>
        \/ steps = <<"callback">>
    BY <1>5 DEF Becomes, finish, asyncClose
  <2>2. {"callback"} \subseteq S
    BY <1>1, <1>5 DEF Asked
  <2>. QED
    BY <1>2, <2>1, <2>2
<1>6. CASE s = "callback"
  <2>1. \/ steps = <<>>
        \/ steps = <<"push">>
        \/ steps = <<"lock", "requestClose", "unlock">>
    BY <1>6 DEF Becomes, finish, asyncClose
  <2>2. {"lock", "push", "requestClose", "unlock"} \subseteq S
    BY <1>1, <1>6 DEF Asked
  <2>. QED
    BY <1>2, <2>1, <2>2
<1>7. CASE t = "worker" /\ s = "start"
  <2>1. \/ steps = <<"loop">>
        \/ steps = <<"fireError">>
    BY <1>7 DEF Becomes, finish, asyncClose
  <2>2. {"fireError", "loop"} \subseteq S
    BY <1>1, <1>7 DEF Asked, Own
  <2>. QED
    BY <1>2, <2>1, <2>2
<1>8. CASE t = "worker" /\ s = "loop"
  <2>1. \/ steps = <<"perform">>
        \/ steps = <<"flush", "cleanup", "conclude", "exit">>
    BY <1>8 DEF Becomes, finish, asyncClose
  <2>2. {"cleanup", "conclude", "exit", "flush", "perform"} \subseteq S
    BY <1>1, <1>8 DEF Asked, Own
  <2>. QED
    BY <1>2, <2>1, <2>2
<1>9. CASE t = "worker" /\ s = "perform"
  <2>1. \/ steps = <<"flush", "poll">>
        \/ steps = <<"fireError", "flush", "cleanup", "conclude", "exit">>
        \/ steps = <<"flush", "flush", "cleanup", "conclude", "exit">>
        \/ steps = <<"callback", "perform">>
        \/ steps = <<"perform">>
        \/ steps = <<"remote", "storeAbort", "perform">>
    BY <1>9 DEF Becomes, finish, asyncClose
  <2>2. {"callback", "cleanup", "conclude", "exit", "fireError", "flush", "perform", "poll",
         "remote", "storeAbort"} \subseteq S
    BY <1>1, <1>9 DEF Asked, Own
  <2>. QED
    BY <1>2, <2>1, <2>2
<1>10. CASE t = "worker" /\ s = "flush"
  <2>1. \/ steps = <<>>
        \/ steps = <<"sendDirect">>
    BY <1>10 DEF Becomes, finish, asyncClose
  <2>2. {"sendDirect"} \subseteq S
    BY <1>1, <1>10 DEF Asked, Own
  <2>. QED
    BY <1>2, <2>1, <2>2
<1>11. CASE t = "worker" /\ s = "sendDirect"
  <2>1. \/ steps = <<"flush">>
        \/ steps = <<"sendDirect">>
        \/ steps = <<"fireError", "requeue", "storeAbort">>
        \/ steps = <<"requeue">>
    BY <1>11 DEF Becomes, finish, asyncClose
  <2>2. {"fireError", "flush", "requeue", "sendDirect", "storeAbort"} \subseteq S
    BY <1>1, <1>11 DEF Asked, Own
  <2>. QED
    BY <1>2, <2>1, <2>2
<1>12. CASE t = "worker" /\ s = "poll"
  <2>1. \/ steps = <<"loop">>
        \/ steps = <<"flush", "loop">>
        \/ steps = <<"flush", "cleanup", "conclude", "exit">>
        \/ steps = <<"fireError", "flush", "cleanup", "conclude", "exit">>
    BY <1>12 DEF Becomes, finish, asyncClose
  <2>2. {"cleanup", "conclude", "exit", "fireError", "flush", "loop"} \subseteq S
    BY <1>1, <1>12 DEF Asked, Own
  <2>. QED
    BY <1>2, <2>1, <2>2
<1>13. CASE t = "worker" /\ s = "conclude"
  <2>1. \/ steps = <<>>
        \/ steps = <<"fireError">>
        \/ steps = <<"local">>
        \/ steps = <<"remote">>
    BY <1>13 DEF Becomes, finish, asyncClose
  <2>2. {"fireError", "local", "remote"} \subseteq S
    BY <1>1, <1>13 DEF Asked, Own
  <2>. QED
    BY <1>2, <2>1, <2>2
<1>14. CASE t = "worker" /\ s \in {"fireError", "local", "remote"}
  <2>1. \/ steps = <<>>
        \/ steps = <<"callback">>
    BY <1>14 DEF Becomes, finish, asyncClose
  <2>2. {"callback"} \subseteq S
    BY <1>1, <1>14 DEF Asked, Own
  <2>. QED
    BY <1>2, <2>1, <2>2
<1>15. s \in Asked \cup Own \cup {"join", "settle", "spawn"}
  BY DEF StepsOf
<1>16. s # "spawn"
  BY DEF Becomes
<1>. QED
  BY <1>1, <1>3, <1>4, <1>5, <1>6, <1>7, <1>8, <1>9, <1>10, <1>11, <1>12, <1>13, <1>14,
     <1>15, <1>16 DEF Own, Asked

\* Thread t has these steps in place of the first one it had, if it had one.
Runs(t, steps) ==
    /\ \A i \in DOMAIN steps : i \in DOMAIN todo'[t] /\ todo'[t][i] = steps[i]
    /\ \A i \in DOMAIN todo'[t] :
           \/ i \in DOMAIN steps
           \/ /\ i > Len(steps) /\ i - Len(steps) + 1 \in DOMAIN todo[t]
              /\ i - Len(steps) + 1 # 1 /\ todo'[t][i] = todo[t][i - Len(steps) + 1]
    /\ \A j \in DOMAIN todo[t] :
           j # 1 => /\ j + Len(steps) - 1 \in DOMAIN todo'[t]
                    /\ todo'[t][j + Len(steps) - 1] = todo[t][j]
    /\ \A u \in Threads : u # t => todo'[u] = todo[u]
    /\ DOMAIN steps = 1..Len(steps) /\ Len(steps) \in Nat

LEMMA Indices ==
    ASSUME Todos, NEW t \in Threads
    PROVE  /\ DOMAIN todo[t] = 1..Len(todo[t]) /\ Len(todo[t]) \in Nat
           /\ todo[t] # <<>> => /\ 1 \in DOMAIN todo[t] /\ Head(todo[t]) = todo[t][1]
           /\ \A i \in DOMAIN todo[t] : todo[t][i] \in StepsOf(t)
           /\ doing(t) = {} => todo[t] = <<>>
           /\ \A x \in doing(t) : x \in StepsOf(t) /\ todo[t] # <<>>
<1>1. todo[t] \in Seq(StepsOf(t))
  BY DEF Todos
<1>2. DOMAIN todo[t] = 1..Len(todo[t]) /\ Len(todo[t]) \in Nat
      /\ (todo[t] # <<>> => Len(todo[t]) # 0)
  BY <1>1, LenProperties, EmptySeq
<1>3. \A i \in DOMAIN todo[t] : todo[t][i] \in StepsOf(t)
  BY <1>1, <1>2, ElementOfSeq
<1>4. todo[t] # <<>> => 1 \in DOMAIN todo[t] /\ Head(todo[t]) = todo[t][1]
  BY <1>1, <1>2
<1>5. todo[t] = <<>> => DOMAIN todo[t] = {}
  OBVIOUS
<1>. QED
  BY <1>2, <1>3, <1>4, <1>5 DEF doing

LEMMA ThenRuns ==
    ASSUME Todos, NEW t \in Threads, todo[t] # <<>>, NEW steps \in Seq(StepsOf(t)),
           Then(t, steps)
    PROVE  Todos' /\ Runs(t, steps)
<1> DEFINE rest == Tail(todo[t])
           new == steps \o rest
           n == Len(steps)
<1>1. /\ todo \in [Threads -> Seq(CurlSteps)] /\ todo[t] \in Seq(StepsOf(t))
      /\ todo' = [todo EXCEPT ![t] = new]
  BY DEF Todos, Then
<1>2. /\ rest \in Seq(StepsOf(t)) /\ Len(rest) = Len(todo[t]) - 1
      /\ \A i \in 1..Len(rest) : rest[i] = todo[t][i + 1]
  BY <1>1, HeadTailProperties
<1>3. /\ new \in Seq(StepsOf(t)) /\ Len(new) = n + Len(rest)
      /\ \A i \in 1..Len(new) : new[i] = IF i <= n THEN steps[i] ELSE rest[i - n]
  BY <1>2, ConcatProperties
<1>4. /\ DOMAIN new = 1..(n + Len(todo[t]) - 1) /\ DOMAIN steps = 1..n
      /\ DOMAIN todo[t] = 1..Len(todo[t]) /\ n \in Nat /\ Len(todo[t]) \in Nat
      /\ Len(todo[t]) # 0
  BY <1>1, <1>2, <1>3, LenProperties, EmptySeq
<1>. HIDE DEF new, rest, n
<1>5. StepsOf(t) \subseteq CurlSteps
  BY DEF StepsOf, Own, Asked, CurlSteps
<1>6. new \in Seq(CurlSteps)
  BY <1>3, <1>5, SeqMonotonic
<1>7. /\ todo' \in [Threads -> Seq(CurlSteps)] /\ todo'[t] = new
      /\ \A u \in Threads : u # t => todo'[u] = todo[u]
  BY <1>1, <1>6
<1>8. Todos'
  BY <1>3, <1>7 DEF Todos
<1>9. \A i \in DOMAIN new :
          \/ i \in DOMAIN steps /\ new[i] = steps[i]
          \/ /\ i > n /\ i - n + 1 \in DOMAIN todo[t] /\ i - n + 1 # 1
             /\ new[i] = todo[t][i - n + 1]
  <2>. TAKE i \in DOMAIN new
  <2>1. CASE i <= n
    BY <1>2, <1>3, <1>4, <2>1
  <2>2. CASE ~(i <= n)
    <3>1. /\ i \in Int /\ n \in Int /\ Len(rest) \in Int /\ Len(todo[t]) \in Int
          /\ i <= n + Len(todo[t]) - 1 /\ Len(rest) = Len(todo[t]) - 1
      BY <1>2, <1>4
    <3>2. /\ i - n \in 1..Len(rest) /\ (i - n) + 1 = i - n + 1
          /\ i - n + 1 \in 1..Len(todo[t]) /\ i - n + 1 # 1 /\ i > n
      BY <2>2, <3>1
    <3>3. rest[i - n] = todo[t][(i - n) + 1]
      BY <1>2, <3>2
    <3>4. new[i] = rest[i - n]
      BY <1>3, <1>4, <2>2
    <3>. QED
      BY <1>4, <3>2, <3>3, <3>4
  <2>. QED
    BY <2>1, <2>2
<1>10. \A j \in DOMAIN todo[t] : j # 1 =>
           /\ j + n - 1 \in DOMAIN new /\ new[j + n - 1] = todo[t][j]
  <2>. SUFFICES ASSUME NEW j \in DOMAIN todo[t], j # 1
                PROVE  j + n - 1 \in DOMAIN new /\ new[j + n - 1] = todo[t][j]
    OBVIOUS
  <2>1. /\ j + n - 1 \in DOMAIN new /\ j + n - 1 \notin DOMAIN steps
        /\ (j + n - 1) - n + 1 = j
    BY <1>4
  <2>. QED
    BY <1>9, <2>1
<1>11. \A i \in DOMAIN steps : i \in DOMAIN new /\ new[i] = steps[i]
  <2>1. \A i \in DOMAIN steps : i \in DOMAIN new /\ ~(i > n)
    BY <1>4
  <2>. QED
    BY <1>9, <2>1
<1>. QED
  BY <1>4, <1>7, <1>8, <1>9, <1>10, <1>11 DEF Runs, n

LEMMA StartRuns ==
    ASSUME Todos, NEW t \in Threads, NEW steps \in Seq(StepsOf(t)), Starts(t, steps)
    PROVE  Todos' /\ Runs(t, steps)
<1>1. todo[t] = <<>> /\ todo' = [todo EXCEPT ![t] = steps]
      /\ todo \in [Threads -> Seq(CurlSteps)]
  BY DEF Starts, Todos
<1>2. steps \in Seq(CurlSteps)
  <2>1. StepsOf(t) \subseteq CurlSteps
    BY DEF StepsOf, Own, Asked, CurlSteps
  <2>. QED
    BY <2>1, SeqMonotonic
<1>3. /\ todo' \in [Threads -> Seq(CurlSteps)] /\ todo'[t] = steps
      /\ \A u \in Threads : u # t => todo'[u] = todo[u]
  BY <1>1, <1>2
<1>4. Todos'
  BY <1>3 DEF Todos
<1>5. DOMAIN todo[t] = {} /\ DOMAIN steps = 1..Len(steps) /\ Len(steps) \in Nat
  BY <1>1, LenProperties
<1>. QED
  BY <1>3, <1>4, <1>5 DEF Runs

\* What the calls begin with.
closeCall == <<"lock", "requestClose", "join", "settle", "unlock">>
LEMMA Beginnings ==
    ASSUME NEW t \in Callers, NEW steps \in {<<"push">>, asyncClose, closeCall}
    PROVE  /\ Fits("exit", steps) /\ steps \in Seq(StepsOf(t))
           /\ \A i \in DOMAIN steps : steps[i] # "spawn"
<1>1. Fits("exit", steps)
  BY DEF Fits, After, Rest, Flushed, Guarded, asyncClose, closeCall
<1>2. {"push", "lock", "requestClose", "join", "settle", "unlock"} \subseteq StepsOf(t)
  BY CurlAssumption DEF StepsOf, Asked
<1>3. steps \in Seq({"push", "lock", "requestClose", "join", "settle", "unlock"})
  <2> DEFINE S == {"push", "lock", "requestClose", "join", "settle", "unlock"}
  <2>1. /\ \A x : x \in S => <<x>> \in Seq(S)
        /\ \A x, y, z : x \in S /\ y \in S /\ z \in S => <<x, y, z>> \in Seq(S)
        /\ \A x, y, z, u, v : x \in S /\ y \in S /\ z \in S /\ u \in S /\ v \in S
               => <<x, y, z, u, v>> \in Seq(S)
    <3>. HIDE DEF S
    <3>. QED
      OBVIOUS
  <2>2. /\ "push" \in S /\ "lock" \in S /\ "requestClose" \in S /\ "join" \in S
        /\ "settle" \in S /\ "unlock" \in S
    OBVIOUS
  <2>3. \/ steps = <<"push">> \/ steps = <<"lock", "requestClose", "unlock">>
        \/ steps = <<"lock", "requestClose", "join", "settle", "unlock">>
    BY DEF asyncClose, closeCall
  <2>4. steps \in Seq(S)
    <3>. HIDE DEF S
    <3>. QED
      BY <2>1, <2>2, <2>3
  <2>. QED
    BY <2>4
<1>4. \A i \in DOMAIN steps : steps[i] # "spawn"
  BY DEF asyncClose, closeCall
<1>. QED
  BY <1>1, <1>2, <1>3, <1>4, SeqMonotonic

LEMMA OrderKeeps ==
    ASSUME Todos, Todos', Ordered, Neighbours, NEW t \in Threads, NEW s, NEW steps,
           Runs(t, steps), Fits(s, steps), todo[t] # <<>> => s = todo[t][1]
    PROVE  Ordered' /\ Neighbours'
<1> DEFINE n == Len(steps)
           old(i) == i - n + 1
<1>1. /\ DOMAIN todo[t] = 1..Len(todo[t]) /\ Len(todo[t]) \in Nat
      /\ DOMAIN todo'[t] = 1..Len(todo'[t]) /\ Len(todo'[t]) \in Nat
      /\ \A i \in DOMAIN todo[t] : 1 \in DOMAIN todo[t] /\ s = todo[t][1]
      /\ n \in Nat /\ DOMAIN steps = 1..n
  <2>1. todo[t] = <<>> => DOMAIN todo[t] = {}
    OBVIOUS
  <2>2. DOMAIN todo'[t] = 1..Len(todo'[t]) /\ Len(todo'[t]) \in Nat
    BY Indices DEF Todos
  <2>. QED
    BY <2>1, <2>2, Indices DEF Runs
<1>2. \A i \in DOMAIN todo'[t] :
          \/ i \in DOMAIN steps /\ todo'[t][i] = steps[i]
          \/ /\ i > n /\ old(i) \in DOMAIN todo[t] /\ old(i) # 1 /\ old(i) > 1
             /\ todo'[t][i] = todo[t][old(i)]
             /\ todo'[t][i] \in After(s)
  <2>. SUFFICES ASSUME NEW i \in DOMAIN todo'[t], i \notin DOMAIN steps
                PROVE  /\ i > n /\ old(i) \in DOMAIN todo[t] /\ old(i) # 1 /\ old(i) > 1
                       /\ todo'[t][i] = todo[t][old(i)] /\ todo'[t][i] \in After(s)
    BY DEF Runs
  <2>1. /\ i > n /\ old(i) \in DOMAIN todo[t] /\ old(i) # 1
        /\ todo'[t][i] = todo[t][old(i)]
    BY DEF Runs
  <2>2. old(i) > 1
    BY <1>1, <2>1
  <2>. QED
    BY <1>1, <2>1, <2>2 DEF Ordered
<1>3. ASSUME NEW i \in DOMAIN todo'[t], NEW j \in DOMAIN todo'[t], i < j
      PROVE  todo'[t][j] \in After(todo'[t][i])
  <2>1. CASE j \in DOMAIN steps
    <3>1. i \in DOMAIN steps
      BY <1>1, <1>3, <2>1
    <3>. QED
      BY <1>3, <2>1, <3>1 DEF Fits, Runs
  <2>2. CASE j \notin DOMAIN steps /\ i \in DOMAIN steps
    BY <1>2, <2>2 DEF Fits, Runs
  <2>3. CASE j \notin DOMAIN steps /\ i \notin DOMAIN steps
    <3>1. old(i) < old(j)
      BY <1>1, <1>3
    <3>. QED
      BY <1>2, <2>3, <3>1 DEF Ordered
  <2>. QED
    BY <2>1, <2>2, <2>3
<1>4. ASSUME NEW i \in DOMAIN todo'[t]
      PROVE  /\ todo'[t][i] = "lock"
                    => i + 1 \in DOMAIN todo'[t] /\ todo'[t][i + 1] = "requestClose"
             /\ todo'[t][i] = "requestClose" => i + 1 \in DOMAIN todo'[t]
             /\ todo'[t][i] = "settle" /\ i # 1 => todo'[t][i - 1] = "join"
  <2>1. CASE i \in DOMAIN steps
    <3>1. steps[i] = "lock" => i + 1 \in DOMAIN todo'[t] /\ todo'[t][i + 1] = "requestClose"
      BY <2>1 DEF Fits, Runs
    <3>2. steps[i] = "requestClose" => i + 1 \in DOMAIN todo'[t]
      BY <2>1 DEF Fits, Runs
    <3>3. steps[i] = "settle" => todo'[t][i - 1] = "join"
      BY <2>1 DEF Fits, Runs
    <3>. QED
      BY <2>1, <3>1, <3>2, <3>3 DEF Runs
  <2>2. CASE i \notin DOMAIN steps
    <3>1. /\ i > n /\ old(i) \in DOMAIN todo[t] /\ old(i) # 1 /\ old(i) > 1
          /\ todo'[t][i] = todo[t][old(i)]
      BY <1>2, <2>2
    <3>2. old(i) + 1 \in DOMAIN todo[t]
              => i + 1 \in DOMAIN todo'[t] /\ todo'[t][i + 1] = todo[t][old(i) + 1]
      <4>1. old(i) + 1 # 1 /\ (old(i) + 1) + n - 1 = i + 1
        BY <1>1, <3>1, SMTT(30)
      <4>. QED
        BY <4>1 DEF Runs
    <3>3. todo'[t][i] = "settle" /\ i # 1 => todo'[t][i - 1] = "join"
      <4>. SUFFICES ASSUME todo'[t][i] = "settle", i # 1
                    PROVE  todo'[t][i - 1] = "join"
        OBVIOUS
      <4>0. todo[t][old(i)] = "settle" /\ old(i) \in DOMAIN todo[t] /\ old(i) # 1
        BY <3>1
      <4>1. todo[t][old(i) - 1] = "join" /\ old(i) - 1 \in DOMAIN todo[t]
        <5>1. todo[t][old(i) - 1] = "join"
          BY <4>0 DEF Neighbours
        <5>2. old(i) - 1 \in DOMAIN todo[t]
          <6>1. i \in Int /\ n \in Int /\ old(i) \in Int
            BY <1>1
          <6>. HIDE DEF old
          <6>. QED
            BY <1>1, <3>1, <6>1
        <5>. QED
          BY <5>1, <5>2
      <4>2. CASE old(i) - 1 = 1
        <5>1. s = "join"
          BY <1>1, <4>1, <4>2
        <5>2. n = 0
          BY <5>1 DEF Fits
        <5>. QED
          BY <1>1, <3>1, <4>2, <5>2
      <4>3. CASE old(i) - 1 # 1
        <5>1. (old(i) - 1) + n - 1 = i - 1
          BY <1>1
        <5>. QED
          BY <4>1, <4>3, <5>1, ZenonT(60) DEF Runs
      <4>. QED
        BY <4>2, <4>3
    <3>. QED
      BY <3>1, <3>2, <3>3 DEF Neighbours
  <2>. QED
    BY <2>1, <2>2
<1>5. \A u \in Threads : u # t => todo'[u] = todo[u]
  BY DEF Runs
<1>6. Ordered'
  BY <1>3, <1>5 DEF Ordered
<1>7. Neighbours'
  BY <1>4, <1>5 DEF Neighbours
<1>. QED
  BY <1>6, <1>7

LEMMA LockedKeeps ==
    ASSUME Todos, Todos', Ordered, Locked, NEW t \in Threads, NEW s, NEW steps, Runs(t, steps),
           Fits(s, steps), todo[t] # <<>> => s = todo[t][1], s \notin {"lock", "unlock"},
           lifecycle' = lifecycle
    PROVE  Locked'
<1> DEFINE n == Len(steps)
           old(i) == i - n + 1
           new(j) == j + n - 1
<1>1. /\ DOMAIN todo[t] = 1..Len(todo[t]) /\ Len(todo[t]) \in Nat
      /\ \A i \in DOMAIN todo[t] : 1 \in DOMAIN todo[t] /\ s = todo[t][1]
      /\ n \in Nat /\ DOMAIN steps = 1..n
      /\ DOMAIN todo'[t] = 1..Len(todo'[t]) /\ Len(todo'[t]) \in Nat
  <2>1. todo[t] = <<>> => DOMAIN todo[t] = {}
    OBVIOUS
  <2>2. DOMAIN todo'[t] = 1..Len(todo'[t]) /\ Len(todo'[t]) \in Nat
    BY Indices DEF Todos
  <2>. QED
    BY <2>1, <2>2, Indices DEF Runs
<1>2. \A i \in DOMAIN todo'[t] : i \notin DOMAIN steps =>
          /\ i > n /\ old(i) \in DOMAIN todo[t] /\ old(i) # 1 /\ i \in Nat
          /\ todo'[t][i] = todo[t][old(i)] /\ new(old(i)) = i
  <2>. SUFFICES ASSUME NEW i \in DOMAIN todo'[t], i \notin DOMAIN steps
                PROVE  /\ i > n /\ old(i) \in DOMAIN todo[t] /\ old(i) # 1 /\ i \in Nat
                       /\ todo'[t][i] = todo[t][old(i)] /\ new(old(i)) = i
    OBVIOUS
  <2>1. /\ i > n /\ old(i) \in DOMAIN todo[t] /\ old(i) # 1
        /\ todo'[t][i] = todo[t][old(i)]
    BY DEF Runs
  <2>2. i \in Int
    BY <1>1
  <2>. QED
    BY <1>1, <2>1, <2>2
<1>. HIDE DEF old, new
<1>3. \A j \in DOMAIN todo[t] : j # 1 =>
          /\ new(j) \in DOMAIN todo'[t] /\ todo'[t][new(j)] = todo[t][j]
          /\ \A i \in DOMAIN todo[t] : i < j => new(i) < new(j)
  <2>1. \A i, j \in DOMAIN todo[t] : i < j => new(i) < new(j)
    BY <1>1 DEF new
  <2>. QED
    BY <2>1 DEF Runs, new
\* No step that comes after another is a lock.
<1>4. \A j \in DOMAIN todo[t] : todo[t][j] # "lock"
  <2>1. \A x : "lock" \notin After(x)
    BY DEF After, Rest, Flushed
  <2>2. \A j \in DOMAIN todo[t] : j # 1 => 1 < j
    BY <1>1
  <2>. QED
    BY <1>1, <2>1, <2>2 DEF Ordered
\* What is guarded and was there is run by the owner of the lock.
<1>5. \A j \in DOMAIN todo[t] : todo[t][j] \in Guarded => lifecycle = t
  BY <1>4 DEF Locked
<1>6. \A i \in DOMAIN steps : i \in DOMAIN todo'[t] /\ todo'[t][i] = steps[i]
  BY DEF Runs
<1>7. ASSUME NEW i \in DOMAIN todo'[t], todo'[t][i] \in Guarded,
             \A j \in DOMAIN todo'[t] : j < i => todo'[t][j] # "lock"
      PROVE  lifecycle = t
  <2>1. CASE i \in DOMAIN steps
    <3>1. steps[1] = "lock" /\ steps[i] # "lock"
      BY <1>6, <1>7, <2>1 DEF Fits, Guarded
    <3>2. 1 \in DOMAIN steps /\ 1 < i
      BY <1>1, <2>1, <3>1
    <3>. QED
      BY <1>6, <1>7, <3>1, <3>2
  <2>2. CASE i \notin DOMAIN steps
    BY <1>2, <1>5, <1>7, <2>2
  <2>. QED
    BY <2>1, <2>2
<1>8. ASSUME NEW i \in DOMAIN todo'[t], NEW j \in DOMAIN todo'[t], i < j,
             todo'[t][i] = "unlock", todo'[t][j] = "unlock"
      PROVE  todo'[t][1] = "lock" /\ lifecycle = t
  <2>1. CASE j \in DOMAIN steps
    <3>1. i \in DOMAIN steps
      BY <1>1, <1>8, <2>1
    <3>2. i = j
      BY <1>6, <1>8, <2>1, <3>1 DEF Fits
    <3>. QED
      BY <1>1, <1>8, <2>1, <3>2
  <2>2. CASE j \notin DOMAIN steps /\ i \in DOMAIN steps
    <3>1. steps[1] = "lock" /\ 1 \in DOMAIN steps
      <4>1. steps[i] = "unlock"
        BY <1>6, <1>8, <2>2
      <4>2. steps[1] = "lock"
        BY <2>2, <4>1 DEF Fits, Guarded
      <4>3. 1 \in DOMAIN steps
        BY <1>1, <2>2
      <4>. QED
        BY <4>2, <4>3
    <3>2. lifecycle = t
      BY <1>2, <1>5, <1>8, <2>2 DEF Guarded
    <3>. QED
      BY <1>6, <3>1, <3>2
  <2>3. CASE j \notin DOMAIN steps /\ i \notin DOMAIN steps
    <3>1. /\ old(i) \in DOMAIN todo[t] /\ old(j) \in DOMAIN todo[t]
          /\ todo[t][old(i)] = "unlock" /\ todo[t][old(j)] = "unlock"
      BY <1>2, <1>8, <2>3
    <3>2. old(i) < old(j)
      <4>1. i \in Int /\ j \in Int
        BY <1>2, <2>3
      <4>. QED
        BY <1>1, <1>8, <4>1 DEF old
    <3>3. todo[t][1] = "lock"
      BY <3>1, <3>2 DEF Locked
    <3>. QED
      BY <1>1, <1>4, <3>1, <3>3
  <2>. QED
    BY <2>1, <2>2, <2>3
<1>9. \A u \in Threads : u # t => todo'[u] = todo[u]
  BY DEF Runs
<1>. QED
  BY <1>7, <1>8, <1>9 DEF Locked

\* A thread is only spawned by open.
LEMMA NoSpawn ==
    \A s \in CurlSteps : \A steps \in Becomes(s) : \A i \in DOMAIN steps : steps[i] # "spawn"
<1>. TAKE s \in CurlSteps
<1>. TAKE steps \in Becomes(s)
<1>. QED
  BY DEF Becomes, finish, asyncClose, CurlSteps

\* Thread t runs its next step, s, which becomes these steps.
LEMMA Advance ==
    ASSUME Control, NEW t \in Threads, NEW s, At(t, s), NEW steps \in Becomes(s),
           Then(t, steps)
    PROVE  /\ Todos' /\ Ordered' /\ Neighbours'
           /\ s \notin {"lock", "unlock"} /\ lifecycle' = lifecycle => Locked'
           /\ Runs(t, steps) /\ 1 \in DOMAIN todo[t] /\ todo[t][1] = s /\ s \in StepsOf(t)
           /\ \E T \in SUBSET After(s) :
                  /\ doing(t) = {s} \cup T
                  /\ doing(t)' = {steps[i] : i \in DOMAIN steps} \cup T
           /\ \A u \in Threads : u # t => doing(u)' = doing(u) /\ todo'[u] = todo[u]
           /\ spawning' <=> spawning
<1>1. /\ todo[t] # <<>> /\ 1 \in DOMAIN todo[t] /\ todo[t][1] = s /\ s \in StepsOf(t)
      /\ s \in CurlSteps
  <2>1. todo[t] # <<>> /\ Head(todo[t]) = s
    BY DEF At
  <2>2. 1 \in DOMAIN todo[t] /\ todo[t][1] = s /\ s \in StepsOf(t)
    BY <2>1, Indices DEF Control
  <2>. QED
    BY <2>1, <2>2 DEF StepsOf, Own, Asked, CurlSteps
<1>2. steps \in Seq(StepsOf(t)) /\ Fits(s, steps)
  BY <1>1, Belongs, Table
<1>3. Todos' /\ Runs(t, steps)
  BY <1>1, <1>2, ThenRuns DEF Control
<1>4. Ordered' /\ Neighbours'
  BY <1>1, <1>2, <1>3, OrderKeeps DEF Control
<1>5. s \notin {"lock", "unlock"} /\ lifecycle' = lifecycle => Locked'
  BY <1>1, <1>2, <1>3, LockedKeeps DEF Control
<1>6. \A u \in Threads : u # t => doing(u)' = doing(u) /\ todo'[u] = todo[u]
  BY <1>3 DEF Runs, doing
<1> DEFINE T == {todo[t][j] : j \in DOMAIN todo[t] \ {1}}
<1>7. T \in SUBSET After(s)
  <2>1. \A j \in DOMAIN todo[t] \ {1} : 1 < j
    BY Indices DEF Control
  <2>. QED
    BY <1>1, <2>1 DEF Control, Ordered
<1>8. doing(t) = {s} \cup T
  BY <1>1 DEF doing
<1>9. doing(t)' = {steps[i] : i \in DOMAIN steps} \cup T
  <2>1. \A x \in doing(t)' : x \in {steps[i] : i \in DOMAIN steps} \cup T
    BY <1>3 DEF Runs, doing
  <2>2. \A x \in T : x \in doing(t)'
    BY <1>3 DEF Runs, doing
  <2>3. \A i \in DOMAIN steps : steps[i] \in doing(t)'
    BY <1>3 DEF Runs, doing
  <2>. HIDE DEF T
  <2>. QED
    BY <2>1, <2>2, <2>3
<1>10. spawning' <=> spawning
  <2>1. "spawn" \notin After(s) /\ s # "spawn"
    BY DEF After, Rest, Flushed, Becomes
  <2>2. "spawn" \notin {steps[i] : i \in DOMAIN steps}
    BY <1>1, NoSpawn
  <2>3. "spawn" \notin doing(t) /\ "spawn" \notin doing(t)'
    BY <1>7, <1>8, <1>9, <2>1, <2>2
  <2>4. Opener \in Threads
    BY CurlAssumption DEF Threads
  <2>. QED
    BY <1>6, <2>3, <2>4 DEF spawning
<1>. HIDE DEF T
<1>. QED
  BY <1>1, <1>3, <1>4, <1>5, <1>6, <1>7, <1>8, <1>9, <1>10

\* A caller begins.
LEMMA Begins ==
    ASSUME Control, NEW t \in Callers, NEW steps \in {<<"push">>, asyncClose, closeCall},
           Starts(t, steps), lifecycle' = lifecycle
    PROVE  /\ Control' /\ Runs(t, steps) /\ todo[t] = <<>> /\ doing(t) = {}
           /\ doing(t)' = {steps[i] : i \in DOMAIN steps} /\ todo'[t] = steps
           /\ \A u \in Threads : u # t => doing(u)' = doing(u) /\ todo'[u] = todo[u]
           /\ spawning' <=> spawning
<1>1. /\ t \in Threads /\ todo[t] = <<>> /\ todo' = [todo EXCEPT ![t] = steps]
      /\ DOMAIN todo[t] = {} /\ Opener \in Threads /\ todo'[t] = steps
  BY CurlAssumption DEF Starts, Threads, Control, Todos
<1>2. /\ Fits("exit", steps) /\ steps \in Seq(StepsOf(t))
      /\ \A i \in DOMAIN steps : steps[i] # "spawn"
  BY Beginnings
<1>3. Todos' /\ Runs(t, steps)
  BY <1>1, <1>2, StartRuns DEF Control
<1>4. Ordered' /\ Neighbours' /\ Locked'
  BY <1>1, <1>2, <1>3, OrderKeeps, LockedKeeps DEF Control
<1>5. doing(t) = {} /\ doing(t)' = {steps[i] : i \in DOMAIN steps}
  BY <1>1 DEF doing
<1>6. \A u \in Threads : u # t => doing(u)' = doing(u) /\ todo'[u] = todo[u]
  BY <1>3 DEF Runs, doing
<1>7. spawning' <=> spawning
  BY <1>1, <1>2, <1>5, <1>6 DEF spawning
<1>. QED
  BY <1>1, <1>3, <1>4, <1>5, <1>6, <1>7 DEF Control

\* Who takes the lock, and gives it back.
LEMMA Locks ==
    ASSUME Control, NEW t \in Threads, Lock(t) \/ Unlock(t)
    PROVE  Control'
<1>1. PICK s \in {"lock", "unlock"} :
          /\ At(t, s) /\ Then(t, <<>>)
          /\ s = "lock" => lifecycle = "none" /\ lifecycle' = t
          /\ s = "unlock" => lifecycle' = "none"
  BY DEF Lock, Unlock
<1>2. <<>> \in Becomes(s)
  BY DEF Becomes
<1>3. /\ Todos' /\ Ordered' /\ Neighbours' /\ Runs(t, <<>>) /\ todo[t][1] = s
      /\ 1 \in DOMAIN todo[t]
      /\ \A u \in Threads : u # t => todo'[u] = todo[u]
  BY <1>1, <1>2, Advance
<1>4. /\ \A i \in DOMAIN todo'[t] :
             /\ i + 1 \in DOMAIN todo[t] /\ i + 1 # 1 /\ todo'[t][i] = todo[t][i + 1]
             /\ i \in Int /\ i > 0 /\ todo[t][i + 1] \in After(s)
      /\ \A j \in DOMAIN todo[t] : j \in Int
  <2>1. Len(<<>>) = 0 /\ DOMAIN <<>> = {}
    OBVIOUS
  <2>2. /\ DOMAIN todo'[t] = 1..Len(todo'[t]) /\ Len(todo'[t]) \in Nat
        /\ DOMAIN todo[t] = 1..Len(todo[t]) /\ Len(todo[t]) \in Nat
    BY <1>3, Indices DEF Todos, Control
  <2>3. \A i \in DOMAIN todo'[t] :
            /\ i - 0 + 1 \in DOMAIN todo[t] /\ i - 0 + 1 # 1
            /\ todo'[t][i] = todo[t][i - 0 + 1]
    BY <1>3, <2>1 DEF Runs
  <2>4. \A i \in DOMAIN todo'[t] : i - 0 + 1 = i + 1 /\ i \in Int /\ i > 0 /\ 1 < i + 1
    BY <2>2
  <2>. QED
    BY <1>3, <2>2, <2>3, <2>4 DEF Control, Ordered
<1>5. \A u \in Threads : u # "none"
  BY CurlAssumption DEF Threads
<1>6. \A j \in DOMAIN todo[t] : 1 < j => todo[t][j] \in After(s)
  BY <1>3 DEF Control, Ordered
\* Neither before nor after the step another thread has the lock, or thinks it has.
<1>7. \A u \in Threads : u # t => lifecycle # u
  <2>1. CASE s = "lock"
    BY <1>1, <1>5, <2>1
  <2>2. CASE s = "unlock"
    <3>1. \A j \in DOMAIN todo[t] : ~(j < 1) \/ todo[t][j] # "lock"
      <4>1. DOMAIN todo[t] = 1..Len(todo[t]) /\ Len(todo[t]) \in Nat
        BY Indices DEF Control
      <4>2. \A j \in 1..Len(todo[t]) : ~(j < 1)
        BY <4>1
      <4>. QED
        BY <4>1, <4>2
    <3>2. lifecycle = t
      BY <1>3, <2>2, <3>1 DEF Control, Locked, Guarded
    <3>. QED
      BY <3>2
  <2>. QED
    BY <2>1, <2>2
\* Two unlocks were one too many.
<1>8. \A i, j \in DOMAIN todo[t] : ~(i < j /\ todo[t][i] = "unlock" /\ todo[t][j] = "unlock")
  <2>1. CASE s = "lock"
    <3>1. lifecycle # t
      BY <1>1, <1>5, <2>1
    <3>. QED
      BY <3>1 DEF Control, Locked
  <2>2. CASE s = "unlock"
    <3>1. todo[t][1] # "lock"
      BY <1>3, <2>2
    <3>. QED
      BY <3>1 DEF Control, Locked
  <2>. QED
    BY <2>1, <2>2
<1>9. ASSUME NEW i \in DOMAIN todo'[t], todo'[t][i] \in Guarded
      PROVE  lifecycle' = t
  <2>1. CASE s = "lock"
    BY <1>1, <2>1
  <2>2. CASE s = "unlock"
    <3>1. /\ i + 1 \in DOMAIN todo[t] /\ todo[t][i + 1] \in After("unlock")
          /\ todo[t][i + 1] \in Guarded /\ 1 < i + 1
      BY <1>4, <1>9, <2>2
    <3>2. todo[t][i + 1] = "unlock"
      BY <3>1 DEF After, Guarded, Rest, Flushed
    <3>. QED
      BY <1>3, <1>8, <2>2, <3>1, <3>2
  <2>. QED
    BY <2>1, <2>2
<1>10. \A i, j \in DOMAIN todo'[t] : ~(i < j /\ todo'[t][i] = "unlock" /\ todo'[t][j] = "unlock")
  <2>. SUFFICES ASSUME NEW i \in DOMAIN todo'[t], NEW j \in DOMAIN todo'[t], i < j,
                       todo'[t][i] = "unlock", todo'[t][j] = "unlock"
                PROVE  FALSE
    OBVIOUS
  <2>1. /\ i + 1 \in DOMAIN todo[t] /\ j + 1 \in DOMAIN todo[t] /\ i + 1 < j + 1
        /\ todo[t][i + 1] = "unlock" /\ todo[t][j + 1] = "unlock"
    BY <1>4
  <2>. QED
    BY <1>8, <2>1
<1>11. Locked'
  <2>1. \A u \in Threads : u # t =>
            /\ \A i \in DOMAIN todo'[u] :
                   ~(/\ todo'[u][i] \in Guarded
                     /\ \A j \in DOMAIN todo'[u] : j < i => todo'[u][j] # "lock")
            /\ \A i, j \in DOMAIN todo'[u] :
                   ~(i < j /\ todo'[u][i] = "unlock" /\ todo'[u][j] = "unlock")
    BY <1>3, <1>7 DEF Control, Locked
  <2>. QED
    BY <1>9, <1>10, <2>1 DEF Locked
<1>. QED
  BY <1>3, <1>11 DEF Control

\* Up, as the steps have it.
Upness ==
    /\ Up <=> doing("worker") # {} \/ spawning
    /\ todo[Opener] = <<"spawn">> <=> spawning
    /\ todo["worker"] = <<>> <=> doing("worker") = {}

LEMMA UpIs == Control => Upness
<1>. SUFFICES ASSUME Control PROVE Upness
  OBVIOUS
<1>1. Opener \in Threads /\ "worker" \in Threads
  BY CurlAssumption DEF Threads
<1>2. todo["worker"] = <<>> <=> doing("worker") = {}
  <2>1. todo["worker"] = <<>> => DOMAIN todo["worker"] = {}
    OBVIOUS
  <2>2. doing("worker") = {} => todo["worker"] = <<>>
    BY <1>1, Indices DEF Control
  <2>. QED
    BY <2>1, <2>2 DEF doing
<1>3. ASSUME spawning
      PROVE  todo[Opener] = <<"spawn">>
  <2>1. PICK i \in DOMAIN todo[Opener] : todo[Opener][i] = "spawn"
    BY <1>3 DEF spawning, doing
  <2>2. /\ DOMAIN todo[Opener] = 1..Len(todo[Opener]) /\ Len(todo[Opener]) \in Nat
        /\ todo[Opener] \in Seq(CurlSteps)
    BY <1>1, Indices DEF Control, Todos
  <2>3. \A x : "spawn" \notin After(x) /\ After("spawn") = {}
    BY DEF After, Rest, Flushed
  <2>4. \A j \in DOMAIN todo[Opener] : ~(j < i) /\ ~(i < j)
    BY <1>1, <2>1, <2>3 DEF Control, Ordered
  <2>5. i = 1 /\ Len(todo[Opener]) = 1
    <3>1. 1 \in DOMAIN todo[Opener] /\ Len(todo[Opener]) \in DOMAIN todo[Opener]
          /\ i \in Int /\ 1 <= i /\ i <= Len(todo[Opener]) /\ Len(todo[Opener]) \in Int
      BY <2>1, <2>2
    <3>2. ~(1 < i) /\ ~(i < Len(todo[Opener]))
      BY <2>4, <3>1
    <3>3. \A m, k \in Int : 1 <= k /\ k <= m /\ ~(1 < k) /\ ~(k < m) => k = 1 /\ m = 1
      OBVIOUS
    <3>. QED
      BY <3>1, <3>2, <3>3
  <2>. QED
    BY <2>1, <2>2, <2>5
<1>4. ASSUME todo[Opener] = <<"spawn">>
      PROVE  spawning
  BY <1>4 DEF spawning, doing
<1>. QED
  BY <1>2, <1>3, <1>4 DEF Up, Upness

LEMMA UpNext == Control' => Upness'
BY UpIs, PTL

\* The thread is opened.
LEMMA Opening ==
    ASSUME Control, Open
    PROVE  /\ Control' /\ spawning' /\ ~spawning
           /\ doing(Opener)' = {"spawn"} /\ todo'[Opener] = <<"spawn">>
           /\ \A u \in Threads : u # Opener => doing(u)' = doing(u) /\ todo'[u] = todo[u]
<1>1. /\ Opener \in Threads /\ todo[Opener] = <<>>
      /\ todo' = [todo EXCEPT ![Opener] = <<"spawn">>] /\ lifecycle' = lifecycle
  BY CurlAssumption DEF Open, Starts, Threads
<1>2. /\ todo'[Opener] = <<"spawn">>
      /\ \A u \in Threads : u # Opener => todo'[u] = todo[u]
  BY <1>1 DEF Control, Todos
<1>3. <<"spawn">> \in Seq(StepsOf(Opener)) /\ Fits("exit", <<"spawn">>)
  <2>1. "spawn" \in StepsOf(Opener)
    BY CurlAssumption DEF StepsOf
  <2>2. Fits("exit", <<"spawn">>)
    BY DEF Fits, After, Guarded
  <2>. QED
    BY <2>1, <2>2
<1>4. Todos' /\ Runs(Opener, <<"spawn">>)
  BY <1>1, <1>3, StartRuns DEF Control, Open
<1>5. Ordered' /\ Neighbours' /\ Locked'
  BY <1>1, <1>3, <1>4, OrderKeeps, LockedKeeps DEF Control
<1>6. doing(Opener)' = {"spawn"} /\ "spawn" \notin doing(Opener)
  BY <1>1, <1>2 DEF doing
<1>. QED
  BY <1>2, <1>4, <1>5, <1>6 DEF Control, doing, spawning

\* The worker is started; it was not there.
LEMMA Spawning ==
    ASSUME Control, Spawn, todo["worker"] = <<>>
    PROVE  /\ Control' /\ spawning /\ ~spawning'
           /\ doing(Opener)' = {} /\ todo'[Opener] = <<>>
           /\ doing("worker") = {} /\ doing("worker")' = {"start"}
           /\ \A u \in Threads : u \notin {Opener, "worker"}
                  => doing(u)' = doing(u) /\ todo'[u] = todo[u]
<1>1. /\ Opener \in Threads /\ "worker" \in Threads /\ Opener # "worker"
      /\ todo' = [todo EXCEPT ![Opener] = <<>>, !["worker"] = <<"start">>]
      /\ lifecycle' = lifecycle /\ todo[Opener] # <<>> /\ Head(todo[Opener]) = "spawn"
      /\ todo \in [Threads -> Seq(CurlSteps)]
  BY CurlAssumption DEF Spawn, At, Threads, OnlyConn, Control, Todos
<1>2. /\ todo'[Opener] = <<>> /\ todo'["worker"] = <<"start">>
      /\ \A u \in Threads : u \notin {Opener, "worker"} => todo'[u] = todo[u]
  BY <1>1
<1>3. doing(Opener)' = {} /\ doing("worker")' = {"start"} /\ doing("worker") = {}
      /\ \A u \in Threads : u \notin {Opener, "worker"} => doing(u)' = doing(u)
  BY <1>2 DEF doing
<1>4. spawning
  <2>1. 1 \in DOMAIN todo[Opener] /\ todo[Opener][1] = "spawn"
    BY <1>1, Indices DEF Control
  <2>. QED
    BY <2>1 DEF spawning, doing
<1>5. Todos'
  <2>1. <<"start">> \in Seq(CurlSteps) /\ <<>> \in Seq(CurlSteps)
    BY DEF CurlSteps
  <2>2. <<"start">> \in Seq(StepsOf("worker")) /\ <<>> \in Seq(StepsOf(Opener))
    BY DEF StepsOf, Own
  <2>3. todo' \in [Threads -> Seq(CurlSteps)]
    BY <1>1, <2>1
  <2>4. \A u \in Threads : todo'[u] \in Seq(StepsOf(u))
    BY <1>2, <2>2 DEF Control, Todos
  <2>. QED
    BY <2>3, <2>4 DEF Todos
<1>6. \A i \in DOMAIN todo'["worker"] : i = 1 /\ todo'["worker"][i] = "start"
  BY <1>2
<1>7. DOMAIN todo'[Opener] = {}
  BY <1>2
<1>8. \A u \in Threads : u = Opener \/ u = "worker" \/ todo'[u] = todo[u]
  BY <1>2
<1>9. Ordered' /\ Neighbours' /\ Locked'
  <2>1. Ordered'
    BY <1>6, <1>7, <1>8 DEF Control, Ordered
  <2>2. Neighbours'
    BY <1>6, <1>7, <1>8 DEF Control, Neighbours
  <2>3. Locked'
    BY <1>1, <1>6, <1>7, <1>8 DEF Control, Locked, Guarded
  <2>. QED
    BY <2>1, <2>2, <2>3
<1>. QED
  BY <1>2, <1>3, <1>4, <1>5, <1>9 DEF Control, spawning

-------------------------------------------------------------------------------
(* Flow.                                                                     *)

Pasts ==
    [log : Seq(Events), wire : Seq(Nat \X Nat), pushed : Seq(Items),
     received : Seq(Seq(Nat \X Nat)), opens : Nat, closes : Nat, sends : Nat]
Records ==
    /\ conn \in Conns /\ rc \in {"none", "ok", "failed"}
    /\ lifecycle \in Threads \cup {"none"}
    /\ sendq \in Seq(Items) /\ hand \in Seq(Items)
    /\ rx \in [buf : Seq(Nat \X Nat), expected : 0..Parts]
    /\ peer \in [frame : Nat, offset : 0..Parts, close : 0..Parts]
    /\ past \in Pasts

\* The worker has one of these steps to run.
mayRun(S) == \E s \in S : s \in doing("worker")

\* A worker that is left to run comes to report an end, or did.
Reporters == {"start", "loop", "perform", "poll", "conclude", "fireError", "local", "remote"}
Life ==
    /\ conn.joinable => conn.close_called \/ mayRun(Reporters)
    /\ doing("worker") # {} => conn.joinable
    /\ spawning => ~conn.joinable /\ ~conn.open_notified

\* The flags and the log say the same.
Log ==
    /\ conn.error_reported => conn.close_called
    /\ conn.close_called <=> endings # {}
    /\ conn.open_notified <=> "open" \in said

\* No handshake is completed after an end was reported, or while one is about to be.
MayPerform ==
    \/ mayRun({"perform"})
    \/ ~conn.abort /\ (spawning \/ mayRun({"start", "loop", "poll"}))
Quiet ==
    /\ ~conn.open_notified
    /\ conn.close_called \/ mayRun({"fireError", "local", "remote"})
    => ~MayPerform

\* While a local close may still be reported, it is one that was asked for in this
\* connection; and a socket is only Closed by then if a thread was there before open.
Concluding ==
    spawning \/ mayRun({"start", "loop", "perform", "poll", "conclude", "local"})
Requested ==
    /\ conn.state = "Closed" /\ Concluding => conn.close_called /\ conn.abort
    /\ conn.local_close_requested /\ Concluding => "request" \in said \/ conn.close_called
    /\ mayRun({"local"}) => conn.local_close_requested

\* A thread that closes while another opens: what it finds after the join is a worker
\* that was told to stop before it came to do anything.
CloserOf(t) ==
    todo[t] # <<>> =>
        /\ /\ spawning /\ "join" \in doing(t)
           /\ todo[t][1] \in {"storeClosing", "storeAbort", "join"}
           => /\ "request" \in said \/ conn.close_called
              /\ conn.abort \/ "storeAbort" \in doing(t)
        /\ todo[t][1] = "settle" /\ Up =>
               /\ conn.abort /\ ~MayPerform /\ ~conn.open_notified
               /\ "request" \in said \/ conn.close_called
Closers == \A t \in Threads : CloserOf(t)

\* What flushSendQueue took is in its hand until it is sent or back in the queue.
InHand ==
    /\ Len(hand) <= 1
    /\ hand # <<>> <=> mayRun({"sendDirect", "requeue"})
    /\ mayRun({"sendDirect", "requeue"}) => conn.open_notified

\* The pieces of the frame that has begun to arrive.
Delivered ==
    /\ peer.offset < Parts /\ Len(past.received) + 1 = peer.frame
    /\ peer.offset # 0 =>
           /\ rx.expected = peer.offset
           /\ rx.buf = [i \in 1..peer.offset |-> <<peer.frame, i - 1>>]

Flow == Life /\ Log /\ Quiet /\ Requested /\ Closers

\* What an event adds to the log.
LEMMA Says ==
    ASSUME Records, NEW e \in Events, past'.log = Append(past.log, e)
    PROVE  LET n == Len(past.log) + 1
           IN  /\ n \in Nat /\ past'.log[n] = e
               /\ \A i \in DOMAIN past.log : past'.log[i] = past.log[i]
               /\ \A i \in endings \cup marks : i \in DOMAIN past.log /\ i \in Nat /\ i < n
               /\ said' = said \cup {e}
               /\ endings' = IF e \in Ends THEN endings \cup {n} ELSE endings
               /\ marks' = IF e \in {"open", "request"} THEN marks \cup {n} ELSE marks
<1> DEFINE n == Len(past.log) + 1
<1>1. past.log \in Seq(Events)
  BY DEF Records, Pasts
<1>2. /\ n \in Nat /\ DOMAIN past.log = 1..(n - 1) /\ DOMAIN past'.log = 1..n
      /\ past'.log[n] = e
      /\ \A i \in 1..(n - 1) : past'.log[i] = past.log[i] /\ i \in Nat /\ i < n
  <2>1. /\ past'.log \in Seq(Events) /\ Len(past'.log) = n /\ Len(past.log) \in Nat
        /\ \A i \in 1..Len(past.log) : past'.log[i] = past.log[i]
        /\ past'.log[n] = e
    BY <1>1, AppendProperties
  <2>2. DOMAIN past.log = 1..Len(past.log) /\ n - 1 = Len(past.log) /\ DOMAIN past'.log = 1..n
    BY <1>1, <2>1, LenProperties
  <2>. HIDE DEF n
  <2>3. n \in Nat /\ \A i \in 1..(n - 1) : i \in Nat /\ i < n
    BY <2>1, <2>2 DEF n
  <2>. QED
    BY <2>1, <2>2, <2>3
<1>3. \A i : i \in DOMAIN past'.log <=> i \in DOMAIN past.log \/ i = n
  <2>. HIDE DEF n
  <2>. QED
    BY <1>2
<1>4. n \notin DOMAIN past.log
  <2>. HIDE DEF n
  <2>. QED
    BY <1>2
<1>5. \A i \in DOMAIN past.log : past'.log[i] = past.log[i] /\ i \in Nat /\ i < n
  BY <1>2
<1>. HIDE DEF n
<1>6. said' = said \cup {e}
  BY <1>2, <1>3, <1>5 DEF said
<1>7. endings' = IF e \in Ends THEN endings \cup {n} ELSE endings
  BY <1>2, <1>3, <1>4, <1>5 DEF endings
<1>8. marks' = IF e \in {"open", "request"} THEN marks \cup {n} ELSE marks
  BY <1>2, <1>3, <1>4, <1>5 DEF marks
<1>9. \A i \in endings \cup marks : i \in DOMAIN past.log /\ i \in Nat /\ i < n
  BY <1>5 DEF endings, marks
<1>. QED
  BY <1>2, <1>5, <1>6, <1>7, <1>8, <1>9 DEF n

\* Nothing that keeps a thread from closing in time is taken back.
Milder ==
    /\ spawning' => spawning
    /\ Up' => Up
    /\ MayPerform' => MayPerform
    /\ conn.abort => conn'.abort
    /\ conn.close_called => conn'.close_called
    /\ conn'.open_notified => conn.open_notified \/ MayPerform
    /\ said \subseteq said'

FlowOn == Life /\ Log /\ Quiet /\ Requested

\* A step that touches neither the flags nor the log.
LEMMA Unflagged ==
    ASSUME Control, Control', FlowOn, conn' = conn, past'.log = past.log,
           spawning' => spawning,
           MayPerform' => MayPerform, Concluding' => Concluding,
           mayRun(Reporters) => mayRun(Reporters)' \/ conn.close_called,
           doing("worker")' # {} => doing("worker") # {},
           mayRun({"fireError", "local", "remote"})'
               => mayRun({"fireError", "local", "remote"}) \/ ~MayPerform' \/ conn.open_notified,
           mayRun({"local"})' => mayRun({"local"}) \/ conn.local_close_requested
    PROVE  FlowOn' /\ Milder
<1>1. said' = said /\ endings' = endings
  BY DEF said, endings
<1>2. Up' => Up
  BY UpIs, UpNext DEF Upness
<1>3. Life'
  BY DEF FlowOn, Life
<1>4. Log'
  BY <1>1 DEF FlowOn, Log
<1>5. Quiet'
  BY DEF FlowOn, Quiet
<1>6. Requested'
  BY <1>1 DEF FlowOn, Requested
<1>. QED
  BY <1>1, <1>2, <1>3, <1>4, <1>5, <1>6 DEF FlowOn, Milder

\* A step that is not one of the worker's own leaves those alone.
Apart ==
    /\ \A x \in Own : x \in doing("worker")' <=> x \in doing("worker")
    /\ doing("worker")' # {} => doing("worker") # {}

LEMMA AskedApart ==
    ASSUME Control, NEW t \in Threads, NEW s \in Asked \cup {"join", "settle"}, At(t, s),
           NEW steps \in Becomes(s), Then(t, steps)
    PROVE  Apart /\ (t = "worker" => doing("worker") # {})
<1>1. \A i \in DOMAIN steps : steps[i] \notin Own
  BY DEF Becomes, asyncClose, Asked, Own
<1>2. s \notin Own
  BY DEF Asked, Own
<1>3. CASE t = "worker"
  <2>1. PICK T \in SUBSET After(s) :
            doing(t) = {s} \cup T /\ doing(t)' = {steps[i] : i \in DOMAIN steps} \cup T
    BY Advance, SMTT(30)
  <2>. QED
    BY <1>1, <1>2, <1>3, <2>1 DEF Apart
<1>4. CASE t # "worker"
  <2>1. doing("worker")' = doing("worker")
    <3>1. "worker" \in Threads
      BY DEF Threads
    <3>. QED
      BY <1>4, <3>1, Advance
  <2>. QED
    BY <1>4, <2>1 DEF Apart
<1>. QED
  BY <1>3, <1>4

LEMMA ApartMay ==
    ASSUME Apart, NEW S, S \subseteq Own
    PROVE  mayRun(S)' <=> mayRun(S)
BY DEF Apart, mayRun

LEMMA ApartSame ==
    ASSUME Apart, spawning' <=> spawning
    PROVE  /\ conn'.abort = conn.abort => (MayPerform' <=> MayPerform)
           /\ (conn.abort => conn'.abort) => (MayPerform' => MayPerform)
           /\ Concluding' <=> Concluding
           /\ mayRun(Reporters)' <=> mayRun(Reporters)
           /\ mayRun({"fireError", "local", "remote"})'
                  <=> mayRun({"fireError", "local", "remote"})
           /\ mayRun({"local"})' <=> mayRun({"local"})
           /\ mayRun({"sendDirect", "requeue"})' <=> mayRun({"sendDirect", "requeue"})
<1>1. /\ mayRun({"perform"})' <=> mayRun({"perform"})
      /\ mayRun({"start", "loop", "poll"})' <=> mayRun({"start", "loop", "poll"})
  BY ApartMay DEF Own
<1>2. Concluding' <=> Concluding
  BY ApartMay DEF Own, Concluding
<1>3. /\ mayRun(Reporters)' <=> mayRun(Reporters)
      /\ mayRun({"fireError", "local", "remote"})' <=> mayRun({"fireError", "local", "remote"})
      /\ mayRun({"local"})' <=> mayRun({"local"})
      /\ mayRun({"sendDirect", "requeue"})' <=> mayRun({"sendDirect", "requeue"})
  BY ApartMay DEF Own, Reporters
<1>. QED
  BY <1>1, <1>2, <1>3 DEF MayPerform

Goes == Control' /\ FlowOn' /\ Milder

\* What every step of a list has in common.
LEMMA AskedStep ==
    ASSUME Control, FlowOn, NEW t \in Threads, NEW s \in Asked \cup {"join", "settle"},
           At(t, s), NEW steps \in Becomes(s), Then(t, steps), (conn.abort => conn'.abort),
           s \notin {"lock", "unlock"} => lifecycle' = lifecycle,
           s \in {"lock", "unlock"} => Locked'
    PROVE  /\ Control' /\ (spawning' <=> spawning) /\ Apart /\ (Up' => Up)
           /\ (MayPerform' => MayPerform) /\ (Concluding' <=> Concluding)
           /\ mayRun(Reporters)' <=> mayRun(Reporters)
           /\ mayRun({"fireError", "local", "remote"})'
                  <=> mayRun({"fireError", "local", "remote"})
           /\ mayRun({"local"})' <=> mayRun({"local"})
<1>1. Control' /\ (spawning' <=> spawning)
  BY Advance DEF Control
<1>2. Apart
  BY AskedApart
<1>3. Up' => Up
  BY <1>1, <1>2, UpIs, UpNext DEF Upness, Apart
<1>. QED
  BY <1>1, <1>2, <1>3, ApartSame

LEMMA SilentGoes ==
    ASSUME Control, Records, FlowOn, NEW t \in Threads,
           Push(t) \/ Lock(t) \/ Unlock(t) \/ Callback(t)
    PROVE  Goes
<1>1. /\ conn' = conn /\ past'.log = past.log
      /\ \E s \in {"push", "lock", "unlock", "callback"} : \E steps \in Becomes(s) :
             /\ At(t, s) /\ Then(t, steps)
             /\ s \notin {"lock", "unlock"} => lifecycle' = lifecycle
             /\ s \in {"lock", "unlock"} => Locked'
  <2>1. CASE Push(t)
    <3>1. conn' = conn /\ past'.log = past.log /\ lifecycle' = lifecycle
      BY <2>1 DEF Push, Queued, OnlyWire, Records
    <3>2. At(t, "push") /\ Then(t, <<>>) /\ <<>> \in Becomes("push")
      BY <2>1 DEF Push, Becomes
    <3>. QED
      BY <3>1, <3>2
  <2>2. CASE Lock(t) \/ Unlock(t)
    <3>1. conn' = conn /\ past'.log = past.log /\ Locked'
      BY <2>2, Locks DEF Lock, Unlock, OnlyLock, Control
    <3>2. \E s \in {"lock", "unlock"} : At(t, s) /\ Then(t, <<>>) /\ <<>> \in Becomes(s)
      BY <2>2 DEF Lock, Unlock, Becomes
    <3>. QED
      BY <3>1, <3>2
  <2>3. CASE Callback(t)
    <3>1. conn' = conn /\ past'.log = past.log /\ lifecycle' = lifecycle
      BY <2>3 DEF Callback, Records, Pasts
    <3>2. At(t, "callback") /\ \E steps \in Becomes("callback") : Then(t, steps)
      BY <2>3 DEF Callback, Becomes
    <3>. QED
      BY <3>1, <3>2
  <2>. QED
    BY <2>1, <2>2, <2>3
<1>a. PICK s \in {"push", "lock", "unlock", "callback"} : \E steps \in Becomes(s) :
          /\ At(t, s) /\ Then(t, steps)
          /\ s \notin {"lock", "unlock"} => lifecycle' = lifecycle
          /\ s \in {"lock", "unlock"} => Locked'
  BY <1>1
<1>2. PICK steps \in Becomes(s) :
          /\ At(t, s) /\ Then(t, steps)
          /\ s \notin {"lock", "unlock"} => lifecycle' = lifecycle
          /\ s \in {"lock", "unlock"} => Locked'
  BY <1>a
<1>3. s \in Asked \cup {"join", "settle"}
  BY DEF Asked
<1>4. /\ Control' /\ (spawning' <=> spawning) /\ Apart
      /\ (MayPerform' => MayPerform) /\ (Concluding' <=> Concluding)
      /\ mayRun(Reporters)' <=> mayRun(Reporters)
      /\ mayRun({"fireError", "local", "remote"})'
             <=> mayRun({"fireError", "local", "remote"})
      /\ mayRun({"local"})' <=> mayRun({"local"})
  BY <1>1, <1>2, <1>3, AskedStep
<1>5. doing("worker")' # {} => doing("worker") # {}
  BY <1>4 DEF Apart
<1>6. FlowOn' /\ Milder
  BY <1>1, <1>4, <1>5, Unflagged
<1>. QED
  BY <1>4, <1>6 DEF Goes

LEMMA RequestGoes ==
    ASSUME Control, Records, FlowOn, NEW t \in Threads, RequestClose(t)
    PROVE  /\ Goes
           /\ conn.state # "Closed" /\ Up => "request" \in said'
           /\ \/ past'.log = past.log
              \/ past'.log = Append(past.log, "request") /\ Up
<1>1. /\ conn' = [conn EXCEPT !.local_close_requested = TRUE] /\ lifecycle' = lifecycle
      /\ At(t, "requestClose")
      /\ \E steps \in Becomes("requestClose") : Then(t, steps)
  BY DEF RequestClose, Becomes
<1>2. PICK steps \in Becomes("requestClose") : Then(t, steps)
  BY <1>1
<1>3. /\ conn'.state = conn.state /\ conn'.abort = conn.abort /\ conn'.joinable = conn.joinable
      /\ conn'.open_notified = conn.open_notified /\ conn'.local_close_requested
      /\ conn'.error_reported = conn.error_reported /\ conn'.close_called = conn.close_called
  BY <1>1 DEF Records, Conns
<1>4. \/ past'.log = past.log /\ (conn.state = "Closed" \/ ~Up)
      \/ past'.log = Append(past.log, "request") /\ Up
  BY DEF RequestClose, Logged, Records, Pasts
<1>5. /\ endings' = endings /\ said \subseteq said'
      /\ "open" \in said' <=> "open" \in said
      /\ conn.state # "Closed" /\ Up => "request" \in said'
  <2>1. CASE past'.log = past.log /\ (conn.state = "Closed" \/ ~Up)
    BY <2>1 DEF said, endings
  <2>2. CASE past'.log = Append(past.log, "request")
    <3>1. "request" \in Events /\ "request" \notin Ends
      BY DEF Events, Ends
    <3>2. said' = said \cup {"request"} /\ endings' = endings
      BY <2>2, <3>1, Says
    <3>. QED
      BY <3>2
  <2>. QED
    BY <1>4, <2>1, <2>2
<1>6. /\ Control' /\ (spawning' <=> spawning) /\ Apart /\ (Up' => Up)
      /\ (MayPerform' => MayPerform) /\ (Concluding' <=> Concluding)
      /\ mayRun(Reporters)' <=> mayRun(Reporters)
      /\ mayRun({"fireError", "local", "remote"})'
             <=> mayRun({"fireError", "local", "remote"})
      /\ mayRun({"local"})' <=> mayRun({"local"})
  <2>1. "requestClose" \in Asked \cup {"join", "settle"}
    BY DEF Asked
  <2>. QED
    BY <1>1, <1>2, <1>3, <2>1, AskedStep
<1>7. Concluding => Up
  BY UpIs DEF Upness, Concluding, mayRun
<1>8. Life'
  BY <1>3, <1>6 DEF FlowOn, Life, Apart
<1>9. Log'
  BY <1>3, <1>5 DEF FlowOn, Log
<1>10. Quiet'
  BY <1>3, <1>6 DEF FlowOn, Quiet
<1>11. Requested'
  BY <1>3, <1>5, <1>6, <1>7 DEF FlowOn, Requested
<1>. QED
  BY <1>3, <1>4, <1>5, <1>6, <1>8, <1>9, <1>10, <1>11 DEF Goes, FlowOn, Milder

\* Steps that only store a flag.
LEMMA StoreGoes ==
    ASSUME Control, Records, FlowOn, NEW t \in Threads, StoreClosing(t) \/ StoreAbort(t)
    PROVE  Goes /\ past'.log = past.log
<1>1. PICK s \in {"storeClosing", "storeAbort"} :
          /\ At(t, s) /\ Then(t, <<>>)
          /\ s = "storeClosing" => conn' = [conn EXCEPT !.state = "Closing"]
          /\ s = "storeAbort" => conn' = [conn EXCEPT !.abort = TRUE]
  BY DEF StoreClosing, StoreAbort
<1>2. past'.log = past.log /\ lifecycle' = lifecycle
  BY DEF StoreClosing, StoreAbort, OnlyConn, Queued, Records, Pasts
<1>3. /\ conn'.state \in {conn.state, "Closing"} /\ (conn.abort => conn'.abort)
      /\ conn'.joinable = conn.joinable
      /\ conn'.open_notified = conn.open_notified
      /\ conn'.local_close_requested = conn.local_close_requested
      /\ conn'.error_reported = conn.error_reported /\ conn'.close_called = conn.close_called
  BY <1>1 DEF Records, Conns
<1>4. endings' = endings /\ said' = said
  BY <1>2 DEF said, endings
<1>5. /\ Control' /\ (spawning' <=> spawning) /\ Apart /\ (Up' => Up)
      /\ (MayPerform' => MayPerform) /\ (Concluding' <=> Concluding)
      /\ mayRun(Reporters)' <=> mayRun(Reporters)
      /\ mayRun({"fireError", "local", "remote"})'
             <=> mayRun({"fireError", "local", "remote"})
      /\ mayRun({"local"})' <=> mayRun({"local"})
  <2>1. s \in Asked \cup {"join", "settle"} /\ <<>> \in Becomes(s)
    BY DEF Asked, Becomes
  <2>. QED
    BY <1>1, <1>2, <1>3, <2>1, AskedStep
<1>6. Life'
  BY <1>3, <1>5 DEF FlowOn, Life, Apart
<1>7. Log'
  BY <1>3, <1>4 DEF FlowOn, Log
<1>8. Quiet'
  BY <1>3, <1>5 DEF FlowOn, Quiet
<1>9. Requested'
  BY <1>3, <1>4, <1>5 DEF FlowOn, Requested
<1>. QED
  BY <1>2, <1>3, <1>4, <1>5, <1>6, <1>7, <1>8, <1>9 DEF Goes, FlowOn, Milder

LEMMA JoinGoes ==
    ASSUME Control, Records, FlowOn, NEW t \in Threads, Join(t)
    PROVE  Goes /\ past'.log = past.log /\ conn' = [conn EXCEPT !.joinable = FALSE]
           /\ doing("worker") = {} /\ doing("worker")' = {}
           /\ (spawning' <=> spawning) /\ (MayPerform' <=> MayPerform)
<1>1. /\ At(t, "join") /\ Then(t, <<>>) /\ conn' = [conn EXCEPT !.joinable = FALSE]
      /\ past' = past /\ lifecycle' = lifecycle /\ todo["worker"] = <<>>
  BY DEF Join, OnlyConn
<1>2. /\ conn'.state = conn.state /\ conn'.abort = conn.abort /\ ~conn'.joinable
      /\ conn'.open_notified = conn.open_notified
      /\ conn'.local_close_requested = conn.local_close_requested
      /\ conn'.error_reported = conn.error_reported /\ conn'.close_called = conn.close_called
  BY <1>1 DEF Records, Conns
<1>3. endings' = endings /\ said' = said
  BY <1>1 DEF said, endings
<1>4. /\ Control' /\ (spawning' <=> spawning) /\ Apart /\ (Up' => Up)
      /\ (MayPerform' => MayPerform) /\ (Concluding' <=> Concluding)
      /\ mayRun(Reporters)' <=> mayRun(Reporters)
      /\ mayRun({"fireError", "local", "remote"})'
             <=> mayRun({"fireError", "local", "remote"})
      /\ mayRun({"local"})' <=> mayRun({"local"})
  <2>1. <<>> \in Becomes("join")
    BY DEF Becomes
  <2>. QED
    BY <1>1, <1>2, <2>1, AskedStep
<1>5. doing("worker") = {} /\ doing("worker")' = {}
  BY <1>1, <1>4, UpIs DEF Upness, Apart
<1>6. Life'
  BY <1>2, <1>4, <1>5 DEF FlowOn, Life
<1>7. Log'
  BY <1>2, <1>3 DEF FlowOn, Log
<1>8. Quiet'
  BY <1>2, <1>4 DEF FlowOn, Quiet
<1>9. Requested'
  BY <1>2, <1>3, <1>4 DEF FlowOn, Requested
<1>10. MayPerform' <=> MayPerform
  BY <1>2, <1>4, ApartSame
<1>. QED
  BY <1>1, <1>2, <1>3, <1>4, <1>5, <1>6, <1>7, <1>8, <1>9, <1>10 DEF Goes, FlowOn, Milder

\* What close() leaves: it comes to it when no thread is up, or one that it keeps from
\* doing anything.
LEMMA SettleGoes ==
    ASSUME Control, Records, FlowOn, NEW t \in Threads, CloserOf(t), Settle(t)
    PROVE  /\ Goes /\ conn'.joinable = conn.joinable /\ (spawning' <=> spawning) /\ (Up' <=> Up)
           /\ \/ past'.log = past.log
              \/ /\ past'.log = Append(past.log, "local") /\ ~conn.close_called
                 /\ Up => "request" \in said
<1>1. /\ At(t, "settle") /\ lifecycle' = lifecycle
      /\ conn' = [conn EXCEPT !.running = FALSE, !.close_called = TRUE, !.state = "Closed"]
      /\ \E steps \in Becomes("settle") : Then(t, steps)
  BY DEF Settle, Becomes
<1>2. PICK steps \in Becomes("settle") : Then(t, steps)
  BY <1>1
<1>3. /\ conn'.abort = conn.abort /\ conn'.joinable = conn.joinable
      /\ conn'.open_notified = conn.open_notified
      /\ conn'.local_close_requested = conn.local_close_requested
      /\ conn'.error_reported = conn.error_reported /\ conn'.close_called
  BY <1>1 DEF Records, Conns
<1>4. \/ past'.log = past.log /\ (conn.close_called \/ conn.error_reported)
      \/ past'.log = Append(past.log, "local") /\ ~conn.close_called
  BY DEF Settle, Records
<1>5. endings' # {} /\ said \subseteq said' /\ ("open" \in said' <=> "open" \in said)
  <2>1. CASE past'.log = past.log /\ (conn.close_called \/ conn.error_reported)
    BY <2>1 DEF said, endings, FlowOn, Log
  <2>2. CASE past'.log = Append(past.log, "local")
    <3>1. "local" \in Events /\ "local" \in Ends
      BY DEF Events, Ends
    <3>2. said' = said \cup {"local"} /\ endings' = endings \cup {Len(past.log) + 1}
      BY <2>2, <3>1, Says
    <3>. QED
      BY <3>2
  <2>. QED
    BY <1>4, <2>1, <2>2
<1>6. /\ Control' /\ (spawning' <=> spawning) /\ Apart /\ (Up' => Up)
      /\ (MayPerform' => MayPerform) /\ (Concluding' <=> Concluding)
      /\ mayRun(Reporters)' <=> mayRun(Reporters)
      /\ mayRun({"fireError", "local", "remote"})'
             <=> mayRun({"fireError", "local", "remote"})
      /\ mayRun({"local"})' <=> mayRun({"local"})
  BY <1>1, <1>2, <1>3, AskedStep
<1>7. Concluding => Up
  BY UpIs DEF Upness, Concluding, mayRun
<1>8. /\ todo[t] # <<>> /\ todo[t][1] = "settle" /\ t # "worker"
      /\ Up => /\ conn.abort /\ ~MayPerform /\ ~conn.open_notified
               /\ "request" \in said \/ conn.close_called
  <2>1. todo[t] # <<>> /\ todo[t][1] = "settle"
    BY <1>1, Indices DEF Control, At
  <2>2. t # "worker"
    <3>1. "settle" \in StepsOf(t)
      BY <1>1, <1>2, Advance
    <3>. QED
      BY <3>1 DEF StepsOf, Own, Asked
  <2>. QED
    BY <2>1, <2>2 DEF CloserOf
<1>9. Life'
  BY <1>3, <1>6 DEF FlowOn, Life, Apart
<1>10. Log'
  BY <1>3, <1>5 DEF FlowOn, Log
<1>11. Quiet'
  <2>1. MayPerform => Up
    BY UpIs DEF Upness, MayPerform, mayRun
  <2>. QED
    BY <1>3, <1>6, <1>8, <2>1 DEF FlowOn, Quiet
<1>12. Requested'
  BY <1>3, <1>5, <1>6, <1>7, <1>8 DEF FlowOn, Requested
<1>13. Up' <=> Up
  <2>1. doing("worker")' = doing("worker")
    <3>1. "worker" \in Threads
      BY DEF Threads
    <3>. QED
      BY <1>1, <1>2, <1>8, <3>1, Advance
  <2>. QED
    BY <1>6, <2>1, UpIs, UpNext DEF Upness
<1>. QED
  BY <1>3, <1>4, <1>5, <1>6, <1>8, <1>9, <1>10, <1>11, <1>12, <1>13 DEF Goes, FlowOn, Milder

\* What a short list holds.
LEMMA Lists ==
    /\ {<<>>[i] : i \in DOMAIN <<>>} = {}
    /\ \A a : {<<a>>[i] : i \in DOMAIN <<a>>} = {a}
    /\ \A a, b : {<<a, b>>[i] : i \in DOMAIN <<a, b>>} = {a, b}
    /\ \A a, b, c : {<<a, b, c>>[i] : i \in DOMAIN <<a, b, c>>} = {a, b, c}
    /\ \A a, b, c, d : {<<a, b, c, d>>[i] : i \in DOMAIN <<a, b, c, d>>} = {a, b, c, d}
    /\ \A a, b, c, d, e :
           {<<a, b, c, d, e>>[i] : i \in DOMAIN <<a, b, c, d, e>>} = {a, b, c, d, e}
<1>1. {<<>>[i] : i \in DOMAIN <<>>} = {}
  OBVIOUS
<1>2. \A a : {<<a>>[i] : i \in DOMAIN <<a>>} = {a}
  OBVIOUS
<1>3. \A a, b : {<<a, b>>[i] : i \in DOMAIN <<a, b>>} = {a, b}
  <2>1. \A a, b : DOMAIN <<a, b>> = {1, 2}
    OBVIOUS
  <2>. QED
    BY <2>1
<1>4. \A a, b, c : {<<a, b, c>>[i] : i \in DOMAIN <<a, b, c>>} = {a, b, c}
  <2>1. \A a, b, c : DOMAIN <<a, b, c>> = {1, 2, 3}
    OBVIOUS
  <2>. QED
    BY <2>1
<1>5. \A a, b, c, d : {<<a, b, c, d>>[i] : i \in DOMAIN <<a, b, c, d>>} = {a, b, c, d}
  <2>1. \A a, b, c, d : DOMAIN <<a, b, c, d>> = {1, 2, 3, 4}
    OBVIOUS
  <2>. QED
    BY <2>1
<1>6. \A a, b, c, d, e :
          {<<a, b, c, d, e>>[i] : i \in DOMAIN <<a, b, c, d, e>>} = {a, b, c, d, e}
  <2>1. \A a, b, c, d, e : DOMAIN <<a, b, c, d, e>> = {1, 2, 3, 4, 5}
    OBVIOUS
  <2>. QED
    BY <2>1
<1>. QED
  BY <1>1, <1>2, <1>3, <1>4, <1>5, <1>6

LEMMA Finishes ==
    \A a : <<a>> \o finish = <<a, "flush", "cleanup", "conclude", "exit">>
<1>. TAKE a
<1> DEFINE S == {a, "flush", "cleanup", "conclude", "exit"}
           new == <<a, "flush", "cleanup", "conclude", "exit">>
<1>1. <<a>> \in Seq(S) /\ finish \in Seq(S) /\ new \in Seq(S)
      /\ Len(<<a>>) = 1 /\ Len(finish) = 4 /\ Len(new) = 5
  <2>1. /\ \A x : x \in S => <<x>> \in Seq(S)
        /\ \A x, y, z, u : x \in S /\ y \in S /\ z \in S /\ u \in S
               => <<x, y, z, u>> \in Seq(S)
        /\ \A x, y, z, u, v : x \in S /\ y \in S /\ z \in S /\ u \in S /\ v \in S
               => <<x, y, z, u, v>> \in Seq(S)
    <3>. HIDE DEF S
    <3>. QED
      OBVIOUS
  <2>2. a \in S /\ "flush" \in S /\ "cleanup" \in S /\ "conclude" \in S /\ "exit" \in S
    OBVIOUS
  <2>3. <<a>> \in Seq(S) /\ finish \in Seq(S) /\ new \in Seq(S)
    <3>. HIDE DEF S
    <3>. QED
      BY <2>1, <2>2 DEF finish
  <2>. QED
    BY <2>3 DEF finish
<1>2. /\ <<a>> \o finish \in Seq(S) /\ Len(<<a>> \o finish) = 5
      /\ \A i \in 1..5 : (<<a>> \o finish)[i] = IF i <= 1 THEN <<a>>[i] ELSE finish[i - 1]
  <2>1. \A s, u \in Seq(S) : Len(s) = 1 /\ Len(u) = 4 =>
            /\ s \o u \in Seq(S) /\ Len(s \o u) = 5
            /\ \A i \in 1..5 : (s \o u)[i] = IF i <= 1 THEN s[i] ELSE u[i - 1]
    <3>. HIDE DEF S
    <3>. SUFFICES ASSUME NEW s \in Seq(S), NEW u \in Seq(S), Len(s) = 1, Len(u) = 4
                  PROVE  /\ s \o u \in Seq(S) /\ Len(s \o u) = 5
                         /\ \A i \in 1..5 : (s \o u)[i] = IF i <= 1 THEN s[i] ELSE u[i - 1]
      OBVIOUS
    <3>1. /\ s \o u \in Seq(S) /\ Len(s \o u) = Len(s) + Len(u)
          /\ \A i \in 1..(Len(s) + Len(u)) :
                 (s \o u)[i] = IF i <= Len(s) THEN s[i] ELSE u[i - Len(s)]
      BY ConcatProperties
    <3>. QED
      BY <3>1
  <2>. QED
    BY <1>1, <2>1
<1>3. \A i \in 1..5 : (<<a>> \o finish)[i] = new[i]
  <2>1. \A i \in 1..5 : i = 1 \/ i = 2 \/ i = 3 \/ i = 4 \/ i = 5
    OBVIOUS
  <2>. QED
    BY <1>2, <2>1 DEF finish
<1>. QED
  BY <1>1, <1>2, <1>3, SeqEqual

\* The worker runs one of its own steps.
LEMMA OwnStep ==
    ASSUME Control, FlowOn, NEW s \in Own, At("worker", s), NEW steps \in Becomes(s),
           Then("worker", steps), lifecycle' = lifecycle
    PROVE  /\ Control' /\ ~spawning /\ ~spawning' /\ conn.joinable /\ Up
           /\ Up' <=> doing("worker")' # {}
           /\ \E T \in SUBSET After(s) :
                  /\ doing("worker") = {s} \cup T
                  /\ doing("worker")' = {steps[i] : i \in DOMAIN steps} \cup T
<1>1. "worker" \in Threads /\ s \notin {"lock", "unlock"}
  BY DEF Threads, Own
<1>2. Control' /\ (spawning' <=> spawning)
  BY <1>1, Advance DEF Control
<1>3. \E T \in SUBSET After(s) :
          /\ doing("worker") = {s} \cup T
          /\ doing("worker")' = {steps[i] : i \in DOMAIN steps} \cup T
  BY <1>1, Advance
<1>4. conn.joinable /\ ~spawning
  BY <1>3 DEF FlowOn, Life
<1>5. Up /\ (Up' <=> doing("worker")' # {})
  BY <1>2, <1>3, <1>4, UpIs, UpNext DEF Upness
<1>. QED
  BY <1>2, <1>3, <1>4, <1>5

\* What the worker goes on with, where no flag is touched and nothing reported.
Drives(s, steps) ==
    \/ s = "loop" /\ conn.abort /\ steps = finish
    \/ s = "loop" /\ ~conn.abort /\ steps = <<"perform">>
    \/ s = "perform" /\ steps = <<"flush", "poll">>
    \/ s = "perform" /\ steps = <<"fireError", "flush", "cleanup", "conclude", "exit">>
    \/ s = "perform" /\ steps = <<"flush", "flush", "cleanup", "conclude", "exit">>
    \/ s = "perform" /\ steps = <<"callback", "perform">>
    \/ s = "perform" /\ steps = <<"perform">>
    \/ s = "perform" /\ conn.open_notified /\ steps = <<"remote", "storeAbort", "perform">>
    \/ s = "flush" /\ steps = <<>>
    \/ s = "flush" /\ steps = <<"sendDirect">>
    \/ s = "sendDirect" /\ steps = <<"flush">>
    \/ s = "sendDirect" /\ steps = <<"sendDirect">>
    \/ s = "sendDirect" /\ steps = <<"requeue">>
    \/ s = "sendDirect" /\ conn.open_notified /\ steps = <<"fireError", "requeue", "storeAbort">>
    \/ s = "requeue" /\ steps = <<>>
    \/ s = "poll" /\ conn.abort /\ steps = finish
    \/ s = "poll" /\ ~conn.abort /\ steps = <<"loop">>
    \/ s = "poll" /\ ~conn.abort /\ steps = <<"flush", "loop">>
    \/ s = "poll" /\ steps = <<"fireError", "flush", "cleanup", "conclude", "exit">>
    \/ s = "conclude" /\ conn.close_called /\ steps = <<>>
    \/ s = "conclude" /\ steps = <<"fireError">>
    \/ s = "conclude" /\ conn.local_close_requested /\ steps = <<"local">>
    \/ s = "conclude" /\ steps = <<"remote">>

LEMMA DriveSteps ==
    ASSUME NEW s, NEW steps, Drives(s, steps)
    PROVE  s \in Own /\ steps \in Becomes(s)
<1>1. s \in {"loop", "perform", "flush", "sendDirect", "requeue", "poll", "conclude"}
  BY DEF Drives
<1>2. steps \in Becomes(s)
  BY <1>1 DEF Drives, Becomes
<1>. QED
  BY <1>1, <1>2 DEF Own

LEMMA DriveGoes ==
    ASSUME Control, FlowOn, NEW s, NEW steps, Drives(s, steps), At("worker", s),
           Then("worker", steps), lifecycle' = lifecycle, conn' = conn, past'.log = past.log
    PROVE  Goes /\ Up
<1> DEFINE D == doing("worker")
           D1 == doing("worker")'
           N == {steps[i] : i \in DOMAIN steps}
<1>1. s \in Own /\ steps \in Becomes(s)
  BY DriveSteps
<1>2. Control' /\ ~spawning /\ ~spawning' /\ Up
  BY <1>1, OwnStep
<1>3. PICK T \in SUBSET After(s) : D = {s} \cup T /\ D1 = N \cup T
  BY <1>1, OwnStep
<1>. HIDE DEF D, D1, N
<1>4. /\ steps = <<>> => N = {}
      /\ \A a : steps = <<a>> => N = {a}
      /\ \A a, b : steps = <<a, b>> => N = {a, b}
      /\ \A a, b, c : steps = <<a, b, c>> => N = {a, b, c}
      /\ \A a, b, c, d : steps = <<a, b, c, d>> => N = {a, b, c, d}
      /\ \A a, b, c, d, e : steps = <<a, b, c, d, e>> => N = {a, b, c, d, e}
  BY Lists DEF N
<1>5. /\ \A S : mayRun(S) <=> \E x \in S : x \in D
      /\ \A S : mayRun(S)' <=> \E x \in S : x \in D1
  BY DEF mayRun, D, D1
<1>6. /\ MayPerform <=>
             \/ "perform" \in D
             \/ ~conn.abort /\ ("start" \in D \/ "loop" \in D \/ "poll" \in D)
      /\ MayPerform' <=>
             \/ "perform" \in D1
             \/ ~conn.abort /\ ("start" \in D1 \/ "loop" \in D1 \/ "poll" \in D1)
  BY <1>2, <1>5 DEF MayPerform
<1>7. /\ Concluding <=>
             \E x \in {"start", "loop", "perform", "poll", "conclude", "local"} : x \in D
      /\ Concluding' <=>
             \E x \in {"start", "loop", "perform", "poll", "conclude", "local"} : x \in D1
  BY <1>2, <1>5 DEF Concluding
<1>8. /\ MayPerform' => MayPerform
      /\ Concluding' => Concluding
      /\ mayRun(Reporters) => mayRun(Reporters)' \/ conn.close_called
      /\ mayRun({"fireError", "local", "remote"})'
             => mayRun({"fireError", "local", "remote"}) \/ ~MayPerform' \/ conn.open_notified
      /\ mayRun({"local"})' => mayRun({"local"}) \/ conn.local_close_requested
  <2>. USE <1>3, <1>4, <1>5, <1>6, <1>7 DEF After, Rest, Flushed, Reporters
  <2>1. CASE s = "loop"
    BY <2>1 DEF Drives, finish
  <2>2. CASE s = "perform"
    BY <2>2 DEF Drives
  <2>3. CASE s = "flush"
    BY <2>3 DEF Drives
  <2>4. CASE s = "sendDirect"
    BY <2>4 DEF Drives
  <2>5. CASE s = "requeue"
    BY <2>5 DEF Drives
  <2>6. CASE s = "poll"
    BY <2>6 DEF Drives, finish
  <2>7. CASE s = "conclude"
    BY <2>7 DEF Drives
  <2>. QED
    BY <2>1, <2>2, <2>3, <2>4, <2>5, <2>6, <2>7 DEF Drives
<1>9. doing("worker")' # {} => doing("worker") # {}
  BY <1>3 DEF D
<1>10. FlowOn' /\ Milder
  BY <1>2, <1>8, <1>9, Unflagged
<1>. QED
  BY <1>2, <1>10 DEF Goes

Driving ==
    Loop \/ PerformReturns \/ DataArrives \/ CloseArrives \/ Flush \/ SendDirect \/ Requeue
    \/ Poll \/ Conclude

LEMMA DrivingGoes ==
    ASSUME Control, Records, FlowOn, InHand, Driving
    PROVE  Goes /\ Up /\ past'.log = past.log /\ conn' = conn
<1>1. /\ lifecycle' = lifecycle /\ conn' = conn /\ past'.log = past.log
      /\ \E s, steps : Drives(s, steps) /\ At("worker", s) /\ Then("worker", steps)
  <2>1. CASE Loop
    <3>1. lifecycle' = lifecycle /\ conn' = conn /\ past'.log = past.log
      BY <2>1 DEF Loop, OnlyTodo
    <3>2. At("worker", "loop") /\ \E steps : Drives("loop", steps) /\ Then("worker", steps)
      BY <2>1 DEF Loop, Drives
    <3>. QED
      BY <3>1, <3>2
  <2>2. CASE PerformReturns
    <3>1. lifecycle' = lifecycle /\ conn' = conn /\ past'.log = past.log
      BY <2>2 DEF PerformReturns
    <3>2. At("worker", "perform") /\ \E steps : Drives("perform", steps) /\ Then("worker", steps)
      BY <2>2, Finishes DEF PerformReturns, Drives
    <3>. QED
      BY <3>1, <3>2
  <2>3. CASE DataArrives
    <3>1. lifecycle' = lifecycle /\ conn' = conn /\ past'.log = past.log
      BY <2>3 DEF DataArrives, Records
    <3>2. At("worker", "perform") /\ \E steps : Drives("perform", steps) /\ Then("worker", steps)
      BY <2>3 DEF DataArrives, Drives
    <3>. QED
      BY <3>1, <3>2
  <2>4. CASE CloseArrives
    <3>1. lifecycle' = lifecycle /\ conn' = conn /\ past'.log = past.log
      BY <2>4 DEF CloseArrives
    <3>2. At("worker", "perform") /\ \E steps : Drives("perform", steps) /\ Then("worker", steps)
      BY <2>4 DEF CloseArrives, Drives
    <3>. QED
      BY <3>1, <3>2
  <2>5. CASE Flush
    <3>1. lifecycle' = lifecycle /\ conn' = conn /\ past'.log = past.log
      BY <2>5 DEF Flush, OnlyWire
    <3>2. At("worker", "flush") /\ \E steps : Drives("flush", steps) /\ Then("worker", steps)
      BY <2>5 DEF Flush, Drives
    <3>. QED
      BY <3>1, <3>2
  <2>6. CASE SendDirect
    <3>1. lifecycle' = lifecycle /\ conn' = conn /\ past'.log = past.log
      BY <2>6 DEF SendDirect, OnlyWire, Records, Pasts
    <3>2. At("worker", "sendDirect")
      BY <2>6 DEF SendDirect
    <3>3. conn.open_notified
      <4>1. "sendDirect" \in doing("worker")
        <5>1. "worker" \in Threads
          BY DEF Threads
        <5>. QED
          BY <3>2, <5>1, Indices DEF Control, At, doing
      <4>. QED
        BY <4>1 DEF InHand, mayRun
    <3>4. \E steps : Drives("sendDirect", steps) /\ Then("worker", steps)
      BY <2>6, <3>3 DEF SendDirect, Drives
    <3>. QED
      BY <3>1, <3>2, <3>4
  <2>7. CASE Requeue
    <3>1. lifecycle' = lifecycle /\ conn' = conn /\ past'.log = past.log
      BY <2>7 DEF Requeue, OnlyWire
    <3>2. At("worker", "requeue") /\ \E steps : Drives("requeue", steps) /\ Then("worker", steps)
      BY <2>7 DEF Requeue, Drives
    <3>. QED
      BY <3>1, <3>2
  <2>8. CASE Poll
    <3>1. lifecycle' = lifecycle /\ conn' = conn /\ past'.log = past.log
      BY <2>8 DEF Poll, OnlyTodo
    <3>2. At("worker", "poll") /\ \E steps : Drives("poll", steps) /\ Then("worker", steps)
      BY <2>8, Finishes DEF Poll, Drives
    <3>. QED
      BY <3>1, <3>2
  <2>9. CASE Conclude
    <3>1. lifecycle' = lifecycle /\ conn' = conn /\ past'.log = past.log
      BY <2>9 DEF Conclude, OnlyTodo
    <3>2. /\ At("worker", "conclude")
          /\ \E steps : Drives("conclude", steps) /\ Then("worker", steps)
      <4>1. conn.error_reported => conn.close_called
        BY DEF FlowOn, Log
      <4>. QED
        BY <2>9, <4>1 DEF Conclude, Drives
    <3>. QED
      BY <3>1, <3>2
  <2>. QED
    BY <2>1, <2>2, <2>3, <2>4, <2>5, <2>6, <2>7, <2>8, <2>9 DEF Driving
<1>2. PICK s, steps : Drives(s, steps) /\ At("worker", s) /\ Then("worker", steps)
  BY <1>1
<1>. QED
  BY <1>1, <1>2, DriveGoes

\* The sets of OwnStep, read in the invariants.
LEMMA Reading ==
    ASSUME ~spawning, ~spawning'
    PROVE  /\ MayPerform <=>
                  \/ "perform" \in doing("worker")
                  \/ ~conn.abort /\ \E x \in {"start", "loop", "poll"} : x \in doing("worker")
           /\ MayPerform' <=>
                  \/ "perform" \in doing("worker")'
                  \/ ~conn'.abort /\ \E x \in {"start", "loop", "poll"} : x \in doing("worker")'
           /\ Concluding <=>
                  \E x \in {"start", "loop", "perform", "poll", "conclude", "local"} :
                      x \in doing("worker")
           /\ Concluding' <=>
                  \E x \in {"start", "loop", "perform", "poll", "conclude", "local"} :
                      x \in doing("worker")'
           /\ \A S : mayRun(S) <=> \E x \in S : x \in doing("worker")
           /\ \A S : mayRun(S)' <=> \E x \in S : x \in doing("worker")'
BY DEF MayPerform, Concluding, mayRun

\* The worker sets a flag, and reports nothing.
Setting == Start \/ Cleanup \/ Exit

LEMMA SettingGoes ==
    ASSUME Control, Records, FlowOn, Setting
    PROVE  Goes /\ Up /\ past'.log = past.log /\ conn'.joinable = conn.joinable
<1>1. PICK s \in {"start", "cleanup", "exit"} :
          /\ At("worker", s)
          /\ s = "start" => \/ Then("worker", <<"loop">>) /\ conn' = conn
                            \/ /\ Then("worker", <<"fireError">>)
                               /\ conn' = [conn EXCEPT !.running = FALSE, !.state = "Closed"]
          /\ s = "cleanup" => Then("worker", <<>>) /\ conn' = [conn EXCEPT !.running = FALSE]
          /\ s = "exit" => Then("worker", <<>>) /\ conn' = [conn EXCEPT !.state = "Closed"]
  BY DEF Setting, Start, Cleanup, Exit
<1>2. past' = past /\ lifecycle' = lifecycle
  BY DEF Setting, Start, Cleanup, Exit, OnlyConn
<1>3. PICK steps \in {<<>>, <<"loop">>, <<"fireError">>} :
          /\ Then("worker", steps)
          /\ s = "start" => steps # <<>>
          /\ s # "start" => steps = <<>>
          /\ steps = <<"fireError">> => conn'.state = "Closed"
          /\ s = "start" /\ steps = <<"loop">> => conn'.state = conn.state
          /\ s = "cleanup" => conn'.state = conn.state
  <2>1. CASE s = "start"
    BY <1>1, <2>1 DEF Records, Conns
  <2>2. CASE s = "cleanup" \/ s = "exit"
    <3>1. /\ <<>> \in {<<>>, <<"loop">>, <<"fireError">>} /\ Then("worker", <<>>)
          /\ s # "start" /\ s = "cleanup" => conn'.state = conn.state
      BY <1>1, <2>2 DEF Records, Conns
    <3>2. <<>> # <<"fireError">> /\ <<>> # <<"loop">>
      OBVIOUS
    <3>3. s = "cleanup" => conn'.state = conn.state
      BY <1>1, <2>2 DEF Records, Conns
    <3>. QED
      BY <2>2, <3>1, <3>2, <3>3
  <2>. QED
    BY <1>1, <2>1, <2>2
<1>4. /\ conn'.abort = conn.abort /\ conn'.joinable = conn.joinable
      /\ conn'.open_notified = conn.open_notified
      /\ conn'.local_close_requested = conn.local_close_requested
      /\ conn'.error_reported = conn.error_reported /\ conn'.close_called = conn.close_called
  BY <1>1, ZenonT(60) DEF Records, Conns
<1>5. endings' = endings /\ said' = said
  BY <1>2 DEF said, endings
<1>6. s \in Own /\ steps \in Becomes(s)
  BY <1>3 DEF Own, Becomes
<1>7. Control' /\ ~spawning /\ ~spawning' /\ conn.joinable /\ Up
  BY <1>1, <1>2, <1>3, <1>6, OwnStep
<1>8. PICK T \in SUBSET After(s) :
          doing("worker") = {s} \cup T /\ doing("worker")' = {steps[i] : i \in DOMAIN steps} \cup T
  BY <1>1, <1>2, <1>3, <1>6, OwnStep
<1>9. \/ s = "start" /\ doing("worker") = {"start"} /\ doing("worker")' = {"loop"}
            /\ conn'.state = conn.state
      \/ s = "start" /\ doing("worker") = {"start"} /\ doing("worker")' = {"fireError"}
      \/ s = "cleanup" /\ doing("worker") = {s} \cup T /\ doing("worker")' = T
            /\ T \subseteq {"conclude", "exit"} /\ conn'.state = conn.state
      \/ s = "exit" /\ doing("worker") = {"exit"} /\ doing("worker")' = {}
  <2>1. /\ steps = <<>> => {steps[i] : i \in DOMAIN steps} = {}
        /\ \A a : steps = <<a>> => {steps[i] : i \in DOMAIN steps} = {a}
    BY Lists
  <2>2. /\ After("start") = {} /\ After("exit") = {} /\ After("cleanup") = {"conclude", "exit"}
    BY DEF After
  <2>3. CASE s = "start" /\ steps = <<"loop">>
    BY <1>3, <1>8, <2>1, <2>2, <2>3
  <2>4. CASE s = "start" /\ steps = <<"fireError">>
    BY <1>8, <2>1, <2>2, <2>4
  <2>5. CASE s = "cleanup" /\ steps = <<>>
    BY <1>3, <1>8, <2>1, <2>2, <2>5
  <2>6. CASE s = "exit" /\ steps = <<>>
    BY <1>8, <2>1, <2>2, <2>6
  <2>. QED
    BY <1>3, <2>3, <2>4, <2>5, <2>6
<1>10. Life'
  <2>1. mayRun(Reporters) => mayRun(Reporters)' \/ s = "exit"
    BY <1>9 DEF mayRun, Reporters
  <2>2. s = "exit" => ~mayRun(Reporters)
    BY <1>9 DEF mayRun, Reporters
  <2>. QED
    BY <1>4, <1>7, <2>1, <2>2 DEF FlowOn, Life
<1>11. Log'
  BY <1>4, <1>5 DEF FlowOn, Log
<1>12. MayPerform' => MayPerform
  BY <1>4, <1>7, <1>9, Reading
<1>13. Quiet'
  BY <1>4, <1>7, <1>9, <1>12, Reading DEF FlowOn, Quiet
<1>14. Requested'
  <2>1. Concluding' => Concluding /\ conn'.state = conn.state
    BY <1>7, <1>9, Reading
  <2>2. ~mayRun({"local"})'
    BY <1>9 DEF mayRun
  <2>. QED
    BY <1>4, <1>5, <2>1, <2>2 DEF FlowOn, Requested
<1>. QED
  BY <1>2, <1>4, <1>5, <1>7, <1>10, <1>11, <1>12, <1>13, <1>14 DEF Goes, FlowOn, Milder

\* The handshake is done: nothing was reported before.
LEMMA UpgradedGoes ==
    ASSUME Control, Records, FlowOn, Upgraded
    PROVE  /\ Goes /\ Up /\ conn'.joinable = conn.joinable
           /\ past'.log = Append(past.log, "open") /\ endings = {} /\ "open" \notin said
<1>1. /\ At("worker", "perform") /\ Then("worker", <<"callback", "perform">>)
      /\ ~conn.open_notified /\ lifecycle' = lifecycle
      /\ conn' = [conn EXCEPT !.open_notified = TRUE, !.state = "Open"]
      /\ past'.log = Append(past.log, "open")
  BY DEF Upgraded, Logged, Records
<1>2. /\ conn'.abort = conn.abort /\ conn'.joinable = conn.joinable
      /\ conn'.open_notified /\ conn'.state = "Open"
      /\ conn'.local_close_requested = conn.local_close_requested
      /\ conn'.error_reported = conn.error_reported /\ conn'.close_called = conn.close_called
  BY <1>1 DEF Records, Conns
<1>3. said' = said \cup {"open"} /\ endings' = endings
  <2>1. "open" \in Events /\ "open" \notin Ends
    BY DEF Events, Ends
  <2>. QED
    BY <1>1, <2>1, Says
<1>4. "perform" \in Own /\ <<"callback", "perform">> \in Becomes("perform")
  BY DEF Own, Becomes
<1>5. Control' /\ ~spawning /\ ~spawning' /\ conn.joinable /\ Up
  BY <1>1, <1>4, OwnStep
<1>6. doing("worker") = {"perform"} /\ doing("worker")' = {"callback", "perform"}
  <2>1. PICK T \in SUBSET After("perform") :
            /\ doing("worker") = {"perform"} \cup T
            /\ doing("worker")' = {<<"callback", "perform">>[i] :
                                       i \in DOMAIN <<"callback", "perform">>} \cup T
    BY <1>1, <1>4, OwnStep
  <2>2. After("perform") = {}
    BY DEF After
  <2>. QED
    BY <2>1, <2>2, Lists
<1>7. MayPerform /\ ~conn.close_called
  <2>1. MayPerform
    BY <1>6 DEF MayPerform, mayRun
  <2>. QED
    BY <1>1, <2>1 DEF FlowOn, Quiet
<1>8. Life'
  <2>1. mayRun(Reporters)'
    BY <1>6 DEF mayRun, Reporters
  <2>. QED
    BY <1>2, <1>5, <2>1 DEF FlowOn, Life
<1>9. Log'
  BY <1>2, <1>3 DEF FlowOn, Log
<1>10. Quiet'
  BY <1>2 DEF Quiet
<1>11. Requested'
  <2>1. Concluding
    BY <1>6 DEF Concluding, mayRun
  <2>2. ~mayRun({"local"})'
    BY <1>6 DEF mayRun
  <2>. QED
    BY <1>2, <1>3, <2>1, <2>2 DEF FlowOn, Requested
<1>12. endings = {} /\ "open" \notin said
  BY <1>1, <1>7 DEF FlowOn, Log
<1>. QED
  BY <1>1, <1>2, <1>3, <1>5, <1>7, <1>8, <1>9, <1>10, <1>11, <1>12 DEF Goes, FlowOn, Milder

\* An end is reported, if that is still to be done.
Reporting == FireError \/ FireClose

LEMMA ReportingGoes ==
    ASSUME Control, Records, FlowOn, Reporting
    PROVE  /\ Goes /\ Up /\ conn'.joinable = conn.joinable
           /\ \/ past'.log = past.log
              \/ past'.log = Append(past.log, "error")
              \/ past'.log = Append(past.log, "remote") /\ endings = {}
              \/ /\ past'.log = Append(past.log, "local") /\ endings = {}
                 /\ "request" \in said
<1>1. PICK s \in {"fireError", "local", "remote"} :
          /\ At("worker", s)
          /\ \/ Then("worker", <<>>) /\ conn' = conn /\ past' = past
             \/ /\ Then("worker", <<"callback">>) /\ s = "fireError"
                /\ conn' = [conn EXCEPT !.error_reported = TRUE, !.close_called = TRUE]
                /\ past' = [past EXCEPT !.log = Append(@, "error")]
             \/ /\ Then("worker", <<"callback">>) /\ s \in {"local", "remote"}
                /\ ~conn.close_called
                /\ conn' = [conn EXCEPT !.close_called = TRUE]
                /\ past' = [past EXCEPT !.log = Append(@, s)]
          /\ past' = past => conn.close_called
  <2>1. CASE FireError
    <3>1. conn.error_reported => conn.close_called
      BY DEF FlowOn, Log
    <3>2. CASE conn.error_reported
      BY <2>1, <3>1, <3>2 DEF FireError
    <3>3. CASE ~conn.error_reported
      <4>1. past' = [past EXCEPT !.log = Append(@, "error")]
        BY <2>1, <3>3 DEF FireError, Logged
      <4>2. past' # past
        <5>1. past'.log = Append(past.log, "error") /\ past.log \in Seq(Events)
          BY <4>1 DEF Records, Pasts
        <5>2. Len(past'.log) # Len(past.log)
          BY <5>1, AppendProperties
        <5>. QED
          BY <5>2
      <4>. QED
        BY <2>1, <3>3, <4>1, <4>2 DEF FireError
    <3>. QED
      BY <3>2, <3>3
  <2>2. CASE FireClose
    <3>1. PICK how \in {"local", "remote"} :
              /\ At("worker", how)
              /\ IF conn.close_called \/ conn.error_reported
                   THEN Then("worker", <<>>) /\ UNCHANGED <<conn, past>>
                   ELSE /\ conn' = [conn EXCEPT !.close_called = TRUE]
                        /\ Logged(how)
                        /\ Then("worker", << "callback" >>)
      BY <2>2 DEF FireClose
    <3>2. conn.error_reported => conn.close_called
      BY DEF FlowOn, Log
    <3>3. CASE conn.close_called
      BY <3>1, <3>3
    <3>4. CASE ~conn.close_called
      <4>1. past' = [past EXCEPT !.log = Append(@, how)]
        BY <3>1, <3>2, <3>4 DEF Logged
      <4>2. past' # past
        <5>1. past'.log = Append(past.log, how) /\ past.log \in Seq(Events) /\ how \in Events
          BY <4>1 DEF Records, Pasts, Events, Ends
        <5>2. Len(past'.log) # Len(past.log)
          BY <5>1, AppendProperties
        <5>. QED
          BY <5>2
      <4>. QED
        BY <3>1, <3>2, <3>4, <4>1, <4>2
    <3>. QED
      BY <3>3, <3>4
  <2>. QED
    BY <2>1, <2>2 DEF Reporting
<1>2. PICK steps \in {<<>>, <<"callback">>} : Then("worker", steps)
  BY <1>1
<1>3. /\ conn'.abort = conn.abort /\ conn'.joinable = conn.joinable
      /\ conn'.open_notified = conn.open_notified /\ conn'.state = conn.state
      /\ conn'.local_close_requested = conn.local_close_requested
      /\ conn'.close_called
  BY <1>1, ZenonT(60) DEF Records, Conns
<1>4. \/ past'.log = past.log /\ conn.close_called
      \/ past'.log = Append(past.log, "error")
      \/ past'.log = Append(past.log, "remote") /\ s = "remote" /\ ~conn.close_called
      \/ past'.log = Append(past.log, "local") /\ s = "local" /\ ~conn.close_called
  BY <1>1 DEF Records, Pasts
<1>5. endings' # {} /\ said \subseteq said' /\ ("open" \in said' <=> "open" \in said)
  <2>1. CASE past'.log = past.log /\ conn.close_called
    BY <2>1 DEF said, endings, FlowOn, Log
  <2>2. ASSUME NEW e \in Ends, past'.log = Append(past.log, e)
        PROVE  endings' # {} /\ said \subseteq said' /\ ("open" \in said' <=> "open" \in said)
    <3>1. e \in Events /\ e # "open"
      BY DEF Events, Ends
    <3>2. said' = said \cup {e} /\ endings' = endings \cup {Len(past.log) + 1}
      BY <2>2, <3>1, Says
    <3>. QED
      BY <3>1, <3>2
  <2>. QED
    BY <1>4, <2>1, <2>2 DEF Ends
<1>6. s \in Own /\ steps \in Becomes(s)
  BY DEF Own, Becomes
<1>7. lifecycle' = lifecycle
  BY DEF Reporting, FireError, FireClose
<1>8. Control' /\ ~spawning /\ ~spawning' /\ conn.joinable /\ Up
  BY <1>1, <1>2, <1>6, <1>7, OwnStep
<1>9. PICK T \in SUBSET After(s) :
          doing("worker") = {s} \cup T /\ doing("worker")' = {steps[i] : i \in DOMAIN steps} \cup T
  BY <1>1, <1>2, <1>6, <1>7, OwnStep
<1>10. \A x \in Own : x \in doing("worker")' => x \in doing("worker")
  <2>1. {steps[i] : i \in DOMAIN steps} \subseteq {"callback"}
    BY Lists
  <2>2. "callback" \notin Own
    BY DEF Own
  <2>. QED
    BY <1>9, <2>1, <2>2
<1>11. \A S \in SUBSET Own : mayRun(S)' => mayRun(S)
  BY <1>10 DEF mayRun
<1>12. (MayPerform' => MayPerform) /\ (Concluding' => Concluding)
       /\ (mayRun({"local"})' => mayRun({"local"}))
  <2>1. /\ {"start", "loop", "poll"} \subseteq Own /\ {"perform"} \subseteq Own
        /\ {"start", "loop", "perform", "poll", "conclude", "local"} \subseteq Own
        /\ {"local"} \subseteq Own
    BY DEF Own
  <2>. QED
    BY <1>3, <1>8, <1>11, <2>1 DEF MayPerform, Concluding
<1>13. mayRun({"fireError", "local", "remote"}) /\ (s = "local" => mayRun({"local"}))
  BY <1>9 DEF mayRun
<1>14. Life'
  BY <1>3, <1>8 DEF Life
<1>15. Log'
  BY <1>3, <1>5 DEF FlowOn, Log
<1>16. Quiet'
  BY <1>3, <1>12, <1>13 DEF FlowOn, Quiet
<1>17. Requested'
  BY <1>3, <1>12 DEF FlowOn, Requested
<1>18. \/ past'.log = past.log
       \/ past'.log = Append(past.log, "error")
       \/ past'.log = Append(past.log, "remote") /\ endings = {}
       \/ past'.log = Append(past.log, "local") /\ endings = {} /\ "request" \in said
  <2>1. s = "local" => conn.local_close_requested /\ Concluding
    BY <1>13 DEF FlowOn, Requested, Concluding, mayRun
  <2>. QED
    BY <1>4, <2>1 DEF FlowOn, Log, Requested
<1>. QED
  BY <1>3, <1>5, <1>8, <1>12, <1>14, <1>15, <1>16, <1>17, <1>18 DEF Goes, FlowOn, Milder

Calling(t) == Send(t) \/ CloseAsync(t) \/ Close(t)

LEMMA CallingGoes ==
    ASSUME Control, Records, FlowOn, NEW t \in Callers, Calling(t)
    PROVE  /\ Goes /\ past'.log = past.log /\ conn' = conn
           /\ (Up' <=> Up) /\ (spawning' <=> spawning)
           /\ doing("worker")' = doing("worker")
           /\ todo'[t][1] \in {"push", "lock"}
           /\ \A u \in Threads : u # t => todo'[u] = todo[u]
<1>1. /\ conn' = conn /\ past'.log = past.log /\ lifecycle' = lifecycle
      /\ \E steps \in {<<"push">>, asyncClose, closeCall} : Starts(t, steps)
  BY DEF Calling, Send, CloseAsync, Close, closeCall, Records, Pasts
<1>2. PICK steps \in {<<"push">>, asyncClose, closeCall} : Starts(t, steps)
  BY <1>1
<1>3. /\ Control' /\ (spawning' <=> spawning) /\ todo'[t] = steps
      /\ \A u \in Threads : u # t => doing(u)' = doing(u) /\ todo'[u] = todo[u]
  <2>1. t \in Threads
    BY DEF Threads
  <2>. QED
    BY <1>1, <1>2, <2>1, Begins
<1>4. doing("worker")' = doing("worker")
  <2>1. "worker" \in Threads /\ t # "worker"
    BY CurlAssumption DEF Threads
  <2>. QED
    BY <1>3, <2>1
<1>5. Apart
  BY <1>4 DEF Apart
<1>6. /\ MayPerform' => MayPerform
      /\ Concluding' => Concluding
      /\ mayRun(Reporters) => mayRun(Reporters)'
      /\ mayRun({"fireError", "local", "remote"})' => mayRun({"fireError", "local", "remote"})
      /\ mayRun({"local"})' => mayRun({"local"})
  BY <1>1, <1>3, <1>5, ApartSame
<1>7. FlowOn' /\ Milder
  BY <1>1, <1>3, <1>4, <1>6, Unflagged
<1>8. Up' <=> Up
  BY <1>3, <1>4, UpIs, UpNext DEF Upness
<1>9. todo'[t][1] \in {"push", "lock"}
  BY <1>3 DEF asyncClose, closeCall
<1>. QED
  BY <1>1, <1>3, <1>4, <1>7, <1>8, <1>9 DEF Goes

LEMMA SpawnGoes ==
    ASSUME Control, Records, FlowOn, Spawn
    PROVE  /\ Goes /\ past'.log = past.log /\ Up /\ Up' /\ spawning /\ ~spawning'
           /\ conn'.joinable /\ todo'[Opener] = <<>> /\ todo["worker"] = <<>>
           /\ todo'["worker"] = <<"start">> /\ doing("worker")' = {"start"}
           /\ \A u \in Threads : u \notin {Opener, "worker"} => todo'[u] = todo[u]
<1>1. conn' = [conn EXCEPT !.joinable = TRUE] /\ past' = past
  BY DEF Spawn, OnlyConn
<1>2. spawning
  <2>1. Opener \in Threads /\ todo[Opener] # <<>> /\ Head(todo[Opener]) = "spawn"
    BY CurlAssumption DEF Threads, Spawn, At
  <2>2. 1 \in DOMAIN todo[Opener] /\ todo[Opener][1] = "spawn"
    BY <2>1, Indices DEF Control
  <2>. QED
    BY <2>2 DEF spawning, doing
<1>3. doing("worker") = {} /\ todo["worker"] = <<>>
  BY <1>2, UpIs DEF FlowOn, Life, Upness
<1>4. /\ Control' /\ ~spawning' /\ todo'[Opener] = <<>>
      /\ doing("worker")' = {"start"}
      /\ \A u \in Threads : u \notin {Opener, "worker"} => todo'[u] = todo[u]
  BY <1>3, Spawning
<1>5. /\ conn'.abort = conn.abort /\ conn'.joinable
      /\ conn'.open_notified = conn.open_notified /\ conn'.state = conn.state
      /\ conn'.local_close_requested = conn.local_close_requested
      /\ conn'.error_reported = conn.error_reported /\ conn'.close_called = conn.close_called
  BY <1>1 DEF Records, Conns
<1>6. endings' = endings /\ said' = said
  BY <1>1 DEF said, endings
<1>7. Up /\ Up'
  BY <1>2, <1>4, UpIs, UpNext DEF Upness
<1>8. Concluding /\ ~mayRun({"local"})' /\ ~mayRun({"fireError", "local", "remote"})'
      /\ mayRun(Reporters)' /\ (MayPerform' => MayPerform)
  BY <1>2, <1>4, <1>5 DEF Concluding, mayRun, Reporters, MayPerform
<1>9. Life'
  BY <1>4, <1>5, <1>8 DEF Life
<1>10. Log'
  BY <1>5, <1>6 DEF FlowOn, Log
<1>11. Quiet'
  BY <1>5, <1>8 DEF FlowOn, Quiet
<1>12. Requested'
  BY <1>5, <1>6, <1>8 DEF FlowOn, Requested
<1>13. todo'["worker"] = <<"start">>
  <2>1. /\ "worker" \in Threads /\ Opener \in Threads /\ Opener # "worker"
        /\ todo \in [Threads -> Seq(CurlSteps)]
    BY CurlAssumption DEF Threads, Control, Todos
  <2>. QED
    BY <2>1 DEF Spawn
<1>. QED
  BY <1>1, <1>2, <1>3, <1>4, <1>5, <1>6, <1>7, <1>8, <1>9, <1>10, <1>11, <1>12, <1>13
     DEF Goes, FlowOn, Milder

LEMMA OpenGoes ==
    ASSUME Control, Records, FlowOn, Open
    PROVE  /\ Control' /\ FlowOn' /\ ~Up /\ Up' /\ spawning' /\ ~spawning /\ ~conn.joinable
           /\ past'.log = <<>> /\ ~conn'.joinable
           /\ doing("worker") = {} /\ doing("worker")' = {}
           /\ todo'[Opener] = <<"spawn">>
           /\ \A u \in Threads : u # Opener => todo'[u] = todo[u]
<1>1. /\ Control' /\ spawning' /\ ~spawning
      /\ \A u \in Threads : u # Opener => doing(u)' = doing(u) /\ todo'[u] = todo[u]
      /\ todo'[Opener] = <<"spawn">>
  BY Opening
<1>2. /\ conn'.state = "Connecting" /\ ~conn'.abort /\ ~conn'.joinable /\ ~conn'.open_notified
      /\ ~conn'.error_reported /\ ~conn'.close_called /\ ~conn'.local_close_requested
      /\ past'.log = <<>> /\ ~conn.joinable
  BY DEF Open, Records
<1>3. doing("worker") = {} /\ doing("worker")' = {}
  <2>1. "worker" \in Threads /\ "worker" # Opener
    BY CurlAssumption DEF Threads
  <2>. QED
    BY <1>1, <1>2, <2>1 DEF FlowOn, Life
<1>4. endings' = {} /\ said' = {}
  BY <1>2 DEF said, endings
<1>5. ~Up /\ Up'
  BY <1>1, <1>3, UpIs, UpNext DEF Upness
<1>6. Life'
  BY <1>2, <1>3 DEF Life
<1>7. Log'
  BY <1>2, <1>4 DEF Log
<1>8. Quiet'
  BY <1>2, <1>3 DEF Quiet, mayRun
<1>9. Requested'
  BY <1>2, <1>3 DEF Requested, mayRun
<1>. QED
  BY <1>1, <1>2, <1>3, <1>5, <1>6, <1>7, <1>8, <1>9 DEF FlowOn

-------------------------------------------------------------------------------
(* Who closes while another opens.                                           *)

\* Threads that do not move stay as they are.
LEMMA Others ==
    ASSUME Milder, NEW u \in Threads, CloserOf(u), todo'[u] = todo[u]
    PROVE  CloserOf(u)'
BY DEF Milder, CloserOf, doing

\* A thread whose next step is neither the end of a close nor between its request and
\* its join.
Idle(t) ==
    todo[t] # <<>> =>
        /\ todo[t][1] # "settle"
        /\ "join" \in doing(t) => todo[t][1] \notin {"storeClosing", "storeAbort", "join"}

LEMMA IdleCloser ==
    ASSUME NEW t, Idle(t)'
    PROVE  CloserOf(t)'
BY DEF Idle, CloserOf

LEMMA StaysIdle ==
    ASSUME Control, Control', NEW t \in Threads, NEW s, At(t, s), NEW steps \in Becomes(s),
           Then(t, steps), s # "join"
    PROVE  /\ todo'[t] # <<>> => todo'[t][1] # "settle"
           /\ s \notin {"requestClose", "storeClosing", "storeAbort"} => Idle(t)'
<1>1. /\ Runs(t, steps) /\ 1 \in DOMAIN todo[t] /\ todo[t][1] = s /\ s \in StepsOf(t)
  BY Advance
<1>2. PICK T \in SUBSET After(s) :
          doing(t) = {s} \cup T /\ doing(t)' = {steps[i] : i \in DOMAIN steps} \cup T
  BY Advance
<1>3. \A i \in DOMAIN steps : steps[i] # "settle" /\ steps[i] # "join"
  BY DEF Becomes, finish, asyncClose
<1>4. todo'[t] # <<>> => 1 \in DOMAIN todo'[t]
  <2>1. DOMAIN todo'[t] = 1..Len(todo'[t]) /\ (todo'[t] # <<>> => Len(todo'[t]) # 0)
        /\ Len(todo'[t]) \in Nat
    BY LenProperties, EmptySeq DEF Control, Todos
  <2>. QED
    BY <2>1
<1>5. ASSUME todo'[t] # <<>>, 1 \notin DOMAIN steps
      PROVE  2 \in DOMAIN todo[t] /\ todo'[t][1] = todo[t][2]
  <2>1. /\ 1 > Len(steps) /\ 1 - Len(steps) + 1 \in DOMAIN todo[t] /\ Len(steps) \in Nat
        /\ todo'[t][1] = todo[t][1 - Len(steps) + 1]
    BY <1>1, <1>4, <1>5 DEF Runs
  <2>2. Len(steps) = 0 /\ 1 - 0 + 1 = 2
    BY <2>1
  <2>. QED
    BY <2>1, <2>2
<1>6. todo'[t] # <<>> => todo'[t][1] # "settle"
  <2>1. SUFFICES ASSUME todo'[t] # <<>>, todo'[t][1] = "settle"
                 PROVE  FALSE
    OBVIOUS
  <2>2. 1 \notin DOMAIN steps
    BY <1>1, <1>3, <2>1 DEF Runs
  <2>3. 2 \in DOMAIN todo[t] /\ todo[t][2] = "settle"
    BY <1>5, <2>1, <2>2
  <2>4. todo[t][2 - 1] = "join"
    BY <2>3 DEF Control, Neighbours
  <2>. QED
    BY <1>1, <2>4
<1>7. ASSUME todo'[t] # <<>>, "join" \in doing(t)',
             s \notin {"requestClose", "storeClosing", "storeAbort"}
      PROVE  todo'[t][1] = "requestClose"
  <2>1. "join" \in After(s)
    BY <1>2, <1>3, <1>7
  <2>2. s = "lock"
    <3>1. s \in CurlSteps
      BY <1>1 DEF StepsOf, Own, Asked, CurlSteps
    <3>. QED
      BY <1>7, <2>1, <3>1 DEF After, CurlSteps, Rest, Flushed
  <2>3. steps = <<>>
    BY <2>2 DEF Becomes
  <2>4. todo'[t][1] = todo[t][2]
    BY <1>5, <1>7, <2>3
  <2>5. todo[t][1 + 1] = "requestClose"
    BY <1>1, <2>2 DEF Control, Neighbours
  <2>. QED
    BY <2>4, <2>5
<1>. QED
  BY <1>6, <1>7 DEF Idle

LEMMA WorkerIdle == Control => Idle("worker")
<1>. SUFFICES ASSUME Control, todo["worker"] # <<>>
              PROVE  todo["worker"][1] # "settle" /\ "join" \notin doing("worker")
  BY DEF Idle
<1>1. "worker" \in Threads
  BY DEF Threads
<1>2. \A x \in doing("worker") : x # "settle" /\ x # "join"
  <2>1. \A x \in StepsOf("worker") : x # "settle" /\ x # "join"
    BY DEF StepsOf, Own, Asked
  <2>. QED
    BY <1>1, <2>1, Indices DEF Control
<1>3. todo["worker"][1] \in doing("worker")
  BY <1>1, Indices DEF Control, doing
<1>. QED
  BY <1>2, <1>3

LEMMA WorkerIdleNext == Control' => Idle("worker")'
BY WorkerIdle, PTL

\* Who joins finds a worker that cannot come to report more than an end.
LEMMA JoinCloser ==
    ASSUME Control, Records, FlowOn, NEW t \in Threads, CloserOf(t), Join(t)
    PROVE  CloserOf(t)'
<1>1. /\ Goes /\ past'.log = past.log /\ conn' = [conn EXCEPT !.joinable = FALSE]
      /\ doing("worker") = {} /\ doing("worker")' = {}
      /\ (spawning' <=> spawning) /\ (MayPerform' <=> MayPerform)
  BY JoinGoes
<1>2. /\ conn'.abort = conn.abort /\ conn'.close_called = conn.close_called
      /\ conn'.open_notified = conn.open_notified /\ said' = said
  BY <1>1 DEF Records, Conns, said
<1>3. /\ At(t, "join") /\ Then(t, <<>>) /\ <<>> \in Becomes("join")
  BY DEF Join, Becomes
<1>4. /\ todo[t] # <<>> /\ todo[t][1] = "join" /\ "join" \in doing(t)
      /\ "storeAbort" \notin doing(t) /\ "join" \notin doing(t)'
  <2>a. PICK s \in {"join"} : At(t, s) /\ \E steps \in Becomes(s) : Then(t, steps)
    BY <1>3
  <2>0. PICK steps \in Becomes(s) : Then(t, steps)
    BY <2>a
  <2>1. PICK T \in SUBSET After(s) :
            doing(t) = {s} \cup T /\ doing(t)' = {steps[i] : i \in DOMAIN steps} \cup T
    BY <2>0, <2>a, Advance
  <2>2. After("join") = {"settle", "unlock"}
    BY DEF After
  <2>3. 1 \in DOMAIN todo[t] /\ todo[t][1] = "join" /\ todo[t] # <<>>
    BY <1>3, Advance DEF At
  <2>4. {steps[i] : i \in DOMAIN steps} = {}
    BY DEF Becomes
  <2>. QED
    BY <2>1, <2>2, <2>3, <2>4
<1>5. spawning => ("request" \in said \/ conn.close_called) /\ conn.abort
  BY <1>4 DEF CloserOf
<1>6. Up' => spawning
  BY <1>1, UpNext DEF Goes, Upness
<1>7. ~conn.abort \/ ~MayPerform
  BY <1>1 DEF MayPerform, mayRun
<1>8. spawning => ~conn.open_notified
  BY DEF FlowOn, Life
<1>. QED
  BY <1>1, <1>2, <1>4, <1>5, <1>6, <1>7, <1>8 DEF CloserOf

\* Who asks for a close, or goes on asking, comes to tell the worker.
LEMMA RequestCloser ==
    ASSUME Control, Records, FlowOn, NEW t \in Threads, CloserOf(t), RequestClose(t)
    PROVE  CloserOf(t)'
<1>1. /\ Goes /\ (conn.state # "Closed" /\ Up => "request" \in said')
  BY RequestGoes
<1>2. /\ At(t, "requestClose")
      /\ conn' = [conn EXCEPT !.local_close_requested = TRUE]
      /\ \E steps \in Becomes("requestClose") :
             /\ Then(t, steps)
             /\ conn.state # "Closed" => "storeAbort" \in {steps[i] : i \in DOMAIN steps}
  <2>1. \E steps \in {<<>>, <<"storeAbort">>, <<"storeClosing", "storeAbort">>} :
             Then(t, steps) /\ (conn.state # "Closed" => steps # <<>>)
    BY DEF RequestClose
  <2>2. PICK steps \in {<<>>, <<"storeAbort">>, <<"storeClosing", "storeAbort">>} :
             Then(t, steps) /\ (conn.state # "Closed" => steps # <<>>)
    BY <2>1
  <2>3. steps \in Becomes("requestClose")
    BY DEF Becomes
  <2>4. steps # <<>> => "storeAbort" \in {steps[i] : i \in DOMAIN steps}
    BY Lists
  <2>. QED
    BY <2>2, <2>3, <2>4 DEF RequestClose
<1>3. PICK steps \in Becomes("requestClose") :
          /\ Then(t, steps)
          /\ conn.state # "Closed" => "storeAbort" \in {steps[i] : i \in DOMAIN steps}
  BY <1>2
<1>4. /\ todo'[t] # <<>> => todo'[t][1] # "settle"
      /\ conn.state # "Closed" => "storeAbort" \in doing(t)'
      /\ spawning' <=> spawning
  BY <1>1, <1>2, <1>3, StaysIdle, Advance DEF Goes
<1>5. conn'.abort = conn.abort /\ conn'.close_called = conn.close_called
  BY <1>2 DEF Records, Conns
<1>6. spawning => Up /\ Concluding
  BY UpIs DEF Upness, Concluding
<1>7. conn.state = "Closed" /\ spawning => conn.close_called /\ conn.abort
  BY <1>6 DEF FlowOn, Requested
<1>. QED
  BY <1>1, <1>4, <1>5, <1>6, <1>7 DEF CloserOf

LEMMA StoreCloser ==
    ASSUME Control, Records, FlowOn, NEW t \in Threads, CloserOf(t),
           StoreClosing(t) \/ StoreAbort(t)
    PROVE  CloserOf(t)'
<1>1. Goes /\ past'.log = past.log
  BY StoreGoes
<1>2. PICK s \in {"storeClosing", "storeAbort"} :
          /\ At(t, s) /\ Then(t, <<>>)
          /\ s = "storeClosing" => conn' = [conn EXCEPT !.state = "Closing"]
          /\ s = "storeAbort" => conn' = [conn EXCEPT !.abort = TRUE]
  BY DEF StoreClosing, StoreAbort
<1>3. <<>> \in Becomes(s)
  BY DEF Becomes
<1>4. /\ conn'.close_called = conn.close_called /\ (s = "storeAbort" => conn'.abort)
      /\ s = "storeClosing" => conn'.abort = conn.abort
  BY <1>2 DEF Records, Conns
<1>5. said' = said
  BY <1>1 DEF said
<1>6. /\ todo'[t] # <<>> => todo'[t][1] # "settle"
      /\ spawning' <=> spawning
      /\ todo[t] # <<>> /\ todo[t][1] = s
  BY <1>1, <1>2, <1>3, StaysIdle, Advance DEF Goes, At
<1>7. PICK T \in SUBSET After(s) :
          doing(t) = {s} \cup T /\ doing(t)' = {<<>>[i] : i \in DOMAIN <<>>} \cup T
  BY <1>2, <1>3, Advance
<1>8. /\ "join" \in doing(t)' => "join" \in doing(t)
      /\ s = "storeClosing" /\ "storeAbort" \in doing(t) => "storeAbort" \in doing(t)'
  BY <1>7, Lists
<1>9. spawning' /\ "join" \in doing(t)' =>
          /\ "request" \in said' \/ conn'.close_called
          /\ conn'.abort \/ "storeAbort" \in doing(t)'
  BY <1>4, <1>5, <1>6, <1>8 DEF CloserOf
<1>. QED
  BY <1>6, <1>9 DEF CloserOf

LEMMA StepGoes ==
    ASSUME Control, Records, FlowOn, Closers, NEW t \in Threads, Step(t)
    PROVE  Goes /\ Closers'
<1>1. CloserOf(t)
  BY DEF Closers
<1>2. Goes
  BY <1>1, SilentGoes, RequestGoes, StoreGoes, JoinGoes, SettleGoes DEF Step
<1>3. CloserOf(t)' /\ \A u \in Threads : u # t => todo'[u] = todo[u]
  <2>1. CASE Push(t) \/ Lock(t) \/ Unlock(t) \/ Settle(t) \/ Callback(t)
    <3>1. \E s \in {"push", "lock", "unlock", "settle", "callback"} :
              At(t, s) /\ \E steps \in Becomes(s) : Then(t, steps)
      <4>1. CASE Push(t)
        BY <4>1 DEF Push, Becomes
      <4>2. CASE Lock(t) \/ Unlock(t)
        BY <4>2 DEF Lock, Unlock, Becomes
      <4>3. CASE Settle(t)
        BY <4>3 DEF Settle, Becomes
      <4>4. CASE Callback(t)
        BY <4>4 DEF Callback, Becomes
      <4>. QED
        BY <2>1, <4>1, <4>2, <4>3, <4>4
    <3>2. PICK s \in {"push", "lock", "unlock", "settle", "callback"} :
              At(t, s) /\ \E steps \in Becomes(s) : Then(t, steps)
      BY <3>1
    <3>3. PICK steps \in Becomes(s) : Then(t, steps)
      BY <3>2
    <3>4. Idle(t)'
      BY <1>2, <3>2, <3>3, StaysIdle DEF Goes
    <3>5. \A u \in Threads : u # t => todo'[u] = todo[u]
      BY <3>2, <3>3, Advance
    <3>. QED
      BY <3>4, <3>5, IdleCloser
  <2>2. CASE Join(t) \/ StoreClosing(t) \/ StoreAbort(t) \/ RequestClose(t)
    <3>1. CloserOf(t)'
      BY <1>1, <2>2, JoinCloser, StoreCloser, RequestCloser
    <3>2. \E s \in {"join", "storeClosing", "storeAbort", "requestClose"} :
              At(t, s) /\ \E steps \in Becomes(s) : Then(t, steps)
      BY <2>2 DEF Join, StoreClosing, StoreAbort, RequestClose, Becomes
    <3>3. PICK s \in {"join", "storeClosing", "storeAbort", "requestClose"} :
              At(t, s) /\ \E steps \in Becomes(s) : Then(t, steps)
      BY <3>2
    <3>4. PICK steps \in Becomes(s) : Then(t, steps)
      BY <3>3
    <3>5. \A u \in Threads : u # t => todo'[u] = todo[u]
      BY <3>3, <3>4, Advance
    <3>. QED
      BY <3>1, <3>5
  <2>. QED
    BY <2>1, <2>2 DEF Step
<1>4. \A u \in Threads : u # t => CloserOf(u)'
  BY <1>2, <1>3, Others DEF Closers, Goes
<1>. QED
  BY <1>2, <1>3, <1>4 DEF Closers

LEMMA WorkerGoes ==
    ASSUME Control, Records, FlowOn, Closers, InHand, WorkerStep
    PROVE  Goes /\ Closers' /\ Up
<1>1. Goes /\ Up
  BY DrivingGoes, SettingGoes, UpgradedGoes, ReportingGoes
     DEF WorkerStep, Driving, Setting, Reporting
<1>2. \A u \in Threads : u # "worker" => todo'[u] = todo[u]
  <2>1. \E steps : Then("worker", steps)
    BY DEF WorkerStep, Start, Loop, PerformReturns, Upgraded, DataArrives, CloseArrives, Flush,
           SendDirect, Requeue, Poll, Cleanup, Conclude, Exit, FireError, FireClose
  <2>. QED
    BY <2>1 DEF Then, Control, Todos
<1>3. CloserOf("worker")'
  BY <1>1, WorkerIdleNext, IdleCloser DEF Goes
<1>4. \A u \in Threads : u # "worker" => CloserOf(u)'
  BY <1>1, <1>2, Others DEF Closers, Goes
<1>. QED
  BY <1>1, <1>3, <1>4 DEF Closers

\* Nobody holds the lock when the socket is opened, so nobody is closing it.
LEMMA OpenClosers ==
    ASSUME Control, Records, FlowOn, Open
    PROVE  Closers'
<1>1. /\ Control' /\ todo'[Opener] = <<"spawn">> /\ lifecycle = "none"
      /\ \A u \in Threads : u # Opener => todo'[u] = todo[u]
  BY OpenGoes DEF Open
<1>2. ASSUME NEW u \in Threads
      PROVE  Idle(u)'
  <2>1. CASE u = Opener
    BY <1>1, <2>1 DEF Idle
  <2>2. CASE u # Opener /\ todo[u] # <<>>
    <3>1. 1 \in DOMAIN todo[u] /\ \A j \in DOMAIN todo[u] : ~(j < 1)
      <4>1. DOMAIN todo[u] = 1..Len(todo[u]) /\ 1 \in DOMAIN todo[u]
        BY <2>2, Indices DEF Control
      <4>2. \A j \in 1..Len(todo[u]) : ~(j < 1)
        OBVIOUS
      <4>. QED
        BY <4>1, <4>2
    <3>2. u # "none"
      BY CurlAssumption DEF Threads
    <3>3. todo[u][1] \notin Guarded
      BY <1>1, <3>1, <3>2 DEF Control, Locked
    <3>4. ASSUME todo[u][1] \in {"storeClosing", "storeAbort", "join"}, "join" \in doing(u)
          PROVE  FALSE
      <4>1. PICK i \in DOMAIN todo[u] : todo[u][i] = "join"
        BY <3>4 DEF doing
      <4>2. \A j \in DOMAIN todo[u] : todo[u][j] # "lock"
        <5>1. \A j \in DOMAIN todo[u] : j # 1 => 1 < j
          BY Indices DEF Control
        <5>2. \A x : "lock" \notin After(x)
          BY DEF After, Rest, Flushed
        <5>. QED
          BY <3>1, <3>4, <5>1, <5>2 DEF Control, Ordered
      <4>3. lifecycle = u
        BY <4>1, <4>2 DEF Control, Locked, Guarded
      <4>. QED
        BY <1>1, <3>2, <4>3
    <3>5. todo'[u] = todo[u] /\ doing(u)' = doing(u)
      BY <1>1, <2>2 DEF doing
    <3>. QED
      BY <3>3, <3>4, <3>5 DEF Idle, Guarded
  <2>3. CASE u # Opener /\ todo[u] = <<>>
    BY <1>1, <2>3 DEF Idle
  <2>. QED
    BY <2>1, <2>2, <2>3
<1>. QED
  BY <1>2, IdleCloser DEF Closers

LEMMA FlowNext ==
    ASSUME Control, Records, Flow, InHand, [Next]_vars
    PROVE  Control' /\ Flow'
<1>1. FlowOn /\ Closers
  BY DEF Flow, FlowOn
<1>. SUFFICES Control' /\ FlowOn' /\ Closers'
  BY DEF Flow, FlowOn
<1>2. CASE Open
  BY <1>1, <1>2, OpenGoes, OpenClosers
<1>3. CASE Spawn
  <2>1. /\ Goes /\ todo'[Opener] = <<>>
        /\ \A u \in Threads : u \notin {Opener, "worker"} => todo'[u] = todo[u]
    BY <1>1, <1>3, SpawnGoes
  <2>2. CloserOf(Opener)' /\ CloserOf("worker")'
    BY <2>1, WorkerIdleNext, IdleCloser DEF CloserOf, Goes
  <2>3. \A u \in Threads : u \notin {Opener, "worker"} => CloserOf(u)'
    BY <1>1, <2>1, Others DEF Closers, Goes
  <2>. QED
    BY <2>1, <2>2, <2>3 DEF Goes, Closers
<1>4. CASE WorkerStep
  BY <1>1, <1>4, WorkerGoes DEF Goes
<1>5. ASSUME NEW t \in Callers, Calling(t)
      PROVE  Control' /\ FlowOn' /\ Closers'
  <2>1. /\ Goes /\ todo'[t][1] \in {"push", "lock"} /\ t \in Threads
        /\ \A u \in Threads : u # t => todo'[u] = todo[u]
    BY <1>1, <1>5, CallingGoes DEF Threads
  <2>2. CloserOf(t)'
    BY <2>1 DEF CloserOf
  <2>3. \A u \in Threads : u # t => CloserOf(u)'
    BY <1>1, <2>1, Others DEF Closers, Goes
  <2>. QED
    BY <2>1, <2>2, <2>3 DEF Goes, Closers
<1>6. ASSUME NEW t \in Threads, Step(t)
      PROVE  Control' /\ FlowOn' /\ Closers'
  BY <1>1, <1>6, StepGoes DEF Goes
<1>7. CASE UNCHANGED vars
  <2>1. conn' = conn /\ todo' = todo /\ past' = past /\ lifecycle' = lifecycle
    BY <1>7 DEF vars
  <2>2. Control'
    BY <2>1 DEF Control, Todos, Ordered, Neighbours, Locked
  <2>3. doing("worker")' = doing("worker") /\ (spawning' <=> spawning) /\ past'.log = past.log
    BY <2>1 DEF doing, spawning
  <2>4. Apart
    BY <2>3 DEF Apart
  <2>5. FlowOn' /\ Milder
    BY <1>1, <2>1, <2>2, <2>3, <2>4, ApartSame, Unflagged
  <2>6. Closers'
    BY <1>1, <2>1, <2>5, Others DEF Closers
  <2>. QED
    BY <2>2, <2>5, <2>6
<1>. QED
  BY <1>2, <1>3, <1>4, <1>5, <1>6, <1>7 DEF Next, Calling

-------------------------------------------------------------------------------
(* Data.                                                                     *)

LEMMA StepRuns ==
    ASSUME NEW t, Step(t)
    PROVE  \E s \in Asked \cup {"join", "settle"} :
               At(t, s) /\ \E steps \in Becomes(s) : Then(t, steps)
<1>1. CASE Push(t) \/ Lock(t) \/ Unlock(t)
  BY <1>1 DEF Push, Lock, Unlock, Becomes, Asked
<1>2. CASE RequestClose(t)
  BY <1>2 DEF RequestClose, Becomes, Asked
<1>3. CASE StoreClosing(t) \/ StoreAbort(t) \/ Join(t)
  BY <1>3 DEF StoreClosing, StoreAbort, Join, Becomes, Asked
<1>4. CASE Settle(t)
  BY <1>4 DEF Settle, Becomes, Asked
<1>5. CASE Callback(t)
  BY <1>5 DEF Callback, Becomes, Asked
<1>. QED
  BY <1>1, <1>2, <1>3, <1>4, <1>5 DEF Step

\* Items stay items, records records.
LEMMA PastReads ==
    ASSUME Records
    PROVE  /\ past.log \in Seq(Events) /\ past.wire \in Seq(Nat \X Nat)
           /\ past.pushed \in Seq(Items) /\ past.received \in Seq(Seq(Nat \X Nat))
           /\ Len(past.pushed) \in Nat /\ past.sends + 1 \in Nat /\ past.closes + 1 \in Nat
           /\ past.opens + 1 \in Nat
<1>1. past.pushed \in Seq(Items) /\ past.sends \in Nat /\ past.closes \in Nat
      /\ past.opens \in Nat
  BY DEF Records, Pasts
<1>2. Len(past.pushed) \in Nat
  BY <1>1, LenProperties
<1>. QED
  BY <1>1, <1>2, SMTT(30) DEF Records, Pasts

LEMMA PastWrites ==
    ASSUME Records
    PROVE  /\ \A l \in Seq(Events) :
                  /\ [past EXCEPT !.log = l] \in Pasts
                  /\ [past EXCEPT !.pushed = <<>>, !.wire = <<>>, !.log = l] \in Pasts
           /\ \A w \in Seq(Nat \X Nat) : [past EXCEPT !.wire = w] \in Pasts
           /\ \A q \in Seq(Items) : [past EXCEPT !.pushed = q] \in Pasts
           /\ \A r \in Seq(Seq(Nat \X Nat)) : [past EXCEPT !.received = r] \in Pasts
           /\ \A n \in Nat : /\ [past EXCEPT !.closes = n] \in Pasts
                             /\ [past EXCEPT !.sends = n] \in Pasts
           /\ \A q \in Seq(Items), n \in Nat :
                  [past EXCEPT !.log = <<>>, !.wire = <<>>, !.pushed = q, !.received = <<>>,
                               !.opens = n] \in Pasts
<1> DEFINE L == Seq(Events)
           W == Seq(Nat \X Nat)
           Q == Seq(Items)
           R == Seq(Seq(Nat \X Nat))
<1>1. <<>> \in L /\ <<>> \in W /\ <<>> \in Q /\ <<>> \in R
  OBVIOUS
<1>2. Pasts = [log : L, wire : W, pushed : Q, received : R, opens : Nat, closes : Nat,
               sends : Nat]
  BY DEF Pasts
<1>3. past \in Pasts
  BY DEF Records
<1>. SUFFICES
         /\ \A l \in L :
                /\ [past EXCEPT !.log = l] \in Pasts
                /\ [past EXCEPT !.pushed = <<>>, !.wire = <<>>, !.log = l] \in Pasts
         /\ \A w \in W : [past EXCEPT !.wire = w] \in Pasts
         /\ \A q \in Q : [past EXCEPT !.pushed = q] \in Pasts
         /\ \A r \in R : [past EXCEPT !.received = r] \in Pasts
         /\ \A n \in Nat : /\ [past EXCEPT !.closes = n] \in Pasts
                           /\ [past EXCEPT !.sends = n] \in Pasts
         /\ \A q \in Q, n \in Nat :
                [past EXCEPT !.log = <<>>, !.wire = <<>>, !.pushed = q, !.received = <<>>,
                             !.opens = n] \in Pasts
  OBVIOUS
<1>. HIDE DEF L, W, Q, R
<1>. QED
  BY <1>1, <1>2, <1>3

LEMMA StepRecords ==
    ASSUME Records, NEW t \in Threads, Step(t)
    PROVE  Records'
<1>1. CASE Push(t)
  <2>1. PICK item \in Items : Queued(item)
    <3>1. [msg |-> Len(past.pushed) + 1, left |-> Parts] \in Items
      BY PastReads, CurlAssumption DEF Items
    <3>. QED
      BY <1>1, <3>1 DEF Push
  <2>2. Append(past.pushed, item) \in Seq(Items) /\ Append(sendq, item) \in Seq(Items)
    BY PastReads, AppendProperties DEF Records
  <2>3. past' \in Pasts
    <3>1. past' = [past EXCEPT !.pushed = Append(past.pushed, item)]
      BY <2>1 DEF Queued
    <3>. QED
      BY <2>2, <3>1, PastWrites
  <2>. QED
    BY <1>1, <2>1, <2>2, <2>3 DEF Push, OnlyWire, Records, Queued
<1>2. CASE Lock(t) \/ Unlock(t)
  BY <1>2 DEF Lock, Unlock, OnlyLock, Records
<1>3. CASE RequestClose(t)
  <2>1. conn' \in Conns
    BY <1>3 DEF RequestClose, Conns, Records
  <2>2. past' = past \/ past' = [past EXCEPT !.log = Append(past.log, "request")]
    BY <1>3 DEF RequestClose, Logged
  <2>3. past' \in Pasts
    <3>1. Append(past.log, "request") \in Seq(Events)
      <4>1. "request" \in Events
        BY DEF Events
      <4>. QED
        BY <4>1, PastReads, AppendProperties
    <3>2. CASE past' = past
      BY <3>2 DEF Records
    <3>3. CASE past' = [past EXCEPT !.log = Append(past.log, "request")]
      BY <3>1, <3>3, PastWrites
    <3>. QED
      BY <2>2, <3>2, <3>3
  <2>. QED
    BY <1>3, <2>1, <2>3 DEF RequestClose, Records
<1>4. CASE StoreClosing(t)
  <2>1. CloseFrame \in Items
    BY CurlAssumption DEF Items, CloseFrame
  <2>2. conn' \in Conns
    BY <1>4 DEF StoreClosing, Conns, Records
  <2>3. /\ Append(past.pushed, CloseFrame) \in Seq(Items)
        /\ Append(sendq, CloseFrame) \in Seq(Items)
    BY <2>1, PastReads, AppendProperties DEF Records
  <2>4. past' \in Pasts /\ sendq' \in Seq(Items)
    <3>1. CASE Queued(CloseFrame)
      <4>1. past' = [past EXCEPT !.pushed = Append(past.pushed, CloseFrame)]
        BY <3>1 DEF Queued
      <4>2. past' \in Pasts
        BY <2>3, <4>1, PastWrites
      <4>. QED
        BY <2>3, <3>1, <4>2 DEF Queued
    <3>2. CASE UNCHANGED <<sendq, past>>
      BY <3>2 DEF Records
    <3>. QED
      BY <1>4, <3>1, <3>2 DEF StoreClosing
  <2>. QED
    BY <1>4, <2>2, <2>4 DEF StoreClosing, Records
<1>5. CASE StoreAbort(t) \/ Join(t)
  BY <1>5, ZenonT(60) DEF StoreAbort, Join, OnlyConn, Conns, Records
<1>6. CASE Settle(t)
  <2>1. conn' \in Conns /\ sendq' \in Seq(Items)
    <3>1. conn \in Conns /\ sendq' = <<>>
          /\ conn' = [conn EXCEPT !.running = FALSE, !.close_called = TRUE, !.state = "Closed"]
      BY <1>6 DEF Settle, Records
    <3>2. conn' \in Conns
      BY <3>1 DEF Conns
    <3>. QED
      BY <3>1, <3>2
  <2>2. Append(past.log, "local") \in Seq(Events) /\ past.log \in Seq(Events)
    <3>1. "local" \in Events
      BY DEF Events, Ends
    <3>. QED
      BY <3>1, PastReads, AppendProperties
  <2>3. \E l \in Seq(Events) : past' = [past EXCEPT !.pushed = <<>>, !.wire = <<>>, !.log = l]
    BY <1>6, <2>2 DEF Settle
  <2>4. past' \in Pasts
    BY <2>3, PastWrites
  <2>. QED
    BY <1>6, <2>1, <2>4 DEF Settle, Records
<1>7. CASE Callback(t)
  <2>1. \/ past' = past
        \/ \E n \in Nat : past' = [past EXCEPT !.closes = n] \/ past' = [past EXCEPT !.sends = n]
    BY <1>7, PastReads DEF Callback
  <2>2. past' \in Pasts
    <3>1. CASE past' = past
      BY <3>1 DEF Records
    <3>2. CASE \E n \in Nat :
                   past' = [past EXCEPT !.closes = n] \/ past' = [past EXCEPT !.sends = n]
      BY <3>2, PastWrites
    <3>. QED
      BY <2>1, <3>1, <3>2
  <2>. QED
    BY <1>7, <2>2 DEF Callback, Records
<1>. QED
  BY <1>1, <1>2, <1>3, <1>4, <1>5, <1>6, <1>7 DEF Step

\* The frame that comes in grows by one piece.
LEMMA Grows ==
    ASSUME NEW f \in Nat, NEW o \in Nat, NEW base,
           base = [i \in 1..o |-> <<f, i - 1>>]
    PROVE  /\ Append(base, <<f, o>>) = [i \in 1..(o + 1) |-> <<f, i - 1>>]
           /\ base \in Seq(Nat \X Nat) /\ Append(base, <<f, o>>) \in Seq(Nat \X Nat)
<1> DEFINE P == Nat \X Nat
           new == [i \in 1..(o + 1) |-> <<f, i - 1>>]
<1>1. \A i \in 1..(o + 1) : <<f, i - 1>> \in P
  OBVIOUS
<1>2. base \in Seq(P) /\ Len(base) = o /\ new \in Seq(P) /\ Len(new) = o + 1 /\ <<f, o>> \in P
      /\ \A i \in 1..(o + 1) : new[i] = <<f, i - 1>>
  <2>. HIDE DEF P
  <2>1. \A i \in 1..o : i \in 1..(o + 1)
    OBVIOUS
  <2>2. o + 1 \in 1..(o + 1) /\ (o + 1) - 1 = o
    OBVIOUS
  <2>3. <<f, o>> \in P
    BY <1>1, <2>2
  <2>. QED
    BY <1>1, <2>1, <2>3
<1>. HIDE DEF P, new
<1>3. /\ Append(base, <<f, o>>) \in Seq(P) /\ Len(Append(base, <<f, o>>)) = o + 1
      /\ \A i \in 1..o : Append(base, <<f, o>>)[i] = base[i]
      /\ Append(base, <<f, o>>)[o + 1] = <<f, o>>
  BY <1>2, AppendProperties
<1>4. \A i \in 1..(o + 1) : Append(base, <<f, o>>)[i] = new[i]
  <2>. TAKE i \in 1..(o + 1)
  <2>1. CASE i = o + 1
    BY <1>2, <1>3, <2>1
  <2>2. CASE i # o + 1
    <3>1. i \in 1..o
      BY <2>2
    <3>. QED
      BY <1>2, <1>3, <3>1
  <2>. QED
    BY <2>1, <2>2
<1>5. Append(base, <<f, o>>) = new
  BY <1>2, <1>3, <1>4, SeqEqual
<1>. QED
  BY <1>2, <1>3, <1>5 DEF P, new

Frames == Delivered /\ DeliveredWhole

LEMMA ArrivesFrames ==
    ASSUME Records, Frames, DataArrives
    PROVE  Records' /\ Frames'
<1> DEFINE f == peer.frame
           o == peer.offset
           base == IF o = 0 \/ o # rx.expected THEN <<>> ELSE rx.buf
           buf == Append(base, <<f, o>>)
           expected == IF o = 0 \/ o # rx.expected THEN 1 ELSE rx.expected + 1
           last == o + 1 = Parts
<1>1. /\ f \in Nat /\ o \in Nat /\ o < Parts /\ Parts \in Nat \ {0}
      /\ peer.close \in 0..Parts /\ rx.expected \in 0..Parts
      /\ peer \in [frame : Nat, offset : 0..Parts, close : 0..Parts]
      /\ rx \in [buf : Seq(Nat \X Nat), expected : 0..Parts]
  BY CurlAssumption DEF Records, Frames, Delivered
<1>2. /\ rx' = [rx EXCEPT !.buf = IF last THEN <<>> ELSE buf,
                          !.expected = IF last THEN 0 ELSE expected]
      /\ peer' = [peer EXCEPT !.frame = IF last THEN @ + 1 ELSE @,
                              !.offset = IF last THEN 0 ELSE @ + 1]
      /\ past' = [past EXCEPT !.received = IF last THEN Append(@, buf) ELSE @]
      /\ UNCHANGED <<conn, rc, lifecycle, sendq, hand>>
  BY DEF DataArrives
<1>3. base = [i \in 1..o |-> <<f, i - 1>>] /\ expected = o + 1
  <2>1. CASE o = 0
    <3>1. <<>> = [i \in 1..0 |-> <<f, i - 1>>]
      OBVIOUS
    <3>. QED
      BY <2>1, <3>1
  <2>2. CASE o # 0
    <3>1. rx.expected = o /\ rx.buf = [i \in 1..o |-> <<f, i - 1>>]
      BY <2>2 DEF Frames, Delivered
    <3>. QED
      BY <2>2, <3>1
  <2>. QED
    BY <2>1, <2>2
<1>. HIDE DEF base, expected
<1>4. buf = [i \in 1..(o + 1) |-> <<f, i - 1>>] /\ buf \in Seq(Nat \X Nat)
  <2>1. f \in Nat /\ o \in Nat
    BY <1>1
  <2>. HIDE DEF f, o
  <2>. QED
    BY <1>3, <2>1, Grows
<1>. HIDE DEF buf
<1>5. /\ rx'.buf = IF last THEN <<>> ELSE buf
      /\ rx'.expected = IF last THEN 0 ELSE o + 1
      /\ peer'.frame = IF last THEN f + 1 ELSE f
      /\ peer'.offset = IF last THEN 0 ELSE o + 1
      /\ peer'.close = peer.close
  BY <1>1, <1>2, <1>3
<1>6. rx' \in [buf : Seq(Nat \X Nat), expected : 0..Parts]
  <2> DEFINE P == Seq(Nat \X Nat)
  <2>1. <<>> \in P /\ buf \in P
    BY <1>4
  <2>2. (IF last THEN 0 ELSE expected) \in 0..Parts
    BY <1>1, <1>3
  <2>3. (IF last THEN <<>> ELSE buf) \in P
    BY <2>1
  <2>4. rx \in [buf : P, expected : 0..Parts]
    BY <1>1
  <2>. HIDE DEF P, last
  <2>5. rx' \in [buf : P, expected : 0..Parts]
    BY <1>2, <2>2, <2>3, <2>4
  <2>. QED
    BY <2>5 DEF P
<1>7. peer' \in [frame : Nat, offset : 0..Parts, close : 0..Parts]
  <2>1. (IF last THEN 0 ELSE o + 1) \in 0..Parts /\ (IF last THEN f + 1 ELSE f) \in Nat
    BY <1>1
  <2>. QED
    BY <1>1, <1>2, <2>1
<1>8. /\ past.received \in Seq(Seq(Nat \X Nat))
      /\ past'.received = IF last THEN Append(past.received, buf) ELSE past.received
      /\ past' \in Pasts
  <2>1. past.received \in Seq(Seq(Nat \X Nat))
    BY PastReads
  <2>2. (IF last THEN Append(past.received, buf) ELSE past.received) \in Seq(Seq(Nat \X Nat))
    BY <1>4, <2>1, AppendProperties
  <2>3. past' = [past EXCEPT !.received =
                     IF last THEN Append(past.received, buf) ELSE past.received]
    BY <1>2
  <2>4. past' \in Pasts
    BY <2>2, <2>3, PastWrites
  <2>5. past'.received = IF last THEN Append(past.received, buf) ELSE past.received
    BY <2>3 DEF Records, Pasts
  <2>. QED
    BY <2>1, <2>4, <2>5
<1>9. Records'
  BY <1>2, <1>6, <1>7, <1>8 DEF Records
<1>10. Len(past.received) + 1 = f /\ Len(past.received) \in Nat
  BY <1>8, LenProperties DEF Frames, Delivered
<1>11. CASE last
  <2>1. /\ Len(past'.received) = Len(past.received) + 1
        /\ \A n \in 1..Len(past.received) : past'.received[n] = past.received[n]
        /\ past'.received[Len(past.received) + 1] = buf
    <3>1. past'.received = Append(past.received, buf) /\ buf \in Seq(Nat \X Nat)
      BY <1>4, <1>8, <1>11
    <3>. QED
      BY <1>8, <3>1, AppendProperties
  <2>2. Delivered'
    BY <1>1, <1>5, <1>10, <1>11, <2>1 DEF Delivered
  <2>3. buf = [i \in 1..Parts |-> <<f, i - 1>>]
    BY <1>4, <1>11
  <2>4. \A n \in 1..(Len(past.received) + 1) :
            past'.received[n] = [i \in 1..Parts |-> <<n, i - 1>>]
    <3>. TAKE n \in 1..(Len(past.received) + 1)
    <3>1. CASE n = Len(past.received) + 1
      BY <1>10, <2>1, <2>3, <3>1
    <3>2. CASE n # Len(past.received) + 1
      <4>1. n \in 1..Len(past.received)
        BY <1>10, <3>2
      <4>. QED
        BY <2>1, <4>1 DEF Frames, DeliveredWhole
    <3>. QED
      BY <3>1, <3>2
  <2>5. DeliveredWhole'
    BY <2>1, <2>4 DEF DeliveredWhole
  <2>. QED
    BY <1>9, <2>2, <2>5 DEF Frames
<1>12. CASE ~last
  <2>1. past'.received = past.received
    BY <1>8, <1>12
  <2>2. peer'.frame = f /\ peer'.offset = o + 1 /\ rx'.expected = o + 1 /\ rx'.buf = buf
        /\ o + 1 < Parts
    BY <1>1, <1>5, <1>12
  <2>3. Delivered'
    BY <1>1, <1>4, <1>10, <2>1, <2>2 DEF Delivered
  <2>4. DeliveredWhole'
    BY <2>1 DEF DeliveredWhole, Frames
  <2>. QED
    BY <1>9, <2>3, <2>4 DEF Frames
<1>. QED
  BY <1>11, <1>12

\* Other steps of the worker do not touch the frames.
LEMMA WorkerRecords ==
    ASSUME Records, Frames, InHand, Control, WorkerStep
    PROVE  Records' /\ Frames'
<1>1. CASE DataArrives
  BY <1>1, ArrivesFrames
<1>2. CASE Start \/ Cleanup \/ Exit
  <2>1. conn' \in Conns
    BY <1>2, ZenonT(60) DEF Start, Cleanup, Exit, Conns, Records
  <2>2. UNCHANGED <<limit, rc, lifecycle, sendq, hand, rx, peer, past>>
    BY <1>2 DEF Start, Cleanup, Exit, OnlyConn
  <2>. QED
    BY <2>1, <2>2 DEF Records, Frames, Delivered, DeliveredWhole
<1>3. CASE Loop \/ Poll \/ Conclude
  BY <1>3 DEF Loop, Poll, Conclude, OnlyTodo, Records, Frames, Delivered, DeliveredWhole
<1>4. CASE PerformReturns
  <2>1. rc' \in {"none", "ok", "failed"}
    BY <1>4 DEF PerformReturns, Records
  <2>2. UNCHANGED <<limit, conn, lifecycle, sendq, hand, rx, peer, past>>
    BY <1>4 DEF PerformReturns
  <2>. QED
    BY <2>1, <2>2 DEF Records, Frames, Delivered, DeliveredWhole
<1>5. CASE CloseArrives
  <2>1. /\ peer' = [peer EXCEPT !.close = peer.close + 1] /\ peer.close < Parts
        /\ UNCHANGED <<limit, conn, rc, lifecycle, sendq, hand, rx, past>>
    BY <1>5 DEF CloseArrives
  <2>2. peer \in [frame : Nat, offset : 0..Parts, close : 0..Parts] /\ Parts \in Nat
    BY CurlAssumption DEF Records
  <2>3. peer.close + 1 \in 0..Parts
    BY <2>1, <2>2
  <2>4. /\ peer' \in [frame : Nat, offset : 0..Parts, close : 0..Parts]
        /\ peer'.frame = peer.frame /\ peer'.offset = peer.offset
    BY <2>1, <2>2, <2>3
  <2>. QED
    BY <2>1, <2>4 DEF Records, Frames, Delivered, DeliveredWhole
<1>6. CASE Flush
  <2>1. UNCHANGED <<limit, conn, rc, lifecycle, rx, peer, past>>
    BY <1>6 DEF Flush, OnlyWire
  <2>2. hand' \in Seq(Items) /\ sendq' \in Seq(Items)
    <3>1. CASE sendq # <<>> /\ hand' = <<Head(sendq)>> /\ sendq' = Tail(sendq)
      <4>1. Head(sendq) \in Items /\ Tail(sendq) \in Seq(Items)
        BY <3>1, HeadTailProperties DEF Records
      <4>. QED
        BY <3>1, <4>1
    <3>2. CASE UNCHANGED <<hand, sendq>>
      BY <3>2 DEF Records
    <3>. QED
      BY <1>6, <3>1, <3>2 DEF Flush
  <2>. QED
    BY <2>1, <2>2 DEF Records, Frames, Delivered, DeliveredWhole
<1>7. CASE SendDirect
  <2>1. UNCHANGED <<limit, conn, rc, lifecycle, sendq, rx, peer>>
    BY <1>7 DEF SendDirect, OnlyWire
  <2>2. CASE past' = past /\ hand' = hand
    BY <2>1, <2>2 DEF Records, Frames, Delivered, DeliveredWhole
  <2>3. CASE LET item == hand[1]
             IN  /\ past' = [past EXCEPT !.wire = Append(@, <<item.msg, Parts - item.left>>)]
                 /\ hand' = IF item.left = 1 THEN <<>> ELSE << [item EXCEPT !.left = @ - 1] >>
    <3>1. hand[1] \in Items
      <4>1. "sendDirect" \in doing("worker")
        <5>1. "worker" \in Threads
          BY DEF Threads
        <5>. QED
          BY <1>7, <5>1, Indices DEF Control, At, doing, SendDirect
      <4>2. hand # <<>> /\ hand \in Seq(Items)
        BY <4>1 DEF InHand, mayRun, Records
      <4>. QED
        BY <4>2, HeadTailProperties
    <3>2. /\ hand[1].msg \in Nat /\ hand[1].left \in 1..Parts /\ Parts \in Nat
      BY <3>1, CurlAssumption DEF Items
    <3>3. <<hand[1].msg, Parts - hand[1].left>> \in Nat \X Nat
      BY <3>2
    <3>4. Append(past.wire, <<hand[1].msg, Parts - hand[1].left>>) \in Seq(Nat \X Nat)
      BY <3>3, PastReads, AppendProperties
    <3>5. past' \in Pasts
      BY <2>3, <3>4, PastWrites
    <3>6. hand' \in Seq(Items)
      <4>1. CASE hand[1].left = 1
        <5>1. hand' = <<>>
          BY <2>3, <4>1
        <5>. QED
          BY <5>1
      <4>2. CASE hand[1].left # 1
        <5>1. hand[1].left - 1 \in 1..Parts
          BY <3>2, <4>2
        <5>2. [hand[1] EXCEPT !.left = hand[1].left - 1] \in Items
          BY <3>1, <5>1 DEF Items
        <5>3. hand' = << [hand[1] EXCEPT !.left = hand[1].left - 1] >>
          BY <2>3, <4>2
        <5>. QED
          BY <5>2, <5>3
      <4>. QED
        BY <4>1, <4>2
    <3>7. past'.received = past.received
      BY <2>3 DEF Records, Pasts
    <3>. QED
      BY <2>1, <3>5, <3>6, <3>7 DEF Records, Frames, Delivered, DeliveredWhole
  <2>. QED
    BY <1>7, <2>2, <2>3 DEF SendDirect
<1>8. CASE Requeue
  <2>1. UNCHANGED <<limit, conn, rc, lifecycle, rx, peer, past>>
    BY <1>8 DEF Requeue, OnlyWire
  <2>2. sendq' = hand \o sendq /\ hand' = <<>>
    BY <1>8 DEF Requeue
  <2>3. sendq' \in Seq(Items)
    BY <2>2, ConcatProperties DEF Records
  <2>4. hand' \in Seq(Items)
    BY <2>2
  <2>. QED
    BY <2>1, <2>3, <2>4 DEF Records, Frames, Delivered, DeliveredWhole
<1>9. CASE Upgraded \/ FireError \/ FireClose
  <2>1. UNCHANGED <<limit, rc, lifecycle, sendq, hand, rx, peer>>
    BY <1>9 DEF Upgraded, FireError, FireClose
  <2>2. conn' \in Conns
    BY <1>9, ZenonT(60) DEF Upgraded, FireError, FireClose, Records, Conns
  <2>3. past' = past \/ \E e \in Events : past' = [past EXCEPT !.log = Append(past.log, e)]
    BY <1>9 DEF Upgraded, FireError, FireClose, Logged, Events, Ends
  <2>4. past' \in Pasts /\ past'.received = past.received
    <3>1. CASE past' = past
      BY <3>1 DEF Records
    <3>2. ASSUME NEW e \in Events, past' = [past EXCEPT !.log = Append(past.log, e)]
          PROVE  past' \in Pasts /\ past'.received = past.received
      <4>1. Append(past.log, e) \in Seq(Events)
        BY PastReads, AppendProperties
      <4>2. past' \in Pasts
        BY <3>2, <4>1, PastWrites
      <4>3. past'.received = past.received
        BY <3>2 DEF Records, Pasts
      <4>. QED
        BY <4>2, <4>3
    <3>. QED
      BY <2>3, <3>1, <3>2
  <2>. QED
    BY <2>1, <2>2, <2>4 DEF Records, Frames, Delivered, DeliveredWhole
<1>. QED
  BY <1>1, <1>2, <1>3, <1>4, <1>5, <1>6, <1>7, <1>8, <1>9 DEF WorkerStep

LEMMA RecordsNext ==
    ASSUME Records, Frames, InHand, Control, [Next]_vars
    PROVE  Records' /\ Frames'
<1>1. CASE WorkerStep
  BY <1>1, WorkerRecords
<1>2. ASSUME NEW t \in Threads, Step(t)
      PROVE  Records' /\ Frames'
  <2>1. rx' = rx /\ peer' = peer /\ past'.received = past.received
    BY <1>2 DEF Step, Push, Lock, Unlock, RequestClose, StoreClosing, StoreAbort, Join, Settle,
                Callback, OnlyWire, OnlyLock, OnlyConn, Queued, Logged, Records, Pasts
  <2>2. Records'
    BY <1>2, StepRecords
  <2>. QED
    BY <2>1, <2>2 DEF Frames, Delivered, DeliveredWhole
<1>3. ASSUME NEW t \in Callers, Calling(t)
      PROVE  Records' /\ Frames'
  <2>1. /\ UNCHANGED <<limit, conn, rc, lifecycle, sendq, hand, rx, peer>>
        /\ \/ past' = [past EXCEPT !.sends = past.sends + 1]
           \/ past' = [past EXCEPT !.closes = past.closes + 1]
    BY <1>3 DEF Calling, Send, CloseAsync, Close
  <2>2. past' \in Pasts
    BY <2>1, PastReads, PastWrites
  <2>3. past'.received = past.received
    BY <2>1 DEF Records, Pasts
  <2>. QED
    BY <2>1, <2>2, <2>3 DEF Records, Frames, Delivered, DeliveredWhole
<1>4. CASE Spawn
  <2>1. conn' \in Conns
    BY <1>4 DEF Spawn, Records, Conns
  <2>2. UNCHANGED <<limit, rc, lifecycle, sendq, hand, rx, peer, past>>
    BY <1>4 DEF Spawn, OnlyConn
  <2>. QED
    BY <2>1, <2>2 DEF Records, Frames, Delivered, DeliveredWhole
<1>5. CASE Open
  <2>1. /\ conn' \in Conns /\ rc' = "none"
        /\ peer' = [frame |-> 1, offset |-> 0, close |-> 0]
        /\ UNCHANGED <<limit, lifecycle, sendq, hand, rx>>
    BY <1>5 DEF Open, Conns
  <2>2. peer' \in [frame : Nat, offset : 0..Parts, close : 0..Parts]
        /\ 0 < Parts
    BY <2>1, CurlAssumption
  <2>3. past' = [past EXCEPT !.log = <<>>, !.wire = <<>>, !.pushed = sendq,
                             !.received = <<>>, !.opens = past.opens + 1]
    BY <1>5 DEF Open
  <2>4. past' \in Pasts
    <3>1. sendq \in Seq(Items) /\ past.opens + 1 \in Nat
      BY PastReads DEF Records
    <3>. QED
      BY <2>3, <3>1, PastWrites
  <2>5. past'.received = <<>>
    BY <2>3 DEF Records, Pasts
  <2>6. Records'
    BY <2>1, <2>2, <2>4 DEF Records
  <2>7. Delivered'
    BY <2>1, <2>2, <2>5 DEF Delivered
  <2>8. DeliveredWhole'
    BY <2>5 DEF DeliveredWhole
  <2>. QED
    BY <2>6, <2>7, <2>8 DEF Frames
<1>6. CASE UNCHANGED vars
  BY <1>6 DEF vars, Records, Frames, Delivered, DeliveredWhole
<1>. QED
  BY <1>1, <1>2, <1>3, <1>4, <1>5, <1>6 DEF Next, Calling

\* A step of the worker that takes nothing into its hand, and lets nothing go.
Bare ==
    \/ Start \/ Loop \/ PerformReturns \/ Upgraded \/ DataArrives \/ CloseArrives
    \/ Poll \/ Cleanup \/ Conclude \/ Exit \/ FireError \/ FireClose

LEMMA BareSteps ==
    ASSUME Bare
    PROVE  \E s \in Own \ {"flush", "sendDirect", "requeue"} :
               At("worker", s) /\ \E steps \in Becomes(s) : Then("worker", steps)
<1>. USE DEF Becomes, Own
<1>1. CASE Start \/ Cleanup \/ Exit
  BY <1>1 DEF Start, Cleanup, Exit
<1>2. CASE Loop \/ Upgraded
  BY <1>2 DEF Loop, Upgraded
<1>3. CASE PerformReturns
  <2>1. At("worker", "perform")
    BY <1>3 DEF PerformReturns
  <2>2. \E steps \in Becomes("perform") : Then("worker", steps)
    BY <1>3, Finishes DEF PerformReturns
  <2>. QED
    BY <2>1, <2>2
<1>4. CASE DataArrives
  <2>1. At("worker", "perform")
    BY <1>4 DEF DataArrives
  <2>2. \E steps \in Becomes("perform") : Then("worker", steps)
    BY <1>4 DEF DataArrives
  <2>. QED
    BY <2>1, <2>2
<1>5. CASE CloseArrives
  <2>1. At("worker", "perform")
    BY <1>5 DEF CloseArrives
  <2>2. \E steps \in Becomes("perform") : Then("worker", steps)
    BY <1>5 DEF CloseArrives
  <2>. QED
    BY <2>1, <2>2
<1>6. CASE Poll
  <2>1. At("worker", "poll")
    BY <1>6 DEF Poll
  <2>2. \E steps \in Becomes("poll") : Then("worker", steps)
    BY <1>6, Finishes DEF Poll
  <2>. QED
    BY <2>1, <2>2
<1>7. CASE Conclude
  BY <1>7 DEF Conclude
<1>8. CASE FireError
  <2>1. At("worker", "fireError")
    BY <1>8 DEF FireError
  <2>2. \E steps \in Becomes("fireError") : Then("worker", steps)
    BY <1>8 DEF FireError
  <2>. QED
    BY <2>1, <2>2
<1>9. ASSUME NEW how \in {"local", "remote"}, At("worker", how),
             Then("worker", <<>>) \/ Then("worker", <<"callback">>)
      PROVE  \E s \in Own \ {"flush", "sendDirect", "requeue"} :
                 At("worker", s) /\ \E steps \in Becomes(s) : Then("worker", steps)
  BY <1>9
<1>10. CASE FireClose
  BY <1>9, <1>10 DEF FireClose
<1>. QED
  BY <1>1, <1>2, <1>3, <1>4, <1>5, <1>6, <1>7, <1>8, <1>10 DEF Bare

\* The hand is empty but while sendDirect and requeue are to be run.
LEMMA InHandNext ==
    ASSUME Control, Records, Flow, InHand, [Next]_vars
    PROVE  InHand'
<1> DEFINE S == {"sendDirect", "requeue"}
<1>0. "worker" \in Threads /\ FlowOn
  BY DEF Threads, Flow, FlowOn
<1>1. ASSUME hand' = hand, mayRun(S)' <=> mayRun(S),
             conn.open_notified => conn'.open_notified
      PROVE  InHand'
  BY <1>1 DEF InHand
<1>2. ASSUME NEW t \in Threads, Step(t)
      PROVE  InHand'
  <2>1. hand' = hand
    BY <1>2 DEF Step, Push, Lock, Unlock, RequestClose, StoreClosing, StoreAbort, Join, Settle,
                Callback, OnlyWire, OnlyLock, OnlyConn
  <2>2. conn'.open_notified = conn.open_notified
    BY <1>2 DEF Step, Push, Lock, Unlock, RequestClose, StoreClosing, StoreAbort, Join, Settle,
                Callback, OnlyWire, OnlyLock, OnlyConn, Records, Conns
  <2>3. Apart
    BY <1>2, StepRuns, AskedApart
  <2>4. S \subseteq Own
    BY DEF Own
  <2>. QED
    BY <1>1, <2>1, <2>2, <2>3, <2>4, ApartMay
<1>3. ASSUME NEW t \in Callers, Calling(t)
      PROVE  InHand'
  <2>1. hand' = hand
    BY <1>3 DEF Calling, Send, CloseAsync, Close
  <2>2. conn' = conn /\ doing("worker")' = doing("worker")
    BY <1>0, <1>3, CallingGoes
  <2>. QED
    BY <1>1, <2>1, <2>2 DEF mayRun
<1>4. CASE Spawn \/ Open
  <2>1. hand' = hand
    BY <1>4 DEF Spawn, Open, OnlyConn
  <2>2. doing("worker") = {} /\ doing("worker")' \in {{}, {"start"}}
    <3>1. CASE Open
      BY <1>0, <3>1, OpenGoes
    <3>2. CASE Spawn
      BY <1>0, <3>2, SpawnGoes, UpIs DEF Upness
    <3>. QED
      BY <1>4, <3>1, <3>2
  <2>3. ~mayRun(S) /\ ~mayRun(S)'
    BY <2>2 DEF mayRun
  <2>. QED
    BY <2>1, <2>3 DEF InHand
<1>5. CASE Bare
  <2>1. hand' = hand
    BY <1>5 DEF Bare, Start, Loop, PerformReturns, Upgraded, DataArrives, CloseArrives, Poll,
                Cleanup, Conclude, Exit, FireError, FireClose, OnlyConn, OnlyTodo
  <2>2. conn.open_notified => conn'.open_notified
    BY <1>5 DEF Bare, Start, Loop, PerformReturns, Upgraded, DataArrives, CloseArrives, Poll,
                Cleanup, Conclude, Exit, FireError, FireClose, OnlyConn, OnlyTodo,
                Records, Conns
  <2>3. PICK s \in Own \ {"flush", "sendDirect", "requeue"} :
            At("worker", s) /\ \E steps \in Becomes(s) : Then("worker", steps)
    BY <1>5, BareSteps
  <2>4. PICK steps \in Becomes(s) : Then("worker", steps)
    BY <2>3
  <2>5. PICK T \in SUBSET After(s) :
            /\ doing("worker") = {s} \cup T
            /\ doing("worker")' = {steps[i] : i \in DOMAIN steps} \cup T
    BY <1>0, <2>3, <2>4, Advance
  <2>6. \A i \in DOMAIN steps : steps[i] \notin S
    BY <2>3 DEF Becomes, finish, Own
  <2>7. mayRun(S)' <=> mayRun(S)
    BY <2>3, <2>5, <2>6 DEF mayRun
  <2>. QED
    BY <1>1, <2>1, <2>2, <2>7
<1>6. CASE Flush
  <2>1. At("worker", "flush") /\ conn' = conn
    BY <1>6 DEF Flush, OnlyWire
  <2>2. PICK s \in {"flush"} : s = "flush"
    OBVIOUS
  <2>3. After(s) = Flushed /\ S \cap Flushed = {} /\ <<>> \in Becomes(s)
        /\ <<"sendDirect">> \in Becomes(s)
    BY <2>2 DEF After, Flushed, Becomes
  <2>4. ASSUME NEW steps \in Becomes(s), Then("worker", steps)
        PROVE  /\ hand = <<>>
               /\ mayRun(S)' <=> \E i \in DOMAIN steps : steps[i] \in S
    <3>1. PICK T \in SUBSET After(s) :
              /\ doing("worker") = {s} \cup T
              /\ doing("worker")' = {steps[i] : i \in DOMAIN steps} \cup T
      BY <1>0, <2>1, <2>2, <2>4, Advance
    <3>2. ~mayRun(S)
      BY <2>2, <2>3, <3>1 DEF mayRun
    <3>3. mayRun(S)' <=> \E i \in DOMAIN steps : steps[i] \in S
      BY <2>3, <3>1 DEF mayRun
    <3>. QED
      BY <3>2, <3>3 DEF InHand
  <2>5. CASE conn.open_notified /\ sendq # <<>>
    <3>1. Then("worker", <<"sendDirect">>) /\ hand' = <<Head(sendq)>>
      BY <1>6, <2>5 DEF Flush
    <3>2. mayRun(S)'
      BY <2>3, <2>4, <3>1
    <3>. QED
      BY <2>1, <2>5, <3>1, <3>2 DEF InHand
  <2>6. CASE ~(conn.open_notified /\ sendq # <<>>)
    <3>1. Then("worker", <<>>) /\ hand' = hand
      BY <1>6, <2>6 DEF Flush
    <3>2. ~mayRun(S)' /\ hand = <<>>
      BY <2>3, <2>4, <3>1
    <3>. QED
      BY <2>1, <3>1, <3>2 DEF InHand
  <2>. QED
    BY <2>5, <2>6
<1>7. CASE SendDirect
  <2>1. At("worker", "sendDirect") /\ conn' = conn
    BY <1>7 DEF SendDirect, OnlyWire
  <2>2. PICK s \in {"sendDirect"} : s = "sendDirect"
    OBVIOUS
  <2>3. After(s) = Flushed /\ S \cap Flushed = {}
    BY <2>2 DEF After, Flushed
  <2>4. ASSUME NEW steps \in Becomes(s), Then("worker", steps)
        PROVE  /\ hand # <<>> /\ conn.open_notified
               /\ mayRun(S)' <=> \E i \in DOMAIN steps : steps[i] \in S
    <3>1. PICK T \in SUBSET After(s) :
              /\ doing("worker") = {s} \cup T
              /\ doing("worker")' = {steps[i] : i \in DOMAIN steps} \cup T
      BY <1>0, <2>1, <2>2, <2>4, Advance
    <3>2. mayRun(S)
      BY <2>2, <3>1 DEF mayRun
    <3>3. mayRun(S)' <=> \E i \in DOMAIN steps : steps[i] \in S
      BY <2>3, <3>1 DEF mayRun
    <3>. QED
      BY <3>2, <3>3 DEF InHand
  <2>5. CASE Then("worker", <<"flush">>) /\ hand' = <<>>
    <3>1. <<"flush">> \in Becomes(s)
      BY <2>2 DEF Becomes
    <3>2. ~mayRun(S)'
      BY <2>4, <2>5, <3>1
    <3>. QED
      BY <2>5, <3>2 DEF InHand
  <2>6. ASSUME NEW steps \in Becomes(s), Then("worker", steps),
               \E i \in DOMAIN steps : steps[i] \in S, Len(hand') <= 1, hand' # <<>>
        PROVE  InHand'
    BY <2>1, <2>4, <2>6 DEF InHand
  <2>7. /\ <<"sendDirect">> \in Becomes(s) /\ <<"requeue">> \in Becomes(s)
        /\ <<"fireError", "requeue", "storeAbort">> \in Becomes(s)
    BY <2>2 DEF Becomes
  <2>8. CASE Then("worker", <<"sendDirect">>) /\ \E item : hand' = <<item>>
    BY <2>6, <2>7, <2>8
  <2>9. hand # <<>> /\ Len(hand) <= 1
    BY <1>7, <2>2, <2>4, <2>7 DEF SendDirect, Becomes, InHand
  <2>10. CASE Then("worker", <<"requeue">>) /\ hand' = hand
    BY <2>6, <2>7, <2>9, <2>10
  <2>11. CASE Then("worker", <<"fireError", "requeue", "storeAbort">>) /\ hand' = hand
    <3>1. 2 \in DOMAIN <<"fireError", "requeue", "storeAbort">>
          /\ <<"fireError", "requeue", "storeAbort">>[2] \in S
      OBVIOUS
    <3>. QED
      BY <2>6, <2>7, <2>9, <2>11, <3>1
  <2>. QED
    BY <1>7, <2>5, <2>8, <2>10, <2>11 DEF SendDirect
<1>8. CASE Requeue
  <2>1. At("worker", "requeue") /\ Then("worker", <<>>) /\ hand' = <<>>
    BY <1>8 DEF Requeue
  <2>2. PICK s \in {"requeue"} : s = "requeue"
    OBVIOUS
  <2>3. <<>> \in Becomes(s) /\ S \cap After(s) = {}
    BY <2>2 DEF After, Flushed, Becomes
  <2>4. PICK T \in SUBSET After(s) :
            doing("worker")' = {<<>>[i] : i \in DOMAIN <<>>} \cup T
    BY <1>0, <2>1, <2>2, <2>3, Advance
  <2>5. ~mayRun(S)'
    BY <2>3, <2>4, Lists DEF mayRun
  <2>. QED
    BY <2>1, <2>5 DEF InHand
<1>9. CASE UNCHANGED vars
  <2>1. hand' = hand /\ conn' = conn /\ todo' = todo
    BY <1>9 DEF vars
  <2>. QED
    BY <1>1, <2>1 DEF mayRun, doing
<1>. QED
  BY <1>2, <1>3, <1>4, <1>5, <1>6, <1>7, <1>8, <1>9 DEF Next, WorkerStep, Bare, Calling

-------------------------------------------------------------------------------
(* What was sent, what is in the hand, and what is queued.                   *)

Piece == Nat \X Nat

\* The pieces of an item: the first, and those of what is left of it then.
LEMMA Pieces ==
    ASSUME NEW item \in Items
    PROVE  /\ pieces(item) \in Seq(Piece) /\ <<item.msg, Parts - item.left>> \in Piece
           /\ item.left = 1 => pieces(item) = << <<item.msg, Parts - item.left>> >>
           /\ item.left # 1 =>
                  /\ [item EXCEPT !.left = item.left - 1] \in Items
                  /\ pieces(item) = << <<item.msg, Parts - item.left>> >>
                                    \o pieces([item EXCEPT !.left = item.left - 1])
<1> DEFINE m == item.msg
           k == item.left
           first == <<m, Parts - k>>
           less == [item EXCEPT !.left = k - 1]
           p(i) == <<m, Parts - k + i - 1>>
<1>1. m \in Nat /\ k \in 1..Parts /\ k \in Nat /\ Parts \in Nat /\ k <= Parts /\ 1 <= k
  BY CurlAssumption DEF Items
<1>2. \A i \in 1..k : p(i) \in Piece
  <2>1. \A i \in 1..k : Parts - k + i - 1 \in Nat
    BY <1>1
  <2>. QED
    BY <1>1, <2>1 DEF Piece
<1>3. /\ pieces(item) \in Seq(Piece) /\ Len(pieces(item)) = k
      /\ \A i \in 1..k : pieces(item)[i] = p(i)
  <2>1. pieces(item) = [i \in 1..k |-> p(i)]
    BY DEF pieces
  <2>. HIDE DEF p, k
  <2>. QED
    BY <1>1, <1>2, <2>1
<1>4. first \in Piece /\ p(1) = first
  <2>1. Parts - k \in Nat /\ Parts - k + 1 - 1 = Parts - k
    BY <1>1
  <2>. QED
    BY <1>1, <2>1 DEF Piece
<1>5. ASSUME k = 1
      PROVE  pieces(item) = <<first>>
  <2>1. <<first>> \in Seq(Piece) /\ Len(<<first>>) = 1 /\ <<first>>[1] = first
    BY <1>4
  <2>2. \A i \in 1..1 : pieces(item)[i] = <<first>>[i]
    <3>. TAKE i \in 1..1
    <3>1. i = 1 /\ 1 \in 1..k
      BY <1>5
    <3>. HIDE DEF p, first
    <3>. QED
      BY <1>3, <1>4, <2>1, <3>1
  <2>. HIDE DEF first, p
  <2>. QED
    BY <1>3, <1>5, <2>1, <2>2, SeqEqual
<1>6. ASSUME k # 1
      PROVE  less \in Items /\ pieces(item) = <<first>> \o pieces(less)
  <2>1. /\ k - 1 \in 1..Parts /\ k - 1 \in Nat
        /\ less \in Items /\ less.msg = m /\ less.left = k - 1
    BY <1>1, <1>6 DEF Items
  <2> DEFINE q(i) == <<m, Parts - (k - 1) + i - 1>>
  <2>2. \A i \in 1..k - 1 : q(i) = p(i + 1) /\ i + 1 \in 1..k
    BY <1>1, <2>1
  <2>3. pieces(less) = [i \in 1..k - 1 |-> q(i)]
    BY <2>1 DEF pieces
  <2>. HIDE DEF p, q, k, first, less
  <2>4. /\ pieces(less) \in Seq(Piece) /\ Len(pieces(less)) = k - 1
        /\ \A i \in 1..k - 1 : pieces(less)[i] = p(i + 1)
    BY <1>2, <2>1, <2>2, <2>3
  <2>5. <<first>> \in Seq(Piece) /\ Len(<<first>>) = 1 /\ <<first>>[1] = first
    BY <1>4
  <2>6. /\ <<first>> \o pieces(less) \in Seq(Piece)
        /\ Len(<<first>> \o pieces(less)) = k
        /\ \A i \in 1..k : (<<first>> \o pieces(less))[i]
                           = IF i <= 1 THEN <<first>>[i] ELSE pieces(less)[i - 1]
    <3>1. 1 + (k - 1) = k
      BY <1>1
    <3>. QED
      BY <2>4, <2>5, <3>1, ConcatProperties
  <2>7. \A i \in 1..k : (<<first>> \o pieces(less))[i] = p(i)
    <3>. TAKE i \in 1..k
    <3>1. CASE i = 1
      BY <1>4, <2>5, <2>6, <3>1
    <3>2. CASE i # 1
      <4>1. i - 1 \in 1..k - 1 /\ (i - 1) + 1 = i /\ ~(i <= 1)
        BY <1>1, <3>2
      <4>. QED
        BY <2>4, <2>6, <4>1
    <3>. QED
      BY <3>1, <3>2
  <2>. QED
    BY <1>3, <2>1, <2>6, <2>7, SeqEqual
<1>. QED
  BY <1>3, <1>4, <1>5, <1>6

\* One more item, at either end, is its pieces more.
LEMMA AllPieces ==
    ASSUME NEW items \in Seq(Items), NEW item \in Items
    PROVE  /\ allPieces(<<>>) = <<>> /\ allPieces(items) \in Seq(Piece)
           /\ allPieces(Append(items, item)) = allPieces(items) \o pieces(item)
           /\ allPieces(<<item>> \o items) = pieces(item) \o allPieces(items)
<1> DEFINE of(s) == [i \in DOMAIN s |-> pieces(s[i])]
           n == Len(items)
           P == pieces(item)
<1>0. P \in Seq(Piece) /\ \A x \in Items : pieces(x) \in Seq(Piece)
  BY Pieces
<1>1. \A s \in Seq(Items) :
          /\ of(s) \in Seq(Seq(Piece)) /\ Len(of(s)) = Len(s) /\ Len(s) \in Nat
          /\ \A i \in 1..Len(s) : of(s)[i] = pieces(s[i])
  <2>. TAKE s \in Seq(Items)
  <2>1. Len(s) \in Nat /\ DOMAIN s = 1..Len(s) /\ \A i \in 1..Len(s) : s[i] \in Items
    BY LenProperties, ElementOfSeq
  <2> DEFINE l == Len(s)
             f == [i \in 1..l |-> pieces(s[i])]
  <2>2. of(s) = f /\ \A i \in 1..l : pieces(s[i]) \in Seq(Piece)
    BY <1>0, <2>1
  <2>3. f \in Seq(Seq(Piece)) /\ Len(f) = l /\ \A i \in 1..l : f[i] = pieces(s[i])
    <3>. HIDE DEF l
    <3>. QED
      BY <2>1, <2>2 DEF l
  <2>. QED
    BY <2>1, <2>2, <2>3
<1>2. \A s : allPieces(s) = FlattenSeq(of(s))
  BY DEF allPieces
<1>3. of(<<>>) = <<>>
  OBVIOUS
<1>4. of(Append(items, item)) = Append(of(items), P)
  <2> DEFINE more == Append(items, item)
             all == Append(of(items), P)
  <2>1. /\ more \in Seq(Items) /\ Len(more) = n + 1 /\ more[n + 1] = item
        /\ \A i \in 1..n : more[i] = items[i]
    BY AppendProperties
  <2>2. of(items) \in Seq(Seq(Piece)) /\ Len(of(items)) = n /\ n \in Nat
        /\ \A i \in 1..n : of(items)[i] = pieces(items[i])
    BY <1>1
  <2>. HIDE DEF of, n, more, P
  <2>3. /\ all \in Seq(Seq(Piece)) /\ Len(all) = n + 1 /\ all[n + 1] = P
        /\ \A i \in 1..n : all[i] = of(items)[i]
    BY <1>0, <2>2, AppendProperties
  <2>4. of(more) \in Seq(Seq(Piece)) /\ Len(of(more)) = n + 1
        /\ \A i \in 1..n + 1 : of(more)[i] = pieces(more[i])
    BY <1>1, <2>1
  <2>. HIDE DEF all
  <2>5. \A i \in 1..n + 1 : of(more)[i] = all[i]
    <3>. TAKE i \in 1..n + 1
    <3>1. i = n + 1 \/ i \in 1..n
      BY <2>2
    <3>. QED
      BY <2>1, <2>2, <2>3, <2>4, <3>1 DEF P
  <2>. QED
    BY <2>3, <2>4, <2>5, SeqEqual DEF more, all
<1>5. of(<<item>> \o items) = <<P>> \o of(items)
  <2> DEFINE more == <<item>> \o items
             all == <<P>> \o of(items)
  <2>1. <<item>> \in Seq(Items) /\ Len(<<item>>) = 1 /\ <<item>>[1] = item
    OBVIOUS
  <2>2. of(items) \in Seq(Seq(Piece)) /\ Len(of(items)) = n /\ n \in Nat
        /\ \A i \in 1..n : of(items)[i] = pieces(items[i])
    BY <1>1
  <2>3. /\ more \in Seq(Items) /\ Len(more) = 1 + n
        /\ \A i \in 1..1 + n : more[i] = IF i <= 1 THEN <<item>>[i] ELSE items[i - 1]
    BY <2>1, ConcatProperties
  <2>. HIDE DEF of, n, more, P
  <2>4. <<P>> \in Seq(Seq(Piece)) /\ Len(<<P>>) = 1 /\ <<P>>[1] = P
    BY <1>0
  <2>5. /\ all \in Seq(Seq(Piece)) /\ Len(all) = 1 + n
        /\ \A i \in 1..1 + n : all[i] = IF i <= 1 THEN <<P>>[i] ELSE of(items)[i - 1]
    BY <2>2, <2>4, ConcatProperties
  <2>6. of(more) \in Seq(Seq(Piece)) /\ Len(of(more)) = 1 + n
        /\ \A i \in 1..1 + n : of(more)[i] = pieces(more[i])
    BY <1>1, <2>3
  <2>. HIDE DEF all
  <2>7. \A i \in 1..1 + n : of(more)[i] = all[i]
    <3>. TAKE i \in 1..1 + n
    <3>1. CASE i <= 1
      <4>1. i = 1
        BY <2>2, <3>1
      <4>. QED
        BY <2>1, <2>3, <2>4, <2>5, <2>6, <3>1, <4>1 DEF P
    <3>2. CASE ~(i <= 1)
      <4>1. i - 1 \in 1..n
        BY <2>2, <3>2
      <4>. QED
        BY <2>2, <2>3, <2>5, <2>6, <3>2, <4>1
    <3>. QED
      BY <3>1, <3>2
  <2>. QED
    BY <2>5, <2>6, <2>7, SeqEqual DEF more, all
<1>6. of(items) \in Seq(Seq(Piece))
  BY <1>1
<1>. HIDE DEF of, P
<1>7. /\ FlattenSeq(<<>>) = <<>> /\ FlattenSeq(of(items)) \in Seq(Piece)
      /\ FlattenSeq(Append(of(items), P)) = FlattenSeq(of(items)) \o P
      /\ FlattenSeq(<<P>> \o of(items)) = P \o FlattenSeq(of(items))
  BY <1>0, <1>6, Flattened
<1>. QED
  BY <1>2, <1>3, <1>4, <1>5, <1>7 DEF P

LEMMA OnePiece ==
    ASSUME NEW item \in Items
    PROVE  allPieces(<<item>>) = pieces(item)
<1>0. pieces(item) \in Seq(Piece)
  BY Pieces
<1>1. <<>> \in Seq(Items) /\ pieces(item) \in Seq(Piece)
  BY <1>0
<1>a. <<item>> \in Seq(Items)
  OBVIOUS
<1>2. <<item>> \o <<>> = <<item>> /\ pieces(item) \o <<>> = pieces(item)
  BY <1>1, <1>a, ConcatEmptySeq
<1>. QED
  BY <1>1, <1>2, AllPieces

\* The hand is empty unless the worker has to send or requeue.
LEMMA EmptyHand ==
    ASSUME Records, InHand, doing("worker") \cap {"sendDirect", "requeue"} = {}
    PROVE  hand = <<>>
BY DEF InHand, mayRun

\* Nothing is in it when the queue is dropped, at the end of close and by open: the
\* worker is gone, or has not got as far as to take an item.
LEMMA SettledHand ==
    ASSUME Control, Records, Flow, InHand, NEW t \in Threads, Settle(t)
    PROVE  hand = <<>>
<1>1. CASE Up
  <2>1. todo[t] # <<>> /\ Head(todo[t]) = "settle"
    BY DEF Settle, At
  <2>2. todo[t][1] = "settle"
    BY <2>1, Indices DEF Control
  <2>3. ~conn.open_notified
    BY <1>1, <2>1, <2>2 DEF Flow, Closers, CloserOf
  <2>. QED
    BY <2>3 DEF InHand
<1>2. CASE ~Up
  <2>1. doing("worker") = {}
    BY <1>2, UpIs DEF Upness
  <2>. QED
    BY <2>1, EmptyHand
<1>. QED
  BY <1>1, <1>2

\* What a step does to the three places and to what was queued.
Places == <<past.wire, past.pushed, sendq, hand>>
Queues(item) ==
    /\ sendq' = Append(sendq, item) /\ past'.pushed = Append(past.pushed, item)
    /\ past'.wire = past.wire /\ hand' = hand
Drops ==
    /\ hand = <<>> /\ hand' = <<>> /\ past'.wire = <<>> /\ past'.pushed = sendq'
Takes ==
    /\ hand = <<>> /\ sendq # <<>> /\ hand' = <<Head(sendq)>> /\ sendq' = Tail(sendq)
    /\ past'.wire = past.wire /\ past'.pushed = past.pushed
Returns ==
    /\ Len(hand) <= 1 /\ hand' = <<>> /\ sendq' = hand \o sendq
    /\ past'.wire = past.wire /\ past'.pushed = past.pushed
Sends(item) ==
    /\ hand = <<item>>
    /\ hand' = IF item.left = 1 THEN <<>> ELSE <<[item EXCEPT !.left = item.left - 1]>>
    /\ past'.wire = Append(past.wire, <<item.msg, Parts - item.left>>)
    /\ sendq' = sendq /\ past'.pushed = past.pushed
Moves ==
    \/ UNCHANGED Places
    \/ \E item \in Items : Queues(item) \/ Sends(item)
    \/ Drops \/ Takes \/ Returns

LEMMA StepMoves ==
    ASSUME Control, Records, Flow, InHand, NEW t \in Threads, Step(t)
    PROVE  Moves
<1>1. Parts \in 1..Parts /\ CloseFrame \in Items
      /\ [msg |-> Len(past.pushed) + 1, left |-> Parts] \in Items
  <2>1. Parts \in 1..Parts /\ Len(past.pushed) + 1 \in Nat
    BY CurlAssumption, PastReads
  <2>. QED
    BY <2>1 DEF CloseFrame, Items
<1>2. past \in Pasts
  BY DEF Records
<1>3. ASSUME NEW item \in Items, Queued(item), hand' = hand
      PROVE  Moves
  <2>1. /\ sendq' = Append(sendq, item) /\ past'.pushed = Append(past.pushed, item)
        /\ past'.wire = past.wire
    BY <1>2, <1>3 DEF Queued, Pasts
  <2>. QED
    BY <1>3, <2>1 DEF Moves, Queues
<1>4. CASE Push(t)
  <2>1. Queued([msg |-> Len(past.pushed) + 1, left |-> Parts]) /\ hand' = hand
    BY <1>4 DEF Push, OnlyWire
  <2>. QED
    BY <1>1, <1>3, <2>1
<1>5. CASE StoreClosing(t)
  <2>1. CASE conn.running
    <3>1. Queued(CloseFrame) /\ hand' = hand
      BY <1>5, <2>1 DEF StoreClosing
    <3>. QED
      BY <1>1, <1>3, <3>1
  <2>2. CASE ~conn.running
    <3>1. past' = past /\ sendq' = sendq /\ hand' = hand
      BY <1>5, <2>2 DEF StoreClosing
    <3>. QED
      BY <3>1 DEF Moves, Places
  <2>. QED
    BY <2>1, <2>2
<1>6. CASE Settle(t)
  <2>1. hand = <<>>
    BY <1>6, SettledHand
  <2>2. /\ sendq' = <<>> /\ hand' = hand
        /\ past' = [past EXCEPT !.pushed = <<>>, !.wire = <<>>,
                        !.log = IF conn.close_called \/ conn.error_reported
                                  THEN past.log ELSE Append(past.log, "local")]
    BY <1>6 DEF Settle
  <2>3. past'.wire = <<>> /\ past'.pushed = <<>>
    BY <1>2, <2>2 DEF Pasts
  <2>. QED
    BY <2>1, <2>2, <2>3 DEF Moves, Drops
<1>7. CASE Lock(t) \/ Unlock(t) \/ RequestClose(t) \/ StoreAbort(t) \/ Join(t) \/ Callback(t)
  <2>1. sendq' = sendq /\ hand' = hand
    BY <1>7 DEF Lock, Unlock, RequestClose, StoreAbort, Join, Callback, OnlyLock, OnlyConn
  <2>2. past'.wire = past.wire /\ past'.pushed = past.pushed
    BY <1>2, <1>7 DEF Lock, Unlock, RequestClose, StoreAbort, Join, Callback, OnlyLock, OnlyConn,
                      Logged, Pasts
  <2>. QED
    BY <2>1, <2>2 DEF Moves, Places
<1>. QED
  BY <1>4, <1>5, <1>6, <1>7 DEF Step

LEMMA WorkerMoves ==
    ASSUME Control, Records, Flow, InHand, WorkerStep
    PROVE  Moves
<1>0. "worker" \in Threads /\ past \in Pasts
  BY DEF Threads, Records
<1>1. CASE Bare
  <2>1. sendq' = sendq /\ hand' = hand
    BY <1>1 DEF Bare, Start, Loop, PerformReturns, Upgraded, DataArrives, CloseArrives, Poll,
                Cleanup, Conclude, Exit, FireError, FireClose, OnlyConn, OnlyTodo
  <2>2. past'.wire = past.wire /\ past'.pushed = past.pushed
    BY <1>0, <1>1 DEF Bare, Start, Loop, PerformReturns, Upgraded, DataArrives, CloseArrives,
                Poll, Cleanup, Conclude, Exit, FireError, FireClose, OnlyConn, OnlyTodo, Logged,
                Pasts
  <2>. QED
    BY <2>1, <2>2 DEF Moves, Places
<1>2. CASE Flush
  <2>0. At("worker", "flush") /\ past' = past
    BY <1>2 DEF Flush
  <2>1. CASE conn.open_notified /\ sendq # <<>>
    <3>1. Then("worker", <<"sendDirect">>) /\ hand' = <<Head(sendq)>> /\ sendq' = Tail(sendq)
      BY <1>2, <2>1 DEF Flush
    <3>2. PICK s \in {"flush"} : s = "flush"
      OBVIOUS
    <3>3. <<"sendDirect">> \in Becomes(s) /\ After(s) = Flushed
      BY <3>2 DEF Becomes, After
    <3>4. PICK T \in SUBSET After(s) : doing("worker") = {s} \cup T
      BY <1>0, <2>0, <3>1, <3>2, <3>3, Advance
    <3>5. hand = <<>>
      BY <3>2, <3>3, <3>4, EmptyHand DEF Flushed
    <3>. QED
      BY <2>0, <2>1, <3>1, <3>5 DEF Moves, Takes
  <2>2. CASE ~(conn.open_notified /\ sendq # <<>>)
    BY <1>2, <2>0, <2>2 DEF Flush, Moves, Places
  <2>. QED
    BY <2>1, <2>2
<1>3. CASE SendDirect
  <2>0. At("worker", "sendDirect") /\ sendq' = sendq
    BY <1>3 DEF SendDirect
  <2>1. "sendDirect" \in doing("worker")
    <3>1. todo["worker"] # <<>> /\ Head(todo["worker"]) = "sendDirect"
      BY <2>0 DEF At
    <3>2. 1 \in DOMAIN todo["worker"] /\ todo["worker"][1] = "sendDirect"
      BY <1>0, <3>1, Indices DEF Control
    <3>. QED
      BY <3>2 DEF doing
  <2>2. hand # <<>> /\ Len(hand) <= 1 /\ hand \in Seq(Items)
    BY <2>1 DEF InHand, mayRun, Records
  <2>3. hand[1] \in Items /\ hand = <<hand[1]>>
    BY <2>2, Single
  <2>4. CASE past' = past /\ hand' = hand
    BY <2>0, <2>4 DEF Moves, Places
  <2>5. CASE /\ past' = [past EXCEPT !.wire = Append(past.wire,
                                                  <<hand[1].msg, Parts - hand[1].left>>)]
             /\ hand' = IF hand[1].left = 1 THEN <<>>
                        ELSE <<[hand[1] EXCEPT !.left = hand[1].left - 1]>>
    <3>1. /\ past'.wire = Append(past.wire, <<hand[1].msg, Parts - hand[1].left>>)
          /\ past'.pushed = past.pushed
      BY <1>0, <2>5 DEF Pasts
    <3>2. PICK item \in Items : item = hand[1]
      BY <2>3
    <3>3. Sends(item)
      BY <2>0, <2>3, <2>5, <3>1, <3>2 DEF Sends
    <3>. QED
      BY <3>3 DEF Moves
  <2>. QED
    BY <1>3, <2>4, <2>5 DEF SendDirect
<1>4. CASE Requeue
  BY <1>4 DEF Requeue, Moves, Returns, InHand
<1>. QED
  BY <1>1, <1>2, <1>3, <1>4 DEF WorkerStep, Bare

LEMMA NextMoves ==
    ASSUME Control, Records, Flow, InHand, [Next]_vars
    PROVE  Moves
<1>1. ASSUME NEW t \in Callers, Calling(t)
      PROVE  Moves
  <2>1. /\ sendq' = sendq /\ hand' = hand
        /\ \/ past' = [past EXCEPT !.sends = past.sends + 1]
           \/ past' = [past EXCEPT !.closes = past.closes + 1]
    BY <1>1 DEF Calling, Send, CloseAsync, Close
  <2>2. past'.wire = past.wire /\ past'.pushed = past.pushed
    BY <2>1 DEF Records, Pasts
  <2>. QED
    BY <2>1, <2>2 DEF Moves, Places
<1>2. CASE Spawn
  BY <1>2 DEF Spawn, OnlyConn, Moves, Places
<1>3. CASE Open
  <2>1. FlowOn
    BY DEF Flow, FlowOn
  <2>2. doing("worker") = {}
    BY <1>3, <2>1, OpenGoes
  <2>3. hand = <<>>
    BY <2>2, EmptyHand
  <2>4. /\ sendq' = sendq /\ hand' = hand
        /\ past' = [past EXCEPT !.log = <<>>, !.wire = <<>>, !.pushed = sendq,
                                !.received = <<>>, !.opens = past.opens + 1]
    BY <1>3 DEF Open
  <2>5. past'.wire = <<>> /\ past'.pushed = sendq
    BY <2>4 DEF Records, Pasts
  <2>. QED
    BY <2>3, <2>4, <2>5 DEF Moves, Drops
<1>4. CASE UNCHANGED vars
  BY <1>4 DEF vars, Moves, Places
<1>. QED
  BY <1>1, <1>2, <1>3, <1>4, StepMoves, WorkerMoves DEF Next, Calling

\* Each of these keeps what was queued in order over the three places.
LEMMA WireNext ==
    ASSUME Records, Records', WireInOrder, Moves
    PROVE  WireInOrder'
<1> DEFINE A(s) == allPieces(s)
           P == Seq(Piece)
           w == past.wire
           h == A(hand)
           q == A(sendq)
<1>0. /\ past.wire \in P /\ past'.wire \in P /\ sendq \in Seq(Items) /\ hand \in Seq(Items)
      /\ past.pushed \in Seq(Items) /\ sendq' \in Seq(Items)
  <2>1. past \in Pasts /\ past' \in Pasts /\ sendq \in Seq(Items) /\ hand \in Seq(Items)
        /\ sendq' \in Seq(Items)
    BY DEF Records, Pasts
  <2>. QED
    BY <2>1 DEF Pasts, Piece
<1>1. WireInOrder <=> (w \o h) \o q = A(past.pushed)
  BY DEF WireInOrder
<1>2. WireInOrder' <=> (past'.wire \o A(hand')) \o A(sendq') = A(past'.pushed)
  BY DEF WireInOrder, allPieces, pieces
<1>3. A(<<>>) = <<>> /\ \A s \in Seq(Items) : A(s) \in P
  <2>1. CloseFrame \in Items
    BY CurlAssumption DEF CloseFrame, Items
  <2>2. PICK item \in Items : TRUE
    BY <2>1
  <2>3. <<>> \in Seq(Items)
    OBVIOUS
  <2>4. ASSUME NEW s \in Seq(Items)
        PROVE  allPieces(<<>>) = <<>> /\ allPieces(s) \in P
    BY AllPieces
  <2>. QED
    BY <2>3, <2>4
<1>4. w \in P /\ h \in P /\ q \in P
  BY <1>0, <1>3
<1>5. \A a, b, c \in P : (a \o b) \o c = a \o (b \o c)
  BY ConcatAssociative
<1>6. \A a, b \in P : a \o b \in P /\ a \o <<>> = a /\ <<>> \o a = a
  BY ConcatProperties, ConcatEmptySeq
<1>7. CASE UNCHANGED Places
  BY <1>1, <1>2, <1>7 DEF Places
<1>8. ASSUME NEW item \in Items, Queues(item)
      PROVE  WireInOrder'
  <2>1. /\ A(sendq') = q \o pieces(item) /\ A(past'.pushed) = A(past.pushed) \o pieces(item)
        /\ pieces(item) \in P
    BY <1>0, <1>8, AllPieces, Pieces DEF Queues
  <2>2. w \o h \in P
    BY <1>4, <1>6
  <2>3. (w \o h) \o (q \o pieces(item)) = ((w \o h) \o q) \o pieces(item)
    BY <1>4, <1>5, <2>1, <2>2
  <2>. QED
    BY <1>1, <1>2, <1>8, <2>1, <2>3 DEF Queues
<1>9. CASE Drops
  <2>1. A(sendq') \in P /\ <<>> \in P
    BY <1>0, <1>3
  <2>2. (<<>> \o <<>>) \o A(sendq') = A(sendq')
    BY <1>6, <2>1
  <2>. QED
    BY <1>2, <1>3, <1>9, <2>2 DEF Drops
<1>10. CASE Takes
  <2>1. Head(sendq) \in Items /\ Tail(sendq) \in Seq(Items)
        /\ sendq = <<Head(sendq)>> \o Tail(sendq)
    BY <1>0, <1>10, HeadTail DEF Takes
  <2>2. /\ q = pieces(Head(sendq)) \o A(Tail(sendq))
        /\ A(<<Head(sendq)>>) = pieces(Head(sendq))
        /\ pieces(Head(sendq)) \in P /\ A(Tail(sendq)) \in P
    BY <2>1, <1>3, AllPieces, OnePiece, Pieces
  <2>3. (w \o pieces(Head(sendq))) \o A(Tail(sendq)) = w \o q
    <3>. HIDE DEF A, P, w, h, q
    <3>. QED
      BY <1>4, <1>5, <2>2
  <2>4. (w \o h) \o q = w \o q
    BY <1>3, <1>4, <1>6, <1>10 DEF Takes
  <2>. QED
    BY <1>1, <1>2, <1>10, <2>2, <2>3, <2>4 DEF Takes
<1>11. CASE Returns
  <2>1. CASE hand = <<>>
    <3>1. sendq' = sendq
      BY <1>0, <1>11, <2>1, ConcatEmptySeq DEF Returns
    <3>. QED
      BY <1>1, <1>2, <1>11, <2>1, <3>1 DEF Returns
  <2>2. CASE hand # <<>>
    <3>1. PICK item \in Items : hand = <<item>>
      <4>1. Len(hand) <= 1
        BY <1>11 DEF Returns
      <4>. QED
        BY <1>0, <2>2, <4>1, Single
    <3>2. A(sendq') = h \o q
      BY <1>0, <1>11, <3>1, AllPieces, OnePiece DEF Returns
    <3>3. (w \o <<>>) \o (h \o q) = (w \o h) \o q
      <4>. HIDE DEF A, P, w, h, q
      <4>. QED
        BY <1>4, <1>5, <1>6
    <3>. QED
      BY <1>1, <1>2, <1>3, <1>11, <3>2, <3>3 DEF Returns
  <2>. QED
    BY <2>1, <2>2
<1>12. ASSUME NEW item \in Items, Sends(item)
       PROVE  WireInOrder'
  <2> DEFINE first == <<item.msg, Parts - item.left>>
  <2>0. first \in Piece /\ <<first>> \in P
    <3>1. first \in Piece
      BY Pieces
    <3>. HIDE DEF first
    <3>. QED
      BY <3>1
  <2>. HIDE DEF first
  <2>1. past'.wire = w \o <<first>>
    BY <1>0, <1>12, <2>0, AppendIsConcat DEF Sends, first
  <2>2. A(hand') \in P /\ h = <<first>> \o A(hand')
    <3>1. h = pieces(item)
      BY <1>12, OnePiece DEF Sends
    <3>2. CASE item.left = 1
      <4>1. pieces(item) = <<first>> /\ hand' = <<>>
        BY <1>12, <3>2, Pieces DEF Sends, first
      <4>. QED
        <5>. HIDE DEF P
        <5>1. A(hand') = <<>> /\ <<>> \in P /\ h = <<first>>
          <6>1. <<>> \in Seq(Items)
            OBVIOUS
          <6>. QED
            BY <1>3, <3>1, <4>1, <6>1
        <5>2. <<first>> \o <<>> = <<first>>
          BY <1>6, <2>0
        <5>. QED
          BY <5>1, <5>2
    <3>3. CASE item.left # 1
      <4>1. PICK less \in Items : less = [item EXCEPT !.left = item.left - 1]
        BY <3>3, Pieces
      <4>2. pieces(item) = <<first>> \o pieces(less) /\ hand' = <<less>>
        BY <1>12, <3>3, <4>1, Pieces DEF Sends, first
      <4>3. A(hand') = pieces(less) /\ pieces(less) \in P
        BY <4>2, OnePiece, Pieces
      <4>. QED
        BY <3>1, <4>2, <4>3
    <3>. QED
      BY <3>2, <3>3
  <2>3. (w \o <<first>>) \o A(hand') = w \o h
    <3>. HIDE DEF A, P, w, h, q
    <3>. QED
      BY <1>4, <1>5, <2>0, <2>2
  <2>. QED
    BY <1>1, <1>2, <1>12, <2>1, <2>3 DEF Sends
<1>. QED
  BY <1>7, <1>8, <1>9, <1>10, <1>11, <1>12 DEF Moves

-------------------------------------------------------------------------------
(* Kinds.                                                                    *)

Held == conn.joinable \/ spawning

\* What a step may do to the log, to the thread, and to the object that joins it.
Stutters == past'.log = past.log /\ (Up' <=> Up) /\ (Held' <=> Held)
Leaves == past'.log = past.log /\ Up /\ ~Up' /\ (Held' <=> Held) /\ endings # {}
Joins == past'.log = past.log /\ ~Up /\ ~Up' /\ ~Held' /\ endings # {}
Tells(e) ==
    /\ past'.log = Append(past.log, e) /\ Up /\ Up' /\ (Held' <=> Held)
    /\ e = "open" => endings = {} /\ "open" \notin said
    /\ e = "remote" => endings = {}
    /\ e = "local" => endings = {} /\ "request" \in said
Settles == past'.log = Append(past.log, "local") /\ ~Up /\ ~Up' /\ ~Held' /\ ~Held /\ endings = {}
Opens == past'.log = <<>> /\ ~Held /\ Up' /\ Held'
Kinds == Stutters \/ Leaves \/ Joins \/ (\E e \in Events : Tells(e)) \/ Settles \/ Opens

LEMMA SilentKind ==
    ASSUME Control, Control', FlowOn, FlowOn', past'.log = past.log,
           conn'.joinable = conn.joinable, spawning' <=> spawning, Up' => Up
    PROVE  Stutters \/ Leaves
<1>1. Held' <=> Held
  BY DEF Held
<1>2. endings' = endings
  BY DEF endings
<1>3. ASSUME Up, ~Up'
      PROVE  endings # {}
  <2>1. doing("worker") # {} /\ doing("worker")' = {}
    BY <1>3, UpIs, UpNext DEF Upness
  <2>2. conn'.joinable /\ ~mayRun(Reporters)'
    BY <2>1 DEF FlowOn, Life, mayRun
  <2>3. conn'.close_called
    BY <2>2 DEF FlowOn, Life
  <2>. QED
    BY <1>2, <2>3 DEF FlowOn, Log
<1>. QED
  BY <1>1, <1>3 DEF Stutters, Leaves

\* A worker that goes on with something is still up.
LEMMA GoesOn ==
    ASSUME Control, FlowOn, NEW s \in Own, At("worker", s), NEW steps \in Becomes(s),
           Then("worker", steps), lifecycle' = lifecycle, 1 \in DOMAIN steps
    PROVE  Up' /\ ~spawning /\ ~spawning'
<1>1. PICK T \in SUBSET After(s) : doing("worker")' = {steps[i] : i \in DOMAIN steps} \cup T
  BY OwnStep
<1>2. steps[1] \in doing("worker")'
  BY <1>1
<1>. QED
  BY <1>2, OwnStep

LEMMA StepKinds ==
    ASSUME Control, Records, Flow, NEW t \in Threads, Step(t)
    PROVE  Kinds
<1>1. FlowOn /\ CloserOf(t) /\ "worker" \in Threads
  BY DEF Flow, FlowOn, Closers, Threads
<1>2. Control' /\ FlowOn' /\ Milder
  BY <1>1, StepGoes DEF Flow, Goes
<1>3. PICK s \in Asked \cup {"join", "settle"} :
          At(t, s) /\ \E steps \in Becomes(s) : Then(t, steps)
  BY StepRuns
<1>4. PICK steps \in Becomes(s) : Then(t, steps)
  BY <1>3
<1>5. spawning' <=> spawning
  BY <1>3, <1>4, Advance
<1>6. CASE Push(t) \/ Lock(t) \/ Unlock(t) \/ Callback(t) \/ StoreClosing(t) \/ StoreAbort(t)
  <2>1. past'.log = past.log
    BY <1>6 DEF Push, Lock, Unlock, Callback, StoreClosing, StoreAbort, OnlyWire, OnlyLock,
                OnlyConn, Queued, Records, Pasts
  <2>2. conn'.joinable = conn.joinable
    BY <1>6 DEF Push, Lock, Unlock, Callback, StoreClosing, StoreAbort, OnlyWire, OnlyLock,
                OnlyConn, Queued, Records, Conns
  <2>. QED
    BY <1>1, <1>2, <1>5, <2>1, <2>2, SilentKind DEF Milder, Kinds
<1>7. CASE RequestClose(t)
  <2>1. conn'.joinable = conn.joinable
    BY <1>7 DEF RequestClose, Records, Conns
  <2>2. CASE past'.log = past.log
    BY <1>1, <1>2, <1>5, <2>1, <2>2, SilentKind DEF Milder, Kinds
  <2>3. CASE past'.log = Append(past.log, "request") /\ Up
    <3>1. At(t, "requestClose") /\ \E new \in Becomes("requestClose") : Then(t, new)
      BY <1>7 DEF RequestClose, Becomes
    <3>2. PICK r \in {"requestClose"} : r = "requestClose"
      OBVIOUS
    <3>3. PICK new \in Becomes(r) : Then(t, new)
      BY <3>1, <3>2
    <3>4. /\ Runs(t, new) /\ 1 \in DOMAIN todo[t] /\ todo[t][1] = "requestClose"
          /\ \A u \in Threads : u # t => doing(u)' = doing(u)
      BY <3>1, <3>2, <3>3, Advance
    <3>5. 1 + 1 \in DOMAIN todo[t] /\ 1 + 1 # 1
      BY <3>4 DEF Control, Neighbours
    <3>6. doing(t)' # {}
      <4> DEFINE k == 1 + 1 + Len(new) - 1
      <4>1. \A j \in DOMAIN todo[t] : j # 1 => j + Len(new) - 1 \in DOMAIN todo'[t]
        BY <3>4 DEF Runs
      <4>2. k \in DOMAIN todo'[t]
        BY <3>5, <4>1
      <4>. HIDE DEF k
      <4>. QED
        BY <4>2 DEF doing
    <3>7. Up'
      BY <1>1, <1>2, <1>5, <2>3, <3>4, <3>6, UpIs, UpNext DEF Upness
    <3>8. Held' <=> Held
      BY <1>5, <2>1 DEF Held
    <3>9. Tells("request") /\ "request" \in Events
      BY <2>3, <3>7, <3>8 DEF Tells, Events
    <3>. QED
      BY <3>9 DEF Kinds
  <2>. QED
    BY <1>1, <1>7, <2>2, <2>3, RequestGoes
<1>8. CASE Join(t)
  <2>1. /\ past'.log = past.log /\ conn' = [conn EXCEPT !.joinable = FALSE]
        /\ doing("worker") = {} /\ doing("worker")' = {}
    BY <1>1, <1>8, JoinGoes
  <2>2. ~conn'.joinable
    BY <2>1 DEF Records, Conns
  <2>3. (Up <=> spawning) /\ (Up' <=> spawning')
    BY <1>2, <2>1, UpIs, UpNext DEF Upness
  <2>4. CASE spawning
    <3>1. ~conn.joinable
      BY <1>1, <2>4 DEF FlowOn, Life
    <3>. QED
      BY <1>5, <2>1, <2>2, <2>3, <3>1 DEF Held, Stutters, Kinds
  <2>5. CASE ~spawning /\ ~conn.joinable
    BY <1>5, <2>1, <2>2, <2>3, <2>5 DEF Held, Stutters, Kinds
  <2>6. CASE ~spawning /\ conn.joinable
    <3>1. conn.close_called
      BY <1>1, <2>1, <2>6 DEF FlowOn, Life, mayRun
    <3>2. endings # {}
      BY <1>1, <3>1 DEF FlowOn, Log
    <3>. QED
      BY <1>5, <2>1, <2>2, <2>3, <2>6, <3>2 DEF Held, Joins, Kinds
  <2>. QED
    BY <2>4, <2>5, <2>6
<1>9. CASE Settle(t)
  <2>1. /\ conn'.joinable = conn.joinable /\ (Up' <=> Up)
        /\ \/ past'.log = past.log
           \/ /\ past'.log = Append(past.log, "local") /\ ~conn.close_called
              /\ Up => "request" \in said
    BY <1>1, <1>9, SettleGoes
  <2>2. Held' <=> Held
    BY <1>5, <2>1 DEF Held
  <2>3. CASE past'.log = past.log
    BY <2>1, <2>2, <2>3 DEF Stutters, Kinds
  <2>4. CASE past'.log = Append(past.log, "local") /\ ~conn.close_called
             /\ (Up => "request" \in said)
    <3>1. endings = {}
      BY <1>1, <2>4 DEF FlowOn, Log
    <3>2. CASE Up
      <4>1. Tells("local") /\ "local" \in Events
        BY <2>1, <2>2, <2>4, <3>1, <3>2 DEF Tells, Events, Ends
      <4>. QED
        BY <4>1 DEF Kinds
    <3>3. CASE ~Up
      <4>1. ~spawning /\ doing("worker") = {}
        BY <3>3, UpIs DEF Upness
      <4>2. ~conn.joinable
        BY <1>1, <2>4, <4>1 DEF FlowOn, Life, mayRun
      <4>. QED
        BY <2>1, <2>2, <2>4, <3>1, <3>3, <4>1, <4>2 DEF Held, Settles, Kinds
    <3>. QED
      BY <3>2, <3>3
  <2>. QED
    BY <2>1, <2>3, <2>4
<1>. QED
  BY <1>6, <1>7, <1>8, <1>9 DEF Step

LEMMA WorkerKinds ==
    ASSUME Control, Records, Flow, InHand, WorkerStep
    PROVE  Kinds
<1>1. FlowOn /\ "worker" \in Threads
  BY DEF Flow, FlowOn, Threads
<1>2. Control' /\ FlowOn' /\ Milder /\ Up
  BY <1>1, WorkerGoes DEF Flow, Goes
<1>3. ASSUME past'.log = past.log, conn'.joinable = conn.joinable,
             NEW s \in Own, At("worker", s), NEW steps \in Becomes(s), Then("worker", steps)
      PROVE  Kinds
  <2>1. spawning' <=> spawning
    BY <1>1, <1>3, Advance
  <2>. QED
    BY <1>1, <1>2, <1>3, <2>1, SilentKind DEF Milder, Kinds
<1>4. CASE Driving
  <2>1. past'.log = past.log /\ conn' = conn
    BY <1>1, <1>4, DrivingGoes
  <2>2. \E s \in Own : At("worker", s) /\ \E steps \in Becomes(s) : Then("worker", steps)
    <3>1. CASE Bare
      BY <3>1, BareSteps
    <3>2. CASE Flush
      BY <3>2 DEF Flush, Becomes, Own
    <3>3. CASE SendDirect
      <4>1. At("worker", "sendDirect") /\ "sendDirect" \in Own
        BY <3>3 DEF SendDirect, Own
      <4>2. \E steps \in Becomes("sendDirect") : Then("worker", steps)
        BY <3>3 DEF SendDirect, Becomes
      <4>. QED
        BY <4>1, <4>2
    <3>4. CASE Requeue
      BY <3>4 DEF Requeue, Becomes, Own
    <3>. QED
      BY <1>4, <3>1, <3>2, <3>3, <3>4 DEF Driving, Bare
  <2>. QED
    BY <1>3, <2>1, <2>2
<1>5. CASE Setting
  <2>1. past'.log = past.log /\ conn'.joinable = conn.joinable
    BY <1>1, <1>5, SettingGoes
  <2>2. \E s \in Own : At("worker", s) /\ \E steps \in Becomes(s) : Then("worker", steps)
    BY <1>5, BareSteps DEF Setting, Bare
  <2>. QED
    BY <1>3, <2>1, <2>2
<1>6. CASE Upgraded
  <2>1. /\ conn'.joinable = conn.joinable /\ past'.log = Append(past.log, "open")
        /\ endings = {} /\ "open" \notin said
    BY <1>1, <1>6, UpgradedGoes
  <2>2. At("worker", "perform") /\ Then("worker", <<"callback", "perform">>)
        /\ lifecycle' = lifecycle
    BY <1>6 DEF Upgraded
  <2>3. /\ "perform" \in Own /\ <<"callback", "perform">> \in Becomes("perform")
        /\ 1 \in DOMAIN <<"callback", "perform">>
    BY DEF Own, Becomes
  <2>4. PICK s \in {"perform"} : s = "perform"
    OBVIOUS
  <2>5. Up' /\ ~spawning /\ ~spawning'
    BY <1>1, <2>2, <2>3, <2>4, GoesOn
  <2>6. Tells("open") /\ "open" \in Events
    BY <1>2, <2>1, <2>5 DEF Tells, Events, Held
  <2>. QED
    BY <2>6 DEF Kinds
<1>7. CASE Reporting
  <2>1. /\ conn'.joinable = conn.joinable
        /\ \/ past'.log = past.log
           \/ past'.log = Append(past.log, "error")
           \/ past'.log = Append(past.log, "remote") /\ endings = {}
           \/ /\ past'.log = Append(past.log, "local") /\ endings = {}
              /\ "request" \in said
    BY <1>1, <1>7, ReportingGoes
  <2>2. PICK s \in {"fireError", "local", "remote"} :
            /\ At("worker", s) /\ lifecycle' = lifecycle
            /\ (Then("worker", <<>>) /\ past' = past) \/ Then("worker", <<"callback">>)
    <3>1. ASSUME NEW how \in {"local", "remote"}, At("worker", how), lifecycle' = lifecycle,
                 (Then("worker", <<>>) /\ past' = past) \/ Then("worker", <<"callback">>)
          PROVE  \E s \in {"fireError", "local", "remote"} :
                    /\ At("worker", s) /\ lifecycle' = lifecycle
                    /\ (Then("worker", <<>>) /\ past' = past) \/ Then("worker", <<"callback">>)
      BY <3>1
    <3>2. CASE FireError
      BY <3>2 DEF FireError
    <3>3. CASE FireClose
      BY <3>1, <3>3 DEF FireClose
    <3>. QED
      BY <1>7, <3>2, <3>3 DEF Reporting
  <2>3. s \in Own /\ <<>> \in Becomes(s) /\ <<"callback">> \in Becomes(s)
    BY DEF Own, Becomes
  <2>4. CASE past'.log = past.log
    BY <1>3, <2>1, <2>2, <2>3, <2>4
  <2>5. CASE Then("worker", <<"callback">>)
    <3>1. Up' /\ ~spawning /\ ~spawning'
      <4>1. 1 \in DOMAIN <<"callback">>
        OBVIOUS
      <4>. QED
        BY <1>1, <2>2, <2>3, <2>5, <4>1, GoesOn
    <3>2. Held' <=> Held
      BY <2>1, <3>1 DEF Held
    <3>3. CASE past'.log = Append(past.log, "error")
      <4>1. Tells("error") /\ "error" \in Events
        BY <1>2, <3>1, <3>2, <3>3 DEF Tells, Events, Ends
      <4>. QED
        BY <4>1 DEF Kinds
    <3>4. CASE past'.log = Append(past.log, "remote") /\ endings = {}
      <4>1. Tells("remote") /\ "remote" \in Events
        BY <1>2, <3>1, <3>2, <3>4 DEF Tells, Events, Ends
      <4>. QED
        BY <4>1 DEF Kinds
    <3>5. CASE past'.log = Append(past.log, "local") /\ endings = {} /\ "request" \in said
      <4>1. Tells("local") /\ "local" \in Events
        BY <1>2, <3>1, <3>2, <3>5 DEF Tells, Events, Ends
      <4>. QED
        BY <4>1 DEF Kinds
    <3>. QED
      BY <2>1, <2>4, <3>3, <3>4, <3>5
  <2>. QED
    BY <2>2, <2>4, <2>5
<1>. QED
  BY <1>4, <1>5, <1>6, <1>7 DEF WorkerStep, Driving, Setting, Reporting

LEMMA NextKinds ==
    ASSUME Control, Records, Flow, InHand, [Next]_vars
    PROVE  Kinds
<1>1. FlowOn
  BY DEF Flow, FlowOn
<1>2. CASE WorkerStep
  BY <1>2, WorkerKinds
<1>3. ASSUME NEW t \in Threads, Step(t)
      PROVE  Kinds
  BY <1>3, StepKinds
<1>4. ASSUME NEW t \in Callers, Calling(t)
      PROVE  Kinds
  BY <1>1, <1>4, CallingGoes DEF Held, Stutters, Kinds
<1>5. CASE Spawn
  BY <1>1, <1>5, SpawnGoes DEF Held, Stutters, Kinds
<1>6. CASE Open
  BY <1>1, <1>6, OpenGoes DEF Held, Opens, Kinds
<1>7. CASE UNCHANGED vars
  BY <1>7 DEF vars, Held, Stutters, Kinds, Up, spawning, doing
<1>. QED
  BY <1>2, <1>3, <1>4, <1>5, <1>6, <1>7 DEF Next, Calling

-------------------------------------------------------------------------------
(* A worker that could not set up libcurl.                                   *)

\* What is about to store Closing holds lifecycle_mutex, and was asked for.
Pending(t) ==
    todo[t] # <<>> /\ todo[t][1] = "storeClosing" =>
        lifecycle = t /\ (Up => "request" \in said)

\* It has not opened, and is Closed, unless a close that was asked for before stored
\* Closing since.
Severed ==
    /\ mayRun({"start"}) => ~conn.open_notified
    /\ broken => ~conn.open_notified /\ (conn.state = "Closed" \/ "request" \in said)
    /\ \A t \in Threads : Pending(t)

\* It becomes like that when libcurl cannot be set up, and stays so while it runs.
Breaks == ~broken /\ broken' /\ Stutters /\ "open" \notin said
Severs ==
    /\ (broken' <=> broken) \/ ~Up' \/ Breaks
    /\ broken /\ "request" \in said' => "request" \in said

Brokenness ==
    /\ broken <=> doing("worker") # {} /\ ~mayRun(LastSteps)
    /\ broken => Up

LEMMA BrokenIs == Control => Brokenness
<1>. SUFFICES ASSUME Control PROVE Brokenness
  OBVIOUS
<1>1. todo["worker"] = <<>> <=> doing("worker") = {}
  BY UpIs DEF Upness
<1>2. broken <=> doing("worker") # {} /\ ~mayRun(LastSteps)
  BY <1>1 DEF broken, doing, mayRun
<1>. QED
  BY <1>2 DEF broken, Up, Brokenness

LEMMA BrokenNext == Control' => Brokenness'
BY BrokenIs, PTL

\* A step that leaves storeClosing to be run next is requestClose.
LEMMA HeadNext ==
    ASSUME Control, Control', NEW t \in Threads, NEW s \in CurlSteps, At(t, s), NEW steps \in Becomes(s),
           Then(t, steps), todo'[t] # <<>>, todo'[t][1] = "storeClosing"
    PROVE  s = "requestClose" /\ \E i \in DOMAIN steps : steps[i] = "storeClosing"
<1>1. PICK T \in SUBSET After(s) : doing(t)' = {steps[i] : i \in DOMAIN steps} \cup T
  BY Advance
<1>2. "storeClosing" \in doing(t)'
  <2>1. 1 \in DOMAIN todo'[t]
    <3>1. Todos'
      BY DEF Control
    <3>2. todo'[t] \in Seq(StepsOf(t))
      BY <3>1 DEF Todos
    <3>. QED
      BY <3>2
  <2>. QED
    BY <2>1 DEF doing
<1>3. "storeClosing" \notin After(s)
  BY DEF After, Rest, Flushed
<1>4. \E i \in DOMAIN steps : steps[i] = "storeClosing"
  BY <1>1, <1>2, <1>3
<1>. QED
  BY <1>4 DEF Becomes, finish, asyncClose, CurlSteps

\* Threads that do not move.
LEMMA PendingStays ==
    ASSUME NEW u, Pending(u), todo'[u] = todo[u], lifecycle = u => lifecycle' = u,
           Up' => Up, said \subseteq said'
    PROVE  Pending(u)'
BY DEF Pending

\* The worker's list, as it runs a step of its own.
LEMMA LastGoes ==
    ASSUME Control, FlowOn, NEW s \in Own, At("worker", s), NEW steps \in Becomes(s),
           Then("worker", steps), lifecycle' = lifecycle
    PROVE  /\ Control' /\ ~spawning' /\ ~mayRun({"start"})'
           /\ broken => s \notin LastSteps
           /\ broken => broken' \/ ~Up'
           /\ ~broken => ~broken' \/ (s = "start" /\ steps = <<"fireError">>)
           /\ todo'["worker"] # <<>> => todo'["worker"][1] # "storeClosing"
<1>1. "worker" \in Threads
  BY DEF Threads
<1>2. Control' /\ ~spawning' /\ (Up' <=> doing("worker")' # {})
  BY OwnStep
<1>3. PICK T \in SUBSET After(s) :
          /\ doing("worker") = {s} \cup T
          /\ doing("worker")' = {steps[i] : i \in DOMAIN steps} \cup T
  BY OwnStep
<1>4. s \in LastSteps =>
          \/ \E i \in DOMAIN steps : steps[i] \in LastSteps
          \/ s = "start" /\ steps = <<"fireError">>
          \/ s = "exit" /\ steps = <<>>
  BY DEF Becomes, LastSteps, finish, Own
<1>5. s \notin LastSteps => \A i \in DOMAIN steps : steps[i] \notin LastSteps
  BY DEF Becomes, LastSteps, Own
<1>6. (\A i \in DOMAIN steps : steps[i] # "start") /\ "start" \notin After(s)
  BY DEF Becomes, finish, Own, After, Rest, Flushed
<1>7. s = "exit" => T = {}
  BY DEF After
<1>8. /\ broken <=> doing("worker") # {} /\ ~mayRun(LastSteps)
      /\ broken' <=> doing("worker")' # {} /\ ~mayRun(LastSteps)'
  BY <1>2, BrokenIs, BrokenNext DEF Brokenness
<1>9. /\ mayRun(LastSteps) <=> \E x \in LastSteps : x = s \/ x \in T
      /\ mayRun(LastSteps)' <=>
             \E x \in LastSteps : x \in T \/ \E i \in DOMAIN steps : steps[i] = x
      /\ ~mayRun({"start"})'
  BY <1>3, <1>6 DEF mayRun
<1>10. broken => s \notin LastSteps
  BY <1>8, <1>9
<1>11. broken => broken' \/ ~Up'
  BY <1>2, <1>5, <1>8, <1>9, <1>10
<1>12. ~broken => ~broken' \/ (s = "start" /\ steps = <<"fireError">>)
  <2>. SUFFICES ASSUME ~broken, broken'
                PROVE  s = "start" /\ steps = <<"fireError">>
    OBVIOUS
  <2>1. mayRun(LastSteps) /\ ~mayRun(LastSteps)' /\ doing("worker")' # {}
    BY <1>3, <1>8
  <2>2. s \in LastSteps
    BY <1>9, <2>1
  <2>3. ~(s = "exit" /\ steps = <<>>)
    BY <1>3, <1>7, <2>1
  <2>. QED
    BY <1>4, <1>9, <2>1, <2>2, <2>3
<1>13. todo'["worker"] # <<>> => todo'["worker"][1] # "storeClosing"
  <2>1. s # "requestClose" /\ s \in CurlSteps
    BY DEF Own, CurlSteps
  <2>. QED
    BY <1>1, <1>2, <2>1, HeadNext
<1>. QED
  BY <1>2, <1>9, <1>10, <1>11, <1>12, <1>13

\* What a step of the worker does to the state.
Quietly == conn'.open_notified = conn.open_notified /\ conn'.state \in {conn.state, "Closed"}
GivesUp == conn'.state = "Closed" /\ conn'.joinable = conn.joinable /\ past'.log = past.log
Worked(s, steps) ==
    /\ At("worker", s) /\ Then("worker", steps)
    /\ s = "perform" \/ Quietly
    /\ s = "start" /\ steps = <<"fireError">> => GivesUp

LEMMA WorkerShape ==
    ASSUME Records, WorkerStep
    PROVE  lifecycle' = lifecycle /\ \E s \in Own : \E steps \in Becomes(s) : Worked(s, steps)
<1>1. lifecycle' = lifecycle
  BY DEF WorkerStep, Start, Loop, PerformReturns, Upgraded, DataArrives, CloseArrives, Flush,
         SendDirect, Requeue, Poll, Cleanup, Conclude, Exit, FireError, FireClose, OnlyTodo,
         OnlyConn, OnlyWire
<1>2. ASSUME Bare, ~Start
      PROVE  \E s \in Own : \E steps \in Becomes(s) : Worked(s, steps)
  <2>1. PICK s \in Own \ {"flush", "sendDirect", "requeue"} :
            At("worker", s) /\ \E steps \in Becomes(s) : Then("worker", steps)
    BY <1>2, BareSteps
  <2>2. PICK steps \in Becomes(s) : Then("worker", steps)
    BY <2>1
  <2>3. s = "perform" \/ Quietly
    <3>1. CASE PerformReturns \/ Upgraded \/ DataArrives \/ CloseArrives
      BY <2>1, <3>1 DEF PerformReturns, Upgraded, DataArrives, CloseArrives, At
    <3>2. CASE Loop \/ Poll \/ Conclude
      BY <3>2 DEF Loop, Poll, Conclude, OnlyTodo, Quietly
    <3>3. CASE Cleanup \/ Exit
      BY <3>3 DEF Cleanup, Exit, Records, Conns, Quietly
    <3>4. CASE FireError \/ FireClose
      BY <3>4 DEF FireError, FireClose, Records, Conns, Quietly
    <3>. QED
      BY <1>2, <3>1, <3>2, <3>3, <3>4 DEF Bare
  <2>4. s # "start"
    <3>1. CASE PerformReturns \/ Upgraded \/ DataArrives \/ CloseArrives
      BY <2>1, <3>1 DEF PerformReturns, Upgraded, DataArrives, CloseArrives, At
    <3>2. CASE Loop \/ Poll \/ Conclude
      BY <2>1, <3>2 DEF Loop, Poll, Conclude, At
    <3>3. CASE Cleanup \/ Exit
      BY <2>1, <3>3 DEF Cleanup, Exit, At
    <3>4. CASE FireError \/ FireClose
      BY <2>1, <3>4 DEF FireError, FireClose, At
    <3>. QED
      BY <1>2, <3>1, <3>2, <3>3, <3>4 DEF Bare
  <2>. QED
    BY <2>1, <2>2, <2>3, <2>4 DEF Worked
<1>3. CASE Start
  <2>1. At("worker", "start") /\ "start" \in Own /\ past' = past
    BY <1>3 DEF Start, Own, OnlyConn
  <2>2. CASE Then("worker", <<"loop">>) /\ conn' = conn
    <3>1. <<"loop">> \in Becomes("start") /\ <<"loop">> # <<"fireError">>
      BY DEF Becomes
    <3>2. Worked("start", <<"loop">>)
      BY <2>1, <2>2, <3>1 DEF Worked, Quietly
    <3>. QED
      BY <1>1, <2>1, <3>1, <3>2
  <2>3. CASE /\ Then("worker", <<"fireError">>)
             /\ conn' = [conn EXCEPT !.running = FALSE, !.state = "Closed"]
    <3>1. /\ conn'.state = "Closed" /\ conn'.joinable = conn.joinable
          /\ conn'.open_notified = conn.open_notified
      BY <2>3 DEF Records, Conns
    <3>2. <<"fireError">> \in Becomes("start")
      BY DEF Becomes
    <3>3. Worked("start", <<"fireError">>)
      BY <2>1, <2>3, <3>1 DEF Worked, Quietly, GivesUp
    <3>. QED
      BY <1>1, <2>1, <3>2, <3>3
  <2>. QED
    BY <1>3, <2>2, <2>3 DEF Start
<1>4. CASE Flush \/ SendDirect \/ Requeue
  <2>1. Quietly
    BY <1>4 DEF Flush, SendDirect, Requeue, OnlyWire, Quietly
  <2>2. ASSUME NEW s \in Own, At("worker", s), s # "start", NEW steps \in Becomes(s),
               Then("worker", steps)
        PROVE  Worked(s, steps)
    BY <2>1, <2>2 DEF Worked
  <2>3. CASE Flush
    <3>1. "flush" \in Own /\ \E steps \in Becomes("flush") : Then("worker", steps)
      BY <2>3 DEF Flush, Becomes, Own
    <3>. QED
      BY <1>1, <2>2, <2>3, <3>1 DEF Flush
  <2>4. CASE SendDirect
    <3>1. "sendDirect" \in Own /\ \E steps \in Becomes("sendDirect") : Then("worker", steps)
      BY <2>4 DEF SendDirect, Becomes, Own
    <3>. QED
      BY <1>1, <2>2, <2>4, <3>1 DEF SendDirect
  <2>5. CASE Requeue
    <3>1. "requeue" \in Own /\ \E steps \in Becomes("requeue") : Then("worker", steps)
      BY <2>5 DEF Requeue, Becomes, Own
    <3>. QED
      BY <1>1, <2>2, <2>5, <3>1 DEF Requeue
  <2>. QED
    BY <1>4, <2>3, <2>4, <2>5
<1>. QED
  BY <1>1, <1>2, <1>3, <1>4 DEF WorkerStep, Bare

\* No close is asked for by a step of the worker's own.
LEMMA WorkerSaid ==
    ASSUME Control, Records, Flow, InHand, WorkerStep, "request" \in said'
    PROVE  "request" \in said
<1>1. FlowOn
  BY DEF Flow, FlowOn
<1>2. \/ past'.log = past.log
      \/ \E e \in Events \ {"request"} : past'.log = Append(past.log, e)
  <2>1. {"open", "error", "local", "remote"} \subseteq Events \ {"request"}
    BY DEF Events, Ends
  <2>. QED
    BY <1>1, <2>1, DrivingGoes, SettingGoes, UpgradedGoes, ReportingGoes
       DEF WorkerStep, Driving, Setting, Reporting
<1>3. CASE past'.log = past.log
  BY <1>3 DEF said
<1>4. ASSUME NEW e \in Events \ {"request"}, past'.log = Append(past.log, e)
      PROVE  "request" \in said
  <2>1. said' = said \cup {e}
    BY <1>4, Says
  <2>. QED
    BY <2>1
<1>. QED
  BY <1>2, <1>3, <1>4

LEMMA SeveredWorker ==
    ASSUME Control, Records, Flow, InHand, Severed, WorkerStep
    PROVE  Severed' /\ Severs
<1>1. /\ FlowOn /\ Closers /\ "worker" \in Threads
      /\ lifecycle' = lifecycle /\ ("request" \in said' => "request" \in said)
  BY WorkerShape, WorkerSaid DEF Flow, FlowOn, Threads
<1>2. Goes /\ Up
  BY <1>1, WorkerGoes
<1>a. PICK s \in Own : \E steps \in Becomes(s) : Worked(s, steps)
  BY WorkerShape
<1>3. PICK steps \in Becomes(s) : Worked(s, steps)
  BY <1>a
<1>4. /\ At("worker", s) /\ Then("worker", steps) /\ (s = "perform" \/ Quietly)
      /\ s = "start" /\ steps = <<"fireError">> => GivesUp
  BY <1>3 DEF Worked
<1>5. /\ Control' /\ ~spawning' /\ ~mayRun({"start"})'
      /\ broken => s \notin LastSteps
      /\ broken => broken' \/ ~Up'
      /\ ~broken => ~broken' \/ (s = "start" /\ steps = <<"fireError">>)
      /\ todo'["worker"] # <<>> => todo'["worker"][1] # "storeClosing"
  BY <1>1, <1>4, LastGoes
<1>7. \A u \in Threads : Pending(u)'
  <2>1. Pending("worker")'
    BY <1>5 DEF Pending
  <2>2. ASSUME NEW u \in Threads, u # "worker"
        PROVE  Pending(u)'
    <3>1. todo'[u] = todo[u]
      BY <1>1, <1>4, <2>2, Advance
    <3>2. Pending(u) /\ (Up' => Up) /\ said \subseteq said'
      BY <1>2 DEF Severed, Goes, Milder
    <3>. QED
      BY <1>1, <3>1, <3>2, PendingStays
  <2>. QED
    BY <2>1, <2>2
<1>6. CASE ~broken /\ s = "start" /\ steps = <<"fireError">>
  <2>1. Quietly /\ GivesUp /\ ~conn.open_notified
    <3>1. mayRun({"start"})
      <4>1. "start" \in doing("worker")
        BY <1>1, <1>4, <1>6, Advance
      <4>. QED
        BY <4>1 DEF mayRun
    <3>. QED
      BY <1>4, <1>6, <3>1 DEF Severed
  <2>2. "open" \notin said
    BY <1>1, <2>1 DEF FlowOn, Log
  <2>3. ~spawning /\ (Held' <=> Held)
    BY <1>1, <1>4, <1>5, <2>1, OwnStep DEF Held, GivesUp
  <2>4. broken' => Up'
    BY <1>5, BrokenNext DEF Brokenness
  <2>5. Severs
    <3>1. broken' => Breaks
      BY <1>2, <1>6, <2>1, <2>2, <2>3, <2>4 DEF Breaks, Stutters, GivesUp
    <3>. QED
      BY <1>6, <3>1 DEF Severs
  <2>6. ~conn'.open_notified /\ conn'.state = "Closed"
    BY <2>1 DEF Quietly, GivesUp
  <2>. QED
    BY <1>5, <1>7, <2>5, <2>6 DEF Severed
<1>8. CASE ~(~broken /\ s = "start" /\ steps = <<"fireError">>)
  <2>1. broken' => broken
    BY <1>5, <1>8
  <2>2. Severs
    BY <1>1, <1>5, <2>1 DEF Severs
  <2>3. broken => ~conn'.open_notified /\ (conn'.state = "Closed" \/ "request" \in said')
    <3>1. broken => Quietly
      BY <1>4, <1>5 DEF LastSteps
    <3>2. said \subseteq said'
      BY <1>2 DEF Goes, Milder
    <3>. QED
      BY <3>1, <3>2 DEF Severed, Quietly
  <2>. QED
    BY <1>5, <1>7, <2>1, <2>2, <2>3 DEF Severed
<1>. QED
  BY <1>6, <1>8

\* A thread that stands at the end of a close holds lifecycle_mutex.
LEMMA Holder ==
    ASSUME Control, NEW t \in Threads, NEW s \in {"requestClose", "unlock"}, At(t, s)
    PROVE  lifecycle = t
<1>1. 1 \in DOMAIN todo[t] /\ todo[t][1] = s
  BY Indices DEF At, Control
<1>2. \A j \in DOMAIN todo[t] : ~(j < 1)
  BY Indices DEF Control
<1>. QED
  BY <1>1, <1>2 DEF Control, Locked, Guarded

LEMMA StepState ==
    ASSUME Records, NEW t \in Threads, Step(t)
    PROVE  /\ conn'.open_notified = conn.open_notified
           /\ conn'.state \in {conn.state, "Closed"} \/ At(t, "storeClosing")
           /\ \A u \in Threads : lifecycle = u => lifecycle' = u \/ At(t, "unlock")
           /\ At(t, "requestClose") => RequestClose(t)
           /\ At(t, "requestClose") => lifecycle' = lifecycle
<1>1. CASE Push(t) \/ Callback(t)
  BY <1>1 DEF Push, Callback, OnlyWire, At
<1>2. CASE Lock(t) \/ Unlock(t)
  BY <1>2, CurlAssumption DEF Lock, Unlock, OnlyLock, At, Threads
<1>3. CASE RequestClose(t)
  BY <1>3 DEF RequestClose, Records, Conns
<1>4. CASE StoreClosing(t)
  BY <1>4 DEF StoreClosing, Records, Conns, At
<1>5. CASE StoreAbort(t) \/ Join(t)
  BY <1>5 DEF StoreAbort, Join, OnlyConn, Records, Conns, At
<1>6. CASE Settle(t)
  BY <1>6 DEF Settle, Records, Conns, At
<1>. QED
  BY <1>1, <1>2, <1>3, <1>4, <1>5, <1>6 DEF Step

\* The log, when a thread takes a step of a list.
LEMMA StepSaid ==
    ASSUME Control, Records, Flow, NEW t \in Threads, Step(t), broken,
           conn.state = "Closed" \/ "request" \in said, "request" \in said'
    PROVE  "request" \in said
<1>1. FlowOn /\ CloserOf(t)
  BY DEF Flow, FlowOn, Closers
<1>2. ASSUME past'.log = past.log
      PROVE  "request" \in said
  BY <1>2 DEF said
<1>3. CASE Push(t) \/ Lock(t) \/ Unlock(t) \/ Callback(t) \/ StoreClosing(t) \/ StoreAbort(t)
           \/ Join(t)
  <2>1. past'.log = past.log
    BY <1>3 DEF Push, Lock, Unlock, Callback, StoreClosing, StoreAbort, Join, OnlyWire, OnlyLock,
                OnlyConn, Queued, Records, Pasts
  <2>. QED
    BY <1>2, <2>1
<1>4. CASE RequestClose(t)
  <2>1. conn.state = "Closed" => past'.log = past.log
    BY <1>4 DEF RequestClose
  <2>. QED
    BY <1>2, <2>1
<1>5. CASE Settle(t)
  <2>1. past'.log = past.log \/ past'.log = Append(past.log, "local")
    BY <1>1, <1>5, SettleGoes
  <2>2. CASE past'.log = Append(past.log, "local")
    <3>1. "local" \in Events
      BY DEF Events, Ends
    <3>2. said' = said \cup {"local"}
      BY <2>2, <3>1, Says
    <3>. QED
      BY <3>2
  <2>. QED
    BY <1>2, <2>1, <2>2
<1>. QED
  BY <1>3, <1>4, <1>5 DEF Step

LEMMA SeveredStep ==
    ASSUME Control, Records, Flow, InHand, Severed, NEW t \in Threads, Step(t)
    PROVE  Severed' /\ Severs
<1>1. FlowOn /\ Closers /\ CloserOf(t) /\ "worker" \in Threads
  BY DEF Flow, FlowOn, Closers, Threads
<1>2. Control' /\ FlowOn' /\ (Up' => Up) /\ said \subseteq said'
  BY <1>1, StepGoes DEF Goes, Milder
<1>3. PICK s \in Asked \cup {"join", "settle"} :
          At(t, s) /\ \E steps \in Becomes(s) : Then(t, steps)
  BY StepRuns
<1>4. PICK steps \in Becomes(s) : Then(t, steps)
  BY <1>3
<1>5. Apart /\ (spawning' <=> spawning) /\ \A u \in Threads : u # t => todo'[u] = todo[u]
  BY <1>3, <1>4, AskedApart, Advance
<1>6. /\ mayRun(LastSteps)' <=> mayRun(LastSteps)
      /\ mayRun({"start"})' <=> mayRun({"start"})
      /\ doing("worker")' # {} => doing("worker") # {}
  BY <1>5, ApartMay DEF LastSteps, Own, Apart
<1>7. /\ broken' => broken
      /\ broken => broken' \/ ~Up'
  <2>1. broken => ~spawning'
    BY <1>1, <1>5, BrokenIs DEF Brokenness, FlowOn, Life
  <2>. QED
    BY <1>2, <1>6, <2>1, BrokenIs, BrokenNext, UpNext DEF Brokenness, Upness
<1>8. broken /\ "request" \in said' => "request" \in said
  BY StepSaid DEF Severed
<1>9. Severs
  BY <1>7, <1>8 DEF Severs
<1>10. broken => ~conn'.open_notified /\ (conn'.state = "Closed" \/ "request" \in said')
  <2>1. At(t, "storeClosing") /\ broken => "request" \in said
    <3>1. At(t, "storeClosing") => todo[t] # <<>> /\ todo[t][1] = "storeClosing"
      BY Indices DEF At, Control
    <3>. QED
      BY <3>1, BrokenIs DEF Severed, Pending, Brokenness
  <2>. QED
    BY <1>2, <2>1, StepState DEF Severed
<1>11. ASSUME NEW u \in Threads, u # t
       PROVE  Pending(u)'
  <2>1. lifecycle = u => lifecycle' = u
    <3>1. At(t, "unlock") => lifecycle = t
      BY Holder
    <3>. QED
      BY <1>11, <3>1, StepState
  <2>. QED
    BY <1>2, <1>5, <1>11, <2>1, PendingStays DEF Severed
<1>12. Pending(t)'
  <2>. SUFFICES ASSUME todo'[t] # <<>>, todo'[t][1] = "storeClosing"
                PROVE  lifecycle' = t /\ (Up' => "request" \in said')
    BY DEF Pending
  <2>1. s = "requestClose" /\ s \in CurlSteps
    <3>1. s \in CurlSteps
      BY DEF Asked, CurlSteps
    <3>. QED
      BY <1>2, <1>3, <1>4, <3>1, HeadNext
  <2>2. RequestClose(t) /\ lifecycle' = lifecycle /\ lifecycle = t
    BY <1>3, <2>1, StepState, Holder
  <2>3. conn.state # "Closed"
    <3>1. ASSUME conn.state = "Closed"
          PROVE  FALSE
      <4>1. Then(t, <<>>) /\ <<>> \in Becomes(s)
        BY <2>1, <2>2, <3>1 DEF RequestClose, Becomes
      <4>2. \E i \in DOMAIN <<>> : <<>>[i] = "storeClosing"
        BY <1>2, <1>3, <2>1, <4>1, HeadNext
      <4>. QED
        BY <4>2
    <3>. QED
      BY <3>1
  <2>. QED
    BY <1>1, <1>2, <2>2, <2>3, RequestGoes
<1>. QED
  BY <1>6, <1>7, <1>9, <1>10, <1>11, <1>12, StepState DEF Severed

LEMMA SeveredNext ==
    ASSUME Control, Records, Flow, InHand, Severed, [Next]_vars
    PROVE  Severed' /\ Severs
<1>1. FlowOn /\ "worker" \in Threads /\ Opener \in Threads /\ Opener # "worker"
  BY CurlAssumption DEF Flow, FlowOn, Threads
<1>2. Control'
  BY FlowNext
\* A step in which nothing of all that changes.
<1>3. ASSUME doing("worker")' = doing("worker"), conn' = conn, past'.log = past.log,
             lifecycle' = lifecycle, Up' <=> Up, \A u \in Threads : Pending(u)'
      PROVE  Severed' /\ Severs
  <2>1. said' = said
    BY <1>3 DEF said
  <2>2. broken' <=> broken
    <3>1. mayRun(LastSteps)' <=> mayRun(LastSteps)
      BY <1>3 DEF mayRun
    <3>. QED
      BY <1>2, <1>3, <3>1, BrokenIs, BrokenNext DEF Brokenness
  <2>3. mayRun({"start"})' <=> mayRun({"start"})
    BY <1>3 DEF mayRun
  <2>. QED
    BY <1>3, <2>1, <2>2, <2>3 DEF Severed, Severs
<1>4. CASE Open
  <2>1. /\ doing("worker") = {} /\ doing("worker")' = {} /\ todo'[Opener] = <<"spawn">>
        /\ \A u \in Threads : u # Opener => todo'[u] = todo[u]
    BY <1>1, <1>4, OpenGoes
  <2>2. ~broken /\ ~broken' /\ ~mayRun({"start"})'
    BY <1>2, <2>1, BrokenIs, BrokenNext DEF Brokenness, mayRun
  <2>3. ASSUME NEW u \in Threads
        PROVE  Pending(u)'
    <3>1. CASE u = Opener
      BY <2>1, <3>1 DEF Pending
    <3>2. CASE u # Opener
      <4>1. lifecycle = "none" /\ u # "none"
        BY <1>4, CurlAssumption DEF Open, Threads
      <4>. QED
        BY <2>1, <3>2, <4>1 DEF Severed, Pending
    <3>. QED
      BY <3>1, <3>2
  <2>. QED
    BY <2>2, <2>3 DEF Severed, Severs
<1>5. CASE Spawn
  <2>1. /\ doing("worker")' = {"start"} /\ doing("worker") = {} /\ past'.log = past.log /\ Up
        /\ todo'["worker"] = <<"start">> /\ todo'[Opener] = <<>> /\ spawning
        /\ \A u \in Threads : u \notin {Opener, "worker"} => todo'[u] = todo[u]
    BY <1>1, <1>5, SpawnGoes, UpIs DEF Upness
  <2>2. /\ conn'.open_notified = conn.open_notified /\ lifecycle' = lifecycle
        /\ ~conn.open_notified /\ said' = said
    BY <1>1, <1>5, <2>1 DEF Spawn, OnlyConn, Records, Conns, FlowOn, Life, said
  <2>3. ~broken /\ ~broken'
    <3>1. mayRun(LastSteps)'
      BY <2>1 DEF mayRun, LastSteps
    <3>. QED
      BY <1>2, <2>1, <3>1, BrokenIs, BrokenNext DEF Brokenness
  <2>4. \A u \in Threads : Pending(u)'
    BY <2>1, <2>2 DEF Severed, Pending
  <2>. QED
    BY <2>2, <2>3, <2>4 DEF Severed, Severs
<1>6. CASE WorkerStep
  BY <1>6, SeveredWorker
<1>7. ASSUME NEW t \in Callers, Calling(t)
      PROVE  Severed' /\ Severs
  <2>1. /\ doing("worker")' = doing("worker") /\ conn' = conn /\ past'.log = past.log
        /\ (Up' <=> Up) /\ todo'[t][1] \in {"push", "lock"}
        /\ \A u \in Threads : u # t => todo'[u] = todo[u]
    BY <1>1, <1>7, CallingGoes
  <2>2. lifecycle' = lifecycle /\ said' = said
    BY <1>7, <2>1 DEF Calling, Send, CloseAsync, Close, said
  <2>3. \A u \in Threads : Pending(u)'
    BY <2>1, <2>2 DEF Severed, Pending
  <2>. QED
    BY <1>3, <2>1, <2>2, <2>3
<1>8. ASSUME NEW t \in Threads, Step(t)
      PROVE  Severed' /\ Severs
  BY <1>8, SeveredStep
<1>9. CASE UNCHANGED vars
  <2>1. conn' = conn /\ past' = past /\ todo' = todo /\ lifecycle' = lifecycle
    BY <1>9 DEF vars
  <2>2. doing("worker")' = doing("worker") /\ (Up' <=> Up) /\ said' = said
    BY <2>1 DEF doing, Up, said
  <2>3. \A u \in Threads : Pending(u)'
    BY <2>1, <2>2 DEF Severed, Pending
  <2>. QED
    BY <1>3, <2>1, <2>2, <2>3
<1>. QED
  BY <1>4, <1>5, <1>6, <1>7, <1>8, <1>9 DEF Next, Calling

-------------------------------------------------------------------------------
(* The invariant.                                                            *)

\* The last event that says how the socket stands, and the first end.
LastMark == marks # {} => \E m \in marks : \A i \in marks : m >= i
FirstEnd == endings # {} => \E m \in endings : \A i \in endings : m <= i

\* Only an event changes what the log holds.
LEMMA LogSame ==
    ASSUME past'.log = past.log
    PROVE  said' = said /\ endings' = endings /\ marks' = marks
BY DEF said, endings, marks

LEMMA LogEmpty ==
    ASSUME past'.log = <<>>
    PROVE  said' = {} /\ endings' = {} /\ marks' = {}
<1>1. DOMAIN past'.log = {}
  OBVIOUS
<1>. QED
  BY <1>1 DEF said, endings, marks

LEMMA LogGrows ==
    ASSUME Records, Kinds
    PROVE  \/ past'.log = past.log \/ past'.log = <<>>
           \/ \E e \in Events : /\ past'.log = Append(past.log, e)
                                /\ e \in {"local", "remote"} => endings = {}
<1>1. ASSUME NEW e \in Events, Tells(e)
      PROVE  past'.log = Append(past.log, e) /\ (e \in {"local", "remote"} => endings = {})
  BY <1>1 DEF Tells
<1>2. "local" \in Events
  BY DEF Events, Ends
<1>. QED
  BY <1>1, <1>2 DEF Kinds, Stutters, Leaves, Joins, Settles, Opens

LEMMA FirstLast ==
    ASSUME Records, LastMark, FirstEnd, Kinds
    PROVE  LastMark' /\ FirstEnd'
<1>1. CASE past'.log = past.log
  BY <1>1, LogSame DEF LastMark, FirstEnd
<1>2. CASE past'.log = <<>>
  BY <1>2, LogEmpty DEF LastMark, FirstEnd
<1>3. ASSUME NEW e \in Events, past'.log = Append(past.log, e)
      PROVE  LastMark' /\ FirstEnd'
  <2> DEFINE n == Len(past.log) + 1
  <2>1. /\ n \in Nat
        /\ \A i \in endings \cup marks : i \in Nat /\ i < n
        /\ endings' = IF e \in Ends THEN endings \cup {n} ELSE endings
        /\ marks' = IF e \in {"open", "request"} THEN marks \cup {n} ELSE marks
    BY <1>3, Says
  <2>. HIDE DEF n
  <2>2. LastMark'
    <3>1. CASE e \in {"open", "request"}
      <4>1. n \in marks' /\ \A i \in marks' : n >= i
        BY <2>1, <3>1
      <4>. QED
        BY <4>1 DEF LastMark
    <3>2. CASE e \notin {"open", "request"}
      BY <2>1, <3>2 DEF LastMark
    <3>. QED
      BY <3>1, <3>2
  <2>3. FirstEnd'
    <3>1. CASE e \in Ends /\ endings = {}
      <4>1. endings' = {n}
        BY <2>1, <3>1
      <4>2. n <= n
        BY <2>1
      <4>. QED
        BY <4>1, <4>2 DEF FirstEnd
    <3>2. CASE e \in Ends /\ endings # {}
      <4>1. PICK m \in endings : \A i \in endings : m <= i
        BY <3>2 DEF FirstEnd
      <4>2. m \in endings' /\ \A i \in endings' : m <= i
        BY <2>1, <3>2, <4>1
      <4>. QED
        BY <4>2 DEF FirstEnd
    <3>3. CASE e \notin Ends
      BY <2>1, <3>3 DEF FirstEnd
    <3>. QED
      BY <3>1, <3>2, <3>3
  <2>. QED
    BY <2>2, <2>3
<1>. QED
  BY <1>1, <1>2, <1>3, LogGrows

LEMMA OneCloseNext ==
    ASSUME Records, OneClose, Kinds
    PROVE  OneClose'
<1>1. CASE past'.log = past.log
  BY <1>1 DEF OneClose
<1>2. CASE past'.log = <<>>
  <2>1. DOMAIN past'.log = {}
    BY <1>2
  <2>. QED
    BY <2>1 DEF OneClose
<1>3. ASSUME NEW e \in Events, past'.log = Append(past.log, e),
             e \in {"local", "remote"} => endings = {}
      PROVE  OneClose'
  <2> DEFINE n == Len(past.log) + 1
  <2>1. n \in Nat /\ past'.log[n] = e /\ \A i \in DOMAIN past.log : past'.log[i] = past.log[i]
    BY <1>3, Says
  <2>2. past.log \in Seq(Events) /\ DOMAIN past.log = 1..Len(past.log) /\ Len(past.log) \in Nat
    BY PastReads, LenProperties
  <2>3. DOMAIN past'.log = 1..n
    <3>1. past'.log \in Seq(Events) /\ Len(past'.log) = n
      BY <1>3, <2>2, AppendProperties
    <3>. QED
      BY <3>1, LenProperties
  <2>4. \A i \in DOMAIN past'.log : i = n \/ i \in DOMAIN past.log
    BY <2>2, <2>3
  <2>5. \A i, j \in DOMAIN past'.log : i < j => i \in DOMAIN past.log
    BY <2>2, <2>3
  <2>. HIDE DEF n
  <2>6. SUFFICES ASSUME NEW i \in DOMAIN past'.log, NEW j \in DOMAIN past'.log,
                        i < j, past'.log[i] \in Ends
                 PROVE  past'.log[j] \notin {"local", "remote"}
    BY DEF OneClose
  <2>7. i \in DOMAIN past.log /\ past.log[i] \in Ends
    BY <2>1, <2>5, <2>6
  <2>8. CASE j = n
    BY <1>3, <2>1, <2>7, <2>8 DEF endings
  <2>9. CASE j \in DOMAIN past.log
    BY <2>1, <2>6, <2>7, <2>9 DEF OneClose
  <2>. QED
    BY <2>4, <2>8, <2>9
<1>. QED
  BY <1>1, <1>2, <1>3, LogGrows

\* What holds of a WebSocket at all times.
Inv ==
    /\ Control /\ Records /\ Flow /\ InHand /\ Frames /\ WireInOrder
    /\ LastMark /\ FirstEnd /\ OneClose /\ Severed

LEMMA InitInv == Init => Inv
<1>. SUFFICES ASSUME Init PROVE Inv
  OBVIOUS
<1>1. /\ todo = [t \in Threads |-> <<>>] /\ lifecycle = "none" /\ rc = "none"
      /\ sendq = <<>> /\ hand = <<>>
      /\ rx = [buf |-> <<>>, expected |-> 0]
      /\ peer = [frame |-> 1, offset |-> 0, close |-> 0]
      /\ past = [log |-> <<>>, wire |-> <<>>, pushed |-> <<>>, received |-> <<>>,
                 opens |-> 0, closes |-> 0, sends |-> 0]
      /\ conn = [state |-> "Closed", running |-> FALSE, abort |-> FALSE, joinable |-> FALSE,
                 open_notified |-> FALSE, error_reported |-> FALSE, close_called |-> FALSE,
                 local_close_requested |-> FALSE]
  BY DEF Init
<1>2. Parts \in Nat /\ 0 < Parts /\ Opener \in Threads /\ "worker" \in Threads
  BY CurlAssumption DEF Threads
<1>3. \A t \in Threads : todo[t] = <<>> /\ DOMAIN todo[t] = {}
  BY <1>1
<1>4. Todos
  <2>1. \A S : <<>> \in Seq(S)
    OBVIOUS
  <2>. QED
    BY <1>1, <1>3, <2>1 DEF Todos
<1>5. Control
  BY <1>3, <1>4 DEF Control, Ordered, Neighbours, Locked
<1>6. Records
  <2>1. conn \in Conns
    BY <1>1 DEF Conns
  <2>2. rx \in [buf : Seq(Nat \X Nat), expected : 0..Parts]
        /\ peer \in [frame : Nat, offset : 0..Parts, close : 0..Parts]
    BY <1>1, <1>2
  <2>3. past \in Pasts
    BY <1>1 DEF Pasts
  <2>4. sendq \in Seq(Items) /\ hand \in Seq(Items)
    BY <1>1
  <2>. QED
    BY <1>1, <2>1, <2>2, <2>3, <2>4 DEF Records
<1>7. doing("worker") = {} /\ ~spawning
  BY <1>2, <1>3 DEF doing, spawning
<1>8. DOMAIN past.log = {}
  BY <1>1
<1>9. said = {} /\ endings = {} /\ marks = {}
  BY <1>8 DEF said, endings, marks
<1>10. Flow
  <2>1. \A S : ~mayRun(S)
    BY <1>7 DEF mayRun
  <2>2. Life /\ Log
    BY <1>1, <1>7, <1>9 DEF Life, Log
  <2>3. ~MayPerform /\ ~Concluding
    BY <1>7, <2>1 DEF MayPerform, Concluding
  <2>4. Quiet /\ Requested
    BY <1>1, <2>1, <2>3 DEF Quiet, Requested
  <2>5. Closers
    BY <1>3 DEF Closers, CloserOf
  <2>. QED
    BY <2>2, <2>4, <2>5 DEF Flow
<1>11. InHand
  BY <1>1, <1>7 DEF InHand, mayRun
<1>12. Frames
  BY <1>1, <1>2 DEF Frames, Delivered, DeliveredWhole
<1>13. LastMark /\ FirstEnd /\ OneClose
  BY <1>8, <1>9 DEF LastMark, FirstEnd, OneClose
<1>14. WireInOrder
  <2>1. CloseFrame \in Items /\ <<>> \in Seq(Items)
    BY <1>2 DEF CloseFrame, Items
  <2>2. allPieces(<<>>) = <<>>
    BY <2>1, AllPieces
  <2>3. past.wire = <<>> /\ past.pushed = <<>> /\ hand = <<>> /\ sendq = <<>>
    BY <1>1
  <2>4. <<>> \o <<>> = <<>>
    BY <2>1, ConcatEmptySeq
  <2>. QED
    BY <2>2, <2>3, <2>4 DEF WireInOrder
<1>15. Severed
  <2>1. ~mayRun({"start"}) /\ ~broken
    BY <1>5, <1>7, BrokenIs DEF Brokenness, mayRun
  <2>. QED
    BY <1>3, <2>1 DEF Severed, Pending
<1>. QED
  BY <1>5, <1>6, <1>10, <1>11, <1>12, <1>13, <1>14, <1>15 DEF Inv

LEMMA InvNext == Inv /\ [Next]_vars => Inv'
<1>. SUFFICES ASSUME Inv, [Next]_vars PROVE Inv'
  OBVIOUS
<1>1. Control' /\ Flow'
  BY FlowNext DEF Inv
<1>2. Records' /\ Frames'
  BY RecordsNext DEF Inv
<1>3. InHand'
  BY InHandNext DEF Inv
<1>4. LastMark' /\ FirstEnd' /\ OneClose'
  BY NextKinds, FirstLast, OneCloseNext DEF Inv
<1>5. WireInOrder'
  BY <1>2, NextMoves, WireNext DEF Inv
<1>6. Severed'
  BY SeveredNext DEF Inv
<1>. QED
  BY <1>1, <1>2, <1>3, <1>4, <1>5, <1>6 DEF Inv

LEMMA InvHolds == Spec => []Inv
<1>. QED
  BY InitInv, InvNext, PTL DEF Spec

-------------------------------------------------------------------------------
\* Every variable of a WebSocket is of its type, whichever threads use it.
THEOREM TypeCorrect == Spec => []TypeOK
<1>1. Inv => TypeOK
  <2>. SUFFICES ASSUME Inv PROVE TypeOK
    OBVIOUS
  <2>1. /\ todo \in [Threads -> Seq(CurlSteps)]
        /\ rx.buf \in Seq(Nat \X Nat) /\ rx.expected \in 0..Parts
        /\ Len(hand) <= 1 /\ past.log \in Seq(Events)
    BY PastReads DEF Inv, Control, Todos, Records, InHand
  <2>. QED
    BY <2>1 DEF Inv, Records, TypeOK
<1>. QED
  BY <1>1, InvHolds, PTL

\* on_close comes at most once per open, and never after on_error, whoever closes
\* and however often (OneClose).
THEOREM OneCloseCorrect == Spec => []OneClose
<1>1. Inv => OneClose
  BY DEF Inv
<1>. QED
  BY <1>1, InvHolds, PTL

\* What libcurl took is what was queued, in that order and each piece once, whoever queues
\* meanwhile and however little libcurl takes (WireInOrder).
THEOREM WireInOrderCorrect == Spec => []WireInOrder
<1>1. Inv => WireInOrder
  BY DEF Inv
<1>. QED
  BY <1>1, InvHolds, PTL

\* A worker that is gone has reported how, whatever ended it (EndIsReported).
THEOREM EndIsReportedCorrect == Spec => []EndIsReported
<1>1. Inv => EndIsReported
  BY UpIs DEF Inv, Flow, Life, mayRun, Upness, EndIsReported
<1>. QED
  BY <1>1, InvHolds, PTL

\* on_recv gets whole frames, in order, in each connection of a socket (DeliveredWhole).
THEOREM DeliveredWholeCorrect == Spec => []DeliveredWhole
<1>1. Inv => DeliveredWhole
  BY DEF Inv, Frames
<1>. QED
  BY <1>1, InvHolds, PTL

-------------------------------------------------------------------------------
(* A WebSocket is a Transport.                                               *)

\* The transport as IsTransport reads it.
held == conn.joinable \/ todo[Opener] = << "spawn" >>
sock == [state |-> shown, alive |-> Up, joinable |-> held, stop |-> "request" \in said,
         notified |-> "open" \in said, reported |-> endings # {}]
heard == IF endings # {} THEN past.log[Min(endings)]
         ELSE IF "open" \in said THEN "open" ELSE "none"

Sock(st, up, had, stop, notified, reported) ==
    [state |-> st, alive |-> up, joinable |-> had, stop |-> stop, notified |-> notified,
     reported |-> reported]
Yes == TRUE
No == FALSE
Reported(s) == [s EXCEPT !.reported = TRUE]

\* What becomes of it.
LEMMA SockSteps ==
    ASSUME NEW st, NEW up, NEW had, NEW stop, NEW notified, NEW reported
    PROVE  LET s == Sock(st, up, had, stop, notified, reported)
           IN  /\ s.state = st /\ s.alive = up /\ s.joinable = had /\ s.stop = stop
               /\ s.notified = notified /\ s.reported = reported
               /\ Seen!Ended(s) = Sock("Closed", No, had, stop, notified, reported)
               /\ Seen!Joined(s) = Sock("Closed", up, No, stop, notified, Yes)
               /\ st # "Closed" =>
                      Seen!CloseRequested(s) = Sock("Closing", up, had, Yes, notified, reported)
               /\ Seen!Broken(s) = Sock("Closed", up, had, stop, notified, reported)
               /\ Seen!OpenedUp(s) = Sock("Open", up, had, stop, Yes, reported)
               /\ Reported(s) = Sock(st, up, had, stop, notified, Yes)
<1>1. PICK s : s = Sock(st, up, had, stop, notified, reported)
  OBVIOUS
<1>2. /\ s.state = st /\ s.alive = up /\ s.joinable = had /\ s.stop = stop
      /\ s.notified = notified /\ s.reported = reported
  BY <1>1 DEF Sock
<1>3. Seen!Ended(s) = Sock("Closed", No, had, stop, notified, reported)
  <2>1. PICK r : r = [s EXCEPT !.alive = No]
    OBVIOUS
  <2>2. r = Sock(st, No, had, stop, notified, reported)
    BY <1>1, <2>1 DEF Sock
  <2>3. Seen!Ended(s) = [r EXCEPT !.state = "Closed"]
    BY <2>1 DEF Seen!Ended, No
  <2>. QED
    BY <2>2, <2>3 DEF Sock
<1>4. Seen!Joined(s) = Sock("Closed", up, No, stop, notified, Yes)
  <2>1. PICK r : r = [s EXCEPT !.state = "Closed"]
    OBVIOUS
  <2>2. r = Sock("Closed", up, had, stop, notified, reported)
    BY <1>1, <2>1 DEF Sock
  <2>3. PICK q : q = [r EXCEPT !.joinable = No]
    OBVIOUS
  <2>4. q = Sock("Closed", up, No, stop, notified, reported)
    BY <2>2, <2>3 DEF Sock
  <2>5. Seen!Joined(s) = [q EXCEPT !.reported = Yes]
    BY <2>1, <2>3 DEF Seen!Joined, Yes, No
  <2>. QED
    BY <2>4, <2>5 DEF Sock
<1>5. ASSUME st # "Closed"
      PROVE  Seen!CloseRequested(s) = Sock("Closing", up, had, Yes, notified, reported)
  <2>1. PICK r : r = [s EXCEPT !.state = "Closing"]
    OBVIOUS
  <2>2. r = Sock("Closing", up, had, stop, notified, reported)
    BY <1>1, <2>1 DEF Sock
  <2>3. Seen!CloseRequested(s) = [r EXCEPT !.stop = Yes]
    BY <1>2, <1>5, <2>1 DEF Seen!CloseRequested, Yes
  <2>. QED
    BY <2>2, <2>3 DEF Sock
<1>6. Seen!OpenedUp(s) = Sock("Open", up, had, stop, Yes, reported)
  <2>1. PICK r : r = [s EXCEPT !.notified = Yes]
    OBVIOUS
  <2>2. r = Sock(st, up, had, stop, Yes, reported)
    BY <1>1, <2>1 DEF Sock
  <2>3. Seen!OpenedUp(s) = [r EXCEPT !.state = "Open"]
    BY <2>1 DEF Seen!OpenedUp, Yes
  <2>. QED
    BY <2>2, <2>3 DEF Sock
<1>7. Reported(s) = Sock(st, up, had, stop, notified, Yes)
  <2>1. PICK r : r = [s EXCEPT !.reported = Yes]
    OBVIOUS
  <2>2. r = Sock(st, up, had, stop, notified, Yes)
    BY <1>1, <2>1 DEF Sock
  <2>. QED
    BY <2>1, <2>2 DEF Reported, Yes
<1>8. Seen!Broken(s) = Sock("Closed", up, had, stop, notified, reported)
  BY <1>1 DEF Seen!Broken, Sock
<1>. QED
  BY <1>1, <1>2, <1>3, <1>4, <1>5, <1>6, <1>7, <1>8

\* The steps of Transport.
LEMMA SeenSteps ==
    /\ Seen!Init <=> sock = Seen!NeverOpened /\ heard = "none"
    /\ Seen!Open <=> ~sock.joinable /\ sock' = Seen!Opened /\ heard' = "none"
    /\ Seen!RequestClose <=> sock' = Seen!CloseRequested(sock) /\ heard' = heard
    /\ Seen!Breaks <=> Seen!MayBreak(sock) /\ sock' = Seen!Broken(sock) /\ heard' = heard
    /\ Seen!Opens <=> Seen!MayOpen(sock) /\ sock' = Seen!OpenedUp(sock) /\ heard' = "open"
    /\ \A how : Seen!Ends(how) <=> sock' = Reported(sock) /\ heard' = how
    /\ Seen!Fails <=> Seen!MayFail(sock) /\ Seen!Ends("error")
    /\ Seen!ClosedByPeer <=> Seen!MayBeClosed(sock) /\ Seen!Ends("remote")
    /\ Seen!Stops <=> Seen!MayStop(sock) /\ Seen!Ends("local")
    /\ Seen!ThreadEnds <=> Seen!MayEnd(sock) /\ sock' = Seen!Ended(sock) /\ heard' = heard
    /\ Seen!Join <=> /\ ~sock.alive /\ sock' = Seen!Joined(sock)
                     /\ heard' = IF sock.reported THEN heard ELSE "local"
<1>. USE DEF sock, heard, held
<1>1. Seen!Init <=> sock = Seen!NeverOpened /\ heard = "none"
  BY DEF Seen!Init
<1>2. Seen!Open <=> ~sock.joinable /\ sock' = Seen!Opened /\ heard' = "none"
  BY DEF Seen!Open
<1>3. Seen!RequestClose <=> sock' = Seen!CloseRequested(sock) /\ heard' = heard
  BY DEF Seen!RequestClose
<1>4. Seen!Opens <=> Seen!MayOpen(sock) /\ sock' = Seen!OpenedUp(sock) /\ heard' = "open"
  BY DEF Seen!Opens
<1>5. \A how : Seen!Ends(how) <=> sock' = Reported(sock) /\ heard' = how
  BY DEF Seen!Ends, Reported
<1>6. /\ Seen!Fails <=> Seen!MayFail(sock) /\ Seen!Ends("error")
      /\ Seen!ClosedByPeer <=> Seen!MayBeClosed(sock) /\ Seen!Ends("remote")
      /\ Seen!Stops <=> Seen!MayStop(sock) /\ Seen!Ends("local")
  BY DEF Seen!Fails, Seen!ClosedByPeer, Seen!Stops
<1>7. Seen!ThreadEnds <=> Seen!MayEnd(sock) /\ sock' = Seen!Ended(sock) /\ heard' = heard
  BY DEF Seen!ThreadEnds
<1>8. Seen!Join <=> /\ ~sock.alive /\ sock' = Seen!Joined(sock)
                    /\ heard' = IF sock.reported THEN heard ELSE "local"
  BY DEF Seen!Join
<1>9. Seen!Breaks <=> Seen!MayBreak(sock) /\ sock' = Seen!Broken(sock) /\ heard' = heard
  BY DEF Seen!Breaks
<1>. HIDE DEF sock, heard, held
<1>. QED
  BY <1>1, <1>2, <1>3, <1>4, <1>5, <1>6, <1>7, <1>8, <1>9

\* An extreme of a set of numbers is the only one.
LEMMA Extremes ==
    /\ \A S \in SUBSET Nat : \A m \in S : (\A i \in S : m >= i) => Max(S) = m
    /\ \A S \in SUBSET Nat : \A m \in S : (\A i \in S : m <= i) => Min(S) = m
<1>1. ASSUME NEW S \in SUBSET Nat, NEW m \in S, \A i \in S : m >= i
      PROVE  Max(S) = m
  <2>1. Max(S) \in S /\ \A i \in S : Max(S) >= i
    BY <1>1 DEF Max
  <2>2. m \in Nat /\ Max(S) \in Nat /\ m >= Max(S) /\ Max(S) >= m
    BY <1>1, <2>1
  <2>. QED
    BY <2>2
<1>2. ASSUME NEW S \in SUBSET Nat, NEW m \in S, \A i \in S : m <= i
      PROVE  Min(S) = m
  <2>1. Min(S) \in S /\ \A i \in S : Min(S) <= i
    BY <1>2 DEF Min
  <2>2. m \in Nat /\ Min(S) \in Nat /\ m <= Min(S) /\ Min(S) <= m
    BY <1>2, <2>1
  <2>. QED
    BY <2>2
<1>. QED
  BY <1>1, <1>2

\* What an event changes of what is read off the log.
LEMMA Hears ==
    ASSUME Records, LastMark, FirstEnd, NEW e \in Events, past'.log = Append(past.log, e)
    PROVE  /\ said' = said \cup {e}
           /\ e \in {"open", "request"} => marks' # {} /\ past'.log[Max(marks')] = e
           /\ e \notin {"open", "request"} =>
                  /\ marks' = marks
                  /\ marks # {} => past'.log[Max(marks)] = past.log[Max(marks)]
           /\ endings # {} =>
                  endings' # {} /\ past'.log[Min(endings')] = past.log[Min(endings)]
           /\ endings = {} /\ e \in Ends => endings' # {} /\ past'.log[Min(endings')] = e
           /\ endings = {} /\ e \notin Ends => endings' = {}
<1> DEFINE n == Len(past.log) + 1
<1>1. /\ n \in Nat /\ past'.log[n] = e
      /\ \A i \in DOMAIN past.log : past'.log[i] = past.log[i]
      /\ \A i \in endings \cup marks : i \in DOMAIN past.log /\ i \in Nat /\ i < n
      /\ said' = said \cup {e}
      /\ endings' = IF e \in Ends THEN endings \cup {n} ELSE endings
      /\ marks' = IF e \in {"open", "request"} THEN marks \cup {n} ELSE marks
  BY Says
<1>. HIDE DEF n
<1>2. ASSUME e \in {"open", "request"}
      PROVE  marks' # {} /\ past'.log[Max(marks')] = e
  <2>1. marks' \in SUBSET Nat /\ n \in marks' /\ \A i \in marks' : n >= i
    BY <1>1, <1>2
  <2>2. Max(marks') = n
    BY <2>1, Extremes
  <2>. QED
    BY <1>1, <2>1, <2>2
<1>3. ASSUME e \notin {"open", "request"}
      PROVE  marks' = marks /\ (marks # {} => past'.log[Max(marks)] = past.log[Max(marks)])
  <2>1. ASSUME marks # {}
        PROVE  past'.log[Max(marks)] = past.log[Max(marks)]
    <3>1. PICK m \in marks : \A i \in marks : m >= i
      BY <2>1 DEF LastMark
    <3>2. marks \in SUBSET Nat
      BY <1>1
    <3>3. Max(marks) = m
      BY <3>1, <3>2, Extremes
    <3>. QED
      BY <1>1, <3>3
  <2>. QED
    BY <1>1, <1>3, <2>1
<1>4. ASSUME endings # {}
      PROVE  endings' # {} /\ past'.log[Min(endings')] = past.log[Min(endings)]
  <2>1. PICK m \in endings : \A i \in endings : m <= i
    BY <1>4 DEF FirstEnd
  <2>2. endings \in SUBSET Nat /\ endings' \in SUBSET Nat
    BY <1>1
  <2>3. m \in endings' /\ \A i \in endings' : m <= i
    BY <1>1, <2>1
  <2>4. Min(endings) = m /\ Min(endings') = m
    BY <2>1, <2>2, <2>3, Extremes
  <2>. QED
    BY <1>1, <2>3, <2>4
<1>5. ASSUME endings = {}, e \in Ends
      PROVE  endings' # {} /\ past'.log[Min(endings')] = e
  <2>1. endings' \in SUBSET Nat /\ n \in endings' /\ \A i \in endings' : n <= i
    BY <1>1, <1>5
  <2>2. Min(endings') = n
    BY <2>1, Extremes
  <2>. QED
    BY <1>1, <2>1, <2>2
<1>. QED
  BY <1>1, <1>2, <1>3, <1>4, <1>5

\* An event makes the log longer.
LEMMA Grew ==
    ASSUME Records, NEW e \in Events, past'.log = Append(past.log, e)
    PROVE  past'.log # past.log
<1>1. past.log \in Seq(Events)
  BY PastReads
<1>2. Len(past'.log) = Len(past.log) + 1 /\ Len(past.log) \in Nat
  BY <1>1, AppendProperties, LenProperties
<1>3. Len(past'.log) # Len(past.log)
  BY <1>2
<1>. QED
  BY <1>3

\* What is read off is true or false.
LEMMA Truths ==
    ASSUME Inv, Inv'
    PROVE  /\ Up => Up = Yes
           /\ ~Up => Up = No
           /\ Up' => Up' = Yes
           /\ ~Up' => Up' = No
           /\ Held => held = Yes
           /\ ~Held => held = No
           /\ Held' => held' = Yes
           /\ ~Held' => held' = No
           /\ endings # {} => (endings # {}) = Yes
           /\ endings = {} => (endings # {}) = No
           /\ endings' # {} => (endings' # {}) = Yes
           /\ endings' = {} => (endings' # {}) = No
           /\ \A e : e \in said => (e \in said) = Yes
           /\ \A e : e \notin said => (e \in said) = No
           /\ \A e : e \in said' => (e \in said') = Yes
           /\ \A e : e \notin said' => (e \in said') = No
           /\ \A e : (e \in said' <=> e \in said) => (e \in said') = (e \in said)
           /\ (Held' <=> Held) => held' = held
<1>1. Up \in BOOLEAN /\ Up' \in BOOLEAN
  BY DEF Up
<1>2. held \in BOOLEAN /\ held' \in BOOLEAN
  BY DEF held, Inv, Records, Conns
<1>3. (held <=> Held) /\ (held' <=> Held')
  BY UpIs, UpNext DEF Inv, Upness, held, Held
<1>4. /\ Held => held = TRUE
      /\ ~Held => held = FALSE
      /\ Held' => held' = TRUE
      /\ ~Held' => held' = FALSE
  BY <1>2, <1>3
<1>5. /\ endings # {} => (endings # {}) = TRUE
      /\ endings = {} => (endings # {}) = FALSE
      /\ endings' # {} => (endings' # {}) = TRUE
      /\ endings' = {} => (endings' # {}) = FALSE
  OBVIOUS
<1>6. /\ \A e : e \in said => (e \in said) = TRUE
      /\ \A e : e \notin said => (e \in said) = FALSE
      /\ \A e : e \in said' => (e \in said') = TRUE
      /\ \A e : e \notin said' => (e \in said') = FALSE
      /\ \A e : (e \in said' <=> e \in said) => (e \in said') = (e \in said)
  OBVIOUS
<1>7. (Held' <=> Held) => held' = held
  BY <1>2, <1>3
<1>8. /\ Up => Up = TRUE
      /\ ~Up => Up = FALSE
      /\ Up' => Up' = TRUE
      /\ ~Up' => Up' = FALSE
  BY <1>1
<1>. QED
  BY <1>4, <1>5, <1>6, <1>7, <1>8 DEF Yes, No

LEMMA TransportInit == Init => Seen!Init
<1>. SUFFICES ASSUME Init PROVE Seen!Init
  OBVIOUS
<1>1. past.log = <<>> /\ conn.joinable = FALSE /\ todo["worker"] = <<>> /\ todo[Opener] = <<>>
  BY CurlAssumption DEF Init, Threads
<1>2. said = {} /\ endings = {}
  BY <1>1 DEF said, endings
<1>3. Up = FALSE /\ held = FALSE /\ ("request" \in said) = FALSE
      /\ ("open" \in said) = FALSE /\ (endings # {}) = FALSE
  BY <1>1, <1>2 DEF Up, held
<1>4. shown = "Closed"
  BY <1>3 DEF shown
<1>5. sock = Seen!NeverOpened
  BY <1>3, <1>4 DEF sock, Seen!NeverOpened
<1>6. heard = "none"
  BY <1>2 DEF heard
<1>. QED
  BY <1>5, <1>6, SeenSteps

LEMMA TransportNext ==
    ASSUME Inv, Inv', [Next]_vars
    PROVE  Seen!Next \/ (sock' = sock /\ heard' = heard)
<1>0. Records /\ LastMark /\ FirstEnd /\ Kinds
  BY NextKinds DEF Inv
<1>i. Severed /\ Severed' /\ Severs /\ Brokenness /\ Brokenness'
  BY SeveredNext, BrokenIs, BrokenNext DEF Inv
<1>a. PICK up : up = Up
  OBVIOUS
<1>b. PICK had : had = held
  OBVIOUS
<1>c. PICK stop : stop = ("request" \in said)
  OBVIOUS
<1>d. PICK notified : notified = ("open" \in said)
  OBVIOUS
<1>e. PICK reported : reported = (endings # {})
  OBVIOUS
<1>f. sock = Sock(shown, up, had, stop, notified, reported)
  BY <1>a, <1>b, <1>c, <1>d, <1>e DEF sock, Sock
<1>h. /\ sock.state = shown
      /\ sock.alive = up /\ sock.joinable = had /\ sock.stop = stop
      /\ sock.notified = notified /\ sock.reported = reported
  BY <1>f, SockSteps
<1>g. ASSUME NEW st, NEW u, NEW h, NEW s, NEW n, NEW r,
             shown' = st, Up' = u, held' = h, ("request" \in said') = s,
             ("open" \in said') = n, (endings' # {}) = r
      PROVE  sock' = Sock(st, u, h, s, n, r)
  BY <1>g DEF sock, Sock
<1>1. ASSUME past'.log = past.log
      PROVE  said' = said /\ endings' = endings /\ marks' = marks /\ heard' = heard
  BY <1>1, LogSame DEF heard
<1>2. CASE Stutters
  <2>1. Up' = Up /\ held' = held
    BY <1>2, Truths DEF Stutters
  <2>2. CASE ~Breaks
    <3>1. shown' = shown
      BY <1>i, <1>1, <1>2, <2>2 DEF Stutters, Severs, shown
    <3>. QED
      BY <1>1, <1>2, <2>1, <3>1 DEF sock, Stutters
  <2>3. CASE Breaks
    <3>1. /\ shown' = "Closed" /\ shown # "Closed" /\ Up /\ up = Yes /\ notified = No
          /\ Up' = up /\ held' = had /\ ("request" \in said') = stop
          /\ ("open" \in said') = notified /\ (endings' # {}) = reported
      <4>1. broken' /\ Up' /\ Up /\ "open" \notin said
        BY <1>i, <1>2, <2>3 DEF Breaks, Brokenness, Stutters
      <4>2. shown' = "Closed" /\ shown # "Closed"
        BY <2>3, <4>1 DEF Breaks, shown
      <4>. QED
        BY <1>1, <1>2, <1>a, <1>b, <1>c, <1>d, <1>e, <2>1, <4>1, <4>2, Truths DEF Stutters
    <3>2. sock' = Sock("Closed", up, had, stop, notified, reported)
      BY <1>g, <3>1
    <3>3. sock' = Seen!Broken(sock)
      BY <1>f, <3>2, SockSteps
    <3>4. Seen!MayBreak(sock)
      BY <1>h, <3>1 DEF Seen!MayBreak, Yes, No
    <3>. QED
      BY <1>1, <1>2, <3>3, <3>4, SeenSteps DEF Stutters, Seen!Next
  <2>. QED
    BY <2>2, <2>3
<1>3. CASE Leaves
  <2>1. shown' = "Closed" /\ Up' = No /\ up = Yes /\ reported = Yes /\ held' = had
    BY <1>3, <1>a, <1>b, <1>e, Truths DEF Leaves, shown
  <2>2. ("request" \in said') = stop /\ ("open" \in said') = notified
        /\ (endings' # {}) = reported
    BY <1>1, <1>3, <1>c, <1>d, <1>e DEF Leaves
  <2>3. sock' = Sock("Closed", No, had, stop, notified, reported)
    BY <1>g, <2>1, <2>2
  <2>4. sock' = Seen!Ended(sock)
    BY <1>f, <2>3, SockSteps
  <2>5. Seen!MayEnd(sock)
    BY <1>h, <2>1 DEF Seen!MayEnd, Yes
  <2>. QED
    BY <1>1, <1>3, <2>4, <2>5, SeenSteps DEF Leaves, Seen!Next
<1>4. CASE Joins
  <2>1. shown' = "Closed" /\ Up' = No /\ up = No /\ reported = Yes /\ held' = No
    BY <1>4, <1>a, <1>e, Truths DEF Joins, shown
  <2>2. ("request" \in said') = stop /\ ("open" \in said') = notified
        /\ (endings' # {}) = Yes
    BY <1>1, <1>4, <1>c, <1>d, <1>e, <2>1 DEF Joins
  <2>3. sock' = Sock("Closed", up, No, stop, notified, Yes)
    BY <1>g, <2>1, <2>2
  <2>4. sock' = Seen!Joined(sock)
    BY <1>f, <2>3, SockSteps
  <2>5. ~sock.alive /\ sock.reported
    BY <1>h, <2>1 DEF Yes, No
  <2>. QED
    BY <1>1, <1>4, <2>4, <2>5, SeenSteps DEF Joins, Seen!Next
<1>5. CASE Settles
  <2>1. /\ shown' = "Closed" /\ Up' = No /\ up = No /\ reported = No /\ held' = No
        /\ past'.log = Append(past.log, "local") /\ "local" \in Events /\ "local" \in Ends
    BY <1>5, <1>a, <1>e, Truths DEF Settles, Events, Ends, shown
  <2>2. /\ said' = said \cup {"local"} /\ endings' # {} /\ past'.log[Min(endings')] = "local"
    BY <1>0, <1>5, <2>1, Hears DEF Settles
  <2>3. ("request" \in said' <=> "request" \in said) /\ ("open" \in said' <=> "open" \in said)
    BY <2>2
  <2>4. ("request" \in said') = stop /\ ("open" \in said') = notified /\ (endings' # {}) = Yes
    BY <1>c, <1>d, <2>2, <2>3, Truths
  <2>5. sock' = Sock("Closed", up, No, stop, notified, Yes)
    BY <1>g, <2>1, <2>4
  <2>6. sock' = Seen!Joined(sock)
    BY <1>f, <2>5, SockSteps
  <2>7. heard' = "local"
    BY <2>2 DEF heard
  <2>8. ~sock.alive /\ ~sock.reported
    BY <1>h, <2>1 DEF No
  <2>. QED
    BY <2>6, <2>7, <2>8, SeenSteps DEF Seen!Next
<1>6. CASE Opens
  <2>1. /\ Up' = Yes /\ had = No /\ held' = Yes
        /\ said' = {} /\ endings' = {} /\ marks' = {}
    BY <1>6, <1>b, Truths, LogEmpty DEF Opens
  <2>2. shown' = "Connecting"
    <3>1. ~broken'
      <4>1. ~broken
        BY <1>6, <1>i DEF Inv, Flow, Life, Opens, Held, Brokenness
      <4>. QED
        BY <1>6, <1>i, <4>1 DEF Opens, Severs, Breaks, Stutters
    <3>. QED
      BY <1>6, <2>1, <3>1 DEF Opens, shown
  <2>3. ("request" \in said') = No /\ ("open" \in said') = No /\ (endings' # {}) = No
    BY <2>1 DEF No
  <2>4. sock' = Sock("Connecting", Yes, Yes, No, No, No)
    BY <1>g, <2>1, <2>2, <2>3
  <2>5. sock' = Seen!Opened
    BY <2>4 DEF Seen!Opened, Sock, Yes, No
  <2>6. ~sock.joinable
    BY <1>h, <2>1 DEF No
  <2>7. heard' = "none"
    BY <2>1 DEF heard
  <2>. QED
    BY <2>5, <2>6, <2>7, SeenSteps DEF Seen!Next
<1>7. ASSUME NEW e \in Events, Tells(e)
      PROVE  Seen!Next \/ (sock' = sock /\ heard' = heard)
  <2>1. /\ Up /\ Up' /\ up = Yes /\ Up' = Yes /\ held' = had
        /\ past'.log = Append(past.log, e)
    BY <1>7, <1>a, <1>b, Truths DEF Tells
  <2>0. broken' <=> broken
    <3>1. Stutters => past'.log = past.log
      BY DEF Stutters
    <3>2. past'.log # past.log
      BY <1>0, <2>1, Grew
    <3>. QED
      BY <1>i, <2>1, <3>1, <3>2 DEF Severs, Breaks
  <2>2. /\ said' = said \cup {e}
        /\ e \in {"open", "request"} => marks' # {} /\ past'.log[Max(marks')] = e
        /\ e \notin {"open", "request"} =>
               /\ marks' = marks
               /\ marks # {} => past'.log[Max(marks)] = past.log[Max(marks)]
        /\ endings # {} =>
               endings' # {} /\ past'.log[Min(endings')] = past.log[Min(endings)]
        /\ endings = {} /\ e \in Ends => endings' # {} /\ past'.log[Min(endings')] = e
        /\ endings = {} /\ e \notin Ends => endings' = {}
    BY <1>0, <2>1, Hears
  <2>3. e \notin {"open", "request"} => shown' = shown
    BY <2>0, <2>1, <2>2 DEF shown
  <2>4. /\ e # "request" => ("request" \in said' <=> "request" \in said)
        /\ e # "open" => ("open" \in said' <=> "open" \in said)
        /\ e \in said'
    BY <2>2
  <2>5. /\ e # "request" => ("request" \in said') = stop
        /\ e # "open" => ("open" \in said') = notified
        /\ (e \in said') = Yes
    BY <1>c, <1>d, <2>4, Truths
  <2>a. CASE e = "request" /\ broken
    <3>1. /\ "request" \in said /\ "request" \in said' /\ shown = "Closed" /\ shown' = "Closed"
          /\ "request" \notin Ends
      BY <1>i, <2>0, <2>4, <2>a DEF Severs, shown, Ends
    <3>2. (endings' # {}) <=> (endings # {})
      BY <2>2, <2>a, <3>1
    <3>3. (endings' # {}) = reported
      BY <1>e, <3>2
    <3>4. heard' = heard
      BY <2>2, <2>4, <2>a, <3>1, <3>2 DEF heard
    <3>5. ("request" \in said') = stop /\ ("open" \in said') = notified
      BY <1>c, <2>5, <2>a, <3>1, Truths
    <3>6. sock' = Sock("Closed", up, had, stop, notified, reported)
      BY <1>g, <2>1, <3>1, <3>3, <3>5
    <3>7. sock' = sock
      BY <1>f, <3>1, <3>6
    <3>. QED
      BY <3>4, <3>7
  <2>6. CASE e = "request" /\ ~broken
    <3>1. shown # "Closed" /\ shown' = "Closing" /\ "request" \notin Ends
      BY <2>0, <2>1, <2>2, <2>6 DEF shown, Ends
    <3>2. (endings' # {}) <=> (endings # {})
      BY <2>2, <2>6, <3>1
    <3>3. (endings' # {}) = reported
      BY <1>e, <3>2
    <3>4. heard' = heard
      BY <2>2, <2>4, <2>6, <3>1, <3>2 DEF heard
    <3>5. ("request" \in said') = Yes /\ ("open" \in said') = notified
      BY <2>5, <2>6
    <3>6. sock' = Sock("Closing", up, had, Yes, notified, reported)
      BY <1>g, <2>1, <3>1, <3>3, <3>5
    <3>7. sock' = Seen!CloseRequested(sock)
      BY <1>f, <3>1, <3>6, SockSteps
    <3>. QED
      BY <3>4, <3>7, SeenSteps DEF Seen!Next
  <2>7. CASE e = "open"
    <3>1. reported = No /\ notified = No /\ endings = {} /\ "open" \notin Ends
      BY <1>7, <1>d, <1>e, <2>7, Truths DEF Tells, Ends
    <3>2. shown' = "Open" /\ endings' = {} /\ (endings' # {}) = No
      <4>1. ~broken'
        BY <1>i, <2>4, <2>7 DEF Severed, Inv, Flow, Log
      <4>. QED
        BY <2>1, <2>2, <2>7, <3>1, <4>1, Truths DEF shown
    <3>8. shown # "Closed"
      <4>1. ~broken
        BY <1>i, <2>0, <2>4, <2>7 DEF Severed, Inv, Flow, Log
      <4>. QED
        BY <2>1, <4>1 DEF shown
    <3>3. ("request" \in said') = stop /\ ("open" \in said') = Yes
      BY <2>5, <2>7
    <3>4. sock' = Sock("Open", up, had, stop, Yes, reported)
      BY <1>g, <2>1, <3>1, <3>2, <3>3
    <3>5. sock' = Seen!OpenedUp(sock)
      BY <1>f, <3>4, SockSteps
    <3>7. Seen!MayOpen(sock)
      BY <1>h, <2>1, <3>1, <3>8 DEF Seen!MayOpen, Yes, No
    <3>6. heard' = "open"
      BY <2>4, <2>7, <3>2 DEF heard
    <3>. QED
      BY <3>5, <3>6, <3>7, SeenSteps DEF Seen!Next
  <2>8. CASE e \in Ends /\ endings # {}
    <3>1. e \notin {"open", "request"} /\ reported = Yes
      BY <1>e, <2>8, Truths DEF Ends
    <3>2. heard' = heard /\ (endings' # {}) = Yes
      BY <2>2, <2>8, Truths DEF heard
    <3>3. ("request" \in said') = stop /\ ("open" \in said') = notified
      BY <2>5, <3>1
    <3>4. sock' = Sock(shown, up, had, stop, notified, reported)
      BY <1>g, <2>1, <2>3, <3>1, <3>2, <3>3
    <3>. QED
      BY <1>f, <3>2, <3>4
  <2>9. CASE e \in Ends /\ endings = {}
    <3>1. e \notin {"open", "request"} /\ reported = No
      BY <1>e, <2>9, Truths DEF Ends
    <3>2. endings' # {} /\ heard' = e /\ (endings' # {}) = Yes
      BY <2>2, <2>9, Truths DEF heard
    <3>3. ("request" \in said') = stop /\ ("open" \in said') = notified
      BY <2>5, <3>1
    <3>4. sock' = Sock(shown, up, had, stop, notified, Yes)
      BY <1>g, <2>1, <2>3, <3>1, <3>2, <3>3
    <3>5. sock' = Reported(sock)
      BY <1>f, <3>4, SockSteps
    <3>6. e = "local" => stop = Yes
      BY <1>7, <1>c, Truths DEF Tells
    <3>7. /\ Seen!MayFail(sock) /\ Seen!MayBeClosed(sock)
          /\ e = "local" => Seen!MayStop(sock)
      <4>1. sock.alive = Yes /\ sock.reported = No /\ sock.stop = stop
        BY <1>h, <2>1, <3>1
      <4>. QED
        BY <3>6, <4>1 DEF Seen!MayFail, Seen!MayBeClosed, Seen!MayStop, Yes, No
    <3>8. Seen!Ends(e)
      BY <3>2, <3>5, SeenSteps
    <3>9. Seen!Fails \/ Seen!ClosedByPeer \/ Seen!Stops
      BY <2>9, <3>7, <3>8, SeenSteps DEF Ends
    <3>. QED
      BY <3>9 DEF Seen!Next
  <2>. QED
    BY <2>a, <2>6, <2>7, <2>8, <2>9 DEF Events
<1>. QED
  BY <1>0, <1>2, <1>3, <1>4, <1>5, <1>6, <1>7 DEF Kinds

\* A WebSocket is the transport SignalLink reckons with: each of its steps opens it,
\* asks for a close, opens, ends or joins it as Transport has it, or changes nothing a
\* Signal sees (IsTransport).
THEOREM TransportCorrect == Spec => IsTransport
<1>1. Inv /\ Inv' /\ [Next]_vars => [Seen!Next]_<<sock, heard>>
  BY TransportNext
<1>. QED
  BY <1>1, InvHolds, TransportInit, PTL DEF Spec, IsTransport, Seen!Spec, sock, heard, held
===============================================================================
