------------------------- MODULE SignalRequestsProofs --------------------------
(***************************************************************************)
(* The requests of a Signal, for any number of channels, measuring         *)
(* threads, connections and calls: what the properties say of states holds *)
(* by invariants about the steps that the threads still have to run.       *)
(*                                                                         *)
(* Carried: while a recreate is owed, nobody is about to clear the flag.   *)
(* Apart: every mute is in one place, a step, the queue or the history.    *)
(* RttsApart: a send of round trips is one step, and its channel is marked.*)
(* Told: a marked channel was served or is about to be, a channel that has *)
(* to be served is marked or will be looked at.                            *)
(* Rejoining: a connection opens with nothing latched, and what is latched *)
(* then stands for joins that were sent on it, or are about to be.         *)
(***************************************************************************)
EXTENDS SignalRequestsProperties, SequenceLemmas

-------------------------------------------------------------------------------
(* Types.                                                                    *)

RequestsOf(kinds, channels, recreating) ==
    [kind : kinds, channel : channels, nr : Nat, recreating : recreating,
     subscribing : BOOLEAN]
Mutes == RequestsOf({"mute"}, Channels, {FALSE})
Joins == RequestsOf({"join"}, Channels, BOOLEAN)
Recreates == RequestsOf({"recreate"}, Channels, {TRUE})
Rtts == RequestsOf({"rtts"}, Channels, {FALSE})
Others == RequestsOf({"subscribe", "leave"}, Channels \cup {0}, {FALSE})
Messages == [channel : Channels, peer : BOOLEAN, legacy : BOOLEAN, node : BOOLEAN]

reconnecting == {"resetJoin", "onReconnect", "close", "begin"}

\* The steps with a mute, or round trips to be sent; what tells two of them apart.
MuteSteps == {"send", "again"} \X Mutes
RttsSends == {"send"} \X Rtts
muteKey == [x \in MuteSteps |-> x[2].nr]
rttsKey == [x \in RttsSends |-> <<x[2].nr, x[2].channel>>]

\* The steps about round trips, which the loop and the measuring threads run, and the
\* others, which the measuring threads do not.
RttsSteps == RttsSends \cup ({"store"} \X Values) \cup ({"cached"} \X Channels)
PlainSteps ==
    MuteSteps \cup ({"send"} \X (Joins \cup Recreates \cup Others))
    \cup ({"sendJoin"} \X Channels) \cup ({"subscribed"} \X BOOLEAN)
    \cup ({"peers", "node"} \X Messages)
    \cup {<<"note">>, <<"flush">>, <<"joinAll">>, <<"clear">>, <<"legacy">>,
          <<"resetJoin">>, <<"onReconnect">>, <<"close">>, <<"begin">>}

StepsOf(t) ==
    IF t \in Sorters THEN RttsSteps
    ELSE IF t = "loop" THEN RttsSteps \cup PlainSteps
    ELSE PlainSteps

TodoTyped ==
    /\ todo \in [Threads -> Seq(RttsSteps \cup PlainSteps)]
    /\ \A t \in Threads : todo[t] \in Seq(StepsOf(t))

Sent ==
    [n : Nat, kind : {"mute", "join", "recreate", "rtts"}, channel : Channels, nr : Nat]
    \cup [n : Nat, kind : {"subscribe", "leave"}, channel : Channels \cup {0}, nr : Nat]

LinkTyped ==
    link \in [open : BOOLEAN, n : Nat, ending : BOOLEAN, next : BOOLEAN,
              suppress : BOOLEAN, user_closed : BOOLEAN]
FlagsTyped ==
    flags \in [joinAll : BOOLEAN, join : BOOLEAN, auto : BOOLEAN, recreating : BOOLEAN,
               subscribing : BOOLEAN]
RttsTyped ==
    /\ rtts \in [value : Values \cup {0}, nr : Nat, sent : SUBSET Channels,
                 legacy : SUBSET Channels]
    /\ rtts.value = 0 => rtts.sent = {}
ChanTyped == chan \in [Channels -> [peers : {1, 2}, joined : BOOLEAN]]
PastTyped ==
    past \in [sent : SUBSET Sent, twice : BOOLEAN, cleared : SUBSET Nat, stored : Nat,
              ready : Nat, owed : BOOLEAN, raced : BOOLEAN, hasty : BOOLEAN,
              joined : Nat, results : Nat, stores : Nat, losses : Nat, timeouts : Nat,
              mutes : Nat, calls : Nat]

Typed ==
    /\ TodoTyped /\ LinkTyped /\ FlagsTyped /\ RttsTyped /\ ChanTyped /\ PastTyped
    /\ pending \in Seq(Mutes)

-------------------------------------------------------------------------------
(* The invariants.                                                           *)

\* The steps that a thread, or any, still has to run.
doing(t) == {todo[t][i] : i \in DOMAIN todo[t]}
everything == UNION {doing(t) : t \in Threads}

\* Only the first step of a thread notes or sends a join.
later(x) == x[1] # "note" /\ ~(x[1] = "send" /\ x[2].kind = "join")
First == \A t \in Threads : \A i \in DOMAIN todo[t] : i # 1 => later(todo[t][i])

\* While a recreate is owed, whatever is sent next carries it.
carries(x) == x[1] # "note" /\ (x[1] = "send" /\ x[2].kind = "join" => x[2].recreating)
Carried ==
    past.owed /\ ~past.raced => flags.recreating /\ \A x \in everything : carries(x)

\* The steps of K differ in their key: no two threads, and no thread twice, has one.
Once(K, key) ==
    \A t, u \in Threads : \A i \in DOMAIN todo[t] : \A j \in DOMAIN todo[u] :
        /\ todo[t][i] \in K /\ todo[u][j] \in K
        /\ key[todo[t][i]] = key[todo[u][j]]
        => t = u /\ i = j
Held(K, key) == {key[x] : x \in {y \in everything : y \in K}}

\* Every mute is in a step, in the queue or in the history, and there once.
mutesSent == {s \in past.sent : s.kind = "mute"}
numbers(R) == {r.nr : r \in R}
Apart ==
    /\ Once(MuteSteps, muteKey)
    /\ \A i, j \in DOMAIN pending : pending[i].nr = pending[j].nr => i = j
    /\ \A r, s \in mutesSent : r.nr = s.nr => r = s
    /\ Held(MuteSteps, muteKey) \cap numbers(ToSet(pending)) = {}
    /\ Held(MuteSteps, muteKey) \cap numbers(mutesSent) = {}
    /\ numbers(ToSet(pending)) \cap numbers(mutesSent) = {}
    /\ Held(MuteSteps, muteKey) \cup numbers(ToSet(pending)) \cup numbers(mutesSent)
        = (1..past.mutes) \ past.cleared
    /\ past.cleared \subseteq 1..past.mutes

\* The round trips that were sent, or are about to be, differ; their channel is marked.
keysSent == {<<s.nr, s.channel>> : s \in {x \in past.sent : x.kind = "rtts"}}
Marked(k) == k[1] \in 1..past.stores /\ (k[1] = rtts.nr => k[2] \in rtts.sent)
RttsApart ==
    /\ ~past.twice
    /\ rtts.nr <= past.stores /\ (rtts.value # 0 => rtts.nr # 0)
    /\ Once(RttsSends, rttsKey)
    /\ Held(RttsSends, rttsKey) \cap keysSent = {}
    /\ \A k \in Held(RttsSends, rttsKey) \cup keysSent : Marked(k)

\* A marked channel was served or is about to be; one that has to be served is marked or
\* will be looked at.
Told ==
    /\ past.stored <= link.n
    /\ rtts.value # 0 /\ link.open /\ past.stored = link.n =>
        /\ \A c \in rtts.sent : <<rtts.nr, c>> \in Held(RttsSends, rttsKey) \cup keysSent
        /\ rtts.sent # {} \/ \E x \in everything : x[1] = "cached"
        /\ \A c \in rtts.legacy : c \in rtts.sent \/ <<"cached", c>> \in everything

\* A connection opens with nothing latched; what is latched then stands for joins that
\* were sent on it or are about to be.
joinedOn(c) == \E s \in past.sent : s.kind = "join" /\ s.n = link.n /\ s.channel = c
isJoinOf(x, c) ==
    \/ x = <<"sendJoin", c>>
    \/ x[1] = "send" /\ x[2].kind = "join" /\ x[2].channel = c
isJoined == \E c \in Channels : chan[c].joined
Rejoining ==
    /\ past.ready <= link.n
    /\ past.timeouts = 0 /\ ~past.hasty =>
        /\ ~link.ending
        /\ \A t \in Threads \ {"loop"} : \A x \in doing(t) : x[1] \notin reconnecting
        /\ \A x \in doing("loop") : x[1] \in reconnecting <=> ~link.open
        /\ ~link.open /\ ~link.user_closed =>
               /\ flags.joinAll => <<"resetJoin">> \in doing("loop")
               /\ isJoined => <<"onReconnect">> \in doing("loop")
        /\ link.open =>
               /\ past.ready = link.n \/ isJoined
                      => flags.joinAll \/ <<"joinAll">> \in doing("loop")
               /\ flags.joinAll =>
                      \A c \in Channels : joinedOn(c) \/ \E x \in everything : isJoinOf(x, c)

Inv == Typed /\ First /\ Carried /\ Apart /\ RttsApart /\ Told /\ Rejoining

-------------------------------------------------------------------------------
(* A thread's steps.                                                         *)

\* Where a step was, when n steps took the place of the first one of thread t.
was(t, n, u, i) == IF u = t THEN i - n + 1 ELSE i

\* Thread t has these steps in place of its first one, if it had one.
Runs(t, steps) ==
    /\ \A i \in DOMAIN steps : i \in DOMAIN todo'[t] /\ todo'[t][i] = steps[i]
    /\ \A u \in Threads : \A i \in DOMAIN todo'[u] :
           \/ u = t /\ i \in DOMAIN steps
           \/ /\ ~(u = t /\ i \in DOMAIN steps)
              /\ was(t, Len(steps), u, i) \in DOMAIN todo[u]
              /\ todo'[u][i] = todo[u][was(t, Len(steps), u, i)]
              /\ u = t => was(t, Len(steps), u, i) # 1
    /\ \A u \in Threads : \A i, j \in DOMAIN todo'[u] :
           was(t, Len(steps), u, i) = was(t, Len(steps), u, j) => i = j
    /\ \A u \in Threads : \A j \in DOMAIN todo[u] :
           \/ u = t /\ j = 1
           \/ \E i \in DOMAIN todo'[u] :
                  /\ ~(u = t /\ i \in DOMAIN steps)
                  /\ was(t, Len(steps), u, i) = j /\ todo'[u][i] = todo[u][j]

LEMMA Indices ==
    ASSUME TodoTyped, NEW t \in Threads
    PROVE  /\ DOMAIN todo[t] = 1..Len(todo[t]) /\ Len(todo[t]) \in Nat
           /\ todo[t] # <<>> => /\ 1 \in DOMAIN todo[t] /\ Head(todo[t]) = todo[t][1]
                                /\ todo[t][1] \in StepsOf(t)
           /\ DOMAIN todo[t] = {} => todo[t] = <<>>
           /\ \A i \in DOMAIN todo[t] : todo[t][i] \in StepsOf(t)
<1>1. todo[t] \in Seq(StepsOf(t))
  BY DEF TodoTyped
<1>2. DOMAIN todo[t] = 1..Len(todo[t]) /\ Len(todo[t]) \in Nat
      /\ (todo[t] # <<>> => Len(todo[t]) # 0)
  BY <1>1, LenProperties, EmptySeq
<1>3. \A i \in DOMAIN todo[t] : todo[t][i] \in StepsOf(t)
  BY <1>1, <1>2, ElementOfSeq
<1>4. todo[t] # <<>> => 1 \in DOMAIN todo[t] /\ Head(todo[t]) = todo[t][1]
  BY <1>1, <1>2
<1>5. DOMAIN todo[t] = {} => todo[t] = <<>>
  BY <1>2, <1>4
<1>. QED
  BY <1>2, <1>3, <1>4, <1>5

LEMMA RunsThen ==
    ASSUME TodoTyped, NEW t \in Threads, todo[t] # <<>>, NEW steps \in Seq(StepsOf(t)),
           Then(t, steps)
    PROVE  TodoTyped' /\ Runs(t, steps)
<1> DEFINE rest == Tail(todo[t])
           new == steps \o rest
           n == Len(steps)
<1>1. /\ todo \in [Threads -> Seq(RttsSteps \cup PlainSteps)] /\ todo[t] \in Seq(StepsOf(t))
      /\ todo' = [todo EXCEPT ![t] = new]
  BY DEF TodoTyped, Then
<1>2. /\ rest \in Seq(StepsOf(t)) /\ Len(rest) = Len(todo[t]) - 1
      /\ \A i \in 1..Len(rest) : rest[i] = todo[t][i + 1]
  BY <1>1, HeadTailProperties
<1>3. /\ new \in Seq(StepsOf(t)) /\ Len(new) = n + Len(rest)
      /\ \A i \in 1..Len(new) : new[i] = IF i <= n THEN steps[i] ELSE rest[i - n]
  BY <1>2, ConcatProperties
<1>4. /\ DOMAIN new = 1..(n + Len(todo[t]) - 1) /\ DOMAIN steps = 1..n
      /\ DOMAIN todo[t] = 1..Len(todo[t]) /\ n \in Nat /\ Len(todo[t]) \in Nat
      /\ Len(todo[t]) # 0
  BY <1>1, <1>2, <1>3, LenProperties, EmptySeq
<1>. HIDE DEF new, rest, n
<1>5. StepsOf(t) \subseteq RttsSteps \cup PlainSteps
  BY DEF StepsOf
<1>6. new \in Seq(RttsSteps \cup PlainSteps)
  BY <1>3, <1>5, SeqMonotonic
<1>7. /\ todo' \in [Threads -> Seq(RttsSteps \cup PlainSteps)] /\ todo'[t] = new
      /\ \A u \in Threads : u # t => todo'[u] = todo[u]
  BY <1>1, <1>6
<1>8. TodoTyped'
  BY <1>3, <1>7 DEF TodoTyped
<1>9. \A i \in DOMAIN new :
          \/ i \in DOMAIN steps /\ new[i] = steps[i]
          \/ /\ i \notin DOMAIN steps /\ i - n + 1 \in DOMAIN todo[t] /\ i - n + 1 # 1
             /\ new[i] = todo[t][i - n + 1]
  <2>. TAKE i \in DOMAIN new
  <2>1. CASE i <= n
    BY <1>2, <1>3, <1>4, <2>1
  <2>2. CASE ~(i <= n)
    <3>1. /\ i \in Int /\ n \in Int /\ Len(rest) \in Int /\ Len(todo[t]) \in Int
          /\ i <= n + Len(todo[t]) - 1 /\ Len(rest) = Len(todo[t]) - 1
      BY <1>2, <1>4
    <3>2. /\ i - n \in 1..Len(rest) /\ (i - n) + 1 = i - n + 1
          /\ i - n + 1 \in 1..Len(todo[t]) /\ i - n + 1 # 1 /\ i \notin 1..n
      BY <2>2, <3>1
    <3>3. rest[i - n] = todo[t][(i - n) + 1]
      BY <1>2, <3>2
    <3>4. new[i] = rest[i - n]
      BY <1>3, <1>4, <2>2
    <3>. QED
      BY <1>4, <3>2, <3>3, <3>4
  <2>. QED
    BY <2>1, <2>2
<1>10. \A j \in DOMAIN todo[t] : j # 1 =>
           /\ j + n - 1 \in DOMAIN new /\ j + n - 1 \notin DOMAIN steps
           /\ (j + n - 1) - n + 1 = j
  BY <1>4
<1>11. \A i \in DOMAIN steps : i \in DOMAIN new
  BY <1>4
<1>12. \A i, j \in DOMAIN new : i - n + 1 = j - n + 1 => i = j
  BY <1>4
<1>13. \A u \in Threads : \A i \in DOMAIN todo'[u] :
           \/ u = t /\ i \in DOMAIN steps
           \/ /\ ~(u = t /\ i \in DOMAIN steps)
              /\ was(t, n, u, i) \in DOMAIN todo[u]
              /\ todo'[u][i] = todo[u][was(t, n, u, i)]
              /\ u = t => was(t, n, u, i) # 1
  BY <1>7, <1>9 DEF was
<1>14. \A u \in Threads : \A i, j \in DOMAIN todo'[u] :
           was(t, n, u, i) = was(t, n, u, j) => i = j
  BY <1>7, <1>12 DEF was
<1>15. ASSUME NEW u \in Threads, NEW j \in DOMAIN todo[u], ~(u = t /\ j = 1)
       PROVE  \E i \in DOMAIN todo'[u] :
                  /\ ~(u = t /\ i \in DOMAIN steps)
                  /\ was(t, n, u, i) = j /\ todo'[u][i] = todo[u][j]
  <2>1. CASE u = t
    <3> DEFINE i == j + n - 1
    <3>1. i \in DOMAIN new /\ i \notin DOMAIN steps /\ i - n + 1 = j
      BY <1>10, <1>15, <2>1
    <3>. HIDE DEF i
    <3>2. new[i] = todo[t][j]
      BY <1>9, <3>1
    <3>. QED
      BY <1>7, <2>1, <3>1, <3>2 DEF was
  <2>2. CASE u # t
    BY <1>7, <2>2 DEF was
  <2>. QED
    BY <2>1, <2>2
<1>16. \A i \in DOMAIN steps : i \in DOMAIN todo'[t] /\ todo'[t][i] = steps[i]
  BY <1>7, <1>9, <1>11
<1>. QED
  BY <1>8, <1>13, <1>14, <1>15, <1>16 DEF Runs, n

LEMMA RunsStarts ==
    ASSUME TodoTyped, NEW t \in Threads, NEW steps \in Seq(StepsOf(t)), Starts(t, steps)
    PROVE  TodoTyped' /\ Runs(t, steps)
<1>1. todo[t] = <<>> /\ todo' = [todo EXCEPT ![t] = steps]
      /\ todo \in [Threads -> Seq(RttsSteps \cup PlainSteps)]
  BY DEF Starts, TodoTyped
<1>2. steps \in Seq(RttsSteps \cup PlainSteps)
  <2>1. StepsOf(t) \subseteq RttsSteps \cup PlainSteps
    BY DEF StepsOf
  <2>. QED
    BY <2>1, SeqMonotonic
<1>3. /\ todo' \in [Threads -> Seq(RttsSteps \cup PlainSteps)] /\ todo'[t] = steps
      /\ \A u \in Threads : u # t => todo'[u] = todo[u]
  BY <1>1, <1>2
<1>4. TodoTyped'
  BY <1>3 DEF TodoTyped
<1>5. DOMAIN todo[t] = {}
  BY <1>1
<1>6. \A u \in Threads : \A i, j \in DOMAIN todo'[u] :
          was(t, Len(steps), u, i) = was(t, Len(steps), u, j) => i = j
  <2>1. Len(steps) \in Nat /\ DOMAIN steps \subseteq Int
    BY LenProperties
  <2>2. \A i, j \in Int : i - Len(steps) + 1 = j - Len(steps) + 1 => i = j
    BY <2>1
  <2>. QED
    BY <1>3, <2>1, <2>2 DEF was
<1>. QED
  BY <1>3, <1>4, <1>5, <1>6 DEF Runs, was

\* What the threads do afterwards.
LEMMA DoingAfter ==
    ASSUME NEW t \in Threads, NEW steps, Runs(t, steps)
    PROVE  /\ \A u \in Threads : \A x \in doing(u)' :
                  (u = t /\ \E i \in DOMAIN steps : x = steps[i]) \/ x \in doing(u)
           /\ \A u \in Threads : \A x \in doing(u) :
                  x \in doing(u)' \/ (u = t /\ 1 \in DOMAIN todo[t] /\ x = todo[t][1])
           /\ \A i \in DOMAIN steps : steps[i] \in doing(t)'
           /\ \A x \in everything' : (\E i \in DOMAIN steps : x = steps[i]) \/ x \in everything
           /\ \A x \in everything :
                  x \in everything' \/ (1 \in DOMAIN todo[t] /\ x = todo[t][1])
           /\ \A i \in DOMAIN steps : steps[i] \in everything'
<1>1. \A u \in Threads : \A x \in doing(u)' :
          (u = t /\ \E i \in DOMAIN steps : x = steps[i]) \/ x \in doing(u)
  BY DEF Runs, doing
<1>2. \A u \in Threads : \A x \in doing(u) :
          x \in doing(u)' \/ (u = t /\ 1 \in DOMAIN todo[t] /\ x = todo[t][1])
  BY DEF Runs, doing
<1>3. \A i \in DOMAIN steps : steps[i] \in doing(t)'
  BY DEF Runs, doing
<1>4. /\ \A x : x \in everything <=> \E u \in Threads : x \in doing(u)
      /\ \A x : x \in everything' <=> \E u \in Threads : x \in doing(u)'
  BY DEF everything
<1>. QED
  BY <1>1, <1>2, <1>3, <1>4

\* The steps with a key afterwards, when those that begin have another one each.
GoneKey(t, K, key) ==
    IF 1 \in DOMAIN todo[t] /\ todo[t][1] \in K THEN {key[todo[t][1]]} ELSE {}
NewKeys(steps, K, key) == {key[x] : x \in {steps[i] : i \in DOMAIN steps} \cap K}
LEMMA HeldAfter ==
    ASSUME NEW t \in Threads, NEW steps, Runs(t, steps), NEW K, NEW key, Once(K, key),
           \A i, j \in DOMAIN steps :
               steps[i] \in K /\ steps[j] \in K /\ key[steps[i]] = key[steps[j]] => i = j,
           NewKeys(steps, K, key) \cap (Held(K, key) \ GoneKey(t, K, key)) = {}
    PROVE  /\ Once(K, key)'
           /\ Held(K, key)' = (Held(K, key) \ GoneKey(t, K, key)) \cup NewKeys(steps, K, key)
<1>. DEFINE gone == GoneKey(t, K, key)
            new == NewKeys(steps, K, key)
<1>1. \A k : k \in Held(K, key) <=>
                 \E u \in Threads : \E i \in DOMAIN todo[u] : todo[u][i] \in K /\ k = key[todo[u][i]]
  BY DEF Held, everything, doing
<1>2. \A k : k \in Held(K, key)' <=>
                 \E u \in Threads : \E i \in DOMAIN todo'[u] :
                     todo'[u][i] \in K /\ k = key[todo'[u][i]]
  BY DEF Held, everything, doing
<1>3. \A k : k \in new <=> \E i \in DOMAIN steps : steps[i] \in K /\ k = key[steps[i]]
  BY DEF NewKeys
<1>4. \A u \in Threads : \A i \in DOMAIN todo[u] :
          todo[u][i] \in K /\ ~(u = t /\ i = 1) => key[todo[u][i]] \in Held(K, key) \ gone
  BY <1>1 DEF Once, GoneKey
<1>0. new \cap (Held(K, key) \ gone) = {}
  OBVIOUS
<1>. HIDE DEF gone, new
<1> DEFINE old(u, i) == was(t, Len(steps), u, i)
           begins(u, i) == u = t /\ i \in DOMAIN steps
<1>5. \A u \in Threads : \A i \in DOMAIN todo'[u] :
          \/ begins(u, i) /\ todo'[u][i] = steps[i]
          \/ /\ ~begins(u, i)
             /\ old(u, i) \in DOMAIN todo[u] /\ todo'[u][i] = todo[u][old(u, i)]
             /\ ~(u = t /\ old(u, i) = 1)
  BY DEF Runs
<1>6. \A u \in Threads : \A i, j \in DOMAIN todo'[u] : old(u, i) = old(u, j) => i = j
  BY DEF Runs
<1>7. \A u \in Threads : \A j \in DOMAIN todo[u] :
          (u = t /\ j = 1) \/ \E i \in DOMAIN todo'[u] : todo'[u][i] = todo[u][j]
  BY DEF Runs
<1>8. \A i \in DOMAIN steps : i \in DOMAIN todo'[t] /\ todo'[t][i] = steps[i]
  BY DEF Runs
<1>. HIDE DEF old
<1>9. Once(K, key)'
  <2>. SUFFICES ASSUME NEW u \in Threads, NEW v \in Threads,
                       NEW i \in DOMAIN todo'[u], NEW j \in DOMAIN todo'[v],
                       todo'[u][i] \in K, todo'[v][j] \in K,
                       key[todo'[u][i]] = key[todo'[v][j]]
                PROVE  u = v /\ i = j
    BY DEF Once
  <2>1. CASE begins(u, i) /\ begins(v, j)
    BY <1>5, <2>1
  <2>2. CASE begins(u, i) /\ ~begins(v, j)
    BY <1>0, <1>3, <1>4, <1>5, <2>2
  <2>3. CASE ~begins(u, i) /\ begins(v, j)
    BY <1>0, <1>3, <1>4, <1>5, <2>3
  <2>4. CASE ~begins(u, i) /\ ~begins(v, j)
    <3>1. u = v /\ old(u, i) = old(v, j)
      BY <1>5, <2>4 DEF Once
    <3>. QED
      BY <1>6, <3>1
  <2>. QED
    BY <2>1, <2>2, <2>3, <2>4
<1>10. \A k : k \in Held(K, key)' => k \in (Held(K, key) \ gone) \cup new
  BY <1>2, <1>3, <1>4, <1>5
<1>11. \A k \in Held(K, key) \ gone : k \in Held(K, key)'
  BY <1>1, <1>2, <1>7 DEF GoneKey, gone
<1>12. \A k \in new : k \in Held(K, key)'
  BY <1>2, <1>3, <1>8
<1>. QED
  BY <1>9, <1>10, <1>11, <1>12 DEF gone, new

\* The invariants about keys do not see the other steps.
SameMutes ==
    /\ UNCHANGED <<pending, mutesSent>>
    /\ past'.cleared = past.cleared /\ past'.mutes = past.mutes
SameRtts ==
    /\ UNCHANGED <<rtts, keysSent>> /\ past'.twice = past.twice
    /\ past'.stored = past.stored /\ past'.stores = past.stores
    /\ link'.n = link.n /\ (link'.open => link.open)

LEMMA HeldSame ==
    ASSUME NEW t \in Threads, NEW steps, Runs(t, steps), NEW K, NEW key, Once(K, key),
           \A i \in DOMAIN steps : steps[i] \notin K,
           1 \in DOMAIN todo[t] => todo[t][1] \notin K
    PROVE  Once(K, key)' /\ Held(K, key)' = Held(K, key)
<1>1. NewKeys(steps, K, key) = {} /\ GoneKey(t, K, key) = {}
  BY DEF NewKeys, GoneKey
<1>. QED
  BY <1>1, HeldAfter

LEMMA QuietMutes ==
    ASSUME NEW t \in Threads, NEW steps, Runs(t, steps), Apart, SameMutes,
           \A i \in DOMAIN steps : steps[i] \notin MuteSteps,
           1 \in DOMAIN todo[t] => todo[t][1] \notin MuteSteps
    PROVE  Apart'
<1>1. Once(MuteSteps, muteKey)
  BY DEF Apart
<1>3. /\ Once(MuteSteps, muteKey)'
      /\ Held(MuteSteps, muteKey)' = Held(MuteSteps, muteKey)
  BY <1>1, HeldSame
<1>. QED
  BY <1>3 DEF Apart, SameMutes

LEMMA QuietRtts ==
    ASSUME NEW t \in Threads, NEW steps, Runs(t, steps), RttsApart, Told, SameRtts,
           \A i \in DOMAIN steps : steps[i] \notin RttsSends,
           1 \in DOMAIN todo[t] => todo[t][1] \notin RttsSends /\ todo[t][1][1] # "cached"
    PROVE  RttsApart' /\ Told'
<1>1. Once(RttsSends, rttsKey)
  BY DEF RttsApart
<1>3. /\ Once(RttsSends, rttsKey)'
      /\ Held(RttsSends, rttsKey)' = Held(RttsSends, rttsKey)
  BY <1>1, HeldSame
<1>4. RttsApart'
  BY <1>3 DEF RttsApart, Marked, SameRtts
<1>5. Told'
  <2>1. \A x \in everything : x[1] = "cached" => x \in everything'
    BY DoingAfter
  <2>2. \A c : <<"cached", c>>[1] = "cached"
    OBVIOUS
  <2>. QED
    BY <1>3, <2>1, <2>2 DEF Told, SameRtts
<1>. QED
  BY <1>4, <1>5

\* A first step is followed by others.
LEMMA FirstAfter ==
    ASSUME NEW t \in Threads, NEW steps, Runs(t, steps), First,
           \A i \in DOMAIN steps : i # 1 => later(steps[i]),
           TodoTyped, TodoTyped', DOMAIN steps = 1..Len(steps), Len(steps) \in Nat
    PROVE  First'
<1>. SUFFICES ASSUME NEW u \in Threads, NEW i \in DOMAIN todo'[u], i # 1
              PROVE  later(todo'[u][i])
  BY DEF First
<1>1. CASE u = t /\ i \in DOMAIN steps
  BY <1>1 DEF Runs
<1>2. CASE ~(u = t /\ i \in DOMAIN steps)
  <2>1. /\ was(t, Len(steps), u, i) \in DOMAIN todo[u]
        /\ todo'[u][i] = todo[u][was(t, Len(steps), u, i)]
        /\ u = t => was(t, Len(steps), u, i) # 1
    BY <1>2 DEF Runs
  <2>2. u # t => was(t, Len(steps), u, i) = i
    BY DEF was
  <2>. QED
    BY <2>1, <2>2 DEF First
<1>. QED
  BY <1>1, <1>2

-------------------------------------------------------------------------------
(* The classes of steps.                                                     *)

LEMMA Classes ==
    ASSUME NEW t \in Threads, NEW x \in StepsOf(t)
    PROVE  /\ x[1] \in RequestSteps
           /\ x[1] = "send" => /\ x[2] \in Mutes \cup Joins \cup Recreates \cup Rtts \cup Others
                               /\ t \in Sorters => x[2] \in Rtts
           /\ x[1] = "again" => x[2] \in Mutes
           /\ x[1] = "store" => x[2] \in Values
           /\ x[1] \in {"cached", "sendJoin"} => x[2] \in Channels /\ x = <<x[1], x[2]>>
           /\ x[1] = "subscribed" => x[2] \in BOOLEAN
           /\ x[1] \in {"peers", "node"} => x[2] \in Messages
           /\ t \in Sorters => x[1] \in {"send", "store", "cached"}
           /\ t \notin Sorters \cup {"loop"} => x[1] \notin {"store", "cached"}
           /\ x \in MuteSteps <=> x[1] \in {"send", "again"} /\ x[2].kind = "mute"
           /\ x \in RttsSends <=> x[1] = "send" /\ x[2].kind = "rtts"
           /\ x \in RttsSends => t \in Sorters \cup {"loop"}
           /\ x[1] \in {"joinAll", "resetJoin", "onReconnect"} => x = <<x[1]>>
<1>. DEFINE A(y) == y \in MuteSteps
            B(y) == y \in RttsSends
            C(y) == y \in {"store"} \X Values
            D(y) == y \in {"cached"} \X Channels
            E(y) == y \in {"send"} \X (Joins \cup Recreates \cup Others)
            F(y) == y \in {"sendJoin"} \X Channels
            G(y) == y \in {"subscribed"} \X BOOLEAN
            H(y) == y \in {"peers", "node"} \X Messages
            I(y) == y \in {<<"note">>, <<"flush">>, <<"joinAll">>, <<"clear">>, <<"legacy">>,
                           <<"resetJoin">>, <<"onReconnect">>, <<"close">>, <<"begin">>}
<1>1. /\ A(x) \/ B(x) \/ C(x) \/ D(x) \/ E(x) \/ F(x) \/ G(x) \/ H(x) \/ I(x)
      /\ t \in Sorters => B(x) \/ C(x) \/ D(x)
      /\ t \notin Sorters \cup {"loop"} => A(x) \/ E(x) \/ F(x) \/ G(x) \/ H(x) \/ I(x)
  BY DEF StepsOf, RttsSteps, PlainSteps
<1>2. A(x) => x[1] \in {"send", "again"} /\ x[2] \in Mutes /\ x[2].kind = "mute"
  BY DEF MuteSteps, Mutes, RequestsOf
<1>3. B(x) => x[1] = "send" /\ x[2] \in Rtts /\ x[2].kind = "rtts"
  BY DEF RttsSends, Rtts, RequestsOf
<1>4. C(x) => x[1] = "store" /\ x[2] \in Values
  OBVIOUS
<1>5. D(x) => x[1] = "cached" /\ x[2] \in Channels /\ x = <<x[1], x[2]>>
  OBVIOUS
<1>6. E(x) => /\ x[1] = "send" /\ x[2] \in Joins \cup Recreates \cup Others
              /\ x[2].kind \notin {"mute", "rtts"}
  BY DEF Joins, Recreates, Others, RequestsOf
<1>7. F(x) => x[1] = "sendJoin" /\ x[2] \in Channels /\ x = <<x[1], x[2]>>
  OBVIOUS
<1>8. G(x) => x[1] = "subscribed" /\ x[2] \in BOOLEAN
  OBVIOUS
<1>9. H(x) => x[1] \in {"peers", "node"} /\ x[2] \in Messages
  OBVIOUS
<1>10. I(x) => /\ x[1] \in {"note", "flush", "joinAll", "clear", "legacy", "resetJoin",
                            "onReconnect", "close", "begin"}
               /\ x = <<x[1]>>
  OBVIOUS
<1>. HIDE DEF A, B, C, D, E, F, G, H, I
<1>11. /\ x[1] \in RequestSteps
       /\ x[1] = "send" => /\ x[2] \in Mutes \cup Joins \cup Recreates \cup Rtts \cup Others
                           /\ t \in Sorters => x[2] \in Rtts
       /\ x[1] = "again" => x[2] \in Mutes
       /\ x[1] = "store" => x[2] \in Values
  BY <1>1, <1>2, <1>3, <1>4, <1>5, <1>6, <1>7, <1>8, <1>9, <1>10 DEF RequestSteps
<1>12. /\ x[1] \in {"cached", "sendJoin"} => x[2] \in Channels /\ x = <<x[1], x[2]>>
       /\ x[1] = "subscribed" => x[2] \in BOOLEAN
       /\ x[1] \in {"peers", "node"} => x[2] \in Messages
       /\ x[1] \in {"joinAll", "resetJoin", "onReconnect"} => x = <<x[1]>>
  BY <1>1, <1>2, <1>3, <1>4, <1>5, <1>6, <1>7, <1>8, <1>9, <1>10
<1>13. /\ t \in Sorters => x[1] \in {"send", "store", "cached"}
       /\ t \notin Sorters \cup {"loop"} => x[1] \notin {"store", "cached"} /\ ~B(x)
  BY <1>1, <1>2, <1>3, <1>4, <1>5, <1>6, <1>7, <1>8, <1>9, <1>10
<1>14. A(x) <=> x[1] \in {"send", "again"} /\ x[2].kind = "mute"
  BY <1>1, <1>2, <1>3, <1>4, <1>5, <1>6, <1>7, <1>8, <1>9, <1>10
<1>15. B(x) <=> x[1] = "send" /\ x[2].kind = "rtts"
  BY <1>1, <1>2, <1>3, <1>4, <1>5, <1>6, <1>7, <1>8, <1>9, <1>10
<1>. QED
  BY <1>11, <1>12, <1>13, <1>14, <1>15 DEF A, B

\* The first step of a thread.
LEMMA HeadStep ==
    ASSUME TodoTyped, NEW t \in Threads, todo[t] # <<>>
    PROVE  /\ 1 \in DOMAIN todo[t] /\ Head(todo[t]) = todo[t][1]
           /\ todo[t][1] \in StepsOf(t)
           /\ todo[t][1] \in doing(t) /\ todo[t][1] \in everything
BY Indices DEF doing, everything

-------------------------------------------------------------------------------
(* What most actions leave as it is.                                         *)

\* One or two steps as a sequence.
LEMMA FewSteps ==
    ASSUME NEW S, NEW a \in S, NEW b \in S
    PROVE  /\ <<>> \in Seq(S) /\ <<a>> \in Seq(S) /\ <<a, b>> \in Seq(S)
           /\ DOMAIN <<>> = {} /\ DOMAIN <<a>> = {1} /\ DOMAIN <<a, b>> = {1, 2}
           /\ <<a>>[1] = a /\ <<a, b>>[1] = a /\ <<a, b>>[2] = b
  OBVIOUS

LEMMA CarriedQuiet ==
    ASSUME NEW t \in Threads, NEW steps, Runs(t, steps), Carried,
           flags'.recreating = flags.recreating, past'.raced = past.raced,
           past'.owed => past.owed,
           past'.owed /\ ~past'.raced => \A i \in DOMAIN steps : carries(steps[i])
    PROVE  Carried'
<1>1. \A x \in everything' : (\E i \in DOMAIN steps : x = steps[i]) \/ x \in everything
  BY DoingAfter
<1>. QED
  BY <1>1 DEF Carried

SameLatches ==
    /\ link'.open = link.open /\ link'.n = link.n /\ link'.user_closed = link.user_closed
    /\ link'.ending = link.ending
    /\ flags'.joinAll = flags.joinAll /\ isJoined' = isJoined
    /\ past'.ready = past.ready /\ past'.timeouts = past.timeouts /\ past'.hasty = past.hasty
    /\ past.sent \subseteq past'.sent

LEMMA RejoiningQuiet ==
    ASSUME NEW t \in Threads, NEW steps, Runs(t, steps), Rejoining, SameLatches,
           \A i \in DOMAIN steps : steps[i][1] \notin reconnecting,
           1 \in DOMAIN todo[t] =>
               /\ todo[t][1][1] \notin reconnecting \cup {"joinAll"}
               /\ \A c \in Channels : isJoinOf(todo[t][1], c) =>
                      \/ link.open => joinedOn(c)'
                      \/ \E i \in DOMAIN steps : isJoinOf(steps[i], c),
           link.open \/ t # "loop" \/ 1 \in DOMAIN todo[t]
    PROVE  Rejoining'
<1>1. /\ \A u \in Threads : \A x \in doing(u)' :
             (u = t /\ \E i \in DOMAIN steps : x = steps[i]) \/ x \in doing(u)
      /\ \A u \in Threads : \A x \in doing(u) :
             x \in doing(u)' \/ (u = t /\ 1 \in DOMAIN todo[t] /\ x = todo[t][1])
  BY DoingAfter
<1>2. /\ \A x \in everything :
             x \in everything' \/ (1 \in DOMAIN todo[t] /\ x = todo[t][1])
      /\ \A i \in DOMAIN steps : steps[i] \in everything'
  BY DoingAfter
<1>3. "loop" \in Threads
  BY DEF Threads
<1>4. past'.ready <= link'.n
  BY DEF SameLatches, Rejoining
<1>. SUFFICES ASSUME past'.timeouts = 0 /\ ~past'.hasty
              PROVE  Rejoining'
  BY <1>4 DEF Rejoining
<1>5. past.timeouts = 0 /\ ~past.hasty
  BY DEF SameLatches
<1>6. ~link'.ending
  BY <1>5 DEF SameLatches, Rejoining
<1>7. \A u \in Threads \ {"loop"} : \A x \in doing(u)' : x[1] \notin reconnecting
  BY <1>1, <1>5 DEF Rejoining
<1>8. \A x \in doing("loop")' : x[1] \in reconnecting <=> ~link'.open
  <2>1. 1 \in DOMAIN todo["loop"] => todo["loop"][1] \in doing("loop")
    BY DEF doing
  <2>2. t = "loop" => link.open
    BY <1>5, <2>1 DEF Rejoining
  <2>. QED
    BY <1>1, <1>3, <1>5, <2>2 DEF Rejoining, SameLatches
<1>9. \A x \in doing("loop") : x[1] \in reconnecting \cup {"joinAll"} => x \in doing("loop")'
  BY <1>1, <1>3
<1>10. <<"resetJoin">>[1] \in reconnecting /\ <<"onReconnect">>[1] \in reconnecting
       /\ <<"joinAll">>[1] = "joinAll"
  BY DEF reconnecting
<1>11. ~link'.open /\ ~link'.user_closed =>
           /\ flags'.joinAll => <<"resetJoin">> \in doing("loop")'
           /\ isJoined' => <<"onReconnect">> \in doing("loop")'
  BY <1>5, <1>9, <1>10 DEF Rejoining, SameLatches
<1>12. link'.open => (past'.ready = link'.n \/ isJoined'
                          => flags'.joinAll \/ <<"joinAll">> \in doing("loop")')
  BY <1>5, <1>9, <1>10 DEF Rejoining, SameLatches
<1>13. ASSUME link'.open, flags'.joinAll, NEW c \in Channels
       PROVE  joinedOn(c)' \/ \E x \in everything' : isJoinOf(x, c)
  <2>1. joinedOn(c) => joinedOn(c)'
    BY DEF joinedOn, SameLatches
  <2>2. joinedOn(c) \/ \E x \in everything : isJoinOf(x, c)
    BY <1>5, <1>13 DEF Rejoining, SameLatches
  <2>. QED
    BY <1>2, <1>13, <2>1, <2>2 DEF SameLatches
<1>. QED
  BY <1>4, <1>6, <1>7, <1>8, <1>11, <1>12, <1>13 DEF Rejoining

\* What a thread may run, and the requests that are made.
LEMMA Roles ==
    /\ {"app", "loop", "watch"} \subseteq Threads /\ Sorters \subseteq Threads
    /\ StepsOf("app") = PlainSteps /\ StepsOf("watch") = PlainSteps
    /\ StepsOf("loop") = RttsSteps \cup PlainSteps
    /\ \A t \in Sorters : StepsOf(t) = RttsSteps
    /\ \A t \in Threads : StepsOf(t) \subseteq RttsSteps \cup PlainSteps
<1>1. \A x \in {"app", "loop", "watch"} : x \notin Sorters
  BY RequestsAssumption
<1>. QED
  BY <1>1 DEF Threads, StepsOf

LEMMA Requests ==
    ASSUME FlagsTyped, NEW c \in Channels, NEW n \in Nat, NEW b \in BOOLEAN
    PROVE  /\ Request("mute", c, n, FALSE) \in Mutes
           /\ Request("recreate", c, 0, TRUE) \in Recreates
           /\ Request("join", c, 0, b) \in Joins
           /\ Request("rtts", c, n, FALSE) \in Rtts
           /\ Request("subscribe", c, 0, FALSE) \in Others
           /\ Request("leave", 0, 0, FALSE) \in Others
BY DEF FlagsTyped, Request, Mutes, Recreates, Joins, Rtts, Others, RequestsOf

LEMMA Sends ==
    /\ \A r \in Mutes : /\ <<"send", r>> \in MuteSteps /\ <<"again", r>> \in MuteSteps
                        /\ muteKey[<<"send", r>>] = r.nr /\ muteKey[<<"again", r>>] = r.nr
    /\ \A r \in Rtts : /\ <<"send", r>> \in RttsSends
                       /\ rttsKey[<<"send", r>>] = <<r.nr, r.channel>>
    /\ \A r \in Joins \cup Recreates \cup Others : <<"send", r>> \in PlainSteps
    /\ MuteSteps \subseteq PlainSteps /\ RttsSends \subseteq RttsSteps
<1>1. \A r \in Mutes : <<"send", r>> \in MuteSteps /\ <<"again", r>> \in MuteSteps
  BY DEF MuteSteps
<1>2. \A r \in Rtts : <<"send", r>> \in RttsSends
  BY DEF RttsSends
<1>3. \A r \in Mutes : muteKey[<<"send", r>>] = r.nr /\ muteKey[<<"again", r>>] = r.nr
  BY <1>1 DEF muteKey
<1>4. \A r \in Rtts : rttsKey[<<"send", r>>] = <<r.nr, r.channel>>
  BY <1>2 DEF rttsKey
<1>5. \A r \in Joins \cup Recreates \cup Others : <<"send", r>> \in PlainSteps
  BY DEF PlainSteps
<1>. QED
  BY <1>1, <1>2, <1>3, <1>4, <1>5 DEF PlainSteps, RttsSteps

\* A step that nothing of all this is about.
plain(x) ==
    \/ x[1] \in {"subscribed", "clear", "flush", "joinAll", "sendJoin", "peers", "node",
                 "store", "cached", "legacy"}
    \/ x[1] = "send" /\ x[2].kind \in {"subscribe", "leave"}

SamePast ==
    /\ past'.sent = past.sent /\ past'.twice = past.twice /\ past'.cleared = past.cleared
    /\ past'.stored = past.stored /\ past'.ready = past.ready /\ past'.owed = past.owed
    /\ past'.raced = past.raced /\ past'.hasty = past.hasty /\ past'.stores = past.stores
    /\ past'.timeouts = past.timeouts /\ past'.mutes = past.mutes

LEMMA PlainStep ==
    ASSUME Inv, NEW t \in Threads, NEW steps \in Seq(StepsOf(t)), Runs(t, steps), TodoTyped',
           SamePast, UNCHANGED <<pending, rtts, link>>, isJoined' = isJoined,
           flags'.joinAll = flags.joinAll, flags'.recreating = flags.recreating,
           \A i \in DOMAIN steps : plain(steps[i]),
           1 \in DOMAIN todo[t] => todo[t][1][1] \in {"subscribed", "peers"},
           link.open \/ t # "loop" \/ 1 \in DOMAIN todo[t]
    PROVE  First' /\ Carried' /\ Apart' /\ RttsApart' /\ Told' /\ Rejoining'
<1>1. \A i \in DOMAIN steps : steps[i] \in StepsOf(t)
  BY LenProperties, ElementOfSeq
<1>2. 1 \in DOMAIN todo[t] => todo[t][1] \in StepsOf(t)
  BY Indices DEF Inv, Typed
<1>3. \A x \in StepsOf(t) : plain(x) =>
          /\ x \notin MuteSteps \cup RttsSends /\ later(x) /\ carries(x)
          /\ x[1] \notin reconnecting
  BY Classes DEF plain, later, carries, reconnecting
<1>4. \A x \in StepsOf(t) : x[1] \in {"subscribed", "peers"} =>
          /\ x \notin MuteSteps \cup RttsSends /\ x[1] # "cached"
          /\ x[1] \notin reconnecting \cup {"joinAll"}
          /\ \A c \in Channels : ~isJoinOf(x, c)
  BY Classes DEF reconnecting, isJoinOf
<1>5. First'
  <2>1. DOMAIN steps = 1..Len(steps) /\ Len(steps) \in Nat
    BY LenProperties
  <2>. QED
    BY <1>1, <1>3, <2>1, FirstAfter DEF Inv, Typed
<1>6. Carried'
  BY <1>1, <1>3, CarriedQuiet DEF Inv, SamePast
<1>7. Apart' /\ RttsApart' /\ Told'
  <2>1. SameMutes /\ SameRtts
    BY DEF SameMutes, SameRtts, SamePast, mutesSent, keysSent
  <2>2. Apart'
    BY <1>1, <1>2, <1>3, <1>4, <2>1, QuietMutes DEF Inv
  <2>3. RttsApart' /\ Told'
    BY <1>1, <1>2, <1>3, <1>4, <2>1, QuietRtts DEF Inv
  <2>. QED
    BY <2>2, <2>3
<1>8. Rejoining'
  <2>1. SameLatches
    BY DEF SameLatches, SamePast
  <2>. QED
    BY <1>1, <1>2, <1>3, <1>4, <2>1, RejoiningQuiet DEF Inv
<1>. QED
  BY <1>5, <1>6, <1>7, <1>8

-------------------------------------------------------------------------------
(* The actions, in the order of the model: Inv stays.                        *)

LEMMA CalledTyped ==
    ASSUME PastTyped, Called
    PROVE  PastTyped' /\ SamePast
<1>1. past' = [past EXCEPT !.calls = past.calls + 1] /\ past.calls + 1 \in Nat
  BY DEF Called, PastTyped
<1>. QED
  BY <1>1 DEF PastTyped, SamePast

LEMMA PlainSteps1 ==
    /\ \A b \in BOOLEAN : <<"subscribed", b>> \in PlainSteps
    /\ \A c \in Channels : <<"sendJoin", c>> \in PlainSteps
    /\ \A m \in Messages : <<"peers", m>> \in PlainSteps /\ <<"node", m>> \in PlainSteps
    /\ {<<"note">>, <<"flush">>, <<"joinAll">>, <<"clear">>, <<"legacy">>,
        <<"resetJoin">>, <<"onReconnect">>, <<"close">>, <<"begin">>} \subseteq PlainSteps
    /\ \A v \in Values : <<"store", v>> \in RttsSteps
    /\ \A c \in Channels : <<"cached", c>> \in RttsSteps
BY DEF PlainSteps, RttsSteps

LEMMA SubscribeKeeps ==
    ASSUME Inv, NEW c \in Channels, Subscribe(c)
    PROVE  Inv'
<1>1. PICK on \in BOOLEAN :
          Starts("app", << <<"send", Request("subscribe", c, 0, FALSE)>>,
                           <<"subscribed", on>> >>)
  BY DEF Subscribe
<1> DEFINE r == Request("subscribe", c, 0, FALSE)
           steps == << <<"send", r>>, <<"subscribed", on>> >>
<1>2. /\ <<"send", r>> \in StepsOf("app") /\ <<"subscribed", on>> \in StepsOf("app")
      /\ r.kind = "subscribe"
  BY Requests, Sends, PlainSteps1, Roles DEF Inv, Typed, Request
<1>. HIDE DEF r
<1>3. steps \in Seq(StepsOf("app")) /\ \A i \in DOMAIN steps : plain(steps[i])
  BY <1>2, FewSteps DEF plain
<1>4. Starts("app", steps) /\ todo["app"] = <<>>
  BY <1>1 DEF Starts, r
<1>. HIDE DEF steps
<1>5. TodoTyped' /\ Runs("app", steps)
  BY <1>3, <1>4, Roles, RunsStarts DEF Inv, Typed
<1>6. PastTyped' /\ SamePast
  BY CalledTyped DEF Subscribe, Inv, Typed
<1>7. UNCHANGED <<limit, link, flags, pending, rtts, chan, selected>>
  BY DEF Subscribe, OnlyPast
<1>8. Typed'
  BY <1>5, <1>6, <1>7 DEF Inv, Typed, LinkTyped, FlagsTyped, RttsTyped, ChanTyped
<1>9. First' /\ Carried' /\ Apart' /\ RttsApart' /\ Told' /\ Rejoining'
  <2>1. 1 \notin DOMAIN todo["app"] /\ isJoined' = isJoined
    BY <1>4, <1>7 DEF isJoined
  <2>. QED
    BY <1>3, <1>5, <1>6, <1>7, <2>1, Roles, PlainStep
<1>. QED
  BY <1>8, <1>9 DEF Inv

LEMMA SubscribedKeeps ==
    ASSUME Inv, Subscribed
    PROVE  Inv'
<1>1. /\ todo["app"] # <<>> /\ Head(todo["app"])[1] = "subscribed" /\ Then("app", <<>>)
      /\ flags' = [flags EXCEPT !.subscribing = arg("app")]
      /\ UNCHANGED <<limit, link, pending, rtts, chan, selected, past>>
  BY DEF Subscribed, At, OnlyFlags
<1>2. /\ 1 \in DOMAIN todo["app"] /\ Head(todo["app"]) = todo["app"][1]
      /\ todo["app"][1] \in StepsOf("app")
  BY <1>1, Roles, HeadStep DEF Inv, Typed
<1>3. arg("app") \in BOOLEAN
  BY <1>1, <1>2, Roles, Classes DEF arg
<1>4. TodoTyped' /\ Runs("app", <<>>)
  BY <1>1, Roles, RunsThen, FewSteps, EmptySeq DEF Inv, Typed
<1>5. /\ FlagsTyped' /\ flags'.joinAll = flags.joinAll
      /\ flags'.recreating = flags.recreating
  BY <1>1, <1>3 DEF Inv, Typed, FlagsTyped
<1>6. Typed'
  BY <1>1, <1>4, <1>5 DEF Inv, Typed, LinkTyped, RttsTyped, ChanTyped, PastTyped
<1>7. First' /\ Carried' /\ Apart' /\ RttsApart' /\ Told' /\ Rejoining'
  <2>1. SamePast /\ isJoined' = isJoined /\ DOMAIN <<>> = {}
    BY <1>1 DEF SamePast, isJoined
  <2>2. todo["app"][1][1] = "subscribed"
    BY <1>1, <1>2
  <2>. QED
    BY <1>1, <1>2, <1>4, <1>5, <2>1, <2>2, Roles, PlainStep, EmptySeq
<1>. QED
  BY <1>6, <1>7 DEF Inv

LEMMA JoinKeeps ==
    ASSUME Inv, Join
    PROVE  Inv'
<1>1. PICK x \in PlainSteps : plain(x) /\ Starts("app", <<x>>)
  <2>1. CASE Starts("app", << <<"joinAll">> >>)
    BY <2>1, PlainSteps1 DEF plain
  <2>2. CASE \E c \in Channels : Starts("app", << <<"sendJoin", c>> >>)
    BY <2>2, PlainSteps1 DEF plain
  <2>. QED
    BY <2>1, <2>2 DEF Join
<1>2. <<x>> \in Seq(StepsOf("app")) /\ \A i \in DOMAIN <<x>> : plain(<<x>>[i])
  BY <1>1, Roles, FewSteps
<1>3. TodoTyped' /\ Runs("app", <<x>>) /\ todo["app"] = <<>>
  BY <1>1, <1>2, Roles, RunsStarts DEF Inv, Typed, Starts
<1>4. PastTyped' /\ SamePast
  BY CalledTyped DEF Join, Inv, Typed
<1>5. UNCHANGED <<limit, link, flags, pending, rtts, chan, selected>>
  BY DEF Join, OnlyPast
<1>6. Typed'
  BY <1>3, <1>4, <1>5 DEF Inv, Typed, LinkTyped, FlagsTyped, RttsTyped, ChanTyped
<1>7. First' /\ Carried' /\ Apart' /\ RttsApart' /\ Told' /\ Rejoining'
  <2>1. 1 \notin DOMAIN todo["app"] /\ isJoined' = isJoined
    BY <1>3, <1>5 DEF isJoined
  <2>. QED
    BY <1>2, <1>3, <1>4, <1>5, <2>1, Roles, PlainStep
<1>. QED
  BY <1>6, <1>7 DEF Inv

LEMMA JoinedKeeps ==
    ASSUME Inv, NEW c \in Channels, Joined(c)
    PROVE  Inv'
<1>1. PICK m \in [channel : {c}, peer : BOOLEAN, legacy : BOOLEAN, node : BOOLEAN] :
          Starts("loop", << <<"peers", m>>, <<"flush">> >>)
  BY DEF Joined
<1> DEFINE steps == << <<"peers", m>>, <<"flush">> >>
<1>2. <<"peers", m>> \in StepsOf("loop") /\ <<"flush">> \in StepsOf("loop")
  <2>1. m \in Messages
    BY DEF Messages
  <2>. QED
    BY <2>1, PlainSteps1, Roles
<1>3. steps \in Seq(StepsOf("loop")) /\ \A i \in DOMAIN steps : plain(steps[i])
  BY <1>2, FewSteps DEF plain
<1>4. Starts("loop", steps) /\ todo["loop"] = <<>>
  BY <1>1 DEF Starts
<1>. HIDE DEF steps
<1>5. TodoTyped' /\ Runs("loop", steps)
  BY <1>3, <1>4, Roles, RunsStarts DEF Inv, Typed
<1>6. /\ past' = [past EXCEPT !.joined = past.joined + 1] /\ link.open
      /\ flags' = [flags EXCEPT !.auto = flags.auto /\ flags.join]
      /\ UNCHANGED <<limit, link, pending, rtts, chan, selected>>
  BY DEF Joined
<1>7. PastTyped' /\ SamePast
  <2>1. past.joined + 1 \in Nat
    BY DEF Inv, Typed, PastTyped
  <2>. QED
    BY <1>6, <2>1 DEF Inv, Typed, PastTyped, SamePast
<1>8. /\ FlagsTyped' /\ flags'.joinAll = flags.joinAll
      /\ flags'.recreating = flags.recreating
  BY <1>6 DEF Inv, Typed, FlagsTyped
<1>9. Typed'
  BY <1>5, <1>6, <1>7, <1>8 DEF Inv, Typed, LinkTyped, RttsTyped, ChanTyped
<1>10. First' /\ Carried' /\ Apart' /\ RttsApart' /\ Told' /\ Rejoining'
  <2>1. 1 \notin DOMAIN todo["loop"] /\ isJoined' = isJoined
    BY <1>4, <1>6 DEF isJoined
  <2>. QED
    BY <1>3, <1>5, <1>6, <1>7, <1>8, <2>1, Roles, PlainStep
<1>. QED
  BY <1>9, <1>10 DEF Inv

LEMMA ApplyPeersKeeps ==
    ASSUME Inv, ApplyPeers
    PROVE  Inv'
<1>1. /\ todo["loop"] # <<>> /\ Head(todo["loop"])[1] = "peers"
      /\ UNCHANGED <<limit, link, flags, pending, rtts, selected, past>>
  BY DEF ApplyPeers, At
<1>2. /\ 1 \in DOMAIN todo["loop"] /\ Head(todo["loop"]) = todo["loop"][1]
      /\ todo["loop"][1] \in StepsOf("loop") /\ todo["loop"][1][1] = "peers"
  BY <1>1, Roles, HeadStep DEF Inv, Typed
<1> DEFINE m == arg("loop")
           b == m.peer /\ chan[m.channel].peers = 1 /\ m.legacy /\ ~flags.auto
           node == <<"node", m>>
           steps == (IF b THEN << <<"legacy">> >> ELSE <<>>) \o << node >>
           n == IF m.peer THEN 2 ELSE chan[m.channel].peers
<1>3. m \in Messages
  BY <1>1, <1>2, Roles, Classes DEF arg
<1>4. chan' = [chan EXCEPT ![m.channel].peers = n] /\ Then("loop", steps)
  BY DEF ApplyPeers
<1>. HIDE DEF m
<1>5. /\ <<"legacy">> \in StepsOf("loop") /\ node \in StepsOf("loop")
      /\ plain(<<"legacy">>) /\ plain(node)
  BY <1>3, PlainSteps1, Roles DEF plain
<1>. HIDE DEF node
<1>6. steps \in Seq(StepsOf("loop")) /\ \A i \in DOMAIN steps : plain(steps[i])
  <2>1. CASE b
    <3>1. steps = << <<"legacy">>, node >>
      BY <2>1, TwoInSequence
    <3>. HIDE DEF steps
    <3>. QED
      BY <1>5, <3>1, FewSteps
  <2>2. CASE ~b
    <3>1. steps = << node >>
      BY <2>2, TwoInSequence
    <3>. HIDE DEF steps
    <3>. QED
      BY <1>5, <3>1, FewSteps
  <2>. QED
    BY <2>1, <2>2
<1>. HIDE DEF steps
<1>7. TodoTyped' /\ Runs("loop", steps)
  BY <1>1, <1>4, <1>6, Roles, RunsThen DEF Inv, Typed
<1>8. ChanTyped' /\ isJoined' = isJoined
  <2>1. /\ m.channel \in Channels /\ m.peer \in BOOLEAN
        /\ chan \in [Channels -> [peers : {1, 2}, joined : BOOLEAN]]
    BY <1>3 DEF Inv, Typed, ChanTyped, Messages
  <2>2. n \in {1, 2}
    BY <2>1
  <2>. HIDE DEF n
  <2>3. /\ chan' \in [Channels -> [peers : {1, 2}, joined : BOOLEAN]]
        /\ \A c \in Channels : chan'[c].joined = chan[c].joined
    BY <1>4, <2>1, <2>2
  <2>. QED
    BY <2>3 DEF ChanTyped, isJoined
<1>9. Typed'
  BY <1>1, <1>7, <1>8 DEF Inv, Typed, LinkTyped, FlagsTyped, RttsTyped, PastTyped
<1>10. First' /\ Carried' /\ Apart' /\ RttsApart' /\ Told' /\ Rejoining'
  <2>1. SamePast
    BY <1>1 DEF SamePast
  <2>. QED
    BY <1>1, <1>2, <1>6, <1>7, <1>8, <2>1, Roles, PlainStep
<1>. QED
  BY <1>9, <1>10 DEF Inv

LEMMA ResultKeeps ==
    ASSUME Inv, NEW t \in Sorters, Result(t)
    PROVE  Inv'
<1>1. PICK v \in Values : Starts(t, << <<"store", v>> >>)
  BY DEF Result
<1> DEFINE x == <<"store", v>>
<1>2. x \in StepsOf(t) /\ plain(x) /\ t \in Threads /\ t # "loop"
  BY PlainSteps1, Roles, RequestsAssumption DEF plain
<1>. HIDE DEF x
<1>3. <<x>> \in Seq(StepsOf(t)) /\ \A i \in DOMAIN <<x>> : plain(<<x>>[i])
  BY <1>2, FewSteps
<1>4. Starts(t, <<x>>) /\ todo[t] = <<>>
  BY <1>1 DEF Starts, x
<1>5. TodoTyped' /\ Runs(t, <<x>>)
  BY <1>2, <1>3, <1>4, RunsStarts DEF Inv, Typed
<1>6. /\ past' = [past EXCEPT !.results = past.results + 1]
      /\ UNCHANGED <<limit, link, flags, pending, rtts, chan, selected>>
  BY DEF Result, OnlyPast
<1>7. PastTyped' /\ SamePast
  <2>1. past.results + 1 \in Nat
    BY DEF Inv, Typed, PastTyped
  <2>. QED
    BY <1>6, <2>1 DEF Inv, Typed, PastTyped, SamePast
<1>8. Typed'
  BY <1>5, <1>6, <1>7 DEF Inv, Typed, LinkTyped, FlagsTyped, RttsTyped, ChanTyped
<1>9. First' /\ Carried' /\ Apart' /\ RttsApart' /\ Told' /\ Rejoining'
  <2>1. 1 \notin DOMAIN todo[t] /\ isJoined' = isJoined
    BY <1>4, <1>6 DEF isJoined
  <2>. QED
    BY <1>2, <1>3, <1>5, <1>6, <1>7, <2>1, PlainStep
<1>. QED
  BY <1>8, <1>9 DEF Inv

LEMMA MuteKeeps ==
    ASSUME Inv, NEW c \in Channels, Mute(c)
    PROVE  Inv'
<1> DEFINE r == Request("mute", c, past.mutes + 1, FALSE)
           x == <<"send", r>>
<1>1. past.mutes \in Nat /\ past.mutes + 1 \in Nat
  BY DEF Inv, Typed, PastTyped
<1>2. /\ r \in Mutes /\ r.nr = past.mutes + 1 /\ r.kind = "mute"
      /\ x \in MuteSteps /\ muteKey[x] = past.mutes + 1
      /\ x \in StepsOf("app") /\ x[1] = "send" /\ x[2] = r
  <2>1. r \in Mutes
    BY <1>1, Requests DEF Inv, Typed
  <2>2. r.nr = past.mutes + 1 /\ r.kind = "mute"
    BY DEF Request
  <2>. HIDE DEF r
  <2>. QED
    BY <2>1, <2>2, Sends, Roles
<1>3. /\ Starts("app", <<x>>) /\ todo["app"] = <<>>
      /\ past' = [past EXCEPT !.mutes = past.mutes + 1]
      /\ UNCHANGED <<limit, link, flags, pending, rtts, chan, selected>>
  BY DEF Mute, Starts, OnlyPast
<1>. HIDE DEF x, r
<1>4. /\ <<x>> \in Seq(StepsOf("app")) /\ DOMAIN <<x>> = {1} /\ <<x>>[1] = x
      /\ Len(<<x>>) = 1 /\ 1 \notin DOMAIN todo["app"]
  BY <1>2, <1>3, FewSteps
<1>5. TodoTyped' /\ Runs("app", <<x>>) /\ "app" \in Threads
  BY <1>3, <1>4, Roles, RunsStarts DEF Inv, Typed
<1>6. /\ PastTyped' /\ past'.mutes = past.mutes + 1 /\ past'.sent = past.sent
      /\ past'.cleared = past.cleared /\ past'.twice = past.twice
      /\ past'.stored = past.stored /\ past'.ready = past.ready /\ past'.owed = past.owed
      /\ past'.raced = past.raced /\ past'.hasty = past.hasty
      /\ past'.stores = past.stores /\ past'.timeouts = past.timeouts
  BY <1>1, <1>3 DEF Inv, Typed, PastTyped
<1>7. Typed'
  BY <1>3, <1>5, <1>6 DEF Inv, Typed, LinkTyped, FlagsTyped, RttsTyped, ChanTyped
<1>8. later(x) /\ carries(x) /\ x[1] \notin reconnecting /\ x \notin RttsSends
  BY <1>2, Roles, Classes DEF later, carries, reconnecting
<1>9. First'
  BY <1>4, <1>5, <1>8, FirstAfter DEF Inv, Typed
<1>10. Carried'
  BY <1>3, <1>4, <1>5, <1>6, <1>8, CarriedQuiet DEF Inv
<1>11. Apart'
  <2>1. /\ NewKeys(<<x>>, MuteSteps, muteKey) = {past.mutes + 1}
        /\ GoneKey("app", MuteSteps, muteKey) = {}
    BY <1>2, <1>4 DEF NewKeys, GoneKey
  <2>2. /\ Once(MuteSteps, muteKey)
        /\ past.mutes + 1 \notin Held(MuteSteps, muteKey)
        /\ past.mutes + 1 \notin numbers(ToSet(pending)) \cup numbers(mutesSent)
        /\ past.mutes + 1 \notin past.cleared
    BY <1>1 DEF Inv, Apart
  <2>3. /\ Once(MuteSteps, muteKey)'
        /\ Held(MuteSteps, muteKey)' = Held(MuteSteps, muteKey) \cup {past.mutes + 1}
    <3>1. \A i, j \in DOMAIN <<x>> : i = j
      BY <1>4
    <3>. QED
      BY <1>5, <2>1, <2>2, <3>1, HeldAfter
  <2>4. 1..past'.mutes = (1..past.mutes) \cup {past.mutes + 1}
    BY <1>1, <1>6
  <2>5. pending' = pending /\ mutesSent' = mutesSent
    BY <1>3, <1>6 DEF mutesSent
  <2>. QED
    BY <1>6, <2>2, <2>3, <2>4, <2>5 DEF Inv, Apart
<1>12. RttsApart' /\ Told'
  <2>1. SameRtts
    BY <1>3, <1>6 DEF SameRtts, keysSent
  <2>. QED
    BY <1>4, <1>5, <1>8, <2>1, QuietRtts DEF Inv
<1>13. Rejoining'
  <2>1. SameLatches
    BY <1>3, <1>6 DEF SameLatches, isJoined
  <2>. QED
    BY <1>4, <1>5, <1>8, <2>1, RejoiningQuiet DEF Inv
<1>. QED
  BY <1>7, <1>9, <1>10, <1>11, <1>12, <1>13 DEF Inv

LEMMA RecreateKeeps ==
    ASSUME Inv, NEW c \in Channels, Recreate(c)
    PROVE  Inv'
<1> DEFINE r == Request("recreate", c, 0, TRUE)
           x == <<"send", r>>
<1>1. /\ r \in Recreates /\ r.kind = "recreate" /\ x \in StepsOf("app")
      /\ x[1] = "send" /\ x[2] = r
  <2>1. r \in Recreates /\ r.kind = "recreate"
    BY Requests DEF Inv, Typed, Request
  <2>. HIDE DEF r
  <2>. QED
    BY <2>1, Sends, Roles
<1>2. /\ Starts("app", <<x>>) /\ todo["app"] = <<>>
      /\ past' = [past EXCEPT !.calls = past.calls + 1, !.owed = TRUE,
                              !.raced = past.raced \/ joinSent]
      /\ flags' = [flags EXCEPT !.recreating = TRUE]
      /\ UNCHANGED <<limit, link, pending, rtts, chan, selected>>
  BY DEF Recreate, Starts
<1>. HIDE DEF x, r
<1>3. /\ <<x>> \in Seq(StepsOf("app")) /\ DOMAIN <<x>> = {1} /\ <<x>>[1] = x
      /\ Len(<<x>>) = 1 /\ 1 \notin DOMAIN todo["app"]
  BY <1>1, <1>2, FewSteps
<1>4. TodoTyped' /\ Runs("app", <<x>>) /\ "app" \in Threads
  BY <1>2, <1>3, Roles, RunsStarts DEF Inv, Typed
<1>5. joinSent \in BOOLEAN
  BY DEF joinSent
<1>6. /\ PastTyped' /\ past'.mutes = past.mutes /\ past'.sent = past.sent
      /\ past'.cleared = past.cleared /\ past'.twice = past.twice
      /\ past'.stored = past.stored /\ past'.ready = past.ready
      /\ past'.raced = (past.raced \/ joinSent) /\ past'.hasty = past.hasty
      /\ past'.stores = past.stores /\ past'.timeouts = past.timeouts
  <2>1. past.calls + 1 \in Nat /\ (past.raced \/ joinSent) \in BOOLEAN
    BY DEF Inv, Typed, PastTyped
  <2>. QED
    BY <1>2, <2>1 DEF Inv, Typed, PastTyped
<1>7. FlagsTyped' /\ flags'.recreating /\ flags'.joinAll = flags.joinAll
  BY <1>2 DEF Inv, Typed, FlagsTyped
<1>8. Typed'
  BY <1>2, <1>4, <1>6, <1>7 DEF Inv, Typed, LinkTyped, RttsTyped, ChanTyped
<1>9. later(x) /\ carries(x) /\ x[1] \notin reconnecting /\ x \notin MuteSteps \cup RttsSends
  BY <1>1, Roles, Classes DEF later, carries, reconnecting
<1>10. First'
  BY <1>3, <1>4, <1>9, FirstAfter DEF Inv, Typed
<1>11. Carried'
  <2>. SUFFICES ASSUME ~past'.raced
                PROVE  \A y \in everything' : carries(y)
    BY <1>7 DEF Carried
  <2>1. ASSUME NEW t \in Threads, NEW i \in DOMAIN todo[t]
        PROVE  carries(todo[t][i])
    <3>1. ~joinSent
      BY <1>6
    <3>2. t # "app"
      BY <1>2, <2>1
    <3>3. CASE i # 1
      BY <2>1, <3>3 DEF Inv, First, later, carries
    <3>4. CASE i = 1
      <4>1. todo[t] # <<>>
        BY <2>1
      <4>2. Head(todo[t]) = todo[t][1]
        BY <4>1, HeadStep DEF Inv, Typed
      <4>. QED
        BY <3>1, <3>2, <3>4, <4>1, <4>2 DEF joinSent, At, arg, carries
    <3>. QED
      BY <3>3, <3>4
  <2>2. \A y \in everything : carries(y)
    BY <2>1 DEF everything, doing
  <2>3. \A y \in everything' : y = x \/ y \in everything
    BY <1>3, <1>4, DoingAfter
  <2>. QED
    BY <1>9, <2>2, <2>3
<1>12. Apart'
  <2>1. SameMutes
    BY <1>2, <1>6 DEF SameMutes, mutesSent
  <2>. QED
    BY <1>3, <1>4, <1>9, <2>1, QuietMutes DEF Inv
<1>13. RttsApart' /\ Told'
  <2>1. SameRtts
    BY <1>2, <1>6 DEF SameRtts, keysSent
  <2>. QED
    BY <1>3, <1>4, <1>9, <2>1, QuietRtts DEF Inv
<1>14. Rejoining'
  <2>1. SameLatches
    BY <1>2, <1>6, <1>7 DEF SameLatches, isJoined
  <2>. QED
    BY <1>3, <1>4, <1>9, <2>1, RejoiningQuiet DEF Inv
<1>. QED
  BY <1>8, <1>10, <1>11, <1>12, <1>13, <1>14 DEF Inv

LEMMA DisconnectKeeps ==
    ASSUME Inv, Disconnect
    PROVE  Inv'
<1> DEFINE r == Request("leave", 0, 0, FALSE)
           x == <<"send", r>>
           y == <<"clear">>
<1>1. r \in Others
  BY Requests DEF Inv, Typed, FlagsTyped, Request, Others, RequestsOf
<1>2. r.kind = "leave"
  BY DEF Request
<1>3. /\ Starts("app", <<x, y>>) /\ todo["app"] = <<>> /\ Called
      /\ link' = [link EXCEPT !.user_closed = TRUE, !.next = FALSE]
      /\ UNCHANGED <<limit, flags, pending, rtts, chan, selected>>
  BY DEF Disconnect, Starts
<1>. HIDE DEF r
<1>4. /\ x \in StepsOf("app") /\ y \in StepsOf("app") /\ x[1] = "send" /\ x[2].kind = "leave"
      /\ y[1] = "clear"
  BY <1>1, <1>2, Sends, PlainSteps1, Roles
<1>. HIDE DEF x, y
<1>5. /\ <<x, y>> \in Seq(StepsOf("app")) /\ DOMAIN <<x, y>> = {1, 2} /\ Len(<<x, y>>) = 2
      /\ <<x, y>>[1] = x /\ <<x, y>>[2] = y /\ 1 \notin DOMAIN todo["app"]
  BY <1>3, <1>4, FewSteps
<1>6. TodoTyped' /\ Runs("app", <<x, y>>) /\ "app" \in Threads
  BY <1>3, <1>5, Roles, RunsStarts DEF Inv, Typed
<1>7. PastTyped' /\ SamePast
  BY <1>3, CalledTyped DEF Inv, Typed
<1>8. /\ LinkTyped' /\ link'.open = link.open /\ link'.n = link.n
      /\ link'.ending = link.ending /\ link'.user_closed
  BY <1>3 DEF Inv, Typed, LinkTyped
<1>9. Typed'
  BY <1>3, <1>6, <1>7, <1>8 DEF Inv, Typed, FlagsTyped, RttsTyped, ChanTyped
<1>10. /\ \A i \in DOMAIN <<x, y>> : /\ later(<<x, y>>[i]) /\ carries(<<x, y>>[i])
                                     /\ <<x, y>>[i] \notin MuteSteps \cup RttsSends
                                     /\ <<x, y>>[i][1] \notin reconnecting
  <2>1. \A z \in {x, y} : /\ later(z) /\ carries(z) /\ z[1] \notin reconnecting
                          /\ z \notin MuteSteps \cup RttsSends
    BY <1>4, Roles, Classes DEF later, carries, reconnecting
  <2>. QED
    BY <1>5, <2>1
<1>11. First'
  <2>1. DOMAIN <<x, y>> = 1..2
    BY <1>5
  <2>. QED
    BY <1>5, <1>6, <1>10, <2>1, FirstAfter DEF Inv, Typed
<1>12. Carried'
  BY <1>3, <1>6, <1>7, <1>10, CarriedQuiet DEF Inv, SamePast
<1>13. Apart'
  <2>1. SameMutes
    BY <1>3, <1>7 DEF SameMutes, SamePast, mutesSent
  <2>. QED
    BY <1>5, <1>6, <1>10, <2>1, QuietMutes DEF Inv
<1>14. RttsApart' /\ Told'
  <2>1. SameRtts
    BY <1>3, <1>7, <1>8 DEF SameRtts, SamePast, keysSent
  <2>. QED
    BY <1>5, <1>6, <1>10, <2>1, QuietRtts DEF Inv
<1>15. Rejoining'
  <2>1. /\ \A u \in Threads : \A z \in doing(u)' :
             (u = "app" /\ \E i \in DOMAIN <<x, y>> : z = <<x, y>>[i]) \/ z \in doing(u)
        /\ \A u \in Threads : \A z \in doing(u) : z \in doing(u)'
        /\ \A z \in everything : z \in everything'
    BY <1>5, <1>6, DoingAfter
  <2>2. "loop" \in Threads /\ "loop" # "app"
    BY Roles
  <2>3. isJoined' = isJoined /\ \A c : joinedOn(c)' <=> joinedOn(c)
    BY <1>3, <1>7, <1>8 DEF isJoined, joinedOn, SamePast
  <2>. QED
    BY <1>3, <1>7, <1>8, <1>10, <2>1, <2>2, <2>3 DEF Inv, Rejoining, SamePast
<1>. QED
  BY <1>9, <1>11, <1>12, <1>13, <1>14, <1>15 DEF Inv

LEMMA ClearKeeps ==
    ASSUME Inv, Clear
    PROVE  Inv'
<1> DEFINE nrs == {pending[i].nr : i \in DOMAIN pending}
<1>1. /\ todo["app"] # <<>> /\ Head(todo["app"])[1] = "clear" /\ Then("app", <<>>)
      /\ pending' = <<>> /\ past' = [past EXCEPT !.cleared = past.cleared \cup nrs]
      /\ UNCHANGED <<limit, link, flags, rtts, chan, selected>>
  BY DEF Clear, At
<1>2. /\ 1 \in DOMAIN todo["app"] /\ Head(todo["app"]) = todo["app"][1]
      /\ todo["app"][1] \in StepsOf("app") /\ todo["app"][1][1] = "clear"
  BY <1>1, Roles, HeadStep DEF Inv, Typed
<1>3. TodoTyped' /\ Runs("app", <<>>) /\ "app" \in Threads /\ DOMAIN <<>> = {} /\ Len(<<>>) = 0
  <2>1. <<>> \in Seq(StepsOf("app")) /\ DOMAIN <<>> = {} /\ Len(<<>>) = 0
    OBVIOUS
  <2>. QED
    BY <1>1, <2>1, Roles, RunsThen DEF Inv, Typed
<1>4. nrs = numbers(ToSet(pending)) /\ nrs \subseteq Nat
  <2>1. \A i \in DOMAIN pending : pending[i].nr \in Nat
    <3>1. pending \in Seq(Mutes) /\ \A m \in Mutes : m.nr \in Nat
      BY DEF Inv, Typed, Mutes, RequestsOf
    <3>. QED
      BY <3>1, LenProperties, ElementOfSeq
  <2>. QED
    BY <2>1 DEF numbers, ToSet
<1>. HIDE DEF nrs
<1>5. /\ PastTyped' /\ past'.mutes = past.mutes /\ past'.sent = past.sent
      /\ past'.cleared = past.cleared \cup nrs /\ past'.twice = past.twice
      /\ past'.stored = past.stored /\ past'.ready = past.ready /\ past'.owed = past.owed
      /\ past'.raced = past.raced /\ past'.hasty = past.hasty
      /\ past'.stores = past.stores /\ past'.timeouts = past.timeouts
  <2>1. past.cleared \cup nrs \in SUBSET Nat
    BY <1>4 DEF Inv, Typed, PastTyped
  <2>. QED
    BY <1>1, <2>1 DEF Inv, Typed, PastTyped
<1>6. Typed'
  BY <1>1, <1>3, <1>5, EmptySeq DEF Inv, Typed, LinkTyped, FlagsTyped, RttsTyped, ChanTyped
<1>7. /\ todo["app"][1] \notin MuteSteps \cup RttsSends
      /\ todo["app"][1][1] \notin reconnecting \cup {"joinAll", "cached"}
      /\ \A c : ~isJoinOf(todo["app"][1], c)
  BY <1>2, <1>3, Classes DEF reconnecting, isJoinOf
<1>8. First'
  <2>1. 1..0 = {}
    OBVIOUS
  <2>. QED
    BY <1>3, <2>1, FirstAfter DEF Inv, Typed
<1>9. Carried'
  BY <1>1, <1>3, <1>5, CarriedQuiet DEF Inv
<1>10. Apart'
  <2>1. /\ Once(MuteSteps, muteKey)'
        /\ Held(MuteSteps, muteKey)' = Held(MuteSteps, muteKey)
    BY <1>3, <1>7, HeldSame DEF Inv, Apart
  <2>2. mutesSent' = mutesSent
    BY <1>5 DEF mutesSent
  <2>3. numbers(ToSet(pending'))= {} /\ DOMAIN pending' = {}
    BY <1>1 DEF numbers, ToSet
  <2>. QED
    BY <1>4, <1>5, <2>1, <2>2, <2>3 DEF Inv, Apart
<1>11. RttsApart' /\ Told'
  <2>1. SameRtts
    BY <1>1, <1>5 DEF SameRtts, keysSent
  <2>. QED
    BY <1>3, <1>7, <2>1, QuietRtts DEF Inv
<1>12. Rejoining'
  <2>1. SameLatches
    BY <1>1, <1>5 DEF SameLatches, isJoined
  <2>. QED
    BY <1>3, <1>7, <2>1, RejoiningQuiet DEF Inv
<1>. QED
  BY <1>6, <1>8, <1>9, <1>10, <1>11, <1>12 DEF Inv

\* A thread whose next step has that name.
LEMMA AtStep ==
    ASSUME Typed, NEW t \in Threads, NEW name, At(t, name)
    PROVE  /\ todo[t] # <<>> /\ 1 \in DOMAIN todo[t] /\ todo[t][1][1] = name
           /\ todo[t][1] \in StepsOf(t) /\ arg(t) = todo[t][1][2]
           /\ todo[t][1] \in doing(t) /\ todo[t][1] \in everything
BY HeadStep DEF At, arg, Typed

\* It drops that step, and nothing else.
LEMMA Drops ==
    ASSUME Typed, NEW t \in Threads, todo[t] # <<>>, Then(t, <<>>)
    PROVE  /\ TodoTyped' /\ Runs(t, <<>>)
           /\ DOMAIN <<>> = {} /\ DOMAIN <<>> = 1..Len(<<>>) /\ Len(<<>>) \in Nat
<1>1. /\ <<>> \in Seq(StepsOf(t)) /\ DOMAIN <<>> = {} /\ DOMAIN <<>> = 1..Len(<<>>)
      /\ Len(<<>>) \in Nat
  OBVIOUS
<1>. QED
  BY <1>1, RunsThen DEF Typed

\* Or has one step in its place.
LEMMA DropsForOne ==
    ASSUME Typed, NEW t \in Threads, todo[t] # <<>>, NEW x \in StepsOf(t), Then(t, <<x>>)
    PROVE  /\ TodoTyped' /\ Runs(t, <<x>>)
           /\ DOMAIN <<x>> = {1} /\ DOMAIN <<x>> = 1..Len(<<x>>) /\ Len(<<x>>) \in Nat
           /\ <<x>>[1] = x
<1>1. /\ <<x>> \in Seq(StepsOf(t)) /\ DOMAIN <<x>> = {1} /\ DOMAIN <<x>> = 1..Len(<<x>>)
      /\ Len(<<x>>) \in Nat /\ <<x>>[1] = x
  OBVIOUS
<1>. QED
  BY <1>1, RunsThen DEF Typed

LEMMA NoteKeeps ==
    ASSUME Inv, NEW t \in Threads, Note(t)
    PROVE  Inv'
<1>1. /\ todo[t] # <<>> /\ 1 \in DOMAIN todo[t] /\ todo[t][1][1] = "note"
      /\ todo[t][1] \in StepsOf(t) /\ todo[t][1] \in everything
  BY AtStep DEF Note, Inv
<1>2. /\ Then(t, <<>>) /\ flags' = [flags EXCEPT !.recreating = FALSE]
      /\ UNCHANGED <<limit, link, pending, rtts, chan, selected, past>>
  BY DEF Note, OnlyFlags
<1>3. /\ TodoTyped' /\ Runs(t, <<>>)
      /\ DOMAIN <<>> = {} /\ DOMAIN <<>> = 1..Len(<<>>) /\ Len(<<>>) \in Nat
  BY <1>1, <1>2, Drops DEF Inv
<1>4. FlagsTyped' /\ flags'.joinAll = flags.joinAll
  BY <1>2 DEF Inv, Typed, FlagsTyped
<1>5. Typed'
  BY <1>2, <1>3, <1>4 DEF Inv, Typed, LinkTyped, RttsTyped, ChanTyped, PastTyped
<1>6. /\ todo[t][1] \notin MuteSteps \cup RttsSends
      /\ todo[t][1][1] \notin reconnecting \cup {"joinAll", "cached"}
      /\ \A c : ~isJoinOf(todo[t][1], c)
  BY <1>1, Classes DEF reconnecting, isJoinOf
<1>7. First'
  BY <1>3, FirstAfter DEF Inv, Typed
<1>8. Carried'
  BY <1>1, <1>2 DEF Inv, Carried, carries
<1>9. Apart'
  <2>1. SameMutes
    BY <1>2 DEF SameMutes, mutesSent
  <2>. QED
    BY <1>3, <1>6, <2>1, QuietMutes DEF Inv
<1>10. RttsApart' /\ Told'
  <2>1. SameRtts
    BY <1>2 DEF SameRtts, keysSent
  <2>. QED
    BY <1>3, <1>6, <2>1, QuietRtts DEF Inv
<1>11. Rejoining'
  <2>1. SameLatches
    BY <1>2, <1>4 DEF SameLatches, isJoined
  <2>. QED
    BY <1>1, <1>3, <1>6, <2>1, RejoiningQuiet DEF Inv
<1>. QED
  BY <1>5, <1>7, <1>8, <1>9, <1>10, <1>11 DEF Inv

LEMMA AgainKeeps ==
    ASSUME Inv, NEW t \in Threads, Again(t)
    PROVE  Inv'
<1> DEFINE x == todo[t][1]
           r == arg(t)
<1>1. /\ todo[t] # <<>> /\ 1 \in DOMAIN todo[t] /\ x[1] = "again"
      /\ x \in StepsOf(t) /\ r = x[2] /\ x \in everything
  BY AtStep DEF Again, Inv
<1>2. /\ Then(t, <<>>) /\ pending' = Append(pending, r)
      /\ UNCHANGED <<limit, link, flags, rtts, chan, selected, past>>
  BY DEF Again
<1>3. /\ TodoTyped' /\ Runs(t, <<>>)
      /\ DOMAIN <<>> = {} /\ DOMAIN <<>> = 1..Len(<<>>) /\ Len(<<>>) \in Nat
  BY <1>1, <1>2, Drops DEF Inv
<1>4. /\ r \in Mutes /\ x \in MuteSteps /\ muteKey[x] = r.nr /\ x \notin RttsSends
      /\ x[1] \notin reconnecting \cup {"joinAll", "cached"} /\ \A c : ~isJoinOf(x, c)
  <2>1. /\ r \in Mutes /\ x \notin RttsSends
        /\ x[1] \notin reconnecting \cup {"joinAll", "cached"} /\ \A c : ~isJoinOf(x, c)
    BY <1>1, Classes DEF reconnecting, isJoinOf
  <2>2. r.kind = "mute"
    BY <2>1 DEF Mutes, RequestsOf
  <2>3. x \in MuteSteps
    BY <1>1, <2>2, Classes
  <2>. QED
    BY <1>1, <2>1, <2>3 DEF muteKey
<1>. HIDE DEF r, x
<1>5. /\ pending' \in Seq(Mutes) /\ DOMAIN pending' = 1..(Len(pending) + 1)
      /\ DOMAIN pending = 1..Len(pending) /\ Len(pending) \in Nat
      /\ \A i \in 1..Len(pending) : pending'[i] = pending[i]
      /\ pending'[Len(pending) + 1] = r
  BY <1>2, <1>4, LenProperties, AppendProperties DEF Inv, Typed
<1>6. Typed'
  BY <1>2, <1>3, <1>5 DEF Inv, Typed, LinkTyped, FlagsTyped, RttsTyped, ChanTyped, PastTyped
<1>7. First'
  BY <1>3, FirstAfter DEF Inv, Typed
<1>8. Carried'
  BY <1>2, <1>3, CarriedQuiet DEF Inv
<1>9. Apart'
  <2>1. /\ NewKeys(<<>>, MuteSteps, muteKey) = {}
        /\ GoneKey(t, MuteSteps, muteKey) = {r.nr}
    BY <1>1, <1>3, <1>4 DEF NewKeys, GoneKey, x
  <2>2. /\ Once(MuteSteps, muteKey)'
        /\ Held(MuteSteps, muteKey)' = Held(MuteSteps, muteKey) \ {r.nr}
    BY <1>3, <2>1, HeldAfter DEF Inv, Apart
  <2>3. r.nr \in Held(MuteSteps, muteKey)
    BY <1>1, <1>4 DEF Held
  <2>4. r.nr \notin numbers(ToSet(pending)) /\ r.nr \notin numbers(mutesSent)
    BY <2>3 DEF Inv, Apart
  <2>5. \A i \in 1..(Len(pending) + 1) : i \in 1..Len(pending) \/ i = Len(pending) + 1
    BY <1>5
  <2>6. \A i \in DOMAIN pending : pending[i].nr \in numbers(ToSet(pending))
    BY DEF numbers, ToSet
  <2>7. \A i, j \in DOMAIN pending' : pending'[i].nr = pending'[j].nr => i = j
    BY <1>5, <2>4, <2>5, <2>6 DEF Inv, Apart
  <2>8. numbers(ToSet(pending')) = numbers(ToSet(pending)) \cup {r.nr}
    <3>1. \A s : s \in ToSet(pending') <=> s \in ToSet(pending) \/ s = r
      <4>1. Len(pending) + 1 \in 1..(Len(pending) + 1)
            /\ \A i \in 1..Len(pending) : i \in 1..(Len(pending) + 1)
        BY <1>5
      <4>. QED
        BY <1>5, <2>5, <4>1 DEF ToSet
    <3>. QED
      BY <3>1 DEF numbers
  <2>9. mutesSent' = mutesSent
    BY <1>2 DEF mutesSent
  <2>. QED
    BY <1>2, <2>2, <2>3, <2>4, <2>7, <2>8, <2>9 DEF Inv, Apart
<1>10. RttsApart' /\ Told'
  <2>1. SameRtts
    BY <1>2 DEF SameRtts, keysSent
  <2>. QED
    BY <1>3, <1>4, <2>1, QuietRtts DEF Inv, x
<1>11. Rejoining'
  <2>1. SameLatches
    BY <1>2 DEF SameLatches, isJoined
  <2>. QED
    BY <1>1, <1>3, <1>4, <2>1, RejoiningQuiet DEF Inv, x
<1>. QED
  BY <1>6, <1>7, <1>8, <1>9, <1>10, <1>11 DEF Inv

LEMMA FlushKeeps ==
    ASSUME Inv, NEW t \in Threads, Flush(t)
    PROVE  Inv'
<1> DEFINE x == todo[t][1]
           steps == [i \in DOMAIN pending |-> <<"send", pending[i]>>]
           Q == numbers(ToSet(pending))
<1>1. /\ todo[t] # <<>> /\ 1 \in DOMAIN todo[t] /\ x[1] = "flush" /\ x \in StepsOf(t)
      /\ t \notin Sorters
  <2>1. /\ todo[t] # <<>> /\ 1 \in DOMAIN todo[t] /\ x[1] = "flush" /\ x \in StepsOf(t)
    BY AtStep DEF Flush, Inv
  <2>. QED
    BY <2>1, Classes
<1>2. /\ Then(t, steps) /\ pending' = <<>>
      /\ UNCHANGED <<limit, link, flags, rtts, chan, selected, past>>
  BY DEF Flush
<1>3. /\ pending \in Seq(Mutes) /\ DOMAIN pending = 1..Len(pending) /\ Len(pending) \in Nat
      /\ \A i \in DOMAIN pending : pending[i] \in Mutes
  BY LenProperties, ElementOfSeq DEF Inv, Typed
<1>4. \A r \in Mutes : /\ <<"send", r>> \in StepsOf(t) \cap MuteSteps
                       /\ muteKey[<<"send", r>>] = r.nr
                       /\ later(<<"send", r>>) /\ carries(<<"send", r>>)
                       /\ <<"send", r>> \notin RttsSends
                       /\ <<"send", r>>[1] \notin reconnecting
  <2>. TAKE r \in Mutes
  <2>1. <<"send", r>> \in StepsOf(t) \cap MuteSteps /\ muteKey[<<"send", r>>] = r.nr
    BY <1>1, Sends DEF StepsOf
  <2>2. r.kind = "mute"
    BY DEF Mutes, RequestsOf
  <2>3. /\ later(<<"send", r>>) /\ carries(<<"send", r>>)
        /\ <<"send", r>>[1] \notin reconnecting /\ <<"send", r>> \notin RttsSends
    BY <2>1, <2>2, Classes DEF later, carries, reconnecting
  <2>. QED
    BY <2>1, <2>3
<1>5. /\ steps \in Seq(StepsOf(t)) /\ DOMAIN steps = DOMAIN pending
      /\ Len(steps) = Len(pending)
      /\ \A i \in DOMAIN steps : /\ steps[i] \in MuteSteps /\ muteKey[steps[i]] = pending[i].nr
                                 /\ later(steps[i]) /\ carries(steps[i])
                                 /\ steps[i] \notin RttsSends
                                 /\ steps[i][1] \notin reconnecting
                                 /\ steps[i] = <<"send", pending[i]>>
  BY <1>3, <1>4
<1>. HIDE DEF steps
<1>6. TodoTyped' /\ Runs(t, steps)
  BY <1>1, <1>2, <1>5, RunsThen DEF Inv, Typed
<1>7. Typed'
  BY <1>2, <1>6, EmptySeq
     DEF Inv, Typed, LinkTyped, FlagsTyped, RttsTyped, ChanTyped, PastTyped
<1>8. /\ x \notin MuteSteps \cup RttsSends
      /\ x[1] \notin reconnecting \cup {"joinAll", "cached"} /\ \A c : ~isJoinOf(x, c)
  BY <1>1, Classes DEF reconnecting, isJoinOf
<1>. HIDE DEF x
<1>9. First'
  BY <1>3, <1>5, <1>6, FirstAfter DEF Inv, Typed
<1>10. Carried'
  BY <1>2, <1>5, <1>6, CarriedQuiet DEF Inv
<1>11. Apart'
  <2>1. NewKeys(steps, MuteSteps, muteKey) = Q /\ GoneKey(t, MuteSteps, muteKey) = {}
    <3>1. \A k : k \in Q <=> \E i \in DOMAIN pending : k = pending[i].nr
      BY DEF numbers, ToSet
    <3>2. \A k : k \in NewKeys(steps, MuteSteps, muteKey) <=>
                     \E i \in DOMAIN steps : k = muteKey[steps[i]]
      BY <1>5 DEF NewKeys
    <3>3. GoneKey(t, MuteSteps, muteKey) = {}
      BY <1>8 DEF GoneKey, x
    <3>4. \A k : k \in NewKeys(steps, MuteSteps, muteKey) <=> k \in Q
      BY <1>5, <3>1, <3>2
    <3>. HIDE DEF Q
    <3>. QED
      BY <3>3, <3>4
  <2>2. \A i, j \in DOMAIN steps : muteKey[steps[i]] = muteKey[steps[j]] => i = j
    BY <1>5 DEF Inv, Apart
  <2>3. Once(MuteSteps, muteKey) /\ Q \cap Held(MuteSteps, muteKey) = {}
    BY DEF Inv, Apart
  <2>4. /\ Once(MuteSteps, muteKey)'
        /\ Held(MuteSteps, muteKey)' = Held(MuteSteps, muteKey) \cup Q
    BY <1>6, <2>1, <2>2, <2>3, HeldAfter
  <2>5. numbers(ToSet(pending')) = {} /\ DOMAIN pending' = {} /\ mutesSent' = mutesSent
    BY <1>2 DEF numbers, ToSet, mutesSent
  <2>. QED
    BY <1>2, <2>4, <2>5 DEF Inv, Apart
<1>12. RttsApart' /\ Told'
  <2>1. SameRtts
    BY <1>2 DEF SameRtts, keysSent
  <2>. QED
    BY <1>5, <1>6, <1>8, <2>1, QuietRtts DEF Inv, x
<1>13. Rejoining'
  <2>1. SameLatches
    BY <1>2 DEF SameLatches, isJoined
  <2>. QED
    BY <1>1, <1>5, <1>6, <1>8, <2>1, RejoiningQuiet DEF Inv, x
<1>. QED
  BY <1>7, <1>9, <1>10, <1>11, <1>12, <1>13 DEF Inv

LEMMA SendJoinKeeps ==
    ASSUME Inv, NEW t \in Threads, SendJoin(t)
    PROVE  Inv'
<1> DEFINE x == todo[t][1]
           r == Request("join", arg(t), 0, flags.recreating)
           y == <<"send", r>>
<1>1. /\ todo[t] # <<>> /\ 1 \in DOMAIN todo[t] /\ x[1] = "sendJoin" /\ x \in StepsOf(t)
      /\ arg(t) = x[2]
  BY AtStep DEF SendJoin, Inv
<1>2. t \notin Sorters /\ arg(t) \in Channels /\ x = <<"sendJoin", arg(t)>>
  BY <1>1, Classes
<1>3. r \in Joins
  BY <1>2, Requests DEF Inv, Typed, FlagsTyped
<1>4. r.kind = "join" /\ r.channel = arg(t) /\ r.recreating = flags.recreating
  BY DEF Request
<1>5. /\ Then(t, <<y>>) /\ flags' = [flags EXCEPT !.join = TRUE]
      /\ UNCHANGED <<limit, link, pending, rtts, chan, selected, past>>
  BY DEF SendJoin, OnlyFlags
<1>. HIDE DEF r
<1>6. y \in StepsOf(t) /\ y[1] = "send" /\ y[2] = r
  BY <1>2, <1>3, Sends DEF StepsOf
<1>. HIDE DEF y
<1>7. /\ TodoTyped' /\ Runs(t, <<y>>)
      /\ DOMAIN <<y>> = {1} /\ DOMAIN <<y>> = 1..Len(<<y>>) /\ Len(<<y>>) \in Nat
      /\ <<y>>[1] = y
  BY <1>1, <1>5, <1>6, DropsForOne DEF Inv
<1>8. /\ FlagsTyped' /\ flags'.joinAll = flags.joinAll
      /\ flags'.recreating = flags.recreating
  BY <1>5 DEF Inv, Typed, FlagsTyped
<1>9. Typed'
  BY <1>5, <1>7, <1>8 DEF Inv, Typed, LinkTyped, RttsTyped, ChanTyped, PastTyped
<1>10. /\ y \notin MuteSteps \cup RttsSends /\ y[1] \notin reconnecting
       /\ isJoinOf(y, arg(t)) /\ (flags.recreating => carries(y))
       /\ x \notin MuteSteps \cup RttsSends
       /\ x[1] \notin reconnecting \cup {"joinAll", "cached"}
       /\ \A c : isJoinOf(x, c) => c = arg(t)
  <2>1. /\ y \notin MuteSteps \cup RttsSends /\ y[1] \notin reconnecting
        /\ isJoinOf(y, arg(t)) /\ (flags.recreating => carries(y))
    BY <1>4, <1>6, Classes DEF reconnecting, isJoinOf, carries
  <2>2. /\ x \notin MuteSteps \cup RttsSends
        /\ x[1] \notin reconnecting \cup {"joinAll", "cached"}
    BY <1>1, Classes DEF reconnecting
  <2>3. \A c : isJoinOf(x, c) => c = arg(t)
    BY <1>1, <1>2 DEF isJoinOf
  <2>. QED
    BY <2>1, <2>2, <2>3
<1>11. First'
  BY <1>7, FirstAfter DEF Inv, Typed
<1>12. Carried'
  <2>1. past.owed /\ ~past.raced => flags.recreating
    BY DEF Inv, Carried
  <2>. QED
    BY <1>5, <1>7, <1>8, <1>10, <2>1, CarriedQuiet DEF Inv
<1>13. Apart'
  <2>1. SameMutes
    BY <1>5 DEF SameMutes, mutesSent
  <2>. QED
    BY <1>7, <1>10, <2>1, QuietMutes DEF Inv, x
<1>14. RttsApart' /\ Told'
  <2>1. SameRtts
    BY <1>5 DEF SameRtts, keysSent
  <2>. QED
    BY <1>7, <1>10, <2>1, QuietRtts DEF Inv, x
<1>15. Rejoining'
  <2>1. SameLatches
    BY <1>5, <1>8 DEF SameLatches, isJoined
  <2>2. \A c \in Channels : isJoinOf(x, c) => \E i \in DOMAIN <<y>> : isJoinOf(<<y>>[i], c)
    BY <1>7, <1>10
  <2>. QED
    BY <1>1, <1>7, <1>10, <2>1, <2>2, RejoiningQuiet DEF Inv, x
<1>. QED
  BY <1>9, <1>11, <1>12, <1>13, <1>14, <1>15 DEF Inv

\* A step for every channel.
LEMMA ForEach ==
    ASSUME NEW name
    PROVE  /\ \A S : (\A c \in Channels : <<name, c>> \in S) => ForAll(name) \in Seq(S)
           /\ DOMAIN ForAll(name) = 1..Len(ForAll(name)) /\ Len(ForAll(name)) \in Nat
           /\ \A i \in DOMAIN ForAll(name) : \E c \in Channels : ForAll(name)[i] = <<name, c>>
           /\ \A c \in Channels : \E i \in DOMAIN ForAll(name) : ForAll(name)[i] = <<name, c>>
<1> DEFINE cs == SetToSeq(Channels)
           s == [i \in DOMAIN cs |-> <<name, cs[i]>>]
<1>1. /\ cs \in Seq(Channels)
      /\ \A i \in DOMAIN cs : cs[i] \in Channels
      /\ \A c \in Channels : \E i \in DOMAIN cs : cs[i] = c
  BY AsSequence, AllInSequence, RequestsAssumption
<1>2. DOMAIN cs = 1..Len(cs) /\ Len(cs) \in Nat
  BY <1>1, LenProperties
<1>3. s = ForAll(name)
  BY DEF ForAll
<1>. HIDE DEF cs
<1>4. /\ DOMAIN s = DOMAIN cs /\ \A i \in DOMAIN cs : s[i] = <<name, cs[i]>>
      /\ Len(s) = Len(cs)
  BY <1>2
<1>5. \A S : (\A c \in Channels : <<name, c>> \in S) => s \in Seq(S)
  BY <1>1, <1>2
<1>. HIDE DEF s
<1>. QED
  BY <1>1, <1>2, <1>3, <1>4, <1>5

LEMMA JoinAllKeeps ==
    ASSUME Inv, NEW t \in Threads, JoinAllChannelsIfNeeded(t)
    PROVE  Inv'
<1> DEFINE x == todo[t][1]
           steps == IF flags.joinAll THEN <<>> ELSE ForAll("sendJoin")
<1>1. /\ todo[t] # <<>> /\ 1 \in DOMAIN todo[t] /\ x[1] = "joinAll" /\ x \in StepsOf(t)
      /\ x \in doing(t)
  BY AtStep DEF JoinAllChannelsIfNeeded, Inv
<1>2. /\ Then(t, steps) /\ flags' = [flags EXCEPT !.joinAll = TRUE]
      /\ past' = [past EXCEPT !.hasty = past.hasty \/ ~(link.open \/ flags.joinAll)]
      /\ UNCHANGED <<limit, link, pending, rtts, chan, selected>>
  BY DEF JoinAllChannelsIfNeeded
<1>3. /\ t \notin Sorters /\ x = <<"joinAll">> /\ x \notin MuteSteps \cup RttsSends
      /\ x[1] \notin reconnecting \cup {"cached"} /\ \A c : ~isJoinOf(x, c)
  BY <1>1, Classes DEF reconnecting, isJoinOf
<1>4. \A c \in Channels : LET y == <<"sendJoin", c>> IN
          /\ y \in StepsOf(t) /\ later(y) /\ carries(y) /\ y \notin MuteSteps \cup RttsSends
          /\ y[1] \notin reconnecting /\ isJoinOf(y, c)
  <2>. TAKE c \in Channels
  <2> DEFINE y == <<"sendJoin", c>>
  <2>1. y \in StepsOf(t) /\ y[1] = "sendJoin" /\ isJoinOf(y, c)
    BY <1>3, PlainSteps1 DEF StepsOf, isJoinOf
  <2>. HIDE DEF y
  <2>2. /\ later(y) /\ carries(y) /\ y \notin MuteSteps \cup RttsSends
        /\ y[1] \notin reconnecting
    BY <2>1, Classes DEF later, carries, reconnecting
  <2>. QED
    BY <2>1, <2>2 DEF y
<1>5. /\ steps \in Seq(StepsOf(t)) /\ DOMAIN steps = 1..Len(steps) /\ Len(steps) \in Nat
      /\ \A i \in DOMAIN steps : \E c \in Channels : steps[i] = <<"sendJoin", c>>
      /\ ~flags.joinAll =>
             \A c \in Channels : \E i \in DOMAIN steps : steps[i] = <<"sendJoin", c>>
  <2>1. CASE flags.joinAll
    BY <2>1
  <2>2. CASE ~flags.joinAll
    <3>1. \A c \in Channels : <<"sendJoin", c>> \in StepsOf(t)
      BY <1>4
    <3>. QED
      BY <2>2, <3>1, ForEach
  <2>. QED
    BY <2>1, <2>2
<1>. HIDE DEF steps, x
<1>6. TodoTyped' /\ Runs(t, steps)
  BY <1>1, <1>2, <1>5, RunsThen DEF Inv, Typed
<1>7. \A i \in DOMAIN steps :
          /\ later(steps[i]) /\ carries(steps[i]) /\ steps[i] \notin MuteSteps \cup RttsSends
          /\ steps[i][1] \notin reconnecting
  BY <1>4, <1>5
<1>8. FlagsTyped' /\ flags'.joinAll /\ flags'.recreating = flags.recreating
  BY <1>2 DEF Inv, Typed, FlagsTyped
<1>9. /\ PastTyped' /\ past'.mutes = past.mutes /\ past'.sent = past.sent
      /\ past'.cleared = past.cleared /\ past'.twice = past.twice
      /\ past'.stored = past.stored /\ past'.ready = past.ready /\ past'.owed = past.owed
      /\ past'.raced = past.raced
      /\ past'.hasty = (past.hasty \/ ~(link.open \/ flags.joinAll))
      /\ past'.stores = past.stores /\ past'.timeouts = past.timeouts
  <2>1. (past.hasty \/ ~(link.open \/ flags.joinAll)) \in BOOLEAN
    BY DEF Inv, Typed, PastTyped, LinkTyped, FlagsTyped
  <2>. QED
    BY <1>2, <2>1 DEF Inv, Typed, PastTyped
<1>10. Typed'
  BY <1>2, <1>6, <1>8, <1>9 DEF Inv, Typed, LinkTyped, RttsTyped, ChanTyped
<1>11. First'
  BY <1>5, <1>6, <1>7, FirstAfter DEF Inv, Typed
<1>12. Carried'
  BY <1>6, <1>7, <1>8, <1>9, CarriedQuiet DEF Inv
<1>13. Apart'
  <2>1. SameMutes
    BY <1>2, <1>9 DEF SameMutes, mutesSent
  <2>. QED
    BY <1>3, <1>6, <1>7, <2>1, QuietMutes DEF Inv, x
<1>14. RttsApart' /\ Told'
  <2>1. SameRtts
    BY <1>2, <1>9 DEF SameRtts, keysSent
  <2>. QED
    BY <1>3, <1>6, <1>7, <2>1, QuietRtts DEF Inv, x
<1>15. Rejoining'
  <2>1. past'.ready <= link'.n
    BY <1>2, <1>9 DEF Inv, Rejoining
  <2>. SUFFICES ASSUME past'.timeouts = 0 /\ ~past'.hasty
                PROVE  Rejoining'
    BY <2>1 DEF Rejoining
  <2>2. past.timeouts = 0 /\ ~past.hasty /\ (link.open \/ flags.joinAll)
    BY <1>9
  <2>3. "loop" \in Threads /\ (t = "loop" => link.open)
    BY <1>1, <1>3, <2>2, Roles DEF Inv, Rejoining
  <2>4. /\ \A u \in Threads : \A z \in doing(u)' :
               (u = t /\ \E i \in DOMAIN steps : z = steps[i]) \/ z \in doing(u)
        /\ \A u \in Threads : \A z \in doing(u) : z \in doing(u)' \/ z = x
        /\ \A z \in everything : z \in everything' \/ z = x
        /\ \A i \in DOMAIN steps : steps[i] \in everything'
    BY <1>6, DoingAfter DEF x
  <2>5. <<"resetJoin">> # x /\ <<"onReconnect">> # x
    BY <1>3
  <2>6. isJoined' = isJoined /\ \A c : joinedOn(c)' <=> joinedOn(c)
    BY <1>2, <1>9 DEF isJoined, joinedOn
  <2>7. /\ \A u \in Threads \ {"loop"} : \A z \in doing(u)' : z[1] \notin reconnecting
        /\ \A z \in doing("loop")' : z[1] \in reconnecting <=> ~link.open
    BY <1>7, <2>2, <2>3, <2>4 DEF Inv, Rejoining
  <2>8. ~link.open /\ ~link.user_closed =>
            /\ <<"resetJoin">> \in doing("loop")'
            /\ isJoined => <<"onReconnect">> \in doing("loop")'
    BY <2>2, <2>3, <2>4, <2>5 DEF Inv, Rejoining
  <2>9. ASSUME link.open, NEW c \in Channels
        PROVE  joinedOn(c) \/ \E z \in everything' : isJoinOf(z, c)
    <3>1. CASE flags.joinAll
      BY <1>3, <2>2, <2>4, <2>9, <3>1 DEF Inv, Rejoining
    <3>2. CASE ~flags.joinAll
      BY <1>4, <1>5, <2>4, <3>2
    <3>. QED
      BY <3>1, <3>2
  <2>10. ~link.ending
    BY <2>2 DEF Inv, Rejoining
  <2>. QED
    BY <1>2, <1>8, <1>9, <2>1, <2>6, <2>7, <2>8, <2>9, <2>10 DEF Rejoining
<1>. QED
  BY <1>10, <1>11, <1>12, <1>13, <1>14, <1>15 DEF Inv

\* A request at the head of a thread.
LEMMA SendStep ==
    ASSUME Typed, NEW t \in Threads, At(t, "send")
    PROVE  LET r == arg(t) x == todo[t][1] IN
           /\ todo[t] # <<>> /\ 1 \in DOMAIN todo[t] /\ x \in StepsOf(t) /\ x \in everything
           /\ x[1] = "send" /\ x[2] = r
           /\ r \in Mutes \cup Joins \cup Recreates \cup Rtts \cup Others
           /\ r.kind \in {"mute", "join", "recreate", "rtts", "subscribe", "leave"}
           /\ r.nr \in Nat /\ r.recreating \in BOOLEAN
           /\ r.channel \in Channels \/ (r.kind \in {"subscribe", "leave"} /\ r.channel = 0)
           /\ r.kind = "recreate" => r.recreating
           /\ x \in MuteSteps <=> r.kind = "mute"
           /\ x \in RttsSends <=> r.kind = "rtts"
           /\ r.kind = "mute" => r \in Mutes /\ muteKey[x] = r.nr
           /\ r.kind = "rtts" => rttsKey[x] = <<r.nr, r.channel>>
           /\ r.kind # "rtts" => t \notin Sorters
           /\ x[1] \notin reconnecting \cup {"joinAll", "cached"}
           /\ \A c : isJoinOf(x, c) <=> r.kind = "join" /\ r.channel = c
<1> DEFINE r == arg(t)
           x == todo[t][1]
<1>1. /\ todo[t] # <<>> /\ 1 \in DOMAIN todo[t] /\ x \in StepsOf(t) /\ x \in everything
      /\ x[1] = "send" /\ x[2] = r
  BY AtStep
<1>2. /\ r \in Mutes \cup Joins \cup Recreates \cup Rtts \cup Others
      /\ t \in Sorters => r \in Rtts
      /\ x \in MuteSteps <=> r.kind = "mute"
      /\ x \in RttsSends <=> r.kind = "rtts"
  BY <1>1, Classes
<1>. HIDE DEF r, x
<1>3. /\ r.kind \in {"mute", "join", "recreate", "rtts", "subscribe", "leave"}
      /\ r.nr \in Nat /\ r.recreating \in BOOLEAN
      /\ r.channel \in Channels \/ (r.kind \in {"subscribe", "leave"} /\ r.channel = 0)
      /\ r.kind = "recreate" => r.recreating
      /\ r.kind = "mute" => r \in Mutes
      /\ r \in Rtts => r.kind = "rtts"
  BY <1>2 DEF Mutes, Joins, Recreates, Rtts, Others, RequestsOf
<1>4. /\ r.kind = "mute" => muteKey[x] = r.nr
      /\ r.kind = "rtts" => rttsKey[x] = <<r.nr, r.channel>>
  BY <1>1, <1>2 DEF muteKey, rttsKey
<1>5. x[1] \notin reconnecting \cup {"joinAll", "cached"}
  BY <1>1 DEF reconnecting
<1>6. \A c : isJoinOf(x, c) <=> r.kind = "join" /\ r.channel = c
  BY <1>1 DEF isJoinOf
<1>. QED
  BY <1>1, <1>2, <1>3, <1>4, <1>5, <1>6 DEF r, x

\* Its keys are no longer held.
LEMMA SendDrops ==
    ASSUME Inv, NEW t \in Threads, At(t, "send"), NEW steps, Runs(t, steps),
           \A i \in DOMAIN steps : steps[i] \notin MuteSteps \cup RttsSends
    PROVE  LET r == arg(t) IN
           /\ Once(MuteSteps, muteKey)' /\ Once(RttsSends, rttsKey)'
           /\ r.kind = "mute" => /\ r.nr \in Held(MuteSteps, muteKey)
                                 /\ Held(MuteSteps, muteKey)'
                                     = Held(MuteSteps, muteKey) \ {r.nr}
           /\ r.kind # "mute" => Held(MuteSteps, muteKey)' = Held(MuteSteps, muteKey)
           /\ r.kind = "rtts" => /\ <<r.nr, r.channel>> \in Held(RttsSends, rttsKey)
                                 /\ Held(RttsSends, rttsKey)'
                                     = Held(RttsSends, rttsKey) \ {<<r.nr, r.channel>>}
           /\ r.kind # "rtts" => Held(RttsSends, rttsKey)' = Held(RttsSends, rttsKey)
<1> DEFINE r == arg(t)
           x == todo[t][1]
<1>1. /\ 1 \in DOMAIN todo[t] /\ x \in everything
      /\ x \in MuteSteps <=> r.kind = "mute"
      /\ x \in RttsSends <=> r.kind = "rtts"
      /\ r.kind = "mute" => muteKey[x] = r.nr
      /\ r.kind = "rtts" => rttsKey[x] = <<r.nr, r.channel>>
  BY SendStep DEF Inv
<1>. HIDE DEF r
<1>2. NewKeys(steps, MuteSteps, muteKey) = {} /\ NewKeys(steps, RttsSends, rttsKey) = {}
  BY DEF NewKeys
<1>3. /\ r.kind = "mute" => GoneKey(t, MuteSteps, muteKey) = {r.nr}
      /\ r.kind # "mute" => GoneKey(t, MuteSteps, muteKey) = {}
      /\ r.kind = "rtts" => GoneKey(t, RttsSends, rttsKey) = {<<r.nr, r.channel>>}
      /\ r.kind # "rtts" => GoneKey(t, RttsSends, rttsKey) = {}
  BY <1>1 DEF GoneKey
<1>. HIDE DEF x
<1>4. Once(MuteSteps, muteKey) /\ Once(RttsSends, rttsKey)
  BY DEF Inv, Apart, RttsApart
<1>5. /\ Once(MuteSteps, muteKey)'
      /\ Held(MuteSteps, muteKey)' = Held(MuteSteps, muteKey) \ GoneKey(t, MuteSteps, muteKey)
  BY <1>2, <1>4, HeldAfter
<1>6. /\ Once(RttsSends, rttsKey)'
      /\ Held(RttsSends, rttsKey)' = Held(RttsSends, rttsKey) \ GoneKey(t, RttsSends, rttsKey)
  BY <1>2, <1>4, HeldAfter
<1>7. /\ r.kind = "mute" => r.nr \in Held(MuteSteps, muteKey)
      /\ r.kind = "rtts" => <<r.nr, r.channel>> \in Held(RttsSends, rttsKey)
  BY <1>1 DEF Held
<1>. QED
  BY <1>3, <1>5, <1>6, <1>7 DEF r

\* The transport is open.
LEMMA SendOpen ==
    ASSUME Inv, NEW t \in Threads, Send(t), link.open
    PROVE  Inv'
<1> DEFINE r == arg(t)
           x == todo[t][1]
           k == <<r.nr, r.channel>>
           h == [n |-> link.n, kind |-> r.kind, channel |-> r.channel, nr |-> r.nr]
           same == {s \in past.sent : s.kind = r.kind /\ s.nr = r.nr /\ s.channel = r.channel}
           again == r.kind \in {"mute", "rtts"} /\ same # {}
           steps == IF r.kind \in {"join", "recreate"} THEN << <<"note">> >> ELSE <<>>
<1>1. At(t, "send")
  BY DEF Send
<1>2. /\ todo[t] # <<>> /\ 1 \in DOMAIN todo[t] /\ x \in StepsOf(t)
      /\ r.kind \in {"mute", "join", "recreate", "rtts", "subscribe", "leave"}
      /\ r.nr \in Nat /\ r.recreating \in BOOLEAN
      /\ r.channel \in Channels \/ (r.kind \in {"subscribe", "leave"} /\ r.channel = 0)
      /\ r.kind = "recreate" => r.recreating
      /\ x \in MuteSteps <=> r.kind = "mute"
      /\ x \in RttsSends <=> r.kind = "rtts"
      /\ r.kind # "rtts" => t \notin Sorters
      /\ x[1] \notin reconnecting \cup {"joinAll", "cached"}
      /\ \A c : isJoinOf(x, c) <=> r.kind = "join" /\ r.channel = c
  BY <1>1, SendStep DEF Inv
<1>3. x \in everything /\ x[1] = "send" /\ x[2] = r
  BY <1>1, SendStep DEF Inv
<1>4. /\ past' = [past EXCEPT !.sent = past.sent \cup {h}, !.twice = past.twice \/ again,
                              !.owed = past.owed /\ ~r.recreating]
      /\ Then(t, steps)
      /\ UNCHANGED <<limit, link, flags, pending, rtts, chan, selected>>
  BY DEF Send, OnlyPast
<1>. HIDE DEF r
<1>5. /\ steps \in Seq(StepsOf(t)) /\ DOMAIN steps = 1..Len(steps) /\ Len(steps) \in Nat
      /\ \A i \in DOMAIN steps : /\ i = 1 /\ steps[i][1] = "note" /\ steps[i] \in StepsOf(t)
                                 /\ r.kind \in {"join", "recreate"}
  <2>1. CASE r.kind \in {"join", "recreate"}
    <3>1. <<"note">> \in StepsOf(t)
      BY <1>2, <2>1, PlainSteps1 DEF StepsOf
    <3>. QED
      BY <2>1, <3>1, FewSteps
  <2>2. CASE r.kind \notin {"join", "recreate"}
    BY <2>2
  <2>. QED
    BY <2>1, <2>2
<1>. HIDE DEF steps
<1>6. TodoTyped' /\ Runs(t, steps)
  BY <1>2, <1>4, <1>5, RunsThen DEF Inv, Typed
<1>7. \A i \in DOMAIN steps : steps[i] \notin MuteSteps \cup RttsSends
                              /\ steps[i][1] \notin reconnecting
  BY <1>5, Classes DEF reconnecting
<1>8. /\ h \in Sent /\ h.n = link.n /\ h.kind = r.kind /\ h.channel = r.channel /\ h.nr = r.nr
  BY <1>2 DEF Inv, Typed, LinkTyped, Sent
<1>. HIDE DEF h
<1>9. /\ PastTyped' /\ past'.sent = past.sent \cup {h} /\ past'.twice = (past.twice \/ again)
      /\ past'.owed = (past.owed /\ ~r.recreating) /\ past'.mutes = past.mutes
      /\ past'.cleared = past.cleared
      /\ past'.stored = past.stored /\ past'.ready = past.ready
      /\ past'.raced = past.raced /\ past'.hasty = past.hasty
      /\ past'.stores = past.stores /\ past'.timeouts = past.timeouts
  <2>1. /\ past.sent \cup {h} \in SUBSET Sent /\ (past.twice \/ again) \in BOOLEAN
        /\ (past.owed /\ ~r.recreating) \in BOOLEAN
    BY <1>2, <1>8 DEF Inv, Typed, PastTyped
  <2>. QED
    BY <1>4, <2>1 DEF Inv, Typed, PastTyped
<1>10. Typed'
  BY <1>4, <1>6, <1>9 DEF Inv, Typed, LinkTyped, FlagsTyped, RttsTyped, ChanTyped
<1>11. First'
  BY <1>5, <1>6, FirstAfter DEF Inv, Typed
<1>12. Carried'
  <2>. SUFFICES ASSUME past'.owed /\ ~past'.raced
                PROVE  Carried'
    BY DEF Carried
  <2>1. DOMAIN steps = {}
    BY <1>2, <1>3, <1>5, <1>9 DEF Inv, Carried, carries
  <2>. QED
    BY <1>4, <1>6, <1>9, <2>1, CarriedQuiet DEF Inv
<1>13. /\ Once(MuteSteps, muteKey)' /\ Once(RttsSends, rttsKey)'
       /\ r.kind = "mute" =>
              /\ r.nr \in Held(MuteSteps, muteKey)
              /\ Held(MuteSteps, muteKey)' = Held(MuteSteps, muteKey) \ {r.nr}
       /\ r.kind # "mute" => Held(MuteSteps, muteKey)' = Held(MuteSteps, muteKey)
       /\ r.kind = "rtts" => /\ k \in Held(RttsSends, rttsKey)
                             /\ Held(RttsSends, rttsKey)' = Held(RttsSends, rttsKey) \ {k}
       /\ r.kind # "rtts" => Held(RttsSends, rttsKey)' = Held(RttsSends, rttsKey)
  BY <1>1, <1>6, <1>7, SendDrops DEF r
<1>14. /\ r.kind = "mute" => mutesSent' = mutesSent \cup {h}
       /\ r.kind # "mute" => mutesSent' = mutesSent
  BY <1>8, <1>9 DEF mutesSent
<1>15. /\ r.kind = "rtts" => keysSent' = keysSent \cup {k}
       /\ r.kind # "rtts" => keysSent' = keysSent
  <2>1. CASE r.kind = "rtts"
    <3>1. {s \in past'.sent : s.kind = "rtts"} = {s \in past.sent : s.kind = "rtts"} \cup {h}
      BY <1>8, <1>9, <2>1
    <3>. QED
      BY <1>8, <2>1, <3>1 DEF keysSent
  <2>2. CASE r.kind # "rtts"
    <3>1. {s \in past'.sent : s.kind = "rtts"} = {s \in past.sent : s.kind = "rtts"}
      BY <1>8, <1>9, <2>2
    <3>. QED
      BY <2>2, <3>1 DEF keysSent
  <2>. QED
    BY <2>1, <2>2
<1>16. ~again
  <2>1. CASE r.kind = "mute"
    <3>1. r.nr \notin numbers(mutesSent)
      BY <1>13, <2>1 DEF Inv, Apart
    <3>. QED
      BY <2>1, <3>1 DEF numbers, mutesSent
  <2>2. CASE r.kind = "rtts"
    <3>1. k \notin keysSent
      BY <1>13, <2>2 DEF Inv, RttsApart
    <3>2. \A s \in past.sent :
              s.kind = "rtts" /\ s.nr = r.nr /\ s.channel = r.channel => k \in keysSent
      BY DEF keysSent
    <3>. QED
      BY <2>2, <3>1, <3>2
  <2>. QED
    BY <2>1, <2>2
<1>17. Apart'
  <2>1. CASE r.kind = "mute"
    <3>1. numbers(mutesSent') = numbers(mutesSent) \cup {r.nr}
      BY <1>8, <1>14, <2>1 DEF numbers
    <3>2. r.nr \notin numbers(ToSet(pending)) /\ r.nr \notin numbers(mutesSent)
      BY <1>13, <2>1 DEF Inv, Apart
    <3>3. \A a, b \in mutesSent' : a.nr = b.nr => a = b
      <4>1. \A a \in mutesSent : a.nr \in numbers(mutesSent)
        BY DEF numbers
      <4>. QED
        BY <1>8, <1>14, <2>1, <3>2, <4>1 DEF Inv, Apart
    <3>. QED
      BY <1>4, <1>9, <1>13, <2>1, <3>1, <3>2, <3>3 DEF Inv, Apart
  <2>2. CASE r.kind # "mute"
    BY <1>4, <1>9, <1>13, <1>14, <2>2 DEF Inv, Apart
  <2>. QED
    BY <2>1, <2>2
<1>18. Held(RttsSends, rttsKey)' \cup keysSent' = Held(RttsSends, rttsKey) \cup keysSent
       /\ Held(RttsSends, rttsKey)' \cap keysSent' = {}
  BY <1>13, <1>15 DEF Inv, RttsApart
<1>19. RttsApart'
  BY <1>4, <1>9, <1>13, <1>16, <1>18 DEF Inv, RttsApart, Marked
<1>20. Told'
  <2>1. \A z \in everything : z[1] = "cached" => z \in everything'
    BY <1>2, <1>6, DoingAfter
  <2>2. \A c : <<"cached", c>>[1] = "cached"
    OBVIOUS
  <2>. QED
    BY <1>4, <1>9, <1>18, <2>1, <2>2 DEF Inv, Told
<1>21. Rejoining'
  <2>1. SameLatches
    BY <1>4, <1>9 DEF SameLatches, isJoined
  <2>2. \A c \in Channels : isJoinOf(x, c) => joinedOn(c)'
    BY <1>2, <1>4, <1>8, <1>9 DEF joinedOn
  <2>. QED
    BY <1>2, <1>6, <1>7, <2>1, <2>2, RejoiningQuiet DEF Inv
<1>. QED
  BY <1>10, <1>11, <1>12, <1>17, <1>19, <1>20, <1>21 DEF Inv

\* The transport is not open: only a mute is kept.
LEMMA SendClosed ==
    ASSUME Inv, NEW t \in Threads, Send(t), ~link.open
    PROVE  Inv'
<1> DEFINE r == arg(t)
           x == todo[t][1]
           y == <<"again", r>>
           steps == IF r.kind = "mute" THEN <<y>> ELSE <<>>
<1>1. At(t, "send")
  BY DEF Send
<1>2. /\ todo[t] # <<>> /\ 1 \in DOMAIN todo[t] /\ x \in StepsOf(t)
      /\ x \in MuteSteps <=> r.kind = "mute"
      /\ x \in RttsSends <=> r.kind = "rtts"
      /\ r.kind = "mute" => r \in Mutes /\ muteKey[x] = r.nr
      /\ r.kind # "rtts" => t \notin Sorters
      /\ x[1] \notin reconnecting \cup {"joinAll", "cached"}
  BY <1>1, SendStep DEF Inv
<1>3. /\ Then(t, steps)
      /\ UNCHANGED <<limit, link, flags, pending, rtts, chan, selected, past>>
  BY DEF Send, OnlyPast
<1>. HIDE DEF r
<1>4. r.kind = "mute" => /\ y \in StepsOf(t) /\ y \in MuteSteps /\ muteKey[y] = r.nr
                         /\ y[1] = "again" /\ y \notin RttsSends
  <2>1. r.kind = "mute" => /\ y \in StepsOf(t) /\ y \in MuteSteps /\ muteKey[y] = r.nr
                           /\ y[1] = "again"
    BY <1>2, Sends DEF StepsOf
  <2>. QED
    BY <2>1, Classes
<1>. HIDE DEF y
<1>5. /\ steps \in Seq(StepsOf(t)) /\ DOMAIN steps = 1..Len(steps) /\ Len(steps) \in Nat
      /\ \A i \in DOMAIN steps : i = 1 /\ steps[i] = y /\ r.kind = "mute"
      /\ r.kind = "mute" => 1 \in DOMAIN steps
  <2>1. CASE r.kind = "mute"
    BY <1>4, <2>1, FewSteps
  <2>2. CASE r.kind # "mute"
    BY <2>2
  <2>. QED
    BY <2>1, <2>2
<1>. HIDE DEF steps
<1>6. TodoTyped' /\ Runs(t, steps)
  BY <1>2, <1>3, <1>5, RunsThen DEF Inv, Typed
<1>7. Typed'
  BY <1>3, <1>6 DEF Inv, Typed, LinkTyped, FlagsTyped, RttsTyped, ChanTyped, PastTyped
<1>8. First'
  BY <1>5, <1>6, FirstAfter DEF Inv, Typed
<1>9. Carried'
  <2>1. \A i \in DOMAIN steps : carries(steps[i])
    BY <1>4, <1>5 DEF carries
  <2>. QED
    BY <1>3, <1>6, <2>1, CarriedQuiet DEF Inv
<1>10. Apart'
  <2>1. CASE r.kind = "mute"
    <3>1. NewKeys(steps, MuteSteps, muteKey) = {r.nr}
      BY <1>4, <1>5, <2>1 DEF NewKeys
    <3>2. GoneKey(t, MuteSteps, muteKey) = {r.nr}
      BY <1>2, <2>1 DEF GoneKey
    <3>3. r.nr \in Held(MuteSteps, muteKey) /\ Once(MuteSteps, muteKey)
      <4>1. x \in everything
        BY <1>1, SendStep DEF Inv
      <4>. QED
        BY <1>2, <2>1, <4>1 DEF Held, Inv, Apart
    <3>4. \A i, j \in DOMAIN steps : i = j
      BY <1>5
    <3>. HIDE DEF x
    <3>5. /\ Once(MuteSteps, muteKey)'
          /\ Held(MuteSteps, muteKey)' = (Held(MuteSteps, muteKey) \ {r.nr}) \cup {r.nr}
      BY <1>6, <3>1, <3>2, <3>3, <3>4, HeldAfter
    <3>6. mutesSent' = mutesSent
      BY <1>3 DEF mutesSent
    <3>. QED
      BY <1>3, <3>3, <3>5, <3>6 DEF Inv, Apart
  <2>2. CASE r.kind # "mute"
    <3>1. SameMutes
      BY <1>3 DEF SameMutes, mutesSent
    <3>. QED
      BY <1>2, <1>5, <1>6, <2>2, <3>1, QuietMutes DEF Inv
  <2>. QED
    BY <2>1, <2>2
<1>11. RttsApart'
  <2>1. NewKeys(steps, RttsSends, rttsKey) = {}
    BY <1>4, <1>5 DEF NewKeys
  <2>2. Once(RttsSends, rttsKey)
    BY DEF Inv, RttsApart
  <2>3. \A i, j \in DOMAIN steps : i = j
    BY <1>5
  <2>4. /\ Once(RttsSends, rttsKey)'
        /\ Held(RttsSends, rttsKey)' \subseteq Held(RttsSends, rttsKey)
    BY <1>6, <2>1, <2>2, <2>3, HeldAfter
  <2>5. keysSent' = keysSent
    BY <1>3 DEF keysSent
  <2>. QED
    BY <1>3, <2>4, <2>5 DEF Inv, RttsApart, Marked
<1>12. Told'
  BY <1>3 DEF Inv, Told
<1>13. Rejoining'
  <2>1. SameLatches
    BY <1>3 DEF SameLatches, isJoined
  <2>2. \A i \in DOMAIN steps : steps[i][1] \notin reconnecting
    BY <1>4, <1>5 DEF reconnecting
  <2>. QED
    BY <1>2, <1>6, <2>1, <2>2, RejoiningQuiet DEF Inv
<1>. QED
  BY <1>7, <1>8, <1>9, <1>10, <1>11, <1>12, <1>13 DEF Inv

LEMMA SendKeeps ==
    ASSUME Inv, NEW t \in Threads, Send(t)
    PROVE  Inv'
<1>1. link.open \in BOOLEAN
  BY DEF Inv, Typed, LinkTyped
<1>. QED
  BY <1>1, SendOpen, SendClosed

-------------------------------------------------------------------------------
(* The connection.                                                           *)

\* The threads are left alone.
LEMMA SameTodo ==
    ASSUME UNCHANGED todo
    PROVE  /\ TodoTyped => TodoTyped'
           /\ First => First'
           /\ everything' = everything /\ \A t \in Threads : doing(t)' = doing(t)
           /\ \A K, key : (Once(K, key)' <=> Once(K, key)) /\ Held(K, key)' = Held(K, key)
BY DEF TodoTyped, First, everything, doing, Once, Held

LEMMA ClosesKeeps ==
    ASSUME Inv, Closes
    PROVE  Inv'
<1>1. /\ link.open /\ link.user_closed /\ todo["loop"] = <<>>
      /\ link' = [link EXCEPT !.open = FALSE]
      /\ UNCHANGED <<limit, todo, flags, pending, rtts, chan, selected, past>>
  BY DEF Closes
<1>2. /\ LinkTyped' /\ ~link'.open /\ link'.n = link.n /\ link'.user_closed
      /\ link'.ending = link.ending
  BY <1>1 DEF Inv, Typed, LinkTyped
<1>3. Typed'
  BY <1>1, <1>2, SameTodo DEF Inv, Typed, FlagsTyped, RttsTyped, ChanTyped, PastTyped
<1>4. First' /\ Carried'
  BY <1>1, SameTodo DEF Inv, Carried
<1>5. Apart'
  BY <1>1, SameTodo DEF Inv, Apart, mutesSent
<1>6. RttsApart'
  BY <1>1, SameTodo DEF Inv, RttsApart, Marked, keysSent
<1>7. Told'
  BY <1>1, <1>2 DEF Inv, Told
<1>8. Rejoining'
  <2>1. doing("loop") = {} /\ "loop" \in Threads
    BY <1>1, Roles DEF doing
  <2>. QED
    BY <1>1, <1>2, <2>1, SameTodo DEF Inv, Rejoining
<1>. QED
  BY <1>3, <1>4, <1>5, <1>6, <1>7, <1>8 DEF Inv

LEMMA OpensKeeps ==
    ASSUME Inv, Opens
    PROVE  Inv'
<1>1. /\ ~link.open /\ ~link.user_closed /\ ~link.ending /\ todo["loop"] = <<>>
      /\ link' = [link EXCEPT !.open = TRUE, !.next = FALSE, !.n = link.n + 1]
      /\ UNCHANGED <<limit, todo, flags, pending, rtts, chan, selected, past>>
  BY DEF Opens
<1>2. /\ LinkTyped' /\ link'.open /\ link'.n = link.n + 1 /\ link.n \in Nat
      /\ link'.ending = link.ending
  <2>1. link.n \in Nat /\ link.n + 1 \in Nat
    BY DEF Inv, Typed, LinkTyped
  <2>. QED
    BY <1>1, <2>1 DEF Inv, Typed, LinkTyped
<1>3. Typed'
  BY <1>1, <1>2, SameTodo DEF Inv, Typed, FlagsTyped, RttsTyped, ChanTyped, PastTyped
<1>4. First' /\ Carried'
  BY <1>1, SameTodo DEF Inv, Carried
<1>5. Apart'
  BY <1>1, SameTodo DEF Inv, Apart, mutesSent
<1>6. RttsApart'
  BY <1>1, SameTodo DEF Inv, RttsApart, Marked, keysSent
<1>7. past.stored \in Nat /\ past.ready \in Nat
  BY DEF Inv, Typed, PastTyped
<1>8. Told'
  BY <1>1, <1>2, <1>7 DEF Inv, Told
<1>9. Rejoining'
  <2>1. doing("loop") = {} /\ "loop" \in Threads
    BY <1>1, Roles DEF doing
  <2>2. past.ready <= link.n
    BY DEF Inv, Rejoining
  <2>3. past.timeouts = 0 /\ ~past.hasty => ~flags.joinAll /\ ~isJoined
    BY <1>1, <2>1 DEF Inv, Rejoining
  <2>4. isJoined' = isJoined
    BY <1>1 DEF isJoined
  <2>5. past.ready <= link'.n /\ past.ready # link'.n
    BY <1>2, <1>7, <2>2
  <2>6. past.timeouts = 0 /\ ~past.hasty =>
            \A u \in Threads \ {"loop"} : \A x \in doing(u) : x[1] \notin reconnecting
    BY DEF Inv, Rejoining
  <2>. QED
    BY <1>1, <1>2, <2>1, <2>3, <2>4, <2>5, <2>6, SameTodo DEF Rejoining
<1>. QED
  BY <1>3, <1>4, <1>5, <1>6, <1>8, <1>9 DEF Inv

LEMMA ConnectBestUrlKeeps ==
    ASSUME Inv, ConnectBestUrl
    PROVE  Inv'
<1>1. /\ ~link.open /\ link.user_closed /\ Called
      /\ link' = [link EXCEPT !.user_closed = FALSE, !.next = TRUE]
      /\ flags' = [flags EXCEPT !.joinAll = FALSE, !.auto = TRUE, !.subscribing = FALSE]
      /\ rtts' = [value |-> 0, nr |-> 0, sent |-> {}, legacy |-> {}]
      /\ chan' = [c \in Channels |-> [peers |-> 1, joined |-> FALSE]]
      /\ UNCHANGED <<limit, todo, pending, selected>>
  BY DEF ConnectBestUrl
<1>2. /\ LinkTyped' /\ ~link'.open /\ link'.n = link.n /\ link'.ending = link.ending
  BY <1>1 DEF Inv, Typed, LinkTyped
<1>3. /\ FlagsTyped' /\ ~flags'.joinAll /\ flags'.recreating = flags.recreating
  BY <1>1 DEF Inv, Typed, FlagsTyped
<1>4. /\ RttsTyped' /\ rtts'.value = 0 /\ rtts'.nr = 0 /\ rtts'.sent = {}
  BY <1>1 DEF RttsTyped
<1>5. PastTyped' /\ SamePast
  BY <1>1, CalledTyped DEF Inv, Typed
<1>6. ChanTyped' /\ ~isJoined'
  BY <1>1 DEF ChanTyped, isJoined
<1>7. Typed'
  BY <1>1, <1>2, <1>3, <1>4, <1>5, <1>6, SameTodo DEF Inv, Typed
<1>8. First' /\ Carried'
  BY <1>1, <1>3, <1>5, SameTodo DEF Inv, Carried, SamePast
<1>9. Apart'
  BY <1>1, <1>5, SameTodo DEF Inv, Apart, mutesSent, SamePast
<1>10. RttsApart'
  <2>1. past.stores \in Nat
    BY DEF Inv, Typed, PastTyped
  <2>2. \A k \in Held(RttsSends, rttsKey) \cup keysSent : k[1] \in 1..past.stores /\ k[1] # 0
    BY <2>1 DEF Inv, RttsApart, Marked
  <2>3. keysSent' = keysSent
    BY <1>5 DEF keysSent, SamePast
  <2>. QED
    BY <1>1, <1>4, <1>5, <2>1, <2>2, <2>3, SameTodo DEF Inv, RttsApart, Marked, SamePast
<1>11. Told'
  BY <1>1, <1>2, <1>4, <1>5 DEF Inv, Told, SamePast
<1>12. Rejoining'
  BY <1>1, <1>2, <1>3, <1>5, <1>6, SameTodo, Roles DEF Inv, Rejoining, SamePast
<1>. QED
  BY <1>7, <1>8, <1>9, <1>10, <1>11, <1>12 DEF Inv

\* The steps of a reconnection.
LEMMA Reconnection ==
    /\ ReconnectSteps \in Seq(PlainSteps)
    /\ DOMAIN ReconnectSteps = 1..Len(ReconnectSteps) /\ Len(ReconnectSteps) \in Nat
    /\ \A i \in DOMAIN ReconnectSteps :
           /\ ReconnectSteps[i] \in PlainSteps /\ ReconnectSteps[i][1] \in reconnecting
           /\ later(ReconnectSteps[i]) /\ carries(ReconnectSteps[i])
           /\ ReconnectSteps[i] \notin MuteSteps \cup RttsSends
    /\ \E i \in DOMAIN ReconnectSteps : ReconnectSteps[i] = <<"resetJoin">>
    /\ \E i \in DOMAIN ReconnectSteps : ReconnectSteps[i] = <<"onReconnect">>
<1> DEFINE a == <<"resetJoin">>
           b == <<"onReconnect">>
           c == <<"close">>
           d == <<"begin">>
<1>1. \A x \in {a, b, c, d} : x \in PlainSteps /\ x[1] \in reconnecting
  BY PlainSteps1 DEF reconnecting
<1>2. \A x \in {a, b, c, d} : later(x) /\ carries(x) /\ x \notin MuteSteps \cup RttsSends
  <2>. TAKE x \in {a, b, c, d}
  <2>1. x \in StepsOf("app") /\ "app" \in Threads /\ x[1] \in reconnecting
    BY <1>1, Roles
  <2>. HIDE DEF a, b, c, d
  <2>. QED
    BY <2>1, Classes DEF later, carries, reconnecting
<1>3. ReconnectSteps = <<a, b, c, d>>
  BY DEF ReconnectSteps
<1>. HIDE DEF a, b, c, d
<1>4. /\ DOMAIN <<a, b, c, d>> = {1, 2, 3, 4} /\ <<a, b, c, d>>[1] = a
      /\ <<a, b, c, d>>[2] = b /\ <<a, b, c, d>>[3] = c /\ <<a, b, c, d>>[4] = d
      /\ Len(<<a, b, c, d>>) = 4 /\ 1..4 = {1, 2, 3, 4}
  OBVIOUS
<1>5. <<a, b, c, d>> \in Seq(PlainSteps)
  BY <1>1
<1>6. \A i \in DOMAIN <<a, b, c, d>> : <<a, b, c, d>>[i] \in {a, b, c, d}
  BY <1>4
<1>7. /\ \E i \in DOMAIN <<a, b, c, d>> : <<a, b, c, d>>[i] = a
      /\ \E i \in DOMAIN <<a, b, c, d>> : <<a, b, c, d>>[i] = b
  BY <1>4
<1>. QED
  BY <1>1, <1>2, <1>3, <1>4, <1>5, <1>6, <1>7 DEF a, b

LEMMA LostKeeps ==
    ASSUME Inv, Lost
    PROVE  Inv'
<1> DEFINE steps == ReconnectSteps
<1>1. /\ link.open /\ ~link.user_closed /\ Starts("loop", steps) /\ todo["loop"] = <<>>
      /\ link' = [link EXCEPT !.open = FALSE]
      /\ past' = [past EXCEPT !.losses = past.losses + 1]
      /\ UNCHANGED <<limit, flags, pending, rtts, chan, selected>>
  BY DEF Lost, Starts
<1>2. /\ steps \in Seq(StepsOf("loop"))
      /\ "loop" \in Threads /\ 1 \notin DOMAIN todo["loop"]
  <2>1. StepsOf("loop") = RttsSteps \cup PlainSteps
    BY Roles
  <2>. QED
    BY <1>1, <2>1, Reconnection, Roles, SeqMonotonic
<1>3. TodoTyped' /\ Runs("loop", steps)
  BY <1>1, <1>2, RunsStarts DEF Inv, Typed
<1>4. PastTyped' /\ SamePast
  <2>1. past.losses + 1 \in Nat
    BY DEF Inv, Typed, PastTyped
  <2>. QED
    BY <1>1, <2>1 DEF Inv, Typed, PastTyped, SamePast
<1>5. /\ LinkTyped' /\ ~link'.open /\ link'.n = link.n /\ ~link'.user_closed
      /\ link'.ending = link.ending
  BY <1>1 DEF Inv, Typed, LinkTyped
<1>6. Typed'
  BY <1>1, <1>3, <1>4, <1>5 DEF Inv, Typed, FlagsTyped, RttsTyped, ChanTyped
<1>7. First'
  BY <1>2, <1>3, Reconnection, FirstAfter DEF Inv, Typed
<1>8. Carried'
  BY <1>1, <1>2, <1>3, <1>4, Reconnection, CarriedQuiet DEF Inv, SamePast
<1>9. Apart'
  <2>1. SameMutes
    BY <1>1, <1>4 DEF SameMutes, SamePast, mutesSent
  <2>. QED
    BY <1>2, <1>3, <2>1, Reconnection, QuietMutes DEF Inv
<1>10. RttsApart' /\ Told'
  <2>1. SameRtts
    BY <1>1, <1>4, <1>5 DEF SameRtts, SamePast, keysSent
  <2>. QED
    BY <1>2, <1>3, <2>1, Reconnection, QuietRtts DEF Inv
<1>11. Rejoining'
  <2>1. /\ \A u \in Threads : \A z \in doing(u)' :
               (u = "loop" /\ \E i \in DOMAIN steps : z = steps[i]) \/ z \in doing(u)
        /\ \A i \in DOMAIN steps : steps[i] \in doing("loop")'
    BY <1>2, <1>3, DoingAfter
  <2>2. doing("loop") = {}
    BY <1>1 DEF doing
  <2>3. <<"resetJoin">> \in doing("loop")' /\ <<"onReconnect">> \in doing("loop")'
    BY <2>1, Reconnection
  <2>4. \A z \in doing("loop")' : z[1] \in reconnecting
    BY <2>1, <2>2, Reconnection, Roles
  <2>. QED
    BY <1>1, <1>4, <1>5, <2>1, <2>3, <2>4 DEF Inv, Rejoining, SamePast
<1>. QED
  BY <1>6, <1>7, <1>8, <1>9, <1>10, <1>11 DEF Inv

LEMMA PingTimeoutKeeps ==
    ASSUME Inv, PingTimeout
    PROVE  Inv'
<1> DEFINE steps == ReconnectSteps
<1>1. /\ Starts("watch", steps) /\ todo["watch"] = <<>>
      /\ past' = [past EXCEPT !.timeouts = past.timeouts + 1]
      /\ UNCHANGED <<limit, link, flags, pending, rtts, chan, selected>>
  BY DEF PingTimeout, Starts, OnlyPast
<1>2. /\ steps \in Seq(StepsOf("watch"))
      /\ "watch" \in Threads /\ 1 \notin DOMAIN todo["watch"]
  BY <1>1, Reconnection, Roles
<1>3. TodoTyped' /\ Runs("watch", steps)
  BY <1>1, <1>2, RunsStarts DEF Inv, Typed
<1>4. /\ PastTyped' /\ past'.timeouts # 0 /\ past'.sent = past.sent
      /\ past'.twice = past.twice /\ past'.cleared = past.cleared
      /\ past'.stored = past.stored /\ past'.ready = past.ready /\ past'.owed = past.owed
      /\ past'.raced = past.raced /\ past'.stores = past.stores /\ past'.mutes = past.mutes
  <2>1. past.timeouts \in Nat /\ past.timeouts + 1 \in Nat /\ past.timeouts + 1 # 0
    BY DEF Inv, Typed, PastTyped
  <2>. QED
    BY <1>1, <2>1 DEF Inv, Typed, PastTyped
<1>5. Typed'
  BY <1>1, <1>3, <1>4 DEF Inv, Typed, LinkTyped, FlagsTyped, RttsTyped, ChanTyped
<1>6. First'
  BY <1>2, <1>3, Reconnection, FirstAfter DEF Inv, Typed
<1>7. Carried'
  BY <1>1, <1>2, <1>3, <1>4, Reconnection, CarriedQuiet DEF Inv
<1>8. Apart'
  <2>1. SameMutes
    BY <1>1, <1>4 DEF SameMutes, mutesSent
  <2>. QED
    BY <1>2, <1>3, <2>1, Reconnection, QuietMutes DEF Inv
<1>9. RttsApart' /\ Told'
  <2>1. SameRtts
    BY <1>1, <1>4 DEF SameRtts, keysSent
  <2>. QED
    BY <1>2, <1>3, <2>1, Reconnection, QuietRtts DEF Inv
<1>10. Rejoining'
  BY <1>1, <1>4 DEF Inv, Rejoining
<1>. QED
  BY <1>5, <1>6, <1>7, <1>8, <1>9, <1>10 DEF Inv

\* A step of a reconnection ends: what it changed leaves all but Rejoining.
LEMMA ReconnectStep ==
    ASSUME Inv, NEW t \in Threads, todo[t] # <<>>, todo[t][1][1] \in reconnecting,
           Then(t, <<>>), UNCHANGED <<limit, pending, rtts, selected, past>>,
           flags'.recreating = flags.recreating, link'.n = link.n, link'.open => link.open
    PROVE  /\ TodoTyped' /\ First' /\ Carried' /\ Apart' /\ RttsApart' /\ Told'
           /\ \A u \in Threads : \A z \in doing(u)' : z \in doing(u)
           /\ \A z \in doing("loop") : z \in doing("loop")' \/ z[1] = todo[t][1][1]
           /\ todo[t][1] \in doing(t)
<1>1. /\ TodoTyped' /\ Runs(t, <<>>)
      /\ DOMAIN <<>> = {} /\ DOMAIN <<>> = 1..Len(<<>>) /\ Len(<<>>) \in Nat
  BY Drops DEF Inv
<1>2. /\ 1 \in DOMAIN todo[t] /\ todo[t][1] \in StepsOf(t) /\ todo[t][1] \in doing(t)
  BY HeadStep DEF Inv, Typed
<1>3. todo[t][1] \notin MuteSteps \cup RttsSends /\ todo[t][1][1] # "cached"
  BY <1>2, Classes DEF reconnecting
<1>4. First'
  BY <1>1, FirstAfter DEF Inv, Typed
<1>5. Carried'
  BY <1>1, CarriedQuiet DEF Inv
<1>6. Apart'
  <2>1. SameMutes
    BY DEF SameMutes, mutesSent
  <2>. QED
    BY <1>1, <1>3, <2>1, QuietMutes DEF Inv
<1>7. RttsApart' /\ Told'
  <2>1. SameRtts
    BY DEF SameRtts, keysSent
  <2>. QED
    BY <1>1, <1>3, <2>1, QuietRtts DEF Inv
<1>8. /\ \A u \in Threads : \A z \in doing(u)' : z \in doing(u)
      /\ \A z \in doing("loop") : z \in doing("loop")' \/ z[1] = todo[t][1][1]
  BY <1>1, Roles, DoingAfter
<1>. QED
  BY <1>1, <1>2, <1>4, <1>5, <1>6, <1>7, <1>8

LEMMA ResetJoinKeeps ==
    ASSUME Inv, NEW t \in Threads, ResetJoin(t)
    PROVE  Inv'
<1>1. todo[t] # <<>> /\ todo[t][1][1] = "resetJoin"
  BY AtStep DEF ResetJoin, Inv
<1>2. /\ Then(t, <<>>) /\ flags' = [flags EXCEPT !.joinAll = FALSE, !.join = FALSE]
      /\ UNCHANGED <<limit, link, pending, rtts, chan, selected, past>>
  BY DEF ResetJoin, OnlyFlags
<1>3. FlagsTyped' /\ ~flags'.joinAll /\ flags'.recreating = flags.recreating
  BY <1>2 DEF Inv, Typed, FlagsTyped
<1>4. todo[t][1][1] \in reconnecting
  BY <1>1 DEF reconnecting
<1>5. /\ TodoTyped' /\ First' /\ Carried' /\ Apart' /\ RttsApart' /\ Told'
      /\ \A u \in Threads : \A z \in doing(u)' : z \in doing(u)
      /\ \A z \in doing("loop") : z \in doing("loop")' \/ z[1] = "resetJoin"
      /\ todo[t][1] \in doing(t)
  BY <1>1, <1>2, <1>3, <1>4, ReconnectStep
<1>6. Typed'
  BY <1>2, <1>3, <1>5 DEF Inv, Typed, LinkTyped, RttsTyped, ChanTyped, PastTyped
<1>7. Rejoining'
  <2>1. past.timeouts = 0 /\ ~past.hasty => ~link.open
    BY <1>4, <1>5 DEF Inv, Rejoining
  <2>2. isJoined' = isJoined /\ <<"onReconnect">>[1] # "resetJoin" /\ "loop" \in Threads
    BY <1>2, Roles DEF isJoined
  <2>. QED
    BY <1>2, <1>3, <1>5, <2>1, <2>2 DEF Inv, Rejoining
<1>. QED
  BY <1>5, <1>6, <1>7 DEF Inv

LEMMA OnReconnectKeeps ==
    ASSUME Inv, NEW t \in Threads, OnReconnect(t)
    PROVE  Inv'
<1>1. todo[t] # <<>> /\ todo[t][1][1] = "onReconnect"
  BY AtStep DEF OnReconnect, Inv
<1>2. /\ Then(t, <<>>) /\ chan' = [c \in Channels |-> [chan[c] EXCEPT !.joined = FALSE]]
      /\ UNCHANGED <<limit, link, flags, pending, rtts, selected, past>>
  BY DEF OnReconnect
<1>3. ChanTyped' /\ ~isJoined'
  <2>1. \A c \in Channels : [chan[c] EXCEPT !.joined = FALSE] \in [peers : {1, 2}, joined : BOOLEAN]
                            /\ [chan[c] EXCEPT !.joined = FALSE].joined = FALSE
    BY DEF Inv, Typed, ChanTyped
  <2>. QED
    BY <1>2, <2>1 DEF ChanTyped, isJoined
<1>4. todo[t][1][1] \in reconnecting
  BY <1>1 DEF reconnecting
<1>5. /\ TodoTyped' /\ First' /\ Carried' /\ Apart' /\ RttsApart' /\ Told'
      /\ \A u \in Threads : \A z \in doing(u)' : z \in doing(u)
      /\ \A z \in doing("loop") : z \in doing("loop")' \/ z[1] = "onReconnect"
      /\ todo[t][1] \in doing(t)
  BY <1>1, <1>2, <1>4, ReconnectStep
<1>6. Typed'
  BY <1>2, <1>3, <1>5 DEF Inv, Typed, LinkTyped, FlagsTyped, RttsTyped, PastTyped
<1>7. Rejoining'
  <2>1. past.timeouts = 0 /\ ~past.hasty => ~link.open
    BY <1>4, <1>5 DEF Inv, Rejoining
  <2>2. <<"resetJoin">>[1] # "onReconnect" /\ "loop" \in Threads
    BY Roles
  <2>. QED
    BY <1>2, <1>3, <1>5, <2>1, <2>2 DEF Inv, Rejoining
<1>. QED
  BY <1>5, <1>6, <1>7 DEF Inv

LEMMA CloseTransportsKeeps ==
    ASSUME Inv, NEW t \in Threads, CloseTransports(t)
    PROVE  Inv'
<1>1. todo[t] # <<>> /\ todo[t][1][1] = "close"
  BY AtStep DEF CloseTransports, Inv
<1>2. /\ Then(t, <<>>)
      /\ link' = [link EXCEPT !.open = FALSE, !.ending = link.ending \/ link.open,
                              !.suppress = TRUE]
      /\ UNCHANGED <<limit, flags, pending, rtts, chan, selected, past>>
  BY DEF CloseTransports
<1>3. /\ LinkTyped' /\ ~link'.open /\ link'.n = link.n
      /\ link'.ending = (link.ending \/ link.open) /\ link'.user_closed = link.user_closed
  <2>1. (link.ending \/ link.open) \in BOOLEAN
    BY DEF Inv, Typed, LinkTyped
  <2>. QED
    BY <1>2, <2>1 DEF Inv, Typed, LinkTyped
<1>4. todo[t][1][1] \in reconnecting
  BY <1>1 DEF reconnecting
<1>5. /\ TodoTyped' /\ First' /\ Carried' /\ Apart' /\ RttsApart' /\ Told'
      /\ \A u \in Threads : \A z \in doing(u)' : z \in doing(u)
      /\ \A z \in doing("loop") : z \in doing("loop")' \/ z[1] = "close"
      /\ todo[t][1] \in doing(t)
  BY <1>1, <1>2, <1>3, <1>4, ReconnectStep
<1>6. Typed'
  BY <1>2, <1>3, <1>5 DEF Inv, Typed, FlagsTyped, RttsTyped, ChanTyped, PastTyped
<1>7. Rejoining'
  <2>1. past.timeouts = 0 /\ ~past.hasty => ~link.open
    BY <1>4, <1>5 DEF Inv, Rejoining
  <2>2. /\ <<"resetJoin">>[1] # "close" /\ <<"onReconnect">>[1] # "close"
        /\ "loop" \in Threads /\ isJoined' = isJoined
    BY <1>2, Roles DEF isJoined
  <2>. QED
    BY <1>2, <1>3, <1>5, <2>1, <2>2 DEF Inv, Rejoining
<1>. QED
  BY <1>5, <1>6, <1>7 DEF Inv

LEMMA BeginKeeps ==
    ASSUME Inv, NEW t \in Threads, Begin(t)
    PROVE  Inv'
<1>1. todo[t] # <<>> /\ todo[t][1][1] = "begin"
  BY AtStep DEF Begin, Inv
<1>2. /\ Then(t, <<>>)
      /\ link' = [link EXCEPT !.next = ~link.user_closed, !.suppress = FALSE]
      /\ UNCHANGED <<limit, flags, pending, rtts, chan, selected, past>>
  BY DEF Begin
<1>3. /\ LinkTyped' /\ link'.open = link.open /\ link'.n = link.n
      /\ link'.ending = link.ending /\ link'.user_closed = link.user_closed
  BY <1>2 DEF Inv, Typed, LinkTyped
<1>4. todo[t][1][1] \in reconnecting
  BY <1>1 DEF reconnecting
<1>5. /\ TodoTyped' /\ First' /\ Carried' /\ Apart' /\ RttsApart' /\ Told'
      /\ \A u \in Threads : \A z \in doing(u)' : z \in doing(u)
      /\ \A z \in doing("loop") : z \in doing("loop")' \/ z[1] = "begin"
      /\ todo[t][1] \in doing(t)
  BY <1>1, <1>2, <1>3, <1>4, ReconnectStep
<1>6. Typed'
  BY <1>2, <1>3, <1>5 DEF Inv, Typed, FlagsTyped, RttsTyped, ChanTyped, PastTyped
<1>7. Rejoining'
  <2>1. past.timeouts = 0 /\ ~past.hasty => ~link.open
    BY <1>4, <1>5 DEF Inv, Rejoining
  <2>2. /\ <<"resetJoin">>[1] # "begin" /\ <<"onReconnect">>[1] # "begin"
        /\ "loop" \in Threads /\ isJoined' = isJoined
    BY <1>2, Roles DEF isJoined
  <2>. QED
    BY <1>2, <1>3, <1>5, <2>1, <2>2 DEF Inv, Rejoining
<1>. QED
  BY <1>5, <1>6, <1>7 DEF Inv

LEMMA EndedKeeps ==
    ASSUME Inv, Ended
    PROVE  Inv'
<1> DEFINE steps == IF link.user_closed \/ link.suppress THEN <<>> ELSE ReconnectSteps
<1>1. /\ link.ending /\ Starts("loop", steps) /\ todo["loop"] = <<>>
      /\ link' = [link EXCEPT !.ending = FALSE]
      /\ UNCHANGED <<limit, flags, pending, rtts, chan, selected, past>>
  BY DEF Ended, Starts
<1>2. /\ steps \in Seq(PlainSteps)
      /\ DOMAIN steps = 1..Len(steps) /\ Len(steps) \in Nat
      /\ \A i \in DOMAIN steps : /\ later(steps[i]) /\ carries(steps[i])
                                 /\ steps[i] \notin MuteSteps \cup RttsSends
  <2>1. CASE link.user_closed \/ link.suppress
    BY <2>1
  <2>2. CASE ~(link.user_closed \/ link.suppress)
    BY <2>2, Reconnection
  <2>. QED
    BY <2>1, <2>2
<1>. HIDE DEF steps
<1>3. steps \in Seq(StepsOf("loop")) /\ "loop" \in Threads /\ 1 \notin DOMAIN todo["loop"]
  <2>1. StepsOf("loop") = RttsSteps \cup PlainSteps
    BY Roles
  <2>. QED
    BY <1>1, <1>2, <2>1, Roles, SeqMonotonic
<1>4. TodoTyped' /\ Runs("loop", steps)
  BY <1>1, <1>3, RunsStarts DEF Inv, Typed
<1>5. LinkTyped' /\ link'.open = link.open /\ link'.n = link.n
  BY <1>1 DEF Inv, Typed, LinkTyped
<1>6. Typed'
  BY <1>1, <1>4, <1>5 DEF Inv, Typed, FlagsTyped, RttsTyped, ChanTyped, PastTyped
<1>7. First'
  BY <1>2, <1>3, <1>4, FirstAfter DEF Inv, Typed
<1>8. Carried'
  BY <1>1, <1>2, <1>3, <1>4, CarriedQuiet DEF Inv
<1>9. Apart'
  <2>1. SameMutes
    BY <1>1 DEF SameMutes, mutesSent
  <2>. QED
    BY <1>2, <1>3, <1>4, <2>1, QuietMutes DEF Inv
<1>10. RttsApart' /\ Told'
  <2>1. SameRtts
    BY <1>1, <1>5 DEF SameRtts, keysSent
  <2>. QED
    BY <1>2, <1>3, <1>4, <2>1, QuietRtts DEF Inv
<1>11. Rejoining'
  BY <1>1, <1>5 DEF Inv, Rejoining
<1>. QED
  BY <1>6, <1>7, <1>8, <1>9, <1>10, <1>11 DEF Inv

-------------------------------------------------------------------------------
(* The peers, and the round trips.                                           *)

LEMMA MayJoinKeeps ==
    ASSUME Inv, MayJoin
    PROVE  Inv'
<1> DEFINE x == todo["loop"][1]
           c == arg("loop").channel
           node == selected \/ (arg("loop").node /\ ~flags.auto)
           ready == chan[c].peers > 1 /\ node /\ ~flags.auto
           now == ~chan[c].joined /\ ~flags.auto /\ chan[c].peers > 1 /\ node
           y == <<"joinAll">>
           steps == IF now THEN <<y>> ELSE <<>>
<1>1. /\ todo["loop"] # <<>> /\ 1 \in DOMAIN todo["loop"] /\ x[1] = "node"
      /\ x \in StepsOf("loop") /\ x \in doing("loop") /\ "loop" \in Threads
      /\ arg("loop") = x[2]
  BY AtStep, Roles DEF MayJoin, Inv
<1>2. arg("loop") \in Messages /\ c \in Channels
  <2>1. arg("loop") \in Messages
    BY <1>1, Classes
  <2>. QED
    BY <2>1 DEF Messages
<1>3. /\ x \notin MuteSteps \cup RttsSends /\ x[1] \notin reconnecting \cup {"joinAll", "cached"}
      /\ \A a : ~isJoinOf(x, a)
  BY <1>1, Classes DEF reconnecting, isJoinOf
<1>4. /\ selected' = node /\ Then("loop", steps)
      /\ past' = IF ready THEN [past EXCEPT !.ready = IF link.open THEN link.n ELSE past.ready]
                          ELSE past
      /\ chan' = IF now THEN [chan EXCEPT ![c].joined = TRUE] ELSE chan
      /\ UNCHANGED <<limit, link, flags, pending, rtts>>
  <2>1. /\ selected' = node
        /\ IF ready THEN past' = [past EXCEPT !.ready = IF link.open THEN link.n ELSE @]
                    ELSE UNCHANGED past
        /\ IF now THEN chan' = [chan EXCEPT ![c].joined = TRUE] /\ Then("loop", << <<"joinAll">> >>)
                  ELSE UNCHANGED chan /\ Then("loop", <<>>)
        /\ UNCHANGED <<limit, link, flags, pending, rtts>>
    BY DEF MayJoin
  <2>. QED
    BY <2>1
<1>5. node \in BOOLEAN
  <2>1. arg("loop").node \in BOOLEAN
    BY <1>2 DEF Messages
  <2>. QED
    BY <2>1 DEF Inv, Typed, FlagsTyped
<1>. HIDE DEF node, c, x
<1>6. /\ y \in StepsOf("loop") /\ later(y) /\ carries(y) /\ y \notin MuteSteps \cup RttsSends
      /\ y[1] \notin reconnecting
  <2>1. y \in StepsOf("loop") /\ y[1] = "joinAll"
    BY PlainSteps1, Roles
  <2>. HIDE DEF y
  <2>. QED
    BY <1>1, <2>1, Classes DEF later, carries, reconnecting
<1>. HIDE DEF y
<1>7. /\ steps \in Seq(StepsOf("loop")) /\ DOMAIN steps = 1..Len(steps) /\ Len(steps) \in Nat
      /\ \A i \in DOMAIN steps : steps[i] = y
      /\ now => \E i \in DOMAIN steps : steps[i] = y
  <2>1. CASE now
    <3>1. steps = <<y>>
      BY <2>1
    <3>. HIDE DEF steps, now
    <3>. QED
      BY <1>6, <2>1, <3>1, FewSteps
  <2>2. CASE ~now
    BY <2>2
  <2>. QED
    BY <2>1, <2>2
<1>. HIDE DEF steps
<1>8. TodoTyped' /\ Runs("loop", steps)
  BY <1>1, <1>4, <1>7, RunsThen DEF Inv, Typed
<1>9. /\ ChanTyped' /\ chan[c].joined \in BOOLEAN
      /\ isJoined' <=> isJoined \/ now
  <2>1. \A a \in Channels : chan[a] \in [peers : {1, 2}, joined : BOOLEAN]
    BY DEF Inv, Typed, ChanTyped
  <2>2. CASE now
    <3>1. chan' = [chan EXCEPT ![c].joined = TRUE]
      BY <1>4, <2>2
    <3>2. chan' \in [Channels -> [peers : {1, 2}, joined : BOOLEAN]] /\ chan'[c].joined
      BY <1>2, <2>1, <3>1 DEF Inv, Typed, ChanTyped
    <3>. QED
      BY <1>2, <2>1, <2>2, <3>2 DEF ChanTyped, isJoined
  <2>3. CASE ~now
    BY <1>2, <1>4, <2>1, <2>3 DEF Inv, Typed, ChanTyped, isJoined
  <2>. QED
    BY <2>2, <2>3
<1>10. /\ PastTyped' /\ past'.mutes = past.mutes /\ past'.sent = past.sent
       /\ past'.cleared = past.cleared /\ past'.twice = past.twice
       /\ past'.stored = past.stored /\ past'.owed = past.owed
       /\ past'.raced = past.raced /\ past'.hasty = past.hasty
       /\ past'.stores = past.stores /\ past'.timeouts = past.timeouts
       /\ past'.ready = past.ready \/ (ready /\ link.open /\ past'.ready = link.n)
  <2>1. link.n \in Nat /\ past.ready \in Nat
    BY DEF Inv, Typed, LinkTyped, PastTyped
  <2> DEFINE n == IF link.open THEN link.n ELSE past.ready
  <2>2. n \in Nat /\ past' = IF ready THEN [past EXCEPT !.ready = n] ELSE past
    BY <1>4, <2>1
  <2>3. n = past.ready \/ (link.open /\ n = link.n)
    OBVIOUS
  <2>. HIDE DEF n, ready
  <2>4. CASE ready
    <3>1. past' = [past EXCEPT !.ready = n]
      BY <2>2, <2>4
    <3>. QED
      BY <2>2, <2>3, <2>4, <3>1 DEF Inv, Typed, PastTyped
  <2>5. CASE ~ready
    <3>1. past' = past
      BY <2>2, <2>5
    <3>. QED
      BY <3>1 DEF Inv, Typed, PastTyped
  <2>. QED
    BY <2>4, <2>5
<1>11. Typed'
  BY <1>4, <1>5, <1>8, <1>9, <1>10 DEF Inv, Typed, LinkTyped, FlagsTyped, RttsTyped
<1>12. First'
  BY <1>6, <1>7, <1>8, <1>1, FirstAfter DEF Inv, Typed
<1>13. Carried'
  BY <1>1, <1>4, <1>6, <1>7, <1>8, <1>10, CarriedQuiet DEF Inv
<1>14. Apart'
  <2>1. SameMutes
    BY <1>4, <1>10 DEF SameMutes, mutesSent
  <2>. QED
    BY <1>1, <1>3, <1>6, <1>7, <1>8, <2>1, QuietMutes DEF Inv, x
<1>15. RttsApart' /\ Told'
  <2>1. SameRtts
    BY <1>4, <1>10 DEF SameRtts, keysSent
  <2>. QED
    BY <1>1, <1>3, <1>6, <1>7, <1>8, <2>1, QuietRtts DEF Inv, x
<1>16. Rejoining'
  <2>1. past'.ready <= link'.n
    <3>1. link.n \in Nat
      BY DEF Inv, Typed, LinkTyped
    <3>. QED
      BY <1>4, <1>10, <3>1 DEF Inv, Rejoining
  <2>. SUFFICES ASSUME past'.timeouts = 0 /\ ~past'.hasty
                PROVE  Rejoining'
    BY <2>1 DEF Rejoining
  <2>2. past.timeouts = 0 /\ ~past.hasty
    BY <1>10
  <2>3. link.open
    BY <1>1, <1>3, <2>2 DEF Inv, Rejoining
  <2>4. /\ \A u \in Threads : \A z \in doing(u)' :
               (u = "loop" /\ \E i \in DOMAIN steps : z = steps[i]) \/ z \in doing(u)
        /\ \A u \in Threads : \A z \in doing(u) : z \in doing(u)' \/ z = x
        /\ \A z \in everything : z \in everything' \/ z = x
        /\ \A i \in DOMAIN steps : steps[i] \in doing("loop")'
    BY <1>1, <1>8, DoingAfter DEF x
  <2>5. /\ \A u \in Threads \ {"loop"} : \A z \in doing(u)' : z[1] \notin reconnecting
        /\ \A z \in doing("loop")' : z[1] \notin reconnecting
    BY <1>1, <1>6, <1>7, <2>2, <2>3, <2>4 DEF Inv, Rejoining
  <2>6. now => y \in doing("loop")'
    BY <1>7, <2>4
  <2>7. y # x
    BY <1>1 DEF y
  <2>8. past'.ready = link.n \/ isJoined' => flags.joinAll \/ y \in doing("loop")'
    <3>1. CASE now
      BY <2>6, <3>1
    <3>2. CASE ~now
      <4>1. isJoined' => isJoined
        BY <1>9, <3>2
      <4>2. past'.ready # past.ready => chan[c].joined
        BY <1>10, <3>2
      <4>3. chan[c].joined => isJoined
        BY <1>2 DEF isJoined
      <4>4. past.ready = link.n \/ isJoined => flags.joinAll \/ y \in doing("loop")
        BY <2>2, <2>3 DEF Inv, Rejoining, y
      <4>. QED
        BY <1>1, <2>4, <2>7, <4>1, <4>2, <4>3, <4>4
    <3>. QED
      BY <3>1, <3>2
  <2>9. flags.joinAll =>
            \A a \in Channels : joinedOn(a)' \/ \E z \in everything' : isJoinOf(z, a)
    <3>1. \A a : joinedOn(a)' <=> joinedOn(a)
      BY <1>4, <1>10 DEF joinedOn
    <3>. QED
      BY <1>3, <2>2, <2>3, <2>4, <3>1 DEF Inv, Rejoining
  <2>10. ~link.ending
    BY <2>2 DEF Inv, Rejoining
  <2>. QED
    BY <1>4, <2>1, <2>3, <2>5, <2>8, <2>9, <2>10 DEF Rejoining, y
<1>. QED
  BY <1>11, <1>12, <1>13, <1>14, <1>15, <1>16 DEF Inv

LEMMA SendCachedKeeps ==
    ASSUME Inv, NEW t \in Threads, SendCached(t)
    PROVE  Inv'
<1> DEFINE x == todo[t][1]
           c == arg(t)
           k == <<rtts.nr, c>>
           r == Request("rtts", c, rtts.nr, FALSE)
           y == <<"send", r>>
           idle == rtts.value = 0 \/ c \in rtts.sent
           steps == IF idle THEN <<>> ELSE <<y>>
<1>1. /\ todo[t] # <<>> /\ 1 \in DOMAIN todo[t] /\ x[1] = "cached" /\ x \in StepsOf(t)
      /\ c = x[2] /\ x \in everything
  BY AtStep DEF SendCached, Inv
<1>2. /\ c \in Channels /\ x = <<"cached", c>> /\ t \in Sorters \cup {"loop"}
      /\ x \notin MuteSteps \cup RttsSends /\ x[1] \notin reconnecting \cup {"joinAll"}
      /\ \A a : ~isJoinOf(x, a)
  BY <1>1, Classes DEF reconnecting, isJoinOf
<1>3. /\ Then(t, steps)
      /\ rtts' = IF idle THEN rtts ELSE [rtts EXCEPT !.sent = rtts.sent \cup {c}]
      /\ UNCHANGED <<limit, link, flags, pending, chan, selected, past>>
  <2>1. /\ IF idle THEN Then(t, <<>>) /\ UNCHANGED rtts
                   ELSE /\ rtts' = [rtts EXCEPT !.sent = @ \cup {c}]
                        /\ Then(t, <<y>>)
        /\ UNCHANGED <<limit, link, flags, pending, chan, selected, past>>
    BY DEF SendCached, OnlyRtts
  <2>. QED
    BY <2>1
<1>4. rtts.nr \in Nat /\ rtts.sent \subseteq Channels
  BY DEF Inv, Typed, RttsTyped
<1>. HIDE DEF c
<1>5. r \in Rtts
  BY <1>2, <1>4, Requests DEF Inv, Typed
<1>6. r.nr = rtts.nr /\ r.channel = c /\ r.kind = "rtts"
  BY DEF Request
<1>. HIDE DEF r
<1>7. /\ y \in StepsOf(t) /\ y \in RttsSends /\ rttsKey[y] = k /\ y[1] = "send" /\ y[2] = r
      /\ later(y) /\ carries(y) /\ y \notin MuteSteps /\ y[1] \notin reconnecting
  <2>1. y \in StepsOf(t) /\ y \in RttsSends /\ rttsKey[y] = k /\ y[1] = "send" /\ y[2] = r
    BY <1>2, <1>5, <1>6, Sends, Roles
  <2>. HIDE DEF y
  <2>. QED
    BY <1>6, <2>1, Classes DEF later, carries, reconnecting
<1>. HIDE DEF y
<1>8. /\ steps \in Seq(StepsOf(t)) /\ DOMAIN steps = 1..Len(steps) /\ Len(steps) \in Nat
      /\ \A i \in DOMAIN steps : i = 1 /\ steps[i] = y /\ ~idle
      /\ ~idle => 1 \in DOMAIN steps
  <2>1. CASE idle
    BY <2>1
  <2>2. CASE ~idle
    BY <1>7, <2>2, FewSteps
  <2>. QED
    BY <2>1, <2>2
<1>. HIDE DEF steps
<1>9. TodoTyped' /\ Runs(t, steps)
  BY <1>1, <1>3, <1>8, RunsThen DEF Inv, Typed
<1>. HIDE DEF x
<1>10. /\ RttsTyped' /\ rtts'.value = rtts.value /\ rtts'.nr = rtts.nr
       /\ rtts'.legacy = rtts.legacy
       /\ rtts'.sent = IF idle THEN rtts.sent ELSE rtts.sent \cup {c}
  <2>1. CASE idle
    BY <1>3, <2>1 DEF Inv, Typed, RttsTyped
  <2>2. CASE ~idle
    <3>1. rtts' = [rtts EXCEPT !.sent = rtts.sent \cup {c}]
          /\ rtts.sent \cup {c} \in SUBSET Channels
      BY <1>2, <1>3, <1>4, <2>2
    <3>. QED
      BY <2>2, <3>1 DEF Inv, Typed, RttsTyped
  <2>. QED
    BY <2>1, <2>2
<1>11. Typed'
  BY <1>3, <1>9, <1>10 DEF Inv, Typed, LinkTyped, FlagsTyped, ChanTyped, PastTyped
<1>12. First'
  BY <1>8, <1>9, FirstAfter DEF Inv, Typed
<1>13. Carried'
  BY <1>3, <1>7, <1>8, <1>9, CarriedQuiet DEF Inv
<1>14. Apart'
  <2>1. SameMutes
    BY <1>3 DEF SameMutes, mutesSent
  <2>. QED
    BY <1>2, <1>7, <1>8, <1>9, <2>1, QuietMutes DEF Inv, x
<1>15. keysSent' = keysSent
  BY <1>3 DEF keysSent
<1>16. ~idle => k \notin Held(RttsSends, rttsKey) \cup keysSent /\ k[1] \in 1..past.stores
  <2>1. past.stores \in Nat
    BY DEF Inv, Typed, PastTyped
  <2>2. ~idle => rtts.nr \in 1..past.stores
    BY <1>4, <2>1 DEF Inv, RttsApart
  <2>. QED
    BY <2>2 DEF Inv, RttsApart, Marked
<1>17. /\ Once(RttsSends, rttsKey)'
       /\ Held(RttsSends, rttsKey)'
           = Held(RttsSends, rttsKey) \cup (IF idle THEN {} ELSE {k})
  <2>1. NewKeys(steps, RttsSends, rttsKey) = IF idle THEN {} ELSE {k}
    BY <1>7, <1>8 DEF NewKeys
  <2>2. GoneKey(t, RttsSends, rttsKey) = {} /\ Once(RttsSends, rttsKey)
    BY <1>2 DEF GoneKey, x, Inv, RttsApart
  <2>3. \A i, j \in DOMAIN steps : i = j
    BY <1>8
  <2>. QED
    BY <1>9, <1>16, <2>1, <2>2, <2>3, HeldAfter
<1>18. RttsApart'
  <2>1. \A a \in Held(RttsSends, rttsKey)' \cup keysSent' : Marked(a)'
    <3>1. k[1] = rtts.nr /\ k[2] = c
      OBVIOUS
    <3>. HIDE DEF idle, k
    <3>2. \A a \in Held(RttsSends, rttsKey) \cup keysSent : Marked(a)'
      BY <1>3, <1>10 DEF Inv, RttsApart, Marked
    <3>3. \A a : ~idle /\ a = k => Marked(a)'
      BY <1>3, <1>10, <1>16, <3>1 DEF Marked
    <3>. QED
      BY <1>15, <1>17, <3>2, <3>3
  <2>2. Held(RttsSends, rttsKey)' \cap keysSent' = {}
    BY <1>15, <1>16, <1>17 DEF Inv, RttsApart
  <2>. QED
    BY <1>3, <1>10, <1>17, <2>1, <2>2 DEF Inv, RttsApart
<1>19. Told'
  <2>1. \A z \in everything : z \in everything' \/ z = x
    BY <1>9, DoingAfter DEF x
  <2>2. rtts.value = 0 \/ (c \in rtts'.sent /\ rtts.sent \subseteq rtts'.sent)
    BY <1>10
  <2>3. \A a \in rtts'.sent : <<rtts.nr, a>> \in Held(RttsSends, rttsKey) \cup keysSent
            => <<rtts.nr, a>> \in Held(RttsSends, rttsKey)' \cup keysSent'
    BY <1>15, <1>17
  <2>4. \A a \in rtts'.sent : a \in rtts.sent \/ <<rtts.nr, a>> \in Held(RttsSends, rttsKey)'
    BY <1>10, <1>17
  <2>5. \A a : <<"cached", a>> = x => a = c
    BY <1>2
  <2>. HIDE DEF idle, k
  <2>. QED
    BY <1>3, <1>10, <2>1, <2>2, <2>3, <2>4, <2>5 DEF Inv, Told
<1>20. Rejoining'
  <2>1. SameLatches
    BY <1>3 DEF SameLatches, isJoined
  <2>. QED
    BY <1>1, <1>2, <1>7, <1>8, <1>9, <2>1, RejoiningQuiet DEF Inv, x
<1>. QED
  BY <1>11, <1>12, <1>13, <1>14, <1>18, <1>19, <1>20 DEF Inv

\* The steps that look at channels.
LEMMA CachedSteps ==
    ASSUME NEW t \in Threads, t \in Sorters \cup {"loop"}, NEW c \in Channels
    PROVE  LET y == <<"cached", c>> IN
           /\ y \in StepsOf(t) /\ later(y) /\ carries(y) /\ y \notin MuteSteps \cup RttsSends
           /\ y[1] \notin reconnecting /\ y[1] = "cached"
<1> DEFINE y == <<"cached", c>>
<1>1. y \in StepsOf(t) /\ y[1] = "cached"
  BY PlainSteps1, Roles
<1>. HIDE DEF y
<1>2. later(y) /\ carries(y) /\ y \notin MuteSteps \cup RttsSends /\ y[1] \notin reconnecting
  BY <1>1, Classes DEF later, carries, reconnecting
<1>. QED
  BY <1>1, <1>2 DEF y

\* Those of a set of channels.
LEMMA CachedOf ==
    ASSUME NEW L \in SUBSET Channels
    PROVE  LET s == SetToSeq({<<"cached", l>> : l \in L}) IN
           /\ s \in Seq({<<"cached", l>> : l \in L})
           /\ \A l \in L : \E i \in DOMAIN s : s[i] = <<"cached", l>>
<1> DEFINE T == {<<"cached", l>> : l \in L}
           f == [l \in L |-> <<"cached", l>>]
<1>1. IsFiniteSet(L)
  BY RequestsAssumption, FS_Subset
<1>2. f \in Surjection(L, T)
  BY DEF Surjection
<1>3. IsFiniteSet(T)
  BY <1>1, <1>2, FS_Surjection
<1>. QED
  BY <1>3, AsSequence, AllInSequence

LEMMA StoreKeeps ==
    ASSUME Inv, NEW t \in Threads, Store(t)
    PROVE  Inv'
<1> DEFINE x == todo[t][1]
           v == arg(t)
           idle == rtts.value = v
<1>1. /\ todo[t] # <<>> /\ 1 \in DOMAIN todo[t] /\ x[1] = "store" /\ x \in StepsOf(t)
      /\ v = x[2]
  BY AtStep DEF Store, Inv
<1>2. /\ v \in Values /\ v # 0 /\ t \in Sorters \cup {"loop"}
      /\ x \notin MuteSteps \cup RttsSends
      /\ x[1] \notin reconnecting \cup {"joinAll", "cached"} /\ \A a : ~isJoinOf(x, a)
  BY <1>1, Classes, RequestsAssumption DEF reconnecting, isJoinOf
<1>3. PICK steps :
          /\ Then(t, steps) /\ steps \in Seq({<<"cached", l>> : l \in Channels})
          /\ idle => steps = <<>>
          /\ ~idle => /\ \E i \in DOMAIN steps : steps[i][1] = "cached"
                      /\ \A l \in rtts.legacy : \E i \in DOMAIN steps : steps[i] = <<"cached", l>>
  <2> DEFINE T == {<<"cached", l>> : l \in Channels}
             P(q) == /\ Then(t, q) /\ q \in Seq(T)
                     /\ idle => q = <<>>
                     /\ ~idle => /\ \E i \in DOMAIN q : q[i][1] = "cached"
                                 /\ \A l \in rtts.legacy :
                                        \E i \in DOMAIN q : q[i] = <<"cached", l>>
  <2>0. SUFFICES \E q : P(q)
    OBVIOUS
  <2>1. CASE idle
    <3>1. Then(t, <<>>)
      BY <2>1 DEF Store
    <3>2. <<>> \in Seq(T)
      OBVIOUS
    <3>3. P(<<>>)
      BY <2>1, <3>1, <3>2
    <3>. HIDE DEF P
    <3>. QED
      BY <3>3
  <2>2. CASE ~idle
    <3>1. PICK c \in Channels :
              Then(t, << <<"cached", c>> >> \o SetToSeq({<<"cached", l>> : l \in rtts.legacy}))
      BY <2>2 DEF Store
    <3> DEFINE a == <<"cached", c>>
               s == SetToSeq({<<"cached", l>> : l \in rtts.legacy})
    <3>2. rtts.legacy \in SUBSET Channels
      BY DEF Inv, Typed, RttsTyped
    <3>3. /\ s \in Seq({<<"cached", l>> : l \in rtts.legacy})
          /\ \A l \in rtts.legacy : \E i \in DOMAIN s : s[i] = <<"cached", l>>
      BY <3>2, CachedOf
    <3>4. {<<"cached", l>> : l \in rtts.legacy} \subseteq T /\ a \in T
      BY <3>2
    <3>5. s \in Seq(T)
      BY <3>3, <3>4, SeqMonotonic
    <3>6. a[1] = "cached"
      OBVIOUS
    <3>. HIDE DEF a, s, T, idle, P
    <3>7. <<a>> \in Seq(T) /\ Len(<<a>>) = 1 /\ <<a>>[1] = a
      BY <3>4
    <3>8. /\ <<a>> \o s \in Seq(T) /\ Len(<<a>> \o s) = 1 + Len(s)
          /\ \A i \in 1..(1 + Len(s)) : (<<a>> \o s)[i] = IF i <= 1 THEN <<a>>[i] ELSE s[i - 1]
      BY <3>5, <3>7, ConcatProperties
    <3>9. /\ Len(s) \in Nat /\ DOMAIN s = 1..Len(s)
          /\ DOMAIN (<<a>> \o s) = 1..(1 + Len(s))
      BY <3>5, <3>8, LenProperties
    <3>10. 1 \in DOMAIN (<<a>> \o s) /\ (<<a>> \o s)[1] = a
      BY <3>7, <3>8, <3>9
    <3>11. \A i \in DOMAIN s : i + 1 \in DOMAIN (<<a>> \o s) /\ (<<a>> \o s)[i + 1] = s[i]
      BY <3>8, <3>9
    <3>12. \A l \in rtts.legacy : \E i \in DOMAIN (<<a>> \o s) : (<<a>> \o s)[i] = <<"cached", l>>
      BY <3>3, <3>11
    <3>13. Then(t, <<a>> \o s)
      BY <3>1 DEF a, s
    <3>14. P(<<a>> \o s)
      BY <2>2, <3>6, <3>8, <3>10, <3>12, <3>13 DEF P
    <3>. QED
      BY <3>14
  <2>. QED
    BY <2>1, <2>2
<1>4. /\ rtts' = IF idle THEN rtts ELSE [rtts EXCEPT !.value = v, !.nr = past.stores + 1,
                                                     !.sent = {}]
      /\ past' = IF idle THEN past
                 ELSE [past EXCEPT !.stored = IF link.open THEN link.n ELSE 0,
                                   !.stores = past.stores + 1]
      /\ UNCHANGED <<limit, link, flags, pending, chan, selected>>
  <2>1. /\ IF idle THEN UNCHANGED <<rtts, past>>
           ELSE /\ rtts' = [rtts EXCEPT !.value = v, !.nr = past.stores + 1, !.sent = {}]
                /\ past' = [past EXCEPT !.stored = IF link.open THEN link.n ELSE 0,
                                        !.stores = past.stores + 1]
        /\ UNCHANGED <<limit, link, flags, pending, chan, selected>>
    BY DEF Store, OnlyRtts
  <2>. QED
    BY <2>1
<1>. HIDE DEF x, v
<1>5. /\ \A i \in DOMAIN steps : \E l \in Channels : steps[i] = <<"cached", l>>
      /\ DOMAIN steps = 1..Len(steps) /\ Len(steps) \in Nat
  BY <1>3, LenProperties, ElementOfSeq
<1>6. \A i \in DOMAIN steps :
          /\ steps[i] \in StepsOf(t) /\ later(steps[i]) /\ carries(steps[i])
          /\ steps[i] \notin MuteSteps \cup RttsSends /\ steps[i][1] \notin reconnecting
  BY <1>2, <1>5, CachedSteps
<1>7. steps \in Seq(StepsOf(t))
  <2>1. {<<"cached", l>> : l \in Channels} \subseteq StepsOf(t)
    BY <1>2, CachedSteps
  <2>. QED
    BY <1>3, <2>1, SeqMonotonic
<1>8. TodoTyped' /\ Runs(t, steps)
  BY <1>1, <1>3, <1>7, RunsThen DEF Inv, Typed
<1>9. /\ RttsTyped' /\ rtts'.legacy = rtts.legacy
      /\ idle => rtts' = rtts
      /\ ~idle => rtts'.value = v /\ rtts'.nr = past.stores + 1 /\ rtts'.sent = {}
      /\ past.stores \in Nat
  <2>1. past.stores \in Nat /\ past.stores + 1 \in Nat
    BY DEF Inv, Typed, PastTyped
  <2>2. CASE idle
    BY <1>4, <2>1, <2>2 DEF Inv, Typed, RttsTyped
  <2>3. CASE ~idle
    <3>1. rtts' = [rtts EXCEPT !.value = v, !.nr = past.stores + 1, !.sent = {}]
      BY <1>4, <2>3
    <3>. HIDE DEF idle
    <3>. QED
      BY <1>2, <2>1, <2>3, <3>1 DEF Inv, Typed, RttsTyped
  <2>. QED
    BY <2>2, <2>3
<1>10. /\ PastTyped' /\ past'.mutes = past.mutes /\ past'.sent = past.sent
       /\ past'.cleared = past.cleared /\ past'.twice = past.twice
       /\ past'.owed = past.owed /\ past'.ready = past.ready
       /\ past'.raced = past.raced /\ past'.hasty = past.hasty
       /\ past'.timeouts = past.timeouts
       /\ idle => past'.stored = past.stored /\ past'.stores = past.stores
       /\ ~idle => /\ past'.stored = IF link.open THEN link.n ELSE 0
                   /\ past'.stores = past.stores + 1
  <2> DEFINE n == IF link.open THEN link.n ELSE 0
  <2>1. n \in Nat /\ past.stores + 1 \in Nat
    BY <1>9 DEF Inv, Typed, LinkTyped
  <2>2. past' = IF idle THEN past ELSE [past EXCEPT !.stored = n, !.stores = past.stores + 1]
    BY <1>4
  <2>. HIDE DEF n, idle
  <2>3. CASE idle
    BY <2>2, <2>3 DEF Inv, Typed, PastTyped
  <2>4. CASE ~idle
    <3>1. past' = [past EXCEPT !.stored = n, !.stores = past.stores + 1]
      BY <2>2, <2>4
    <3>. QED
      BY <2>1, <2>4, <3>1 DEF Inv, Typed, PastTyped, n
  <2>. QED
    BY <2>3, <2>4
<1>11. Typed'
  BY <1>4, <1>8, <1>9, <1>10 DEF Inv, Typed, LinkTyped, FlagsTyped, ChanTyped
<1>12. First'
  BY <1>5, <1>6, <1>8, FirstAfter DEF Inv, Typed
<1>13. Carried'
  BY <1>4, <1>6, <1>8, <1>10, CarriedQuiet DEF Inv
<1>14. Apart'
  <2>1. SameMutes
    BY <1>4, <1>10 DEF SameMutes, mutesSent
  <2>. QED
    BY <1>2, <1>6, <1>8, <2>1, QuietMutes DEF Inv, x
<1>15. RttsApart' /\ Told'
  <2>1. /\ Once(RttsSends, rttsKey)'
        /\ Held(RttsSends, rttsKey)' = Held(RttsSends, rttsKey)
        /\ keysSent' = keysSent
    <3>1. keysSent' = keysSent
      BY <1>10 DEF keysSent
    <3>. QED
      BY <1>2, <1>6, <1>8, <3>1, HeldSame DEF Inv, RttsApart, x
  <2>2. CASE idle
    <3>1. SameRtts
      BY <1>4, <1>9, <1>10, <2>1, <2>2 DEF SameRtts
    <3>. QED
      BY <1>2, <1>6, <1>8, <3>1, QuietRtts DEF Inv, x
  <2>3. CASE ~idle
    <3>. HIDE DEF idle
    <3>1. \A k \in Held(RttsSends, rttsKey) \cup keysSent : Marked(k)'
      <4>1. \A k : k[1] \in 1..past.stores =>
                       k[1] \in 1..(past.stores + 1) /\ k[1] # past.stores + 1
        BY <1>9
      <4>. QED
        BY <1>9, <1>10, <2>3, <4>1 DEF Inv, RttsApart, Marked
    <3>2. past.stores + 1 # 0 /\ past.stores + 1 <= past.stores + 1
      BY <1>9
    <3>3. RttsApart'
      BY <1>9, <1>10, <2>1, <2>3, <3>1, <3>2 DEF Inv, RttsApart
    <3>4. past'.stored <= link.n
      <4>1. link.n \in Nat
        BY DEF Inv, Typed, LinkTyped
      <4>. QED
        BY <1>10, <2>3, <4>1
    <3>5. /\ \E z \in everything' : z[1] = "cached"
          /\ \A l \in rtts.legacy : <<"cached", l>> \in everything'
      <4>1. \A i \in DOMAIN steps : steps[i] \in everything'
        BY <1>1, <1>5, <1>8, DoingAfter
      <4>2. \E i \in DOMAIN steps : steps[i][1] = "cached"
        BY <1>3, <2>3
      <4>3. \A l \in rtts.legacy : \E i \in DOMAIN steps : steps[i] = <<"cached", l>>
        BY <1>3, <2>3
      <4>4. \A l \in rtts.legacy : <<"cached", l>> \in everything'
        BY <4>1, <4>3
      <4>. QED
        BY <4>1, <4>2, <4>4
    <3>6. Told'
      BY <1>4, <1>9, <2>3, <3>4, <3>5 DEF Told
    <3>. QED
      BY <3>3, <3>6
  <2>. QED
    BY <2>2, <2>3
<1>16. Rejoining'
  <2>1. SameLatches
    BY <1>4, <1>10 DEF SameLatches, isJoined
  <2>. QED
    BY <1>1, <1>2, <1>6, <1>8, <2>1, RejoiningQuiet DEF Inv, x
<1>. QED
  BY <1>11, <1>12, <1>13, <1>14, <1>15, <1>16 DEF Inv

LEMMA LegacyKeeps ==
    ASSUME Inv, Legacy
    PROVE  Inv'
<1> DEFINE x == todo["loop"][1]
           steps == ForAll("cached")
<1>1. /\ todo["loop"] # <<>> /\ 1 \in DOMAIN todo["loop"] /\ x[1] = "legacy"
      /\ x \in StepsOf("loop") /\ "loop" \in Threads
  BY AtStep, Roles DEF Legacy, Inv
<1>2. /\ x \notin MuteSteps \cup RttsSends
      /\ x[1] \notin reconnecting \cup {"joinAll", "cached"} /\ \A a : ~isJoinOf(x, a)
  BY <1>1, Classes DEF reconnecting, isJoinOf
<1>3. /\ Then("loop", steps) /\ rtts' = [rtts EXCEPT !.legacy = Channels]
      /\ UNCHANGED <<limit, link, flags, pending, chan, selected, past>>
  BY DEF Legacy, OnlyRtts
<1>4. /\ steps \in Seq(StepsOf("loop")) /\ DOMAIN steps = 1..Len(steps) /\ Len(steps) \in Nat
      /\ \A i \in DOMAIN steps : \E c \in Channels : steps[i] = <<"cached", c>>
      /\ \A c \in Channels : \E i \in DOMAIN steps : steps[i] = <<"cached", c>>
  <2>1. \A c \in Channels : <<"cached", c>> \in StepsOf("loop")
    BY <1>1, CachedSteps
  <2>. QED
    BY <2>1, ForEach
<1>. HIDE DEF steps, x
<1>5. TodoTyped' /\ Runs("loop", steps)
  BY <1>1, <1>3, <1>4, RunsThen DEF Inv, Typed
<1>6. \A i \in DOMAIN steps :
          /\ later(steps[i]) /\ carries(steps[i])
          /\ steps[i] \notin MuteSteps \cup RttsSends /\ steps[i][1] \notin reconnecting
  BY <1>1, <1>4, CachedSteps
<1>7. /\ RttsTyped' /\ rtts'.value = rtts.value /\ rtts'.nr = rtts.nr
      /\ rtts'.sent = rtts.sent /\ rtts'.legacy = Channels
  BY <1>3 DEF Inv, Typed, RttsTyped
<1>8. Typed'
  BY <1>3, <1>5, <1>7 DEF Inv, Typed, LinkTyped, FlagsTyped, ChanTyped, PastTyped
<1>9. First'
  BY <1>1, <1>4, <1>5, <1>6, FirstAfter DEF Inv, Typed
<1>10. Carried'
  BY <1>1, <1>3, <1>5, <1>6, CarriedQuiet DEF Inv
<1>11. Apart'
  <2>1. SameMutes
    BY <1>3 DEF SameMutes, mutesSent
  <2>. QED
    BY <1>1, <1>2, <1>5, <1>6, <2>1, QuietMutes DEF Inv, x
<1>12. /\ Once(RttsSends, rttsKey)'
       /\ Held(RttsSends, rttsKey)' = Held(RttsSends, rttsKey)
       /\ keysSent' = keysSent
  <2>1. keysSent' = keysSent
    BY <1>3 DEF keysSent
  <2>. QED
    BY <1>1, <1>2, <1>5, <1>6, <2>1, HeldSame DEF Inv, RttsApart, x
<1>13. RttsApart'
  BY <1>3, <1>7, <1>12 DEF Inv, RttsApart, Marked
<1>14. Told'
  <2>1. \A z \in everything : z[1] = "cached" => z \in everything'
    BY <1>1, <1>2, <1>5, DoingAfter DEF x
  <2>2. \A c \in Channels : <<"cached", c>> \in everything'
    BY <1>1, <1>4, <1>5, DoingAfter
  <2>. QED
    BY <1>3, <1>7, <1>12, <2>1, <2>2 DEF Inv, Told
<1>15. Rejoining'
  <2>1. SameLatches
    BY <1>3 DEF SameLatches, isJoined
  <2>. QED
    BY <1>1, <1>2, <1>5, <1>6, <2>1, RejoiningQuiet DEF Inv, x
<1>. QED
  BY <1>8, <1>9, <1>10, <1>11, <1>13, <1>14, <1>15 DEF Inv

-------------------------------------------------------------------------------
(* The invariant, and what it says of the properties.                        *)

LEMMA Initially == Init => Inv
<1>. SUFFICES ASSUME Init PROVE Inv
  OBVIOUS
<1>1. \A t \in Threads : todo[t] = <<>> /\ DOMAIN todo[t] = {} /\ doing(t) = {}
  BY DEF Init, doing
<1>2. everything = {}
  BY <1>1 DEF everything
<1>3. Typed
  <2>1. TodoTyped
    <3>1. \A S : <<>> \in Seq(S)
      OBVIOUS
    <3>. QED
      BY <1>1, <3>1 DEF Init, TodoTyped
  <2>2. LinkTyped /\ FlagsTyped /\ RttsTyped /\ ChanTyped /\ pending \in Seq(Mutes)
    BY DEF Init, LinkTyped, FlagsTyped, RttsTyped, ChanTyped
  <2>3. PastTyped
    BY DEF Init, PastTyped
  <2>. QED
    BY <2>1, <2>2, <2>3 DEF Typed
<1>4. First /\ Carried
  <2>1. ~past.owed
    BY DEF Init
  <2>. QED
    BY <1>1, <2>1 DEF First, Carried
<1>5. /\ \A K, key : Once(K, key) /\ Held(K, key) = {}
      /\ mutesSent = {} /\ keysSent = {}
  BY <1>1, <1>2 DEF Init, Once, Held, mutesSent, keysSent
<1>6. Apart
  <2>1. numbers(ToSet(pending)) = {} /\ numbers(mutesSent) = {} /\ DOMAIN pending = {}
    BY <1>5 DEF Init, numbers, ToSet
  <2>2. (1..past.mutes) \ past.cleared = {} /\ past.cleared = {}
    BY DEF Init
  <2>. QED
    BY <1>5, <2>1, <2>2 DEF Apart
<1>7. RttsApart
  BY <1>5 DEF Init, RttsApart
<1>8. Told
  BY DEF Init, Told
<1>9. Rejoining
  <2>1. ~isJoined
    BY DEF Init, isJoined
  <2>. QED
    BY <1>1, <2>1, Roles DEF Init, Rejoining
<1>. QED
  BY <1>3, <1>4, <1>6, <1>7, <1>8, <1>9 DEF Inv

LEMMA Stutters == Inv /\ UNCHANGED vars => Inv'
<1>. SUFFICES ASSUME Inv, UNCHANGED vars PROVE Inv'
  OBVIOUS
<1>1. UNCHANGED <<limit, link, todo, flags, pending, rtts, chan, selected, past>>
  BY DEF vars
<1>2. Typed'
  BY <1>1, SameTodo
     DEF Inv, Typed, LinkTyped, FlagsTyped, RttsTyped, ChanTyped, PastTyped
<1>3. First' /\ Carried'
  BY <1>1, SameTodo DEF Inv, Carried
<1>4. mutesSent' = mutesSent /\ keysSent' = keysSent /\ isJoined' = isJoined
      /\ \A c : joinedOn(c)' <=> joinedOn(c)
  BY <1>1 DEF mutesSent, keysSent, isJoined, joinedOn
<1>5. Apart' /\ RttsApart' /\ Told'
  BY <1>1, <1>4, SameTodo DEF Inv, Apart, RttsApart, Marked, Told
<1>6. Rejoining'
  BY <1>1, <1>4, SameTodo, Roles DEF Inv, Rejoining
<1>. QED
  BY <1>2, <1>3, <1>5, <1>6 DEF Inv

LEMMA Keeps == Inv /\ [Next]_vars => Inv'
<1>. SUFFICES ASSUME Inv, Next PROVE Inv'
  BY Stutters
<1>1. CASE \E c \in Channels : Mute(c) \/ Recreate(c) \/ Subscribe(c) \/ Joined(c)
  BY <1>1, MuteKeeps, RecreateKeeps, SubscribeKeeps, JoinedKeeps
<1>2. CASE \/ Join \/ Disconnect \/ Closes \/ ConnectBestUrl \/ Opens \/ Lost \/ Ended
           \/ PingTimeout
  BY <1>2, JoinKeeps, DisconnectKeeps, ClosesKeeps, ConnectBestUrlKeeps, OpensKeeps,
     LostKeeps, EndedKeeps, PingTimeoutKeeps
<1>3. CASE \E t \in Sorters : Result(t)
  BY <1>3, ResultKeeps
<1>4. CASE \E t \in Threads : Step(t)
  <2>. PICK t \in Threads : Step(t)
    BY <1>4
  <2>1. CASE Send(t) \/ Note(t) \/ Again(t) \/ Flush(t) \/ SendJoin(t)
    BY <2>1, SendKeeps, NoteKeeps, AgainKeeps, FlushKeeps, SendJoinKeeps
  <2>2. CASE JoinAllChannelsIfNeeded(t) \/ ResetJoin(t) \/ OnReconnect(t)
    BY <2>2, JoinAllKeeps, ResetJoinKeeps, OnReconnectKeeps
  <2>3. CASE CloseTransports(t) \/ Begin(t) \/ Store(t) \/ SendCached(t)
    BY <2>3, CloseTransportsKeeps, BeginKeeps, StoreKeeps, SendCachedKeeps
  <2>. QED
    BY <2>1, <2>2, <2>3 DEF Step
<1>5. CASE Subscribed \/ Clear \/ ApplyPeers \/ MayJoin \/ Legacy
  BY <1>5, SubscribedKeeps, ClearKeeps, ApplyPeersKeeps, MayJoinKeeps, LegacyKeeps
<1>. QED
  BY <1>1, <1>2, <1>3, <1>4, <1>5 DEF Next

\* The invariant.
THEOREM Invariant == Spec => []Inv
BY Initially, Keeps, PTL DEF Spec

\* Every property of the run, of every number of channels, threads and calls.  Types: the
\* fields of the state and the names of the steps; and node_rtts is cleared with the
\* channels it was sent on (connectBestUrl).
THEOREM TypeCorrect == Spec => []TypeOK
<1>1. Inv => TypeOK
  <2>. SUFFICES ASSUME Inv PROVE TypeOK
    OBVIOUS
  <2>1. \A t \in Threads : \A i \in DOMAIN todo[t] : todo[t][i][1] \in RequestSteps
    BY Indices, Classes DEF Inv, Typed
  <2>. QED
    BY <2>1 DEF Inv, Typed, TypeOK, LinkTyped, FlagsTyped, RttsTyped, ChanTyped
<1>. QED
  BY <1>1, Invariant, PTL

\* A recreate that could not be sent is not forgotten (sendRequest, recreate).
THEOREM RecreateCarriedCorrect == Spec => []RecreateCarried
<1>1. Inv => RecreateCarried
  BY DEF Inv, Carried, RecreateCarried
<1>. QED
  BY <1>1, Invariant, PTL

\* A request that is tried again is in one place, and sent once (requestOrAgain,
\* flushPendingReqs, disconnect).
THEOREM AgainOnceCorrect == Spec => []AgainOnce
<1>1. ASSUME Inv, NEW nr \in 1..past.mutes
      PROVE  LET sent == {s \in past.sent : s.kind = "mute" /\ s.nr = nr}
                 held == {t \in Threads : holding(t, nr) # {}}
             IN  /\ Cardinality(sent) + Cardinality(queued(nr)) + Cardinality(held)
                      = IF nr \in past.cleared THEN 0 ELSE 1
                 /\ \A t \in held : Cardinality(holding(t, nr)) = 1
  <2> DEFINE sent == {s \in past.sent : s.kind = "mute" /\ s.nr = nr}
             held == {t \in Threads : holding(t, nr) # {}}
             isSent == nr \in numbers(mutesSent)
             isQueued == nr \in numbers(ToSet(pending))
             isHeld == nr \in Held(MuteSteps, muteKey)
  <2>1. Apart
    BY <1>1 DEF Inv
  <2>2. \A t \in Threads : \A i \in DOMAIN todo[t] :
            i \in holding(t, nr)
                <=> todo[t][i] \in MuteSteps /\ muteKey[todo[t][i]] = nr
    <3>. TAKE t \in Threads
    <3>. TAKE i \in DOMAIN todo[t]
    <3>1. todo[t][i] \in StepsOf(t)
      BY <1>1, Indices DEF Inv, Typed
    <3>2. todo[t][i] \in MuteSteps
              <=> todo[t][i][1] \in {"send", "again"} /\ todo[t][i][2].kind = "mute"
      BY <3>1, Classes
    <3>3. todo[t][i] \in MuteSteps => muteKey[todo[t][i]] = todo[t][i][2].nr
      BY DEF muteKey
    <3>. QED
      BY <3>2, <3>3 DEF holding
  <2>3. \A t \in Threads : holding(t, nr) \subseteq DOMAIN todo[t]
    BY DEF holding
  <2>4. \A t, u \in Threads : \A i \in holding(t, nr) : \A j \in holding(u, nr) : t = u /\ i = j
    BY <2>1, <2>2, <2>3 DEF Apart, Once
  <2>5. isHeld <=> held # {}
    <3>1. isHeld <=> \E t \in Threads : \E i \in DOMAIN todo[t] :
                         todo[t][i] \in MuteSteps /\ nr = muteKey[todo[t][i]]
      BY DEF Held, everything, doing
    <3>. QED
      BY <2>2, <2>3, <3>1
  <2>6. isSent <=> sent # {}
    BY DEF numbers, mutesSent
  <2>7. isQueued <=> queued(nr) # {}
    <3>1. isQueued <=> \E i \in DOMAIN pending : pending[i].nr = nr
      BY DEF numbers, ToSet
    <3>. QED
      BY <3>1 DEF queued
  <2>8. \A r, s \in sent : r = s
    BY <2>1 DEF Apart, mutesSent
  <2>9. \A i, j \in queued(nr) : i = j
    BY <2>1 DEF Apart, queued
  <2>10. \A t, u \in held : t = u
    BY <2>4
  <2>11. \A S : (\A x, y \in S : x = y)
                    => Cardinality(S) = IF S = {} THEN 0 ELSE 1
    <3>. TAKE S
    <3>. HAVE \A x, y \in S : x = y
    <3>1. CASE S = {}
      BY <3>1, FS_EmptySet
    <3>2. CASE S # {}
      <4>1. PICK x \in S : TRUE
        BY <3>2
      <4>2. S = {x}
        BY <4>1
      <4>. QED
        BY <3>2, <4>2, FS_Singleton
    <3>. QED
      BY <3>1, <3>2
  <2>12. /\ ~(isHeld /\ isQueued) /\ ~(isHeld /\ isSent) /\ ~(isQueued /\ isSent)
         /\ isHeld \/ isQueued \/ isSent <=> nr \notin past.cleared
    BY <1>1, <2>1 DEF Apart
  <2>13. /\ Cardinality(sent) = IF isSent THEN 1 ELSE 0
         /\ Cardinality(queued(nr)) = IF isQueued THEN 1 ELSE 0
         /\ Cardinality(held) = IF isHeld THEN 1 ELSE 0
    <3>. HIDE DEF sent, held, isSent, isQueued, isHeld
    <3>. QED
      BY <2>5, <2>6, <2>7, <2>8, <2>9, <2>10, <2>11
  <2>14. \A t \in held : Cardinality(holding(t, nr)) = 1
    BY <2>4, <2>11
  <2>. HIDE DEF sent, held, isSent, isQueued, isHeld
  <2>15. Cardinality(sent) + Cardinality(queued(nr)) + Cardinality(held)
             = IF nr \in past.cleared THEN 0 ELSE 1
    BY <2>12, <2>13
  <2>. QED
    BY <2>14, <2>15 DEF sent, held
<1>2. Inv => AgainOnce
  BY <1>1 DEF AgainOnce
<1>. QED
  BY <1>2, Invariant, PTL

\* A result of the nodes gets to the server on one channel and on every channel with a
\* peer of an old version, on each once (sendCachedNodeRttsIfNeededForChannel).
THEOREM RttsToldCorrect == Spec => []RttsTold
<1> DEFINE mine == {x \in past.sent : x.kind = "rtts" /\ x.nr = rtts.nr}
           served == {s.channel : s \in mine}
<1>1. ASSUME Inv, \A t \in Sorters \cup {"loop"} : todo[t] = <<>>,
             rtts.value # 0 /\ link.open /\ past.stored = link.n
      PROVE  served # {} /\ rtts.legacy \subseteq served
  <2>1. \A x \in everything : x[1] # "cached" /\ x \notin RttsSends
    <3>. SUFFICES ASSUME NEW t \in Threads, NEW i \in DOMAIN todo[t]
                  PROVE  todo[t][i][1] # "cached" /\ todo[t][i] \notin RttsSends
      BY DEF everything, doing
    <3>1. t \notin Sorters \cup {"loop"}
      <4>1. DOMAIN <<>> = {}
        OBVIOUS
      <4>. QED
        BY <1>1, <4>1
    <3>2. todo[t][i] \in StepsOf(t)
      BY <1>1, Indices DEF Inv, Typed
    <3>. QED
      BY <3>1, <3>2, Classes
  <2>2. Held(RttsSends, rttsKey) = {}
    BY <2>1 DEF Held
  <2>3. \A c \in rtts.sent : <<rtts.nr, c>> \in keysSent
    BY <1>1, <2>2 DEF Inv, Told
  <2>4. \A c : <<rtts.nr, c>> \in keysSent => c \in served
    BY DEF keysSent
  <2>5. rtts.sent # {}
    BY <1>1, <2>1 DEF Inv, Told
  <2>6. \A c \in rtts.legacy : c \in rtts.sent
    <3>1. \A c : <<"cached", c>>[1] = "cached"
      OBVIOUS
    <3>. QED
      BY <1>1, <2>1, <3>1 DEF Inv, Told
  <2>. HIDE DEF served
  <2>. QED
    BY <2>3, <2>4, <2>5, <2>6
<1>2. Inv => RttsTold
  BY <1>1 DEF RttsTold, Inv, RttsApart
<1>. QED
  BY <1>2, Invariant, PTL

\* After a connection was lost its successor joins every channel as soon as one can
\* (scheduleReconnect, applyJoinedPeers, joinAllChannelsIfNeeded).
THEOREM RejoinsAfterLossCorrect == Spec => []RejoinsAfterLoss
<1>1. ASSUME Inv, past.timeouts = 0 /\ ~past.hasty, link.open, past.ready = link.n, ~joining
      PROVE  joinedNow = Channels
  <2>1. \A x \in everything : \A c : ~isJoinOf(x, c)
    <3>. SUFFICES ASSUME NEW t \in Threads, NEW i \in DOMAIN todo[t], NEW c
                  PROVE  ~isJoinOf(todo[t][i], c)
      BY DEF everything, doing
    <3>1. t \in Sorters
      <4>1. DOMAIN <<>> = {}
        OBVIOUS
      <4>. QED
        BY <1>1, <4>1 DEF joining, Threads
    <3>2. todo[t][i] \in StepsOf(t)
      BY <1>1, Indices DEF Inv, Typed
    <3>3. /\ todo[t][i][1] \in {"send", "store", "cached"}
          /\ todo[t][i][1] = "send" => todo[t][i][2] \in Rtts
      BY <3>1, <3>2, Classes
    <3>4. \A r \in Rtts : r.kind = "rtts"
      BY DEF Rtts, RequestsOf
    <3>. QED
      BY <3>3, <3>4 DEF isJoinOf
  <2>2. doing("loop") = {}
    BY <1>1 DEF joining, doing
  <2>3. flags.joinAll
    BY <1>1, <2>2 DEF Inv, Rejoining
  <2>4. \A c \in Channels : joinedOn(c)
    BY <1>1, <2>1, <2>3 DEF Inv, Rejoining
  <2>5. \A c \in Channels : c \in joinedNow
    BY <2>4 DEF joinedOn, joinedNow
  <2>6. \A s \in past.sent : s.kind = "join" => s.channel \in Channels
    BY <1>1 DEF Inv, Typed, PastTyped, Sent
  <2>. QED
    BY <2>5, <2>6 DEF joinedNow
<1>2. Inv => RejoinsAfterLoss
  BY <1>1 DEF RejoinsAfterLoss, HasJoined
<1>. QED
  BY <1>2, Invariant, PTL

===============================================================================
