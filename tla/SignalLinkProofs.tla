-------------------------- MODULE SignalLinkProofs --------------------------
(***************************************************************************)
(* What holds of SignalLink for every set of scenarios: its types, that    *)
(* the curl worker is joined by one thread at a time, that no close        *)
(* request on a living transport is lost; and, when its threads rest, that *)
(* reconnection is suppressed only if the application was told, that an    *)
(* open session is watched, live, and carried by one transport alone       *)
(* (first open wins), that a disconnect leaves no transport up, and that   *)
(* over one transport no application is left alone.                        *)
(*                                                                         *)
(* The argument looks at a step of a thread as "these steps in place of    *)
(* the first one": all but three of the actions put steps there that       *)
(* neither join the worker nor release lifecycle_mutex (Plain below), and  *)
(* leave lifecycle alone.                                                  *)
(***************************************************************************)
EXTENDS SignalLinkProperties, TLAPS

\* The steps that do not belong to a join of the curl worker.
PlainSteps == Steps \ JoinSteps

\* A function that runs the first of these steps still has to run the second: it
\* takes back what it set for a while, reports, or closes what it cancelled.
Follows ==
    {<< <<"beginConnect">>, <<"unsuppress">> >>, << <<"unsuppress">>, <<"chooseLeg">> >>,
     << <<"failFatal">>, <<"report">> >>, << <<"reconnecting">>, <<"resume">> >>,
     << <<"resume">>, <<"armReconnect">> >>, << <<"openAlt">>, <<"enterRace">> >>,
     << <<"cancelMixedRace", "join">>, <<"allClosed">> >>,
     << <<"cancelMixedRace", "async">>, <<"allClosed">> >>}

Paired(seq) ==
    \A p \in Follows : \A i \in 1..Len(seq) :
        seq[i] = p[1] => \E j \in (i + 1)..Len(seq) : seq[j] = p[2]

\* Plain steps in which every pair is whole, and steps that begin no pair.
Sound == {seq \in Seq(PlainSteps) : Paired(seq)}
Alone == PlainSteps \ {p[1] : p \in Follows}

\* Thread t has run its first step, and goes on with plain steps in its place.
Plain(t) ==
    /\ todo[t] # <<>> /\ lifecycle' = lifecycle
    /\ \E steps \in Sound : Then(t, steps)

\* An idle thread t has started on plain steps.
PlainStart(t) ==
    /\ todo[t] = <<>> /\ lifecycle' = lifecycle
    /\ \E steps \in Sound : todo' = [todo EXCEPT ![t] = steps]

-------------------------------------------------------------------------------
(* The steps, and the functions made of them.                                *)

\* The plain steps there are, one fact per shape; those of Follows begin a pair.
LEMMA StepShapes ==
    /\ Alone \subseteq PlainSteps
    /\ \A p \in Follows : p[1] \in PlainSteps
    /\ \A s \in {"allClosed", "report", "chooseLeg", "openPrimary", "sessionOff",
                 "scheduleReconnect", "armReconnect",
                 "joinQuic", "scheduleFallback", "startFallback",
                 "enterRace", "unlockRace", "startKeepalive", "tell", "sendLeave",
                 "awaitLeave", "closeAfterDisconnect"} : <<s>> \in Alone
    /\ \A s \in {"closeCurl", "closeQuic"}, how \in {"join", "async"} : <<s, how>> \in Alone
    /\ \A s \in {"opened", "declareWinner"}, l \in Legs : <<s, l>> \in Alone
    /\ \A k \in {"fatal", "reconnect"} : <<"promote", k>> \in Alone
    /\ \A l \in Legs, how \in {"local", "remote", "token"} : <<"closed", l, how>> \in Alone
    /\ \A l \in Legs, k \in {"security", "timeout", "other"} : <<"error", l, k>> \in Alone
    /\ \A l \in Legs, m \in {"ok", "leave", "refused"} : <<"recv", l, m>> \in Alone
    /\ \A l \in Legs, f \in {"fallback", "none"}, k \in {"fatal", "reconnect"} :
          <<"failure", l, f, k>> \in Alone
BY DEF Steps, PlainSteps, JoinSteps, Alone, Follows

\* The joining ones.
LEMMA JoinShapes == JoinSteps \subseteq Steps
BY DEF Steps, JoinSteps

\* Steps that begin no pair are sound in any sequence.
LEMMA AloneSound == Seq(Alone) \subseteq Sound
<1>1. \A p \in Follows : p[1] \notin Alone
  BY DEF Alone
<1>2. ASSUME NEW seq \in Seq(Alone) PROVE Paired(seq)
  <2>1. \A i \in 1..Len(seq) : seq[i] \in Alone
    OBVIOUS
  <2>. QED
    BY <1>1, <2>1 DEF Paired
<1>3. Seq(Alone) \subseteq Seq(PlainSteps)
  <2>1. Alone \subseteq PlainSteps
    BY StepShapes
  <2>. QED
    BY <2>1
<1>. QED
  BY <1>2, <1>3 DEF Sound

\* The sequences of a few steps that the actions write down.
LEMMA FewSteps ==
    /\ <<>> \in Sound
    /\ \A a \in Alone : <<a>> \in Sound
    /\ \A a, b \in Alone : <<a, b>> \in Sound
    /\ \A a, b, c \in Alone : <<a, b, c>> \in Sound
<1>1. /\ <<>> \in Seq(Alone)
      /\ \A a \in Alone : <<a>> \in Seq(Alone)
      /\ \A a, b \in Alone : <<a, b>> \in Seq(Alone)
      /\ \A a, b, c \in Alone : <<a, b, c>> \in Seq(Alone)
  OBVIOUS
<1>. QED
  BY <1>1, AloneSound

\* The end of a sequence is reached through what comes before it.
LEMMA LastOf ==
    ASSUME NEW S, NEW a \in Seq(S), NEW b \in Seq(S), NEW i \in 1..Len(b)
    PROVE  Len(a) + i \in 1..Len(a \o b) /\ (a \o b)[Len(a) + i] = b[i]
OBVIOUS

\* A pair that is whole stays whole, whatever comes before or after.
LEMMA PairedConcat ==
    ASSUME NEW S, NEW a \in Seq(S), NEW b \in Seq(S), Paired(a), Paired(b)
    PROVE  Paired(a \o b)
<1>. SUFFICES ASSUME NEW p \in Follows, NEW i \in 1..Len(a \o b), (a \o b)[i] = p[1]
              PROVE  \E j \in (i + 1)..Len(a \o b) : (a \o b)[j] = p[2]
  BY DEF Paired
<1>1. CASE i <= Len(a)
  <2>1. i \in 1..Len(a) /\ a[i] = p[1]
    BY <1>1
  <2>2. PICK j \in (i + 1)..Len(a) : a[j] = p[2]
    BY <2>1 DEF Paired
  <2>. QED
    BY <2>2
<1>2. CASE i > Len(a)
  <2>1. i - Len(a) \in 1..Len(b) /\ b[i - Len(a)] = p[1]
    <3>1. Len(a) \in Nat /\ Len(b) \in Nat /\ Len(a \o b) = Len(a) + Len(b)
      OBVIOUS
    <3>2. (a \o b)[i] = b[i - Len(a)]
      BY <1>2, <3>1
    <3>. QED
      BY <1>2, <3>1, <3>2
  <2>2. PICK j \in (i - Len(a) + 1)..Len(b) : b[j] = p[2]
    BY <2>1 DEF Paired
  <2>3. Len(a) + j \in (i + 1)..Len(a \o b) /\ (a \o b)[Len(a) + j] = b[j]
    <3>1. j \in 1..Len(b) /\ Len(a) + j > i
      BY <2>1
    <3>. QED
      BY <3>1, LastOf
  <2>. QED
    BY <2>2, <2>3
<1>. QED
  BY <1>1, <1>2, SMTT(30)

\* The first step of a sequence does not end a pair that begins after it.
LEMMA PairedTail ==
    ASSUME NEW S, NEW a \in Seq(S), a # <<>>, Paired(a)
    PROVE  Paired(Tail(a))
<1>. SUFFICES ASSUME NEW p \in Follows, NEW i \in 1..Len(Tail(a)), Tail(a)[i] = p[1]
              PROVE  \E j \in (i + 1)..Len(Tail(a)) : Tail(a)[j] = p[2]
  BY DEF Paired
<1>1. i + 1 \in 1..Len(a) /\ a[i + 1] = p[1]
  OBVIOUS
<1>2. PICK j \in (i + 1 + 1)..Len(a) : a[j] = p[2]
  BY <1>1 DEF Paired
<1>3. j - 1 \in (i + 1)..Len(Tail(a)) /\ Tail(a)[j - 1] = a[j]
  OBVIOUS
<1>. QED
  BY <1>2, <1>3

LEMMA SoundConcat == \A a, b \in Sound : a \o b \in Sound
BY PairedConcat DEF Sound

\* A step that begins a pair, before steps that hold the end of it.
LEMMA PutFirst ==
    ASSUME NEW p \in Follows, NEW a \in Sound, NEW k \in 1..Len(a), a[k] = p[2]
    PROVE  <<p[1]>> \o a \in Sound
<1>. DEFINE b == <<p[1]>> \o a
<1>1. a \in Seq(PlainSteps) /\ Paired(a)
  BY DEF Sound
<1>2. p[1] \in PlainSteps
  BY StepShapes
<1>3. <<p[1]>> \in Seq(PlainSteps)
  BY <1>2
<1>4. b \in Seq(PlainSteps) /\ Len(b) = Len(a) + 1 /\ b[1] = p[1]
      /\ \A i \in 1..Len(a) : b[i + 1] = a[i]
  BY <1>1, <1>3
<1>. HIDE DEF b
<1>5. ASSUME NEW q \in Follows, NEW i \in 1..Len(b), b[i] = q[1]
      PROVE  \E j \in (i + 1)..Len(b) : b[j] = q[2]
  <2>1. CASE i = 1
    <3>1. p[1] = q[1]
      BY <1>4, <1>5, <2>1
    <3>2. p[2] = q[2]
      BY <3>1 DEF Follows
    <3>3. k + 1 \in (i + 1)..Len(b) /\ b[k + 1] = q[2]
      BY <1>1, <1>4, <2>1, <3>2
    <3>. QED
      BY <3>3
  <2>2. CASE i > 1
    <3>1. i - 1 \in 1..Len(a) /\ a[i - 1] = q[1]
      <4>1. i - 1 \in 1..Len(a) /\ i - 1 + 1 = i
        BY <1>1, <1>4, <2>2
      <4>. QED
        BY <1>4, <1>5, <4>1
    <3>2. PICK j \in (i - 1 + 1)..Len(a) : a[j] = q[2]
      BY <1>1, <3>1 DEF Paired
    <3>3. j + 1 \in (i + 1)..Len(b) /\ b[j + 1] = a[j]
      BY <1>1, <1>4
    <3>. QED
      BY <3>2, <3>3
  <2>. QED
    BY <2>1, <2>2
<1>6. Paired(b)
  BY <1>5 DEF Paired
<1>. QED
  BY <1>4, <1>6 DEF Sound, b

\* Two steps that make a pair, and no other.
LEMMA PairsSound ==
    /\ << <<"resume">>, <<"armReconnect">> >> \in Sound
    /\ << <<"openAlt">>, <<"enterRace">> >> \in Sound
<1>1. ASSUME NEW p \in Follows, p[2] \in Alone
      PROVE  <<p[1]>> \o <<p[2]>> \in Sound
  <2>1. <<p[2]>> \in Sound /\ 1 \in 1..Len(<<p[2]>>) /\ <<p[2]>>[1] = p[2]
    BY <1>1, FewSteps
  <2>. QED
    BY <2>1, PutFirst
<1>2. << <<"resume">> >> \o << <<"armReconnect">> >> \in Sound
  <2>1. << <<"resume">>, <<"armReconnect">> >> \in Follows
    BY DEF Follows
  <2>. QED
    BY <1>1, <2>1, StepShapes
<1>3. << <<"openAlt">> >> \o << <<"enterRace">> >> \in Sound
  <2>1. << <<"openAlt">>, <<"enterRace">> >> \in Follows
    BY DEF Follows
  <2>. QED
    BY <1>1, <2>1, StepShapes
<1>4. /\ << <<"resume">>, <<"armReconnect">> >> = << <<"resume">> >> \o << <<"armReconnect">> >>
      /\ << <<"openAlt">>, <<"enterRace">> >> = << <<"openAlt">> >> \o << <<"enterRace">> >>
  OBVIOUS
<1>. QED
  BY <1>2, <1>3, <1>4

\* The functions of the code are sequences of plain steps, and whole.
LEMMA PlainFunctions ==
    /\ \A how \in {"join", "async"} : closeAllTransports(how) \in Sound
    /\ \A l \in Legs : closeAsync(l) \in Sound
    /\ failFatal \in Sound
    /\ beginConnect \in Sound
    /\ << <<"reconnecting">> >> \o closeAllTransports("async")
          \o << <<"resume">>, <<"armReconnect">> >> \in Sound
    /\ \A k : afterFailure(k) \in Sound
<1>1. ASSUME NEW how \in {"join", "async"} PROVE closeAllTransports(how) \in Sound
  <2>. DEFINE closes == << <<"closeCurl", how>>, <<"closeQuic", how>>, <<"allClosed">> >>
  <2>1. closes \in Sound
    BY StepShapes, FewSteps
  <2>2. 3 \in 1..Len(closes) /\ closes[3] = <<"allClosed">>
    OBVIOUS
  <2>3. << <<"cancelMixedRace", how>>, <<"allClosed">> >> \in Follows
    BY DEF Follows
  <2>4. << <<"cancelMixedRace", how>> >> \o closes \in Sound
    <3>. HIDE DEF closes
    <3>. QED
      BY <2>1, <2>2, <2>3, PutFirst
  <2>5. closeAllTransports(how) = << <<"cancelMixedRace", how>> >> \o closes
    BY DEF closeAllTransports
  <2>. QED
    BY <2>4, <2>5
<1>2. ASSUME NEW l \in Legs PROVE closeAsync(l) \in Sound
  <2>1. CASE l = "Curl"
    BY <2>1, StepShapes, FewSteps DEF closeAsync
  <2>2. CASE l # "Curl"
    BY <2>2, StepShapes, FewSteps DEF closeAsync
  <2>. QED
    BY <2>1, <2>2
\* Before any sequence that closes, a step whose pair ends right after it.
<1>3. ASSUME NEW p \in Follows, NEW how \in {"join", "async"}, NEW end \in Sound,
             Len(end) >= 1, end[1] = p[2]
      PROVE  <<p[1]>> \o closeAllTransports(how) \o end \in Sound
  <2>. DEFINE c == closeAllTransports(how)
  <2>1. c \in Sound /\ c \in Seq(PlainSteps) /\ end \in Seq(PlainSteps)
    BY <1>1 DEF Sound
  <2>2. <<p[1]>> \in Seq(PlainSteps)
    BY StepShapes
  <2>. HIDE DEF c
  <2>3. c \o end \in Sound
    BY <2>1, SoundConcat
  <2>4. 1 \in 1..Len(end)
    BY <1>3, <2>1
  <2>5. Len(c) + 1 \in 1..Len(c \o end) /\ (c \o end)[Len(c) + 1] = p[2]
    BY <1>3, <2>1, <2>4, LastOf
  <2>6. <<p[1]>> \o (c \o end) \in Sound
    BY <2>3, <2>5, PutFirst
  <2>7. <<p[1]>> \o (c \o end) = <<p[1]>> \o c \o end
    BY <2>1, <2>2
  <2>. QED
    BY <2>6, <2>7 DEF c
<1>4. failFatal \in Sound
  <2>1. << <<"report">> >> \in Sound /\ << <<"failFatal">>, <<"report">> >> \in Follows
    BY StepShapes, FewSteps DEF Follows
  <2>. QED
    BY <1>3, <2>1 DEF failFatal
<1>5. beginConnect \in Sound
  <2>. DEFINE end == << <<"unsuppress">>, <<"chooseLeg">>, <<"openPrimary">> >>
  <2>1. << <<"chooseLeg">>, <<"openPrimary">> >> \in Sound
    BY StepShapes, FewSteps
  <2>2. << <<"unsuppress">>, <<"chooseLeg">> >> \in Follows /\ << <<"beginConnect">>, <<"unsuppress">> >> \in Follows
    BY DEF Follows
  <2>3. << <<"unsuppress">> >> \o << <<"chooseLeg">>, <<"openPrimary">> >> \in Sound
    BY <2>1, <2>2, PutFirst
  <2>4. end = << <<"unsuppress">> >> \o << <<"chooseLeg">>, <<"openPrimary">> >>
    OBVIOUS
  <2>5. Len(end) >= 1 /\ end[1] = <<"unsuppress">>
    OBVIOUS
  <2>6. end \in Sound
    BY <2>3, <2>4
  <2>. HIDE DEF end
  <2>7. << <<"beginConnect">> >> \o closeAllTransports("join") \o end \in Sound
    BY <1>3, <2>2, <2>5, <2>6
  <2>. QED
    BY <2>7 DEF beginConnect, end
<1>6. << <<"reconnecting">> >> \o closeAllTransports("async")
        \o << <<"resume">>, <<"armReconnect">> >> \in Sound
  <2>1. /\ << <<"resume">>, <<"armReconnect">> >> \in Sound
        /\ << <<"reconnecting">>, <<"resume">> >> \in Follows
    BY PairsSound DEF Follows
  <2>. QED
    BY <1>3, <2>1
<1>7. ASSUME NEW k PROVE afterFailure(k) \in Sound
  BY <1>4, StepShapes, FewSteps DEF afterFailure
<1>. QED
  BY <1>1, <1>2, <1>4, <1>5, <1>6, <1>7

-------------------------------------------------------------------------------
(* Every action but the three that join is plain.                            *)

LEMMA PlainClose ==
    ASSUME NEW t \in Threads, CloseStep(t)
    PROVE  Plain(t) \/ CloseCurlJoin(t) \/ JoinCurl(t) \/ UnlockCurl(t)
<1>1. CASE CancelMixedRace(t)
  <2>1. PICK how \in {"join", "async"} :
          /\ todo[t] # <<>>
          /\ Then(t, IF race.has_alt THEN << <<"closeCurl", how>> >> ELSE <<>>)
    BY <1>1 DEF CancelMixedRace, At
  <2>2. << <<"closeCurl", how>> >> \in Sound /\ <<>> \in Sound
    BY StepShapes, FewSteps
  <2>. QED
    BY <1>1, <2>1, <2>2 DEF CancelMixedRace, Plain, OnlyRace
<1>2. CASE CloseCurlAsync(t)
  BY <1>2, FewSteps, StepShapes DEF CloseCurlAsync, At, Plain, OnlySock
<1>3. CASE CloseQuicAsync(t)
  BY <1>3, FewSteps, StepShapes DEF CloseQuicAsync, At, Plain, OnlySock
<1>4. CASE CloseQuicJoin(t)
  BY <1>4, FewSteps, StepShapes DEF CloseQuicJoin, At, Plain
<1>5. CASE JoinQuic(t)
  <2>1. << <<"closed", "Quic", "local">> >> \in Sound /\ <<>> \in Sound
    BY StepShapes, FewSteps DEF Legs
  <2>. QED
    BY <1>5, <2>1 DEF JoinQuic, At, Plain, OnlySock
<1>6. CASE AllClosed(t)
  BY <1>6, FewSteps, StepShapes DEF AllClosed, At, Plain, OnlyRace
<1>. QED
  BY <1>1, <1>2, <1>3, <1>4, <1>5, <1>6 DEF CloseStep

LEMMA PlainConnect ==
    ASSUME NEW t \in Threads, ConnectStep(t)
    PROVE  Plain(t)
<1>1. CASE BeginConnect(t)
  BY <1>1, FewSteps DEF BeginConnect, At, Plain
<1>2. CASE Unsuppress(t)
  BY <1>2, FewSteps DEF Unsuppress, At, Plain, OnlyRetry
<1>3. CASE ChooseLeg(t)
  BY <1>3, FewSteps DEF ChooseLeg, At, Plain, OnlyRace
<1>4. CASE OpenPrimary(t)
  <2>1. CASE OpenCurl /\ Then(t, <<>>)
    BY <1>4, <2>1, FewSteps DEF OpenPrimary, At, Plain
  <2>2. CASE OpenQuic(t)
    <3>1. << <<"scheduleFallback">> >> \in Sound
      BY StepShapes, FewSteps
    <3>2. \A k \in {"timeout", "other"} : << <<"error", "Quic", k>> >> \in Sound
      BY StepShapes, FewSteps DEF Legs
    <3>3. \E steps \in Sound : Then(t, steps)
      BY <2>2, <3>1, <3>2, FewSteps DEF OpenQuic
    <3>. QED
      BY <1>4, <3>3 DEF OpenPrimary, At, Plain
  <2>. QED
    BY <1>4, <2>1, <2>2 DEF OpenPrimary
<1>5. CASE ScheduleMixedTcpFallback(t)
  <2>1. << <<"startFallback">> >> \in Sound
    BY StepShapes, FewSteps
  <2>. QED
    BY <1>5, <2>1, FewSteps DEF ScheduleMixedTcpFallback, At, Plain, OnlyRace
<1>6. CASE StartMixedTcpFallback(t)
  <2>1. << <<"openAlt">>, <<"enterRace">> >> \in Sound
    BY PairsSound
  <2>. QED
    BY <1>6, <2>1, FewSteps DEF StartMixedTcpFallback, At, Plain, OnlyRace
<1>7. CASE OpenAlt(t)
  BY <1>7, FewSteps DEF OpenAlt, At, Plain
<1>8. CASE EnterRace(t)
  <2>1. << <<"closeCurl", "async">>, <<"unlockRace">> >> \in Sound
    BY StepShapes, FewSteps
  <2>. QED
    BY <1>8, <2>1, FewSteps DEF EnterRace, At, Plain, OnlyRace
<1>9. CASE UnlockRace(t)
  BY <1>9, FewSteps DEF UnlockRace, At, Plain, OnlyRace
<1>10. CASE HandleMixedTransportFailure(t)
  <2>1. PICK l \in Legs, fallback \in {"fallback", "none"}, k \in {"fatal", "reconnect"} :
          /\ todo[t] # <<>> /\ lifecycle' = lifecycle
          /\ \/ Then(t, <<>>)
             \/ Then(t, << <<"startFallback">>, <<"promote", k>> >>)
             \/ Then(t, afterFailure(k))
    BY <1>10 DEF HandleMixedTransportFailure, At, OnlyRace
  <2>2. << <<"startFallback">>, <<"promote", k>> >> \in Sound
    BY StepShapes, FewSteps
  <2>. QED
    BY <2>1, <2>2, FewSteps, PlainFunctions DEF Plain
<1>11. CASE Promote(t)
  BY <1>11, FewSteps, PlainFunctions DEF Promote, At, Plain, OnlyRace
<1>. QED
  BY <1>1, <1>2, <1>3, <1>4, <1>5, <1>6, <1>7, <1>8, <1>9, <1>10, <1>11 DEF ConnectStep

LEMMA PlainCallback ==
    ASSUME NEW t \in Threads, CallbackStep(t)
    PROVE  Plain(t)
<1>1. CASE onTransportOpen(t)
  <2>1. PICK l \in Legs :
          /\ todo[t] # <<>> /\ lifecycle' = lifecycle
          /\ \/ Then(t, <<>>) \/ Then(t, closeAsync(l)) \/ Then(t, closeAsync("Curl"))
             \/ Then(t, << <<"declareWinner", l>>, <<"startKeepalive">> >>)
             \/ Then(t, << <<"startKeepalive">> >>)
    BY <1>1 DEF onTransportOpen, At, OnlyRace
  <2>2. /\ << <<"declareWinner", l>>, <<"startKeepalive">> >> \in Sound
        /\ << <<"startKeepalive">> >> \in Sound
    BY StepShapes, FewSteps
  <2>. QED
    BY <2>1, <2>2, FewSteps, PlainFunctions DEF Plain, Legs
<1>2. CASE MixedDeclareWinner(t)
  <2>1. race.primary_leg \in Legs \/ Then(t, <<>>) \/ Then(t, closeAsync("Curl"))
    BY <1>2 DEF MixedDeclareWinner, isAlt, Legs
  <2>. QED
    BY <1>2, <2>1, FewSteps, PlainFunctions DEF MixedDeclareWinner, At, Plain, OnlyRace, Legs
<1>3. CASE StartKeepalive(t)
  BY <1>3, FewSteps DEF StartKeepalive, At, Plain
<1>4. CASE onTransportClose(t)
  <2>1. PICK l \in Legs, fallback \in {"fallback", "none"} :
          /\ todo[t] # <<>> /\ lifecycle' = lifecycle
          /\ \/ Then(t, <<>>) \/ Then(t, failFatal)
             \/ Then(t, << <<"failure", l, fallback, "reconnect">> >>)
    BY <1>4 DEF onTransportClose, At, OnlyTodo
  <2>2. << <<"failure", l, fallback, "reconnect">> >> \in Sound
    BY StepShapes, FewSteps
  <2>. QED
    BY <2>1, <2>2, FewSteps, PlainFunctions DEF Plain
<1>5. CASE onTransportError(t)
  <2>1. PICK l \in Legs, k \in {"fatal", "reconnect"} :
          /\ todo[t] # <<>> /\ lifecycle' = lifecycle
          /\ \/ Then(t, <<>>) \/ Then(t, failFatal)
             \/ Then(t, << <<"failure", l, "fallback", k>> >>)
    BY <1>5 DEF onTransportError, At, OnlyTodo
  <2>2. << <<"failure", l, "fallback", k>> >> \in Sound
    BY StepShapes, FewSteps
  <2>. QED
    BY <2>1, <2>2, FewSteps, PlainFunctions DEF Plain
<1>6. CASE SessionOff(t)
  BY <1>6, FewSteps DEF SessionOff, At, Plain, OnlyRace
<1>7. CASE onTransportRecv(t)
  <2>1. /\ todo[t] # <<>> /\ lifecycle' = lifecycle
        /\ \/ Then(t, <<>>)
           \/ Then(t, << <<"closeAfterDisconnect">> >> \o << <<"tell">> >>)
           \/ Then(t, closeAllTransports("async") \o << <<"tell">> >>)
           \/ Then(t, << <<"closeAfterDisconnect">> >>)
    BY <1>7 DEF onTransportRecv, At
  <2>2. << <<"closeAfterDisconnect">> >> \in Sound /\ << <<"tell">> >> \in Sound
    BY StepShapes, FewSteps
  <2>3. /\ << <<"closeAfterDisconnect">> >> \o << <<"tell">> >> \in Sound
        /\ closeAllTransports("async") \o << <<"tell">> >> \in Sound
    BY <2>2, PlainFunctions, SoundConcat
  <2>. QED
    BY <2>1, <2>2, <2>3, FewSteps DEF Plain
<1>8. CASE Tell(t)
  BY <1>8, FewSteps DEF Tell, At, Plain
<1>. QED
  BY <1>1, <1>2, <1>3, <1>4, <1>5, <1>6, <1>7, <1>8 DEF CallbackStep

LEMMA PlainRetry ==
    ASSUME NEW t \in Threads, RetryStep(t)
    PROVE  Plain(t)
<1>1. CASE FailFatal(t)
  BY <1>1, FewSteps DEF FailFatal, At, Plain
<1>2. CASE Report(t)
  BY <1>2, FewSteps DEF Report, At, Plain
<1>3. CASE ScheduleReconnect(t)
  BY <1>3, FewSteps, PlainFunctions DEF ScheduleReconnect, At, Plain, OnlyTodo
<1>4. CASE Reconnecting(t)
  BY <1>4, FewSteps DEF Reconnecting, At, Plain
<1>5. CASE Resume(t)
  BY <1>5, FewSteps DEF Resume, At, Plain
<1>6. CASE ArmReconnect(t)
  BY <1>6, FewSteps DEF ArmReconnect, At, Plain, OnlyRetry
<1>7. CASE SendLeave(t)
  <2>1. << <<"awaitLeave">> >> \in Sound /\ << <<"closeAfterDisconnect">> >> \in Sound
    BY StepShapes, FewSteps
  <2>2. /\ todo[t] # <<>> /\ lifecycle' = lifecycle
        /\ \/ Then(t, << <<"awaitLeave">> >>) \/ Then(t, << <<"closeAfterDisconnect">> >>)
    BY <1>7 DEF SendLeave, At, OnlyLeave
  <2>. QED
    BY <2>1, <2>2 DEF Plain
<1>8. CASE AwaitLeave(t)
  BY <1>8, FewSteps DEF AwaitLeave, At, Plain, OnlyLeave
<1>9. CASE CloseSocketAfterDisconnect(t)
  BY <1>9, FewSteps, PlainFunctions DEF CloseSocketAfterDisconnect, At, Plain, OnlyLeave
<1>. QED
  BY <1>1, <1>2, <1>3, <1>4, <1>5, <1>6, <1>7, <1>8, <1>9 DEF RetryStep

\* Which thread is which.
LEMMA ThreadNames ==
    /\ "none" \notin Threads /\ "app" \in Threads /\ "app" \notin Legs
    /\ \A l \in Legs : l \in Threads
    /\ \A t \in Detached : t \in Threads /\ t \notin Legs /\ t # "app"
BY LinkAssumption DEF Threads, Legs

\* A WebSocket that breaks changes its state, and nothing else.
LEMMA BreakMoves ==
    ASSUME NEW l \in Legs, SocketBreaks(l)
    PROVE  /\ crash = "none" /\ todo[l] = <<>> /\ todo' = [todo EXCEPT ![l] = <<>>]
           /\ sock' = [sock EXCEPT ![l] = Broken(sock[l])]
           /\ sock[l].alive /\ ~sock[l].notified /\ ~sock[l].reported /\ sock[l].state # "Closed"
           /\ scenario' = scenario /\ race' = race /\ retry' = retry /\ ping' = ping
           /\ leave' = leave /\ lifecycle' = lifecycle /\ crash' = crash /\ past' = past
           /\ l = "Curl"
BY DEF SocketBreaks, MayBreak, Starts, OnlySock

\* What starts a thread starts it on plain steps.
LEMMA PlainStarts ==
    ASSUME Wakeup \/ (\E l \in Legs : Transport(l)) \/ Connect \/ Disconnect
    PROVE  \E t \in Threads : PlainStart(t)
<1>1. CASE DelayElapses
  BY <1>1, StepShapes, FewSteps DEF DelayElapses, Starts, PlainStart, OnlyRace, Threads
<1>2. CASE ReconnectElapses
  BY <1>2, FewSteps, PlainFunctions DEF ReconnectElapses, Starts, PlainStart, Threads
<1>3. CASE PingTimeout
  BY <1>3, StepShapes, FewSteps DEF PingTimeout, Starts, PlainStart, Threads
<1>4. CASE LeaveTimeout
  BY <1>4, StepShapes, FewSteps DEF LeaveTimeout, Starts, PlainStart, OnlyLeave, Threads
<1>5. CASE Connect
  BY <1>5, PlainFunctions DEF Connect, Starts, PlainStart, Threads
<1>6. CASE Disconnect
  BY <1>6, StepShapes, FewSteps DEF Disconnect, Starts, PlainStart, Threads
<1>7. ASSUME NEW l \in Legs, Transport(l) PROVE PlainStart(l) /\ l \in Threads
  <2>. l \in Threads
    BY DEF Threads
  <2>1. CASE SocketOpens(l)
    BY <2>1, StepShapes, FewSteps DEF SocketOpens, Starts, PlainStart, OnlySock
  <2>2. CASE SocketFails(l)
    <3>1. \A k \in {"security", "timeout", "other"} : << <<"error", l, k>> >> \in Sound
      BY StepShapes, FewSteps
    <3>. QED
      BY <2>2, <3>1 DEF SocketFails, Starts, PlainStart, OnlySock
  <2>3. CASE SocketClosedByPeer(l)
    <3>1. \A how \in {"remote", "token"} : << <<"closed", l, how>> >> \in Sound
      BY StepShapes, FewSteps
    <3>. QED
      BY <2>3, <3>1 DEF SocketClosedByPeer, Starts, PlainStart, OnlySock
  <2>4. CASE SocketStops(l)
    <3>1. << <<"closed", l, "local">> >> \in Sound
      BY StepShapes, FewSteps
    <3>. QED
      BY <2>4, <3>1 DEF SocketStops, Starts, PlainStart, OnlySock
  <2>5. CASE SocketEnds(l)
    BY <2>5, FewSteps DEF SocketEnds, Starts, PlainStart, OnlySock
  <2>6. CASE SocketReceives(l)
    <3>1. \A m \in {"ok", "leave", "refused"} : << <<"recv", l, m>> >> \in Sound
      BY StepShapes, FewSteps
    <3>. QED
      BY <2>6, <3>1 DEF SocketReceives, Starts, PlainStart
  <2>7. CASE SocketBreaks(l)
    BY <2>7, BreakMoves, FewSteps DEF PlainStart
  <2>. QED
    BY <1>7, <2>1, <2>2, <2>3, <2>4, <2>5, <2>6, <2>7 DEF Transport
<1>. QED
  BY <1>1, <1>2, <1>3, <1>4, <1>5, <1>6, <1>7 DEF Wakeup

-------------------------------------------------------------------------------
(* Types.                                                                    *)

\* The operations of LegSocket stay within the sockets.
LEMMA SocketTypes ==
    /\ NeverOpened \in Sockets /\ Opened \in Sockets
    /\ \A s \in Sockets : CloseRequested(s) \in Sockets /\ Joined(s) \in Sockets
BY DEF NeverOpened, Opened, Sockets, States, CloseRequested, Joined

LEMMA ThenTodo ==
    ASSUME TodoOK, NEW t \in Threads, todo[t] # <<>>, NEW steps \in Seq(Steps), Then(t, steps)
    PROVE  TodoOK'
<1>1. Tail(todo[t]) \in Seq(Steps)
  BY DEF TodoOK
<1>2. steps \o Tail(todo[t]) \in Seq(Steps)
  BY <1>1
<1>. QED
  BY <1>2 DEF Then, TodoOK

LEMMA PlainTodo ==
    ASSUME TodoOK, NEW t \in Threads, Plain(t) \/ PlainStart(t)
    PROVE  TodoOK'
<1>1. Sound \subseteq Seq(Steps)
  BY DEF Sound, PlainSteps
<1>2. CASE Plain(t)
  BY <1>1, <1>2, ThenTodo DEF Plain
<1>3. CASE PlainStart(t)
  BY <1>1, <1>3 DEF PlainStart, TodoOK
<1>. QED
  BY <1>2, <1>3

LEMMA JoinTodo ==
    ASSUME TodoOK, NEW t \in Threads, CloseCurlJoin(t) \/ JoinCurl(t) \/ UnlockCurl(t)
    PROVE  TodoOK'
<1>1. /\ << <<"joinCurl">> >> \in Seq(Steps) /\ << <<"unlockCurl">> >> \in Seq(Steps)
      /\ << <<"closed", "Curl", "local">>, <<"unlockCurl">> >> \in Seq(Steps)
      /\ <<>> \in Seq(Steps)
  <2>1. /\ <<"joinCurl">> \in Steps /\ <<"unlockCurl">> \in Steps
        /\ <<"closed", "Curl", "local">> \in Steps
    BY StepShapes, JoinShapes DEF JoinSteps, PlainSteps, Legs
  <2>. QED
    BY <2>1
<1>2. CASE CloseCurlJoin(t)
  BY <1>1, <1>2, ThenTodo DEF CloseCurlJoin, At
<1>3. CASE JoinCurl(t)
  BY <1>1, <1>3, ThenTodo DEF JoinCurl, At
<1>4. CASE UnlockCurl(t)
  BY <1>1, <1>4, ThenTodo DEF UnlockCurl, At
<1>. QED
  BY <1>2, <1>3, <1>4

LEMMA DataClose ==
    ASSUME DataOK, NEW t \in Threads, CloseStep(t)
    PROVE  DataOK'
<1>. USE DEF DataOK
<1>1. CASE CancelMixedRace(t)
  BY <1>1 DEF CancelMixedRace, OnlyRace, Races
<1>2. CASE CloseCurlAsync(t)
  BY <1>2, SocketTypes DEF CloseCurlAsync, OnlySock, Legs
<1>3. CASE CloseCurlJoin(t)
  BY <1>3, SocketTypes DEF CloseCurlJoin, Legs
<1>4. CASE JoinCurl(t)
  BY <1>4, SocketTypes DEF JoinCurl, OnlySock, Legs
<1>5. CASE UnlockCurl(t)
  BY <1>5 DEF UnlockCurl
<1>6. CASE CloseQuicAsync(t)
  BY <1>6, SocketTypes DEF CloseQuicAsync, OnlySock, Legs
<1>7. CASE CloseQuicJoin(t)
  BY <1>7, SocketTypes DEF CloseQuicJoin, Legs
<1>8. CASE JoinQuic(t)
  BY <1>8, SocketTypes DEF JoinQuic, OnlySock, Legs
<1>9. CASE AllClosed(t)
  BY <1>9 DEF AllClosed, OnlyRace, Races
<1>. QED
  BY <1>1, <1>2, <1>3, <1>4, <1>5, <1>6, <1>7, <1>8, <1>9 DEF CloseStep

LEMMA DataConnect ==
    ASSUME DataOK, NEW t \in Threads, ConnectStep(t)
    PROVE  DataOK'
<1>. USE DEF DataOK
<1>1. CASE BeginConnect(t)
  BY <1>1 DEF BeginConnect, Retries, Pings
<1>2. CASE Unsuppress(t)
  BY <1>2 DEF Unsuppress, OnlyRetry, Retries
<1>3. CASE ChooseLeg(t)
  BY <1>3 DEF ChooseLeg, OnlyRace, Races, Legs
<1>4. CASE OpenPrimary(t)
  BY <1>4, SocketTypes DEF OpenPrimary, OpenCurl, OpenQuic, Legs
<1>5. CASE ScheduleMixedTcpFallback(t)
  BY <1>5 DEF ScheduleMixedTcpFallback, OnlyRace, Races
<1>6. CASE StartMixedTcpFallback(t)
  BY <1>6 DEF StartMixedTcpFallback, OnlyRace, Races
<1>7. CASE OpenAlt(t)
  BY <1>7, SocketTypes DEF OpenAlt, OpenCurl, Legs
<1>8. CASE EnterRace(t)
  BY <1>8 DEF EnterRace, OnlyRace, Races
<1>9. CASE UnlockRace(t)
  BY <1>9 DEF UnlockRace, OnlyRace, Races
<1>10. CASE HandleMixedTransportFailure(t)
  BY <1>10, ZenonT(60) DEF HandleMixedTransportFailure, OnlyRace, Races, Legs
<1>11. CASE Promote(t)
  BY <1>11 DEF Promote, OnlyRace, Races, Legs
<1>. QED
  BY <1>1, <1>2, <1>3, <1>4, <1>5, <1>6, <1>7, <1>8, <1>9, <1>10, <1>11 DEF ConnectStep

LEMMA DataCallback ==
    ASSUME DataOK, NEW t \in Threads, CallbackStep(t)
    PROVE  DataOK'
<1>. USE DEF DataOK
<1>1. CASE onTransportOpen(t)
  BY <1>1 DEF onTransportOpen, OnlyRace, Races
<1>2. CASE MixedDeclareWinner(t)
  BY <1>2 DEF MixedDeclareWinner, OnlyRace, Races
<1>3. CASE StartKeepalive(t)
  BY <1>3 DEF StartKeepalive, Pings
<1>4. CASE onTransportClose(t)
  BY <1>4 DEF onTransportClose, OnlyTodo
<1>5. CASE onTransportError(t)
  BY <1>5 DEF onTransportError, OnlyTodo
<1>6. CASE SessionOff(t)
  BY <1>6 DEF SessionOff, OnlyRace, Races
<1>7. CASE onTransportRecv(t)
  <2>1. \/ UNCHANGED <<ping, retry>>
        \/ /\ ping' = [ping EXCEPT !.answered = TRUE]
           /\ \E n \in {0, retry.reconnect_count} :
                retry' = [retry EXCEPT !.reconnect_count = n]
    BY <1>7 DEF onTransportRecv
  <2>2. ping' \in Pings
    BY <2>1 DEF Pings
  <2>3. retry' \in Retries
    BY <2>1 DEF Retries
  <2>. QED
    BY <1>7, <2>2, <2>3 DEF onTransportRecv
<1>8. CASE Tell(t)
  BY <1>8 DEF Tell, Pasts
<1>. QED
  BY <1>1, <1>2, <1>3, <1>4, <1>5, <1>6, <1>7, <1>8 DEF CallbackStep

LEMMA DataRetry ==
    ASSUME DataOK, NEW t \in Threads, RetryStep(t)
    PROVE  DataOK'
<1>. USE DEF DataOK
<1>1. CASE FailFatal(t)
  BY <1>1 DEF FailFatal, Pings, Retries
<1>2. CASE Report(t)
  BY <1>2 DEF Report, Races, Pasts
<1>3. CASE ScheduleReconnect(t)
  BY <1>3 DEF ScheduleReconnect, OnlyTodo
<1>4. CASE Reconnecting(t)
  <2>1. retry' \in Retries
    <3>1. retry.reconnect_count + 1 \in Nat
      BY DEF Retries
    <3>2. retry' = [retry EXCEPT !.reconnect_count = retry.reconnect_count + 1,
                                 !.suppress_reconnect = TRUE]
      BY <1>4 DEF Reconnecting
    <3>. QED
      BY <3>1, <3>2, Zenon DEF Retries
  <2>2. ping' \in Pings
    BY <1>4 DEF Reconnecting, Pings
  <2>. QED
    BY <1>4, <2>1, <2>2 DEF Reconnecting
<1>5. CASE Resume(t)
  BY <1>5 DEF Resume, Retries, Races
<1>6. CASE ArmReconnect(t)
  BY <1>6 DEF ArmReconnect, OnlyRetry, Retries
<1>7. CASE SendLeave(t)
  <2>1. LeaveTaken(race.primary_leg) \subseteq BOOLEAN
    BY DEF LeaveTaken, Sockets, Races
  <2>2. PICK taken \in BOOLEAN : leave' = [leave EXCEPT !.sent = taken]
    BY <1>7, <2>1 DEF SendLeave
  <2>. QED
    BY <1>7, <2>2 DEF SendLeave, OnlyLeave, Leaves
<1>8. CASE AwaitLeave(t)
  BY <1>8 DEF AwaitLeave, OnlyLeave, Leaves
<1>9. CASE CloseSocketAfterDisconnect(t)
  BY <1>9 DEF CloseSocketAfterDisconnect, OnlyLeave, Leaves
<1>. QED
  BY <1>1, <1>2, <1>3, <1>4, <1>5, <1>6, <1>7, <1>8, <1>9 DEF RetryStep

LEMMA DataStarts ==
    ASSUME DataOK, Wakeup \/ (\E l \in Legs : Transport(l)) \/ Connect \/ Disconnect
    PROVE  DataOK'
<1>. USE DEF DataOK
<1>1. CASE DelayElapses
  BY <1>1 DEF DelayElapses, OnlyRace, Races
<1>2. CASE ReconnectElapses
  <2>1. retry' \in Retries
    BY <1>2 DEF ReconnectElapses, Retries
  <2>2. past' \in Pasts
    BY <1>2 DEF ReconnectElapses, Pasts
  <2>. QED
    BY <1>2, <2>1, <2>2 DEF ReconnectElapses
<1>3. CASE PingTimeout
  BY <1>3 DEF PingTimeout, Pings
<1>4. CASE LeaveTimeout
  BY <1>4 DEF LeaveTimeout, OnlyLeave, Leaves
<1>5. CASE Connect
  <2>1. retry' \in Retries
    BY <1>5 DEF Connect, Retries
  <2>2. past' \in Pasts
    <3>1. past.connects + 1 \in Nat /\ past.attempts + 1 \in Nat
      BY DEF Pasts
    <3>2. past' = [past EXCEPT !.connects = past.connects + 1, !.attempts = past.attempts + 1,
                               !.wanted = "up", !.told = FALSE]
      BY <1>5 DEF Connect
    <3>. QED
      BY <3>1, <3>2, Zenon DEF Pasts
  <2>. QED
    BY <1>5, <2>1, <2>2 DEF Connect
<1>6. CASE Disconnect
  <2>1. retry' \in Retries /\ ping' \in Pings /\ leave' \in Leaves
    BY <1>6 DEF Disconnect, Retries, Pings, Leaves
  <2>2. past' \in Pasts
    <3>1. past.disconnects + 1 \in Nat
      BY DEF Pasts
    <3>2. past' = [past EXCEPT !.disconnects = past.disconnects + 1, !.wanted = "down"]
      BY <1>6 DEF Disconnect
    <3>. QED
      BY <3>1, <3>2, Zenon DEF Pasts
  <2>. QED
    BY <1>6, <2>1, <2>2 DEF Disconnect
<1>7. ASSUME NEW l \in Legs, Transport(l) PROVE DataOK'
  <2>1. CASE SocketOpens(l)
    BY <2>1 DEF SocketOpens, OpenedUp, OnlySock, Sockets, States
  <2>2. CASE SocketFails(l)
    BY <2>2, ZenonT(60) DEF SocketFails, Reporting, OnlySock, Sockets, States
  <2>3. CASE SocketClosedByPeer(l)
    BY <2>3, ZenonT(60) DEF SocketClosedByPeer, Reporting, OnlySock, Sockets, States
  <2>4. CASE SocketStops(l)
    BY <2>4, ZenonT(60) DEF SocketStops, Reporting, OnlySock, Sockets, States
  <2>5. CASE SocketEnds(l)
    BY <2>5 DEF SocketEnds, Ended, OnlySock, Sockets, States
  <2>6. CASE SocketReceives(l)
    <3>1. past' \in Pasts
      BY <2>6 DEF SocketReceives, Pasts
    <3>2. PICK m \in {"ok", "leave", "refused"} :
            leave' = [leave EXCEPT !.sent = @ /\ m # "leave"]
      BY <2>6 DEF SocketReceives
    <3>3. leave' \in Leaves
      BY <3>2 DEF Leaves
    <3>. QED
      BY <2>6, <3>1, <3>3 DEF SocketReceives
  <2>7. CASE SocketBreaks(l)
    BY <2>7, BreakMoves DEF Broken, Sockets, States
  <2>. QED
    BY <1>7, <2>1, <2>2, <2>3, <2>4, <2>5, <2>6, <2>7 DEF Transport
<1>. QED
  BY <1>1, <1>2, <1>3, <1>4, <1>5, <1>6, <1>7 DEF Wakeup

\* Types are kept by every behaviour of the connection (TypeOK).
THEOREM TypeCorrect == Spec => []TypeOK
<1>1. Init => TypeOK
  <2>. SUFFICES ASSUME Init PROVE TypeOK
    OBVIOUS
  <2>1. TodoOK
    BY DEF Init, TodoOK
  <2>2. race \in Races /\ retry \in Retries /\ ping \in Pings /\ leave \in Leaves
    BY DEF Init, Races, Retries, Pings, Leaves, Legs
  <2>3. past \in Pasts
    BY DEF Init, Pasts
  <2>. QED
    BY <2>1, <2>2, <2>3, SocketTypes DEF Init, TypeOK, DataOK
<1>2. TypeOK /\ [Next]_vars => TypeOK'
  <2>. SUFFICES ASSUME TypeOK, [Next]_vars PROVE TypeOK'
    OBVIOUS
  <2>1. ASSUME NEW t \in Threads, Step(t) PROVE TypeOK'
    <3>1. CASE CloseStep(t)
      BY <3>1, PlainClose, PlainTodo, JoinTodo, DataClose DEF TypeOK
    <3>2. CASE ConnectStep(t)
      BY <3>2, PlainConnect, PlainTodo, DataConnect DEF TypeOK
    <3>3. CASE CallbackStep(t)
      BY <3>3, PlainCallback, PlainTodo, DataCallback DEF TypeOK
    <3>4. CASE RetryStep(t)
      BY <3>4, PlainRetry, PlainTodo, DataRetry DEF TypeOK
    <3>. QED
      BY <2>1, <3>1, <3>2, <3>3, <3>4 DEF Step
  <2>2. CASE Wakeup \/ (\E l \in Legs : Transport(l)) \/ Connect \/ Disconnect
    BY <2>2, PlainStarts, PlainTodo, DataStarts DEF TypeOK
  <2>3. CASE UNCHANGED vars
    BY <2>3 DEF vars, TypeOK, TodoOK, DataOK
  <2>. QED
    BY <2>1, <2>2, <2>3 DEF Next, Busy
<1>. QED
  BY <1>1, <1>2, PTL DEF Spec

-------------------------------------------------------------------------------
(* One thread joins the curl worker at a time.  OneJoiner is not inductive:  *)
(* the thread that releases lifecycle_mutex must have nothing left to join.  *)

\* A thread that joins owns lifecycle_mutex, and is in one join only.
JoinInv ==
    \A t \in Threads :
        /\ Joins(t) => lifecycle = t
        /\ \A i, j \in 1..Len(todo[t]) :
              todo[t][i] \in JoinSteps /\ todo[t][j] \in JoinSteps => i = j

\* Where the steps of t come from, after it has run the first one.
LEMMA ThenAt ==
    ASSUME TodoOK, NEW t \in Threads, todo[t] # <<>>, NEW steps \in Seq(Steps), Then(t, steps)
    PROVE  /\ \A u \in Threads \ {t} : todo'[u] = todo[u]
           /\ \A i \in 1..Len(todo'[t]) :
                 \/ i \in 1..Len(steps) /\ todo'[t][i] = steps[i]
                 \/ /\ i - Len(steps) + 1 \in 2..Len(todo[t])
                    /\ todo'[t][i] = todo[t][i - Len(steps) + 1]
<1>1. todo[t] \in Seq(Steps) /\ Tail(todo[t]) \in Seq(Steps)
  BY DEF TodoOK
<1>2. Len(Tail(todo[t])) = Len(todo[t]) - 1
  BY <1>1
<1>3. \A i \in 1..Len(Tail(todo[t])) : Tail(todo[t])[i] = todo[t][i + 1]
  BY <1>1, <1>2
<1>4. todo'[t] = steps \o Tail(todo[t]) /\ \A u \in Threads \ {t} : todo'[u] = todo[u]
  BY DEF Then, TodoOK
<1>5. ASSUME NEW i \in 1..Len(todo'[t])
      PROVE  \/ i \in 1..Len(steps) /\ todo'[t][i] = steps[i]
             \/ /\ i - Len(steps) + 1 \in 2..Len(todo[t])
                /\ todo'[t][i] = todo[t][i - Len(steps) + 1]
  <2>1. Len(todo'[t]) = Len(steps) + Len(todo[t]) - 1
    BY <1>1, <1>2, <1>4
  <2>2. CASE i <= Len(steps)
    BY <1>1, <1>4, <2>1, <2>2
  <2>3. CASE i > Len(steps)
    <3>1. i - Len(steps) \in 1..Len(Tail(todo[t]))
      BY <1>1, <1>2, <2>1, <2>3
    <3>2. todo'[t][i] = Tail(todo[t])[i - Len(steps)]
      BY <1>1, <1>4, <2>1, <2>3
    <3>. QED
      BY <1>1, <1>2, <1>3, <3>1, <3>2
  <2>. QED
    BY <1>1, <2>1, <2>2, <2>3
<1>. QED
  BY <1>4, <1>5

LEMMA PlainJoins ==
    ASSUME TodoOK, JoinInv, NEW t \in Threads, Plain(t) \/ PlainStart(t)
    PROVE  JoinInv'
<1>1. CASE Plain(t)
  <2>1. PICK steps \in Sound : Then(t, steps)
    BY <1>1 DEF Plain
  <2>2. steps \in Seq(Steps) /\ \A i \in 1..Len(steps) : steps[i] \notin JoinSteps
    BY DEF Sound, PlainSteps
  <2>3. /\ \A u \in Threads \ {t} : todo'[u] = todo[u]
        /\ \A i \in 1..Len(todo'[t]) : todo'[t][i] \in JoinSteps =>
              /\ i - Len(steps) + 1 \in 1..Len(todo[t])
              /\ todo'[t][i] = todo[t][i - Len(steps) + 1]
    <3>1. todo[t] # <<>>
      BY <1>1 DEF Plain
    <3>2. /\ \A u \in Threads \ {t} : todo'[u] = todo[u]
          /\ \A i \in 1..Len(todo'[t]) :
                \/ i \in 1..Len(steps) /\ todo'[t][i] = steps[i]
                \/ /\ i - Len(steps) + 1 \in 2..Len(todo[t])
                   /\ todo'[t][i] = todo[t][i - Len(steps) + 1]
      BY <2>1, <2>2, <3>1, ThenAt
    <3>. QED
      BY <2>2, <3>2
  <2>4. Joins(t)' => Joins(t)
    BY <2>3 DEF Joins
  <2>5. \A i, j \in 1..Len(todo'[t]) :
          todo'[t][i] \in JoinSteps /\ todo'[t][j] \in JoinSteps => i = j
    <3>. SUFFICES ASSUME NEW i \in 1..Len(todo'[t]), NEW j \in 1..Len(todo'[t]),
                         todo'[t][i] \in JoinSteps, todo'[t][j] \in JoinSteps
                  PROVE  i = j
      OBVIOUS
    <3>1. i - Len(steps) + 1 = j - Len(steps) + 1
      BY <2>3 DEF JoinInv
    <3>2. Len(steps) \in Nat /\ Len(todo'[t]) \in Nat
      BY <1>1, <2>2, PlainTodo DEF TodoOK
    <3>. QED
      BY <3>1, <3>2
  <2>. QED
    BY <1>1, <2>3, <2>4, <2>5 DEF JoinInv, Joins, Plain
<1>2. CASE PlainStart(t)
  <2>1. PICK steps \in Sound : todo' = [todo EXCEPT ![t] = steps]
    BY <1>2 DEF PlainStart
  <2>2. \A i \in 1..Len(todo'[t]) : todo'[t][i] \notin JoinSteps
    BY <2>1 DEF Sound, PlainSteps, TodoOK
  <2>3. \A u \in Threads \ {t} : todo'[u] = todo[u]
    BY <2>1 DEF TodoOK
  <2>. QED
    BY <1>2, <2>2, <2>3 DEF JoinInv, Joins, PlainStart
<1>. QED
  BY <1>1, <1>2

\* Taking lifecycle_mutex: no thread joins as long as it is free.
LEMMA CloseCurlJoins ==
    ASSUME TodoOK, JoinInv, NEW t \in Threads, CloseCurlJoin(t)
    PROVE  JoinInv'
<1>1. /\ todo[t] # <<>> /\ lifecycle = "none" /\ lifecycle' = t
      /\ Then(t, << <<"joinCurl">> >>)
  BY DEF CloseCurlJoin, At
<1>2. \A u \in Threads : ~Joins(u)
  BY <1>1, ThreadNames DEF JoinInv
<1>3. << <<"joinCurl">> >> \in Seq(Steps)
  BY JoinShapes DEF JoinSteps
<1>4. /\ \A u \in Threads \ {t} : todo'[u] = todo[u]
      /\ \A i \in 1..Len(todo'[t]) : todo'[t][i] \in JoinSteps => i = 1
  <2>1. /\ \A u \in Threads \ {t} : todo'[u] = todo[u]
        /\ \A i \in 1..Len(todo'[t]) :
              \/ i \in 1..1
              \/ /\ i - 1 + 1 \in 2..Len(todo[t])
                 /\ todo'[t][i] = todo[t][i - 1 + 1]
    <3>1. Len(<< <<"joinCurl">> >>) = 1
      OBVIOUS
    <3>. QED
      BY <1>1, <1>3, <3>1, ThenAt
  <2>2. \A i \in 1..Len(todo[t]) : todo[t][i] \notin JoinSteps
    BY <1>2 DEF Joins
  <2>. QED
    BY <2>1, <2>2
<1>. QED
  BY <1>1, <1>2, <1>4 DEF JoinInv, Joins

\* After the join, releasing lifecycle_mutex is all that is left of it.
LEMMA JoinCurlJoins ==
    ASSUME TodoOK, JoinInv, NEW t \in Threads, JoinCurl(t)
    PROVE  JoinInv'
<1>1. PICK steps \in {<< <<"unlockCurl">> >>,
                      << <<"closed", "Curl", "local">>, <<"unlockCurl">> >>} :
        todo[t] # <<>> /\ Head(todo[t]) = <<"joinCurl">> /\ lifecycle' = lifecycle
        /\ Then(t, steps)
  BY DEF JoinCurl, At, OnlySock
<1>2. 1 \in 1..Len(todo[t]) /\ todo[t][1] \in JoinSteps
  BY <1>1 DEF TodoOK, JoinSteps
<1>3. lifecycle = t
  BY <1>2 DEF JoinInv, Joins
<1>4. \A i \in 2..Len(todo[t]) : todo[t][i] \notin JoinSteps
  BY <1>2 DEF JoinInv
<1>5. /\ steps \in Seq(Steps)
      /\ \A i, j \in 1..Len(steps) : steps[i] \in JoinSteps /\ steps[j] \in JoinSteps => i = j
  <2>1. /\ <<"unlockCurl">> \in Steps
        /\ <<"closed", "Curl", "local">> \in PlainSteps
    BY StepShapes, JoinShapes DEF JoinSteps, Legs
  <2>2. CASE steps = << <<"unlockCurl">> >>
    BY <2>1, <2>2
  <2>3. CASE steps = << <<"closed", "Curl", "local">>, <<"unlockCurl">> >>
    <3>1. Len(steps) = 2 /\ steps[1] \notin JoinSteps
      BY <2>1, <2>3 DEF PlainSteps
    <3>2. steps \in Seq(Steps)
      BY <2>1, <2>3 DEF PlainSteps
    <3>. QED
      BY <3>1, <3>2
  <2>. QED
    BY <2>2, <2>3
<1>6. /\ \A u \in Threads \ {t} : todo'[u] = todo[u]
      /\ \A i \in 1..Len(todo'[t]) : todo'[t][i] \in JoinSteps =>
            i \in 1..Len(steps) /\ todo'[t][i] = steps[i]
  <2>1. /\ \A u \in Threads \ {t} : todo'[u] = todo[u]
        /\ \A i \in 1..Len(todo'[t]) :
              \/ i \in 1..Len(steps) /\ todo'[t][i] = steps[i]
              \/ /\ i - Len(steps) + 1 \in 2..Len(todo[t])
                 /\ todo'[t][i] = todo[t][i - Len(steps) + 1]
    BY <1>1, <1>5, ThenAt
  <2>. QED
    BY <1>4, <2>1
<1>. QED
  BY <1>1, <1>3, <1>5, <1>6 DEF JoinInv, Joins

\* Releasing it: this thread has no join left, and no other one had any.
LEMMA UnlockCurlJoins ==
    ASSUME TodoOK, JoinInv, NEW t \in Threads, UnlockCurl(t)
    PROVE  JoinInv'
<1>1. todo[t] # <<>> /\ Head(todo[t]) = <<"unlockCurl">> /\ Then(t, <<>>)
  BY DEF UnlockCurl, At
<1>2. 1 \in 1..Len(todo[t]) /\ todo[t][1] \in JoinSteps
  <2>1. todo[t] \in Seq(Steps)
    BY DEF TodoOK
  <2>2. 1 \in 1..Len(todo[t]) /\ todo[t][1] = <<"unlockCurl">>
    BY <1>1, <2>1
  <2>. QED
    BY <2>2 DEF JoinSteps
<1>3. lifecycle = t
  BY <1>2 DEF JoinInv, Joins
<1>4. \A i \in 2..Len(todo[t]) : todo[t][i] \notin JoinSteps
  BY <1>2 DEF JoinInv
<1>5. /\ \A u \in Threads \ {t} : todo'[u] = todo[u]
      /\ \A i \in 1..Len(todo'[t]) : todo'[t][i] \notin JoinSteps
  <2>1. <<>> \in Seq(Steps) /\ Len(<<>>) = 0
    OBVIOUS
  <2>2. /\ \A u \in Threads \ {t} : todo'[u] = todo[u]
        /\ \A i \in 1..Len(todo'[t]) :
              \/ i \in 1..0
              \/ /\ i - 0 + 1 \in 2..Len(todo[t])
                 /\ todo'[t][i] = todo[t][i - 0 + 1]
    BY <1>1, <2>1, ThenAt
  <2>. QED
    BY <1>4, <2>2, SMTT(30)
<1>. QED
  BY <1>3, <1>5 DEF JoinInv, Joins

\* The curl worker is joined, and its close reported, by one thread at a time, the
\* owner of lifecycle_mutex (OneJoiner).
THEOREM OneJoinerCorrect == Spec => []OneJoiner
<1>1. Init => JoinInv
  BY DEF Init, JoinInv, Joins
<1>2. TypeOK /\ JoinInv /\ [Next]_vars => JoinInv'
  <2>. SUFFICES ASSUME TypeOK, JoinInv, [Next]_vars PROVE JoinInv'
    OBVIOUS
  <2>. TodoOK
    BY DEF TypeOK
  <2>1. ASSUME NEW t \in Threads, Step(t) PROVE JoinInv'
    <3>1. Plain(t) \/ CloseCurlJoin(t) \/ JoinCurl(t) \/ UnlockCurl(t)
      BY <2>1, PlainClose, PlainConnect, PlainCallback, PlainRetry DEF Step
    <3>. QED
      BY <3>1, PlainJoins, CloseCurlJoins, JoinCurlJoins, UnlockCurlJoins
  <2>2. CASE Wakeup \/ (\E l \in Legs : Transport(l)) \/ Connect \/ Disconnect
    BY <2>2, PlainStarts, PlainJoins
  <2>3. CASE UNCHANGED vars
    BY <2>3 DEF vars, JoinInv, Joins
  <2>. QED
    BY <2>1, <2>2, <2>3 DEF Next, Busy
<1>3. JoinInv => OneJoiner
  BY DEF JoinInv, OneJoiner
<1>. QED
  BY <1>1, <1>2, <1>3, TypeCorrect, PTL DEF Spec

-------------------------------------------------------------------------------
(* A close is lost only on a transport that has reported or will not open.   *)

\* The conjuncts of NoLostClose, of one socket; the operations keep them.
Heeds(s) ==
    s.alive => s.joinable /\ (s.state = "Closed" => s.reported \/ ~s.notified)
HeedsInv == \A l \in Legs : Heeds(sock[l])

LEMMA SocketHeeds ==
    /\ Heeds(Opened) /\ Heeds(NeverOpened) /\ Heeds(Joined(NeverOpened))
    /\ \A s \in Sockets : Heeds(s) => Heeds(CloseRequested(s))
    /\ \A s \in Sockets : ~s.alive => Heeds(Joined(s))
BY DEF Heeds, Opened, NeverOpened, Joined, CloseRequested, Sockets

\* A step of a thread replaces one socket by one that heeds, or none.
LEMMA StepHeeds ==
    ASSUME DataOK, \A l \in Legs : Heeds(sock[l]), NEW t \in Threads, Step(t)
    PROVE  \A l \in Legs : Heeds(sock'[l])
<1>. sock \in [Legs -> Sockets] /\ "Curl" \in Legs /\ "Quic" \in Legs
  BY DEF DataOK, Legs
<1>1. CASE CloseStep(t)
  <2>1. CASE CloseCurlAsync(t) \/ CloseCurlJoin(t)
    BY <2>1, SocketHeeds DEF CloseCurlAsync, CloseCurlJoin
  <2>2. CASE JoinCurl(t)
    BY <2>2, SocketHeeds DEF JoinCurl
  <2>3. CASE CloseQuicAsync(t) \/ CloseQuicJoin(t)
    BY <2>3, SocketHeeds DEF CloseQuicAsync, CloseQuicJoin
  <2>4. CASE JoinQuic(t)
    BY <2>4, SocketHeeds DEF JoinQuic
  <2>5. CASE CancelMixedRace(t) \/ AllClosed(t) \/ UnlockCurl(t)
    BY <2>5 DEF CancelMixedRace, AllClosed, UnlockCurl, OnlyRace
  <2>. QED
    BY <1>1, <2>1, <2>2, <2>3, <2>4, <2>5 DEF CloseStep
<1>2. CASE ConnectStep(t)
  <2>1. CASE OpenPrimary(t)
    <3>1. CASE OpenCurl
      BY <3>1, SocketHeeds DEF OpenCurl
    <3>2. CASE OpenQuic(t)
      BY <3>2, SocketHeeds DEF OpenQuic
    <3>. QED
      BY <2>1, <3>1, <3>2 DEF OpenPrimary
  <2>2. CASE OpenAlt(t)
    BY <2>2, SocketHeeds DEF OpenAlt, OpenCurl
  <2>3. CASE BeginConnect(t) \/ Unsuppress(t) \/ ChooseLeg(t)
    BY <2>3 DEF BeginConnect, Unsuppress, ChooseLeg, OnlyRetry, OnlyRace
  <2>4. CASE ScheduleMixedTcpFallback(t) \/ StartMixedTcpFallback(t) \/ EnterRace(t)
             \/ UnlockRace(t) \/ HandleMixedTransportFailure(t) \/ Promote(t)
    BY <2>4 DEF ScheduleMixedTcpFallback, StartMixedTcpFallback, EnterRace, UnlockRace,
                HandleMixedTransportFailure, Promote, OnlyRace
  <2>. QED
    BY <1>2, <2>1, <2>2, <2>3, <2>4 DEF ConnectStep
<1>3. CASE CallbackStep(t)
  BY <1>3 DEF CallbackStep, onTransportOpen, MixedDeclareWinner, StartKeepalive,
              onTransportClose, onTransportError, SessionOff, onTransportRecv, Tell,
              OnlyTodo, OnlyRace
<1>4. CASE RetryStep(t)
  BY <1>4 DEF RetryStep, FailFatal, Report, ScheduleReconnect, Reconnecting, Resume,
              ArmReconnect, SendLeave, AwaitLeave, CloseSocketAfterDisconnect,
              OnlyTodo, OnlyRetry, OnlyLeave
<1>. QED
  BY <1>1, <1>2, <1>3, <1>4 DEF Step

\* A transport moves through its states only as far as its thread has reported.
LEMMA TransportHeeds ==
    ASSUME DataOK, \A l \in Legs : Heeds(sock[l]),
           NEW k \in Legs, Transport(k)
    PROVE  \A l \in Legs : Heeds(sock'[l])
<1>. sock \in [Legs -> Sockets]
  BY DEF DataOK
<1>1. CASE SocketOpens(k)
  BY <1>1 DEF SocketOpens, MayOpen, OpenedUp, Heeds, Sockets
<1>2. CASE SocketFails(k) \/ SocketClosedByPeer(k) \/ SocketStops(k)
  BY <1>2, SMTT(30) DEF SocketFails, SocketClosedByPeer, SocketStops, Reporting, Heeds, Sockets
<1>3. CASE SocketEnds(k)
  BY <1>3 DEF SocketEnds, MayEnd, Ended, Heeds, Sockets
<1>4. CASE SocketReceives(k)
  BY <1>4 DEF SocketReceives
<1>5. CASE SocketBreaks(k)
  BY <1>5, BreakMoves DEF Broken, Heeds, Sockets
<1>. QED
  BY <1>1, <1>2, <1>3, <1>4, <1>5 DEF Transport

LEMMA HeedsInit == Init => HeedsInv
BY SocketHeeds DEF Init, HeedsInv

LEMMA HeedsStep == TypeOK /\ HeedsInv /\ [Next]_vars => HeedsInv'
<1>. SUFFICES ASSUME TypeOK, HeedsInv, [Next]_vars PROVE HeedsInv'
  OBVIOUS
<1>. DataOK
  BY DEF TypeOK
<1>1. ASSUME NEW t \in Threads, Step(t) PROVE HeedsInv'
  BY <1>1, StepHeeds DEF HeedsInv
<1>2. ASSUME NEW l \in Legs, Transport(l) PROVE HeedsInv'
  BY <1>2, TransportHeeds DEF HeedsInv
<1>3. CASE Wakeup \/ Connect \/ Disconnect \/ UNCHANGED vars
  BY <1>3 DEF Wakeup, DelayElapses, ReconnectElapses, PingTimeout, LeaveTimeout,
              Connect, Disconnect, vars, OnlyRace, OnlyLeave, HeedsInv
<1>. QED
  BY <1>1, <1>2, <1>3 DEF Next, Busy

\* A close that a transport leaves alone because it is Closed is lost on nobody: it ran to
\* its end, or never opened and is about to fail, and it can be joined (NoLostClose).
THEOREM NoLostCloseCorrect == Spec => []NoLostClose
<1>1. HeedsInv => NoLostClose
  BY DEF HeedsInv, NoLostClose, Heeds
<1>. QED
  BY <1>1, HeedsInit, HeedsStep, TypeCorrect, PTL DEF Spec

-------------------------------------------------------------------------------
(* Suppression and the keepalive.  What a thread set for a while, it is still *)
(* going to take back: the pairs of Follows stay whole on every thread.       *)

PairsInv == \A t \in Threads : Paired(todo[t])

\* Some thread still has one of these steps to run.
Pends(S) == \E t \in Threads : \E i \in 1..Len(todo[t]) : todo[t][i] \in S

\* The steps that end a suppression, or report; and those that start the keepalive
\* of an open session, or end the session.
Ends == {<<"report">>, <<"unsuppress">>, <<"resume">>}
Watchers == {<<"startKeepalive">>, <<"report">>, <<"resume">>, <<"chooseLeg">>,
             <<"scheduleReconnect">>}

SuppressInv == retry.suppress_reconnect => past.told \/ Pends(Ends)
WatchInv ==
    race.session_open /\ ~ping.armed /\ ~retry.user_closed /\ ~retry.suppress_reconnect =>
        Pends(Watchers)

LEMMA ThenPairs ==
    ASSUME TodoOK, PairsInv, NEW t \in Threads, todo[t] # <<>>,
           NEW steps \in Seq(Steps), Paired(steps), Then(t, steps)
    PROVE  PairsInv'
<1>1. todo[t] \in Seq(Steps) /\ Tail(todo[t]) \in Seq(Steps) /\ Paired(Tail(todo[t]))
  BY PairedTail DEF TodoOK, PairsInv
<1>2. Paired(steps \o Tail(todo[t]))
  BY <1>1, PairedConcat
<1>3. \A u \in Threads : todo'[u] = IF u = t THEN steps \o Tail(todo[t]) ELSE todo[u]
  BY DEF Then, TodoOK
<1>. QED
  BY <1>2, <1>3 DEF PairsInv

LEMMA PlainPairs ==
    ASSUME TodoOK, PairsInv, NEW t \in Threads, Plain(t) \/ PlainStart(t)
    PROVE  PairsInv'
<1>1. \A steps \in Sound : steps \in Seq(Steps) /\ Paired(steps)
  BY DEF Sound, PlainSteps
<1>2. CASE Plain(t)
  BY <1>1, <1>2, ThenPairs DEF Plain
<1>3. CASE PlainStart(t)
  BY <1>1, <1>3 DEF PlainStart, TodoOK, PairsInv
<1>. QED
  BY <1>2, <1>3

\* Joining the curl worker begins no pair.
LEMMA JoinPairs ==
    ASSUME TodoOK, PairsInv, NEW t \in Threads, CloseCurlJoin(t) \/ JoinCurl(t) \/ UnlockCurl(t)
    PROVE  PairsInv'
<1>. DEFINE Lists == {<<>>, << <<"joinCurl">> >>, << <<"unlockCurl">> >>,
                      << <<"closed", "Curl", "local">>, <<"unlockCurl">> >>}
<1>1. PICK steps \in Lists : todo[t] # <<>> /\ Then(t, steps)
  BY DEF CloseCurlJoin, JoinCurl, UnlockCurl, At
<1>2. /\ <<"joinCurl">> \in Steps /\ <<"unlockCurl">> \in Steps
      /\ <<"closed", "Curl", "local">> \in Steps
  BY StepShapes, JoinShapes DEF JoinSteps, PlainSteps, Legs
<1>3. steps \in Seq(Steps)
  <2>1. <<>> \in Seq(Steps)
    OBVIOUS
  <2>2. << <<"joinCurl">> >> \in Seq(Steps) /\ << <<"unlockCurl">> >> \in Seq(Steps)
    BY <1>2
  <2>3. << <<"closed", "Curl", "local">>, <<"unlockCurl">> >> \in Seq(Steps)
    BY <1>2
  <2>. QED
    BY <2>1, <2>2, <2>3
<1>4. \A p \in Follows : /\ p[1] # <<"joinCurl">> /\ p[1] # <<"unlockCurl">>
                         /\ p[1] # <<"closed", "Curl", "local">>
  BY DEF Follows
<1>5. \A i \in 1..Len(steps) :
        steps[i] \in {<<"joinCurl">>, <<"unlockCurl">>, <<"closed", "Curl", "local">>}
  OBVIOUS
<1>6. Paired(steps)
  BY <1>4, <1>5 DEF Paired
<1>. QED
  BY <1>1, <1>3, <1>6, ThenPairs

\* A step is pending until its thread runs it; what a thread puts in place pends.
LEMMA ThenPends ==
    ASSUME TodoOK, NEW t \in Threads, todo[t] # <<>>, NEW steps \in Seq(Steps),
           Then(t, steps), NEW S
    PROVE  /\ Pends(S) /\ Head(todo[t]) \notin S => Pends(S)'
           /\ (\E i \in 1..Len(steps) : steps[i] \in S) => Pends(S)'
           /\ (\E i \in 2..Len(todo[t]) : todo[t][i] \in S) => Pends(S)'
<1>1. /\ todo[t] \in Seq(Steps) /\ Tail(todo[t]) \in Seq(Steps)
      /\ todo'[t] = steps \o Tail(todo[t])
      /\ \A u \in Threads \ {t} : todo'[u] = todo[u]
  BY DEF Then, TodoOK
<1>2. ASSUME NEW i \in 1..Len(steps), steps[i] \in S PROVE Pends(S)'
  <2>1. i \in 1..Len(todo'[t]) /\ todo'[t][i] = steps[i]
    BY <1>1
  <2>. QED
    BY <1>2, <2>1 DEF Pends
<1>3. ASSUME NEW i \in 2..Len(todo[t]), todo[t][i] \in S PROVE Pends(S)'
  <2>1. i - 1 \in 1..Len(Tail(todo[t])) /\ Tail(todo[t])[i - 1] = todo[t][i]
    BY <1>1
  <2>2. /\ Len(steps) + (i - 1) \in 1..Len(todo'[t])
        /\ todo'[t][Len(steps) + (i - 1)] = todo[t][i]
    BY <1>1, <2>1, LastOf
  <2>. QED
    BY <1>3, <2>2 DEF Pends
<1>4. ASSUME Pends(S), Head(todo[t]) \notin S PROVE Pends(S)'
  <2>1. PICK u \in Threads : \E i \in 1..Len(todo[u]) : todo[u][i] \in S
    BY <1>4 DEF Pends
  <2>2. CASE u = t
    <3>1. PICK i \in 1..Len(todo[t]) : todo[t][i] \in S
      BY <2>1, <2>2
    <3>2. i \in 2..Len(todo[t])
      BY <1>1, <1>4, <3>1
    <3>. QED
      BY <1>3, <3>1, <3>2
  <2>3. CASE u # t
    BY <1>1, <2>1, <2>3 DEF Pends
  <2>. QED
    BY <2>2, <2>3
<1>. QED
  BY <1>2, <1>3, <1>4

LEMMA StartPends ==
    ASSUME TodoOK, NEW t \in Threads, todo[t] = <<>>, NEW steps \in Seq(Steps),
           todo' = [todo EXCEPT ![t] = steps], NEW S
    PROVE  /\ Pends(S) => Pends(S)'
           /\ (\E i \in 1..Len(steps) : steps[i] \in S) => Pends(S)'
BY DEF Pends, TodoOK

\* The end of the pair whose first step the thread is about to run.
LEMMA PairPends ==
    ASSUME TodoOK, PairsInv, NEW t \in Threads, NEW p \in Follows, todo[t] # <<>>,
           Head(todo[t]) = p[1]
    PROVE  \E i \in 2..Len(todo[t]) : todo[t][i] = p[2]
<1>1. 1 \in 1..Len(todo[t]) /\ todo[t][1] = p[1]
  BY DEF TodoOK
<1>2. \A i \in 1..Len(todo[t]) :
        todo[t][i] = p[1] => \E j \in (i + 1)..Len(todo[t]) : todo[t][j] = p[2]
  BY DEF PairsInv, Paired
<1>3. PICK j \in (1 + 1)..Len(todo[t]) : todo[t][j] = p[2]
  BY <1>1, <1>2
<1>. QED
  BY <1>3

\* Whatever a thread does, it replaces its first step.
LEMMA StepMoves ==
    ASSUME NEW t \in Threads, Step(t)
    PROVE  todo[t] # <<>> /\ \E steps \in Seq(Steps) : Then(t, steps)
<1>1. CASE Plain(t)
  <2>1. Sound \subseteq Seq(Steps)
    BY DEF Sound, PlainSteps
  <2>. QED
    BY <1>1, <2>1 DEF Plain
<1>2. CASE CloseCurlJoin(t) \/ JoinCurl(t) \/ UnlockCurl(t)
  <2>1. /\ <<"joinCurl">> \in Steps /\ <<"unlockCurl">> \in Steps
        /\ <<"closed", "Curl", "local">> \in Steps
    BY StepShapes, JoinShapes DEF JoinSteps, PlainSteps, Legs
  <2>2. /\ << <<"joinCurl">> >> \in Seq(Steps) /\ << <<"unlockCurl">> >> \in Seq(Steps)
        /\ << <<"closed", "Curl", "local">>, <<"unlockCurl">> >> \in Seq(Steps)
        /\ <<>> \in Seq(Steps)
    BY <2>1
  <2>3. CASE CloseCurlJoin(t)
    BY <2>2, <2>3 DEF CloseCurlJoin, At
  <2>4. CASE JoinCurl(t)
    BY <2>2, <2>4 DEF JoinCurl, At
  <2>5. CASE UnlockCurl(t)
    BY <2>2, <2>5 DEF UnlockCurl, At
  <2>. QED
    BY <1>2, <2>3, <2>4, <2>5
<1>. QED
  BY <1>1, <1>2, PlainClose, PlainConnect, PlainCallback, PlainRetry DEF Step

\* A step that opens no session, and touches neither the suppression, user_closed
\* nor the keepalive thread.
Steady ==
    /\ retry'.suppress_reconnect = retry.suppress_reconnect
    /\ retry'.user_closed = retry.user_closed
    /\ ping'.armed = ping.armed
    /\ past.told => past'.told
    /\ race'.session_open => race.session_open

\* Thread t ran a step that nobody waits for.
Aside(t) == Steady /\ Head(todo[t]) \notin Ends \cup Watchers

LEMMA AsideClose ==
    ASSUME DataOK, NEW t \in Threads, CloseStep(t)
    PROVE  Aside(t)
<1>. USE DEF DataOK, Aside, Steady, Ends, Watchers, At
<1>1. CASE CancelMixedRace(t)
  BY <1>1 DEF CancelMixedRace, OnlyRace, Races
<1>2. CASE CloseCurlAsync(t)
  BY <1>2 DEF CloseCurlAsync, OnlySock
<1>3. CASE CloseCurlJoin(t)
  BY <1>3 DEF CloseCurlJoin
<1>4. CASE JoinCurl(t)
  BY <1>4 DEF JoinCurl, OnlySock
<1>5. CASE UnlockCurl(t)
  BY <1>5 DEF UnlockCurl
<1>6. CASE CloseQuicAsync(t)
  BY <1>6 DEF CloseQuicAsync, OnlySock
<1>7. CASE CloseQuicJoin(t)
  BY <1>7 DEF CloseQuicJoin
<1>8. CASE JoinQuic(t)
  BY <1>8 DEF JoinQuic, OnlySock
<1>9. CASE AllClosed(t)
  BY <1>9 DEF AllClosed, OnlyRace, Races
<1>. QED
  BY <1>1, <1>2, <1>3, <1>4, <1>5, <1>6, <1>7, <1>8, <1>9 DEF CloseStep

LEMMA AsideConnect ==
    ASSUME DataOK, NEW t \in Threads, ConnectStep(t)
    PROVE  Aside(t) \/ BeginConnect(t) \/ Unsuppress(t) \/ ChooseLeg(t)
<1>. USE DEF DataOK, Aside, Steady, Ends, Watchers, At
<1>1. CASE OpenPrimary(t)
  BY <1>1 DEF OpenPrimary
<1>2. CASE ScheduleMixedTcpFallback(t)
  BY <1>2 DEF ScheduleMixedTcpFallback, OnlyRace, Races
<1>3. CASE StartMixedTcpFallback(t)
  BY <1>3 DEF StartMixedTcpFallback, OnlyRace, Races
<1>4. CASE OpenAlt(t)
  BY <1>4 DEF OpenAlt
<1>5. CASE EnterRace(t)
  BY <1>5 DEF EnterRace, OnlyRace, Races
<1>6. CASE UnlockRace(t)
  BY <1>6 DEF UnlockRace, OnlyRace, Races
<1>7. CASE HandleMixedTransportFailure(t)
  <2>1. race'.session_open = race.session_open
    BY <1>7, ZenonT(30) DEF HandleMixedTransportFailure, OnlyRace, Races
  <2>2. Head(todo[t]) \notin Ends \cup Watchers
    BY <1>7 DEF HandleMixedTransportFailure
  <2>. QED
    BY <1>7, <2>1, <2>2 DEF HandleMixedTransportFailure, OnlyRace
<1>8. CASE Promote(t)
  BY <1>8 DEF Promote, OnlyRace, Races
<1>. QED
  BY <1>1, <1>2, <1>3, <1>4, <1>5, <1>6, <1>7, <1>8 DEF ConnectStep

LEMMA AsideCallback ==
    ASSUME DataOK, NEW t \in Threads, CallbackStep(t)
    PROVE  Aside(t) \/ onTransportOpen(t) \/ StartKeepalive(t)
<1>. USE DEF DataOK, Aside, Steady, Ends, Watchers, At
<1>1. CASE MixedDeclareWinner(t)
  <2>1. race'.session_open = race.session_open
    BY <1>1, ZenonT(30) DEF MixedDeclareWinner, OnlyRace, Races
  <2>2. Head(todo[t]) \notin Ends \cup Watchers
    BY <1>1 DEF MixedDeclareWinner
  <2>. QED
    BY <1>1, <2>1, <2>2 DEF MixedDeclareWinner, OnlyRace
<1>2. CASE onTransportClose(t)
  BY <1>2 DEF onTransportClose, OnlyTodo
<1>3. CASE onTransportError(t)
  BY <1>3 DEF onTransportError, OnlyTodo
<1>4. CASE SessionOff(t)
  BY <1>4 DEF SessionOff, OnlyRace, Races
<1>5. CASE onTransportRecv(t)
  <2>1. \/ UNCHANGED <<ping, retry>>
        \/ /\ ping' = [ping EXCEPT !.answered = TRUE]
           /\ \E n \in {0, retry.reconnect_count} :
                retry' = [retry EXCEPT !.reconnect_count = n]
    BY <1>5 DEF onTransportRecv
  <2>2. ping'.armed = ping.armed
    BY <2>1 DEF Pings
  <2>3. /\ retry'.suppress_reconnect = retry.suppress_reconnect
        /\ retry'.user_closed = retry.user_closed
    BY <2>1 DEF Retries
  <2>. QED
    BY <1>5, <2>2, <2>3 DEF onTransportRecv
<1>6. CASE Tell(t)
  BY <1>6 DEF Tell, Pasts
<1>. QED
  BY <1>1, <1>2, <1>3, <1>4, <1>5, <1>6 DEF CallbackStep

LEMMA AsideRetry ==
    ASSUME DataOK, NEW t \in Threads, RetryStep(t)
    PROVE  \/ Aside(t) \/ FailFatal(t) \/ Report(t) \/ ScheduleReconnect(t)
           \/ Reconnecting(t) \/ Resume(t)
<1>. USE DEF DataOK, Aside, Steady, Ends, Watchers, At
<1>1. CASE ArmReconnect(t)
  BY <1>1 DEF ArmReconnect, OnlyRetry, Retries
<1>2. CASE SendLeave(t)
  BY <1>2 DEF SendLeave, OnlyLeave
<1>3. CASE AwaitLeave(t)
  BY <1>3 DEF AwaitLeave, OnlyLeave
<1>4. CASE CloseSocketAfterDisconnect(t)
  BY <1>4 DEF CloseSocketAfterDisconnect, OnlyLeave
<1>. QED
  BY <1>1, <1>2, <1>3, <1>4 DEF RetryStep

\* What a thread starts on is in todo at once; all but three of the starts are steady.
LEMMA SteadyStarts ==
    ASSUME DataOK, DelayElapses \/ ReconnectElapses \/ LeaveTimeout
                   \/ (\E l \in Legs : Transport(l))
    PROVE  Steady
<1>. USE DEF DataOK, Steady
<1>1. CASE DelayElapses
  BY <1>1 DEF DelayElapses, OnlyRace, Races
<1>2. CASE ReconnectElapses
  BY <1>2 DEF ReconnectElapses, Retries, Pasts
<1>3. CASE LeaveTimeout
  BY <1>3 DEF LeaveTimeout, OnlyLeave
<1>4. ASSUME NEW l \in Legs, Transport(l) PROVE Steady
  <2>1. CASE SocketOpens(l)
    BY <2>1 DEF SocketOpens, OnlySock
  <2>2. CASE SocketFails(l) \/ SocketClosedByPeer(l) \/ SocketStops(l) \/ SocketEnds(l)
    BY <2>2 DEF SocketFails, SocketClosedByPeer, SocketStops, SocketEnds, OnlySock
  <2>3. CASE SocketReceives(l)
    BY <2>3 DEF SocketReceives, Pasts
  <2>4. CASE SocketBreaks(l)
    BY <2>4, BreakMoves
  <2>. QED
    BY <1>4, <2>1, <2>2, <2>3, <2>4 DEF Transport
<1>. QED
  BY <1>1, <1>2, <1>3, <1>4

\* The functions end the suppression they begin, or report.
LEMMA FunctionsEnd ==
    /\ \E i \in 1..Len(beginConnect) : beginConnect[i] \in Ends
    /\ \E i \in 1..Len(failFatal) : failFatal[i] \in Watchers
    /\ LET resuming == << <<"reconnecting">> >> \o closeAllTransports("async")
                         \o << <<"resume">>, <<"armReconnect">> >>
       IN  \E i \in 1..Len(resuming) : resuming[i] \in Watchers
<1>1. ASSUME NEW p \in Follows, NEW c \in Sound, NEW end \in Seq(PlainSteps),
             Paired(<<p[1]>> \o c \o end)
      PROVE  LET seq == <<p[1]>> \o c \o end
             IN  \E i \in 1..Len(seq) : seq[i] = p[2]
  <2>. DEFINE seq == <<p[1]>> \o c \o end
  <2>1. <<p[1]>> \in Seq(PlainSteps) /\ c \in Seq(PlainSteps)
    BY StepShapes DEF Sound
  <2>2. 1 \in 1..Len(seq) /\ seq[1] = p[1]
    BY <2>1
  <2>. HIDE DEF seq
  <2>3. \A i \in 1..Len(seq) :
          seq[i] = p[1] => \E j \in (i + 1)..Len(seq) : seq[j] = p[2]
    BY <1>1 DEF Paired, seq
  <2>4. PICK j \in (1 + 1)..Len(seq) : seq[j] = p[2]
    BY <2>2, <2>3
  <2>5. j \in 1..Len(seq)
    OBVIOUS
  <2>. QED
    BY <2>4, <2>5 DEF seq
<1>2. closeAllTransports("join") \in Sound /\ closeAllTransports("async") \in Sound
  BY PlainFunctions
<1>3. \E i \in 1..Len(beginConnect) : beginConnect[i] \in Ends
  <2>1. << <<"unsuppress">>, <<"chooseLeg">>, <<"openPrimary">> >> \in Seq(PlainSteps)
    <3>1. <<"unsuppress">> \in PlainSteps /\ <<"chooseLeg">> \in PlainSteps
          /\ <<"openPrimary">> \in PlainSteps
      BY DEF PlainSteps, Steps, JoinSteps
    <3>. QED
      BY <3>1
  <2>2. Paired(beginConnect)
    BY PlainFunctions DEF Sound
  <2>3. << <<"beginConnect">>, <<"unsuppress">> >> \in Follows
    BY DEF Follows
  <2>4. \E i \in 1..Len(beginConnect) : beginConnect[i] = <<"unsuppress">>
    BY <1>1, <1>2, <2>1, <2>2, <2>3 DEF beginConnect
  <2>. QED
    BY <2>4 DEF Ends
<1>4. \E i \in 1..Len(failFatal) : failFatal[i] \in Watchers
  <2>1. << <<"report">> >> \in Seq(PlainSteps)
    BY StepShapes, FewSteps DEF Sound
  <2>2. Paired(failFatal)
    BY PlainFunctions DEF Sound
  <2>3. << <<"failFatal">>, <<"report">> >> \in Follows
    BY DEF Follows
  <2>4. \E i \in 1..Len(failFatal) : failFatal[i] = <<"report">>
    BY <1>1, <1>2, <2>1, <2>2, <2>3 DEF failFatal
  <2>. QED
    BY <2>4 DEF Watchers
<1>. DEFINE resuming == << <<"reconnecting">> >> \o closeAllTransports("async")
                         \o << <<"resume">>, <<"armReconnect">> >>
<1>5. \E i \in 1..Len(resuming) : resuming[i] \in Watchers
  <2>1. << <<"resume">>, <<"armReconnect">> >> \in Seq(PlainSteps)
    BY PairsSound DEF Sound
  <2>2. Paired(resuming)
    BY PlainFunctions DEF Sound
  <2>3. << <<"reconnecting">>, <<"resume">> >> \in Follows
    BY DEF Follows
  <2>4. \E i \in 1..Len(resuming) : resuming[i] = <<"resume">>
    BY <1>1, <1>2, <2>1, <2>2, <2>3
  <2>. HIDE DEF resuming
  <2>. QED
    BY <2>4 DEF Watchers
<1>. QED
  BY <1>3, <1>4, <1>5

LEMMA StepSuppress ==
    ASSUME TypeOK, PairsInv, SuppressInv, NEW t \in Threads, Step(t)
    PROVE  SuppressInv'
<1>. DataOK /\ TodoOK
  BY DEF TypeOK
<1>1. todo[t] # <<>>
  BY StepMoves
<1>2. PICK steps \in Seq(Steps) : Then(t, steps)
  BY StepMoves
<1>3. /\ Pends(Ends) /\ Head(todo[t]) \notin Ends => Pends(Ends)'
      /\ \A p \in Follows : Head(todo[t]) = p[1] /\ p[2] \in Ends => Pends(Ends)'
  BY <1>1, <1>2, ThenPends, PairPends
<1>4. CASE Aside(t)
  BY <1>3, <1>4 DEF Aside, Steady, SuppressInv
<1>5. CASE onTransportOpen(t) \/ StartKeepalive(t) \/ ChooseLeg(t) \/ ScheduleReconnect(t)
  <2>1. Head(todo[t]) \notin Ends
    <3>1. CASE onTransportOpen(t)
      BY <3>1 DEF onTransportOpen, At, Ends
    <3>2. CASE StartKeepalive(t) \/ ChooseLeg(t) \/ ScheduleReconnect(t)
      BY <3>2 DEF StartKeepalive, ChooseLeg, ScheduleReconnect, At, Ends
    <3>. QED
      BY <1>5, <3>1, <3>2
  <2>2. UNCHANGED <<retry, past>>
    BY <1>5 DEF onTransportOpen, StartKeepalive, ChooseLeg, ScheduleReconnect, OnlyRace,
         OnlyTodo
  <2>. QED
    BY <1>3, <2>1, <2>2 DEF SuppressInv
<1>6. CASE BeginConnect(t)
  <2>1. Head(todo[t]) = <<"beginConnect">>
    BY <1>6 DEF BeginConnect, At
  <2>. QED
    BY <1>3, <2>1 DEF SuppressInv, Follows, Ends
<1>7. CASE FailFatal(t)
  <2>1. Head(todo[t]) = <<"failFatal">>
    BY <1>7 DEF FailFatal, At
  <2>. QED
    BY <1>3, <2>1 DEF SuppressInv, Follows, Ends
<1>8. CASE Reconnecting(t)
  <2>1. Head(todo[t]) = <<"reconnecting">>
    BY <1>8 DEF Reconnecting, At
  <2>. QED
    BY <1>3, <2>1 DEF SuppressInv, Follows, Ends
<1>9. CASE Unsuppress(t) \/ Resume(t)
  BY <1>9 DEF Unsuppress, Resume, SuppressInv, DataOK, Retries
<1>10. CASE Report(t)
  BY <1>10 DEF Report, SuppressInv, DataOK, Pasts
<1>. QED
  BY <1>4, <1>5, <1>6, <1>7, <1>8, <1>9, <1>10,
     AsideClose, AsideConnect, AsideCallback, AsideRetry DEF Step

\* A start leaves the pending steps of the others alone, and adds its own.
LEMMA StartsMove ==
    ASSUME TodoOK, Wakeup \/ (\E l \in Legs : Transport(l)) \/ Connect \/ Disconnect, NEW S
    PROVE  Pends(S) => Pends(S)'
<1>1. PICK t \in Threads : PlainStart(t)
  BY PlainStarts
<1>2. Sound \subseteq Seq(Steps)
  BY DEF Sound, PlainSteps
<1>. QED
  BY <1>1, <1>2, StartPends DEF PlainStart

LEMMA StartSuppress ==
    ASSUME TypeOK, SuppressInv, Wakeup \/ (\E l \in Legs : Transport(l)) \/ Connect \/ Disconnect
    PROVE  SuppressInv'
<1>. DataOK /\ TodoOK
  BY DEF TypeOK
<1>1. Pends(Ends) => Pends(Ends)'
  BY StartsMove
<1>2. CASE DelayElapses \/ ReconnectElapses \/ LeaveTimeout \/ (\E l \in Legs : Transport(l))
  BY <1>1, <1>2, SteadyStarts DEF Steady, SuppressInv
<1>3. CASE PingTimeout
  BY <1>1, <1>3 DEF PingTimeout, SuppressInv
<1>4. CASE Connect
  <2>1. todo["app"] = <<>> /\ todo' = [todo EXCEPT !["app"] = beginConnect]
    BY <1>4 DEF Connect, Starts
  <2>2. "app" \in Threads /\ beginConnect \in Seq(Steps)
    BY PlainFunctions DEF Threads, Sound, PlainSteps
  <2>3. Pends(Ends)'
    BY <2>1, <2>2, StartPends, FunctionsEnd
  <2>. QED
    BY <2>3 DEF SuppressInv
<1>5. CASE Disconnect
  <2>1. past'.told = past.told
    BY <1>5 DEF Disconnect, DataOK, Pasts
  <2>2. retry'.suppress_reconnect = retry.suppress_reconnect
    BY <1>5 DEF Disconnect, DataOK, Retries
  <2>. QED
    BY <1>1, <2>1, <2>2 DEF SuppressInv
<1>. QED
  BY <1>2, <1>3, <1>4, <1>5 DEF Wakeup

\* No thread is inside the Signal, so no step is pending.
LEMMA QuietPends == ASSUME Quiet, NEW S PROVE ~Pends(S)
BY DEF Quiet, Pends

LEMMA PairsStep == TypeOK /\ PairsInv /\ [Next]_vars => PairsInv'
<1>. SUFFICES ASSUME TypeOK, PairsInv, [Next]_vars PROVE PairsInv'
  OBVIOUS
<1>. TodoOK
  BY DEF TypeOK
<1>1. ASSUME NEW t \in Threads, Step(t) PROVE PairsInv'
  <2>1. Plain(t) \/ CloseCurlJoin(t) \/ JoinCurl(t) \/ UnlockCurl(t)
    BY <1>1, PlainClose, PlainConnect, PlainCallback, PlainRetry DEF Step
  <2>. QED
    BY <2>1, PlainPairs, JoinPairs
<1>2. CASE Wakeup \/ (\E l \in Legs : Transport(l)) \/ Connect \/ Disconnect
  BY <1>2, PlainStarts, PlainPairs
<1>3. CASE UNCHANGED vars
  BY <1>3 DEF vars, PairsInv
<1>. QED
  BY <1>1, <1>2, <1>3 DEF Next, Busy

LEMMA PairsInit == Init => PairsInv
BY DEF Init, PairsInv, Paired

\* Reconnection is suppressed only while a thread is inside a section that ends the
\* suppression or reports, or after the application was told (SuppressedOnlyWhenTold).
THEOREM SuppressedOnlyWhenToldCorrect == Spec => []SuppressedOnlyWhenTold
<1>1. Init => SuppressInv
  BY DEF Init, SuppressInv
<1>2. TypeOK /\ PairsInv /\ SuppressInv /\ [Next]_vars => SuppressInv'
  <2>. SUFFICES ASSUME TypeOK, PairsInv, SuppressInv, [Next]_vars PROVE SuppressInv'
    OBVIOUS
  <2>1. CASE UNCHANGED vars
    BY <2>1 DEF vars, SuppressInv, Pends
  <2>. QED
    BY <2>1, StepSuppress, StartSuppress DEF Next, Busy
<1>3. SuppressInv => SuppressedOnlyWhenTold
  BY QuietPends DEF SuppressInv, SuppressedOnlyWhenTold
<1>. QED
  BY <1>1, <1>2, <1>3, PairsInit, PairsStep, TypeCorrect, PTL DEF Spec

\* A session opens with a thread that is going to start the keepalive.
LEMMA OpensWatched ==
    ASSUME TypeOK, NEW t \in Threads, onTransportOpen(t), WatchInv
    PROVE  WatchInv'
<1>. DataOK /\ TodoOK
  BY DEF TypeOK
<1>1. PICK l \in Legs : At(t, <<"opened", l>>) /\ todo[t] # <<>>
  BY DEF onTransportOpen, At
<1>2. UNCHANGED <<retry, ping>>
  BY DEF onTransportOpen, OnlyRace
<1>3. Head(todo[t]) \notin Watchers
  BY <1>1 DEF At, Watchers
<1>4. Pends(Watchers) => Pends(Watchers)'
  <2>1. PICK steps \in Seq(Steps) : Then(t, steps)
    <3>1. Head(todo[t])[1] = "opened"
      BY <1>1 DEF At
    <3>2. Step(t)
      BY <1>1, <3>1 DEF Step, CallbackStep, Runs
    <3>. QED
      BY <3>2, StepMoves
  <2>. QED
    BY <1>1, <1>3, <2>1, ThenPends
<1>5. CASE race'.session_open => race.session_open
  BY <1>2, <1>4, <1>5 DEF WatchInv
<1>6. CASE \E k \in Legs : Then(t, << <<"declareWinner", k>>, <<"startKeepalive">> >>)
           \/ Then(t, << <<"startKeepalive">> >>)
  <2>1. PICK steps \in Seq(Steps) :
          Then(t, steps) /\ \E i \in 1..Len(steps) : steps[i] = <<"startKeepalive">>
    <3>1. /\ << <<"startKeepalive">> >> \in Seq(Steps)
          /\ \A k \in Legs : << <<"declareWinner", k>>, <<"startKeepalive">> >> \in Seq(Steps)
      <4>1. /\ << <<"startKeepalive">> >> \in Sound
            /\ \A k \in Legs : << <<"declareWinner", k>>, <<"startKeepalive">> >> \in Sound
        BY StepShapes, FewSteps
      <4>2. Sound \subseteq Seq(Steps)
        BY DEF Sound, PlainSteps
      <4>. QED
        BY <4>1, <4>2
    <3>2. /\ << <<"startKeepalive">> >>[1] = <<"startKeepalive">>
          /\ 1 \in 1..Len(<< <<"startKeepalive">> >>)
          /\ \A k \in Legs : LET seq == << <<"declareWinner", k>>, <<"startKeepalive">> >>
                             IN  2 \in 1..Len(seq) /\ seq[2] = <<"startKeepalive">>
      OBVIOUS
    <3>. QED
      BY <1>6, <3>1, <3>2
  <2>2. <<"startKeepalive">> \in Watchers
    BY DEF Watchers
  <2>3. Pends(Watchers)'
    BY <1>1, <2>1, <2>2, ThenPends
  <2>. QED
    BY <2>3 DEF WatchInv
<1>7. \/ race'.session_open => race.session_open
      \/ \E k \in Legs : Then(t, << <<"declareWinner", k>>, <<"startKeepalive">> >>)
      \/ Then(t, << <<"startKeepalive">> >>)
  BY DEF onTransportOpen, DataOK, Races
<1>. QED
  BY <1>5, <1>6, <1>7

LEMMA StepWatch ==
    ASSUME TypeOK, PairsInv, WatchInv, NEW t \in Threads, Step(t)
    PROVE  WatchInv'
<1>. DataOK /\ TodoOK
  BY DEF TypeOK
<1>1. todo[t] # <<>>
  BY StepMoves
<1>2. PICK steps \in Seq(Steps) : Then(t, steps)
  BY StepMoves
<1>3. /\ Pends(Watchers) /\ Head(todo[t]) \notin Watchers => Pends(Watchers)'
      /\ \A p \in Follows :
            Head(todo[t]) = p[1] /\ p[2] \in Watchers => Pends(Watchers)'
  BY <1>1, <1>2, ThenPends, PairPends
<1>4. CASE Aside(t)
  BY <1>3, <1>4 DEF Aside, Steady, WatchInv
<1>5. CASE onTransportOpen(t)
  BY <1>5, OpensWatched
<1>6. CASE StartKeepalive(t)
  BY <1>6 DEF StartKeepalive, WatchInv
<1>7. CASE BeginConnect(t) \/ FailFatal(t) \/ Reconnecting(t)
  BY <1>7 DEF BeginConnect, FailFatal, Reconnecting, WatchInv, DataOK, Retries
<1>8. CASE Unsuppress(t)
  <2>1. Head(todo[t]) = <<"unsuppress">>
    BY <1>8 DEF Unsuppress, At
  <2>. QED
    BY <1>3, <2>1 DEF WatchInv, Follows, Watchers
<1>9. CASE ChooseLeg(t) \/ Report(t) \/ Resume(t)
  <2>1. ~race'.session_open
    BY <1>9 DEF ChooseLeg, Report, Resume, DataOK, Races
  <2>. QED
    BY <2>1 DEF WatchInv
<1>10. CASE ScheduleReconnect(t)
  <2>1. UNCHANGED <<race, retry, ping>>
    BY <1>10 DEF ScheduleReconnect, OnlyTodo
  <2>2. CASE retry.user_closed \/ retry.suppress_reconnect
    BY <2>1, <2>2 DEF WatchInv
  <2>. DEFINE resuming == << <<"reconnecting">> >> \o closeAllTransports("async")
                           \o << <<"resume">>, <<"armReconnect">> >>
  <2>3. CASE ~(retry.user_closed \/ retry.suppress_reconnect)
    <3>1. Then(t, failFatal) \/ Then(t, resuming)
      BY <1>10, <2>3 DEF ScheduleReconnect
    <3>2. failFatal \in Seq(Steps) /\ resuming \in Seq(Steps)
      BY PlainFunctions DEF Sound, PlainSteps
    <3>3. /\ \E i \in 1..Len(failFatal) : failFatal[i] \in Watchers
          /\ \E i \in 1..Len(resuming) : resuming[i] \in Watchers
      BY FunctionsEnd
    <3>. HIDE DEF resuming
    <3>4. Pends(Watchers)'
      BY <1>1, <3>1, <3>2, <3>3, ThenPends
    <3>. QED
      BY <3>4 DEF WatchInv
  <2>. QED
    BY <2>2, <2>3
<1>. QED
  BY <1>4, <1>5, <1>6, <1>7, <1>8, <1>9, <1>10,
     AsideClose, AsideConnect, AsideCallback, AsideRetry DEF Step

LEMMA StartWatch ==
    ASSUME TypeOK, WatchInv, Wakeup \/ (\E l \in Legs : Transport(l)) \/ Connect \/ Disconnect
    PROVE  WatchInv'
<1>. DataOK /\ TodoOK
  BY DEF TypeOK
<1>1. Pends(Watchers) => Pends(Watchers)'
  BY StartsMove
<1>2. CASE DelayElapses \/ ReconnectElapses \/ LeaveTimeout \/ (\E l \in Legs : Transport(l))
  BY <1>1, <1>2, SteadyStarts DEF Steady, WatchInv
<1>3. CASE PingTimeout
  <2>1. PICK t \in Detached :
           /\ todo[t] = <<>>
           /\ todo' = [todo EXCEPT ![t] = << <<"scheduleReconnect">> >>]
    BY <1>3 DEF PingTimeout, Starts
  <2>2. t \in Threads /\ << <<"scheduleReconnect">> >> \in Seq(Steps)
    <3>1. << <<"scheduleReconnect">> >> \in Sound
      BY StepShapes, FewSteps
    <3>. QED
      BY <3>1, ThreadNames DEF Sound, PlainSteps
  <2>3. \E i \in 1..Len(<< <<"scheduleReconnect">> >>) :
           << <<"scheduleReconnect">> >>[i] \in Watchers
    BY DEF Watchers
  <2>4. Pends(Watchers)'
    BY <2>1, <2>2, <2>3, StartPends
  <2>. QED
    BY <2>4 DEF WatchInv
<1>4. CASE Connect
  <2>1. /\ retry'.suppress_reconnect = retry.suppress_reconnect
        /\ retry'.user_closed = retry.user_closed
    BY <1>4 DEF Connect, DataOK, Retries
  <2>2. UNCHANGED <<race, ping>>
    BY <1>4 DEF Connect
  <2>. QED
    BY <1>1, <2>1, <2>2 DEF WatchInv
<1>5. CASE Disconnect
  <2>1. retry'.user_closed
    BY <1>5 DEF Disconnect, DataOK, Retries
  <2>. QED
    BY <2>1 DEF WatchInv
<1>. QED
  BY <1>2, <1>3, <1>4, <1>5 DEF Wakeup

\* A session that is open at rest, neither closed by the application nor given up,
\* has its keepalive thread (Watched).
THEOREM WatchedCorrect == Spec => []Watched
<1>1. Init => WatchInv
  BY DEF Init, WatchInv
<1>2. TypeOK /\ PairsInv /\ WatchInv /\ [Next]_vars => WatchInv'
  <2>. SUFFICES ASSUME TypeOK, PairsInv, WatchInv, [Next]_vars PROVE WatchInv'
    OBVIOUS
  <2>1. CASE UNCHANGED vars
    BY <2>1 DEF vars, WatchInv, Pends
  <2>. QED
    BY <2>1, StepWatch, StartWatch DEF Next, Busy
<1>3. WatchInv => Watched
  BY QuietPends DEF WatchInv, Watched
<1>. QED
  BY <1>1, <1>2, <1>3, PairsInit, PairsStep, TypeCorrect, PTL DEF Spec

-------------------------------------------------------------------------------
(* A session that is open lives.  Four invariants carry this: when a thread    *)
(* is in a callback that its socket opened, the socket lives; what takes an    *)
(* open session down is on its way as long as its socket is dead; the first    *)
(* attempt begins with nobody else about; and in it the quic leg fails once.   *)

\* The session of l is up: its socket said so, and has not reported an end.
Live(l) == sock[l].notified /\ ~sock[l].reported

\* The steps of a callback of an open socket; the end of a beginConnect; the ways
\* to fail of the leg l; and what can come of a failure of the quic leg.
Callbacks == {"opened", "declareWinner"} \X Legs
Begins    == {<<"chooseLeg">>, <<"openPrimary">>}
Fails(l)  == ({"closed"} \X {l} \X {"local", "remote", "token"})
             \cup ({"error"} \X {l} \X {"security", "timeout", "other"})
             \cup ({"failure"} \X {l} \X {"fallback", "none"} \X {"fatal", "reconnect"})
Promotes  == {"promote"} \X {"fatal", "reconnect"}
Tokens    == Fails("Quic") \cup Promotes

\* Steps that are none of these: most functions consist of them.
Mild == Steps \ (Callbacks \cup Begins \cup Tokens)
Milds == Seq(Mild)

LEMMA MildShapes ==
    /\ \A s \in {"allClosed", "report", "failFatal", "beginConnect", "unsuppress",
                 "sessionOff", "scheduleReconnect", "reconnecting", "resume",
                 "armReconnect", "joinCurl", "unlockCurl", "joinQuic", "scheduleFallback",
                 "startFallback", "openAlt", "enterRace", "unlockRace", "startKeepalive",
                 "tell", "sendLeave", "awaitLeave", "closeAfterDisconnect"} : <<s>> \in Mild
    /\ \A s \in {"cancelMixedRace", "closeCurl", "closeQuic"}, how \in {"join", "async"} :
          <<s, how>> \in Mild
    /\ \A how \in {"local", "remote", "token"} : <<"closed", "Curl", how>> \in Mild
    /\ \A k \in {"security", "timeout", "other"} : <<"error", "Curl", k>> \in Mild
    /\ \A l \in Legs, m \in {"ok", "leave", "refused"} : <<"recv", l, m>> \in Mild
    /\ \A f \in {"fallback", "none"}, k \in {"fatal", "reconnect"} :
          <<"failure", "Curl", f, k>> \in Mild
BY DEF Mild, Steps, Callbacks, Begins, Tokens, Fails, Promotes, Legs

LEMMA FewMild ==
    /\ <<>> \in Milds
    /\ \A a \in Mild : <<a>> \in Milds
    /\ \A a, b \in Mild : <<a, b>> \in Milds
    /\ \A a, b, c, d \in Mild : <<a, b, c, d>> \in Milds
BY DEF Milds

LEMMA MildFunctions ==
    /\ \A how \in {"join", "async"} : closeAllTransports(how) \in Milds
    /\ \A l \in Legs : closeAsync(l) \in Milds
    /\ failFatal \in Milds
    /\ \A k : afterFailure(k) \in Milds
    /\ << <<"reconnecting">> >> \o closeAllTransports("async")
          \o << <<"resume">>, <<"armReconnect">> >> \in Milds
<1>1. ASSUME NEW how \in {"join", "async"} PROVE closeAllTransports(how) \in Milds
  BY MildShapes, FewMild DEF closeAllTransports
<1>2. ASSUME NEW l \in Legs PROVE closeAsync(l) \in Milds
  <2>1. CASE l = "Curl"
    BY <2>1, MildShapes, FewMild DEF closeAsync
  <2>2. CASE l # "Curl"
    BY <2>2, MildShapes, FewMild DEF closeAsync
  <2>. QED
    BY <2>1, <2>2
<1>3. ASSUME NEW a \in Milds, NEW c \in Milds
      PROVE  a \o closeAllTransports("async") \o c \in Milds
  <2>1. closeAllTransports("async") \in Milds
    BY <1>1
  <2>. QED
    BY <2>1 DEF Milds
<1>4. failFatal \in Milds
  <2>1. << <<"failFatal">> >> \in Milds /\ << <<"report">> >> \in Milds
    BY MildShapes, FewMild
  <2>. QED
    BY <1>3, <2>1 DEF failFatal
<1>5. << <<"reconnecting">> >> \o closeAllTransports("async")
        \o << <<"resume">>, <<"armReconnect">> >> \in Milds
  <2>1. << <<"reconnecting">> >> \in Milds
        /\ << <<"resume">>, <<"armReconnect">> >> \in Milds
    BY MildShapes, FewMild
  <2>. QED
    BY <1>3, <2>1
<1>6. ASSUME NEW k PROVE afterFailure(k) \in Milds
  <2>1. << <<"sessionOff">>, <<"scheduleReconnect">> >> \in Milds
    BY MildShapes, FewMild
  <2>. QED
    BY <1>4, <2>1 DEF afterFailure
<1>. QED
  BY <1>1, <1>2, <1>4, <1>5, <1>6

\* Thread t goes on with mild steps in place of its first one.
Mildly(t) == \E steps \in Milds : Then(t, steps)

\* The steps a thread puts in place are mild, except in a callback that opens
\* a session, when the quic leg fails, and when its failure starts the TCP leg.
Turns(t) ==
    \/ \E l \in Legs : /\ Head(todo[t]) = <<"opened", l>>
                       /\ Then(t, << <<"declareWinner", l>>, <<"startKeepalive">> >>)
    \/ \E f \in Fails("Quic") : /\ Then(t, <<f>>)
                                /\ \/ Head(todo[t]) \in Fails("Quic")
                                   \/ JoinQuic(t) /\ ~sock["Quic"].reported
                                   \/ OpenPrimary(t)
    \/ \E p \in Promotes : /\ Then(t, << <<"startFallback">>, p>>)
                           /\ Head(todo[t]) \in Fails("Quic") /\ mixedMode

LEMMA CloseTurns ==
    ASSUME NEW t \in Threads, CloseStep(t)
    PROVE  (Mildly(t) \/ Turns(t)) /\ Head(todo[t]) \notin Begins
<1>. USE DEF Mildly, At, Begins
<1>1. CASE CancelMixedRace(t)
  <2>1. << <<"closeCurl", "join">> >> \in Milds /\ << <<"closeCurl", "async">> >> \in Milds
        /\ <<>> \in Milds
    BY MildShapes, FewMild
  <2>. QED
    BY <1>1, <2>1 DEF CancelMixedRace
<1>2. CASE CloseCurlAsync(t) \/ CloseQuicAsync(t) \/ UnlockCurl(t) \/ AllClosed(t)
  BY <1>2, FewMild DEF CloseCurlAsync, CloseQuicAsync, UnlockCurl, AllClosed
<1>3. CASE CloseCurlJoin(t)
  <2>1. << <<"joinCurl">> >> \in Milds
    BY MildShapes, FewMild
  <2>. QED
    BY <1>3, <2>1 DEF CloseCurlJoin
<1>4. CASE CloseQuicJoin(t)
  <2>1. << <<"joinQuic">> >> \in Milds
    BY MildShapes, FewMild
  <2>. QED
    BY <1>4, <2>1 DEF CloseQuicJoin
<1>5. CASE JoinCurl(t)
  <2>1. << <<"unlockCurl">> >> \in Milds
        /\ << <<"closed", "Curl", "local">>, <<"unlockCurl">> >> \in Milds
    BY MildShapes, FewMild
  <2>. QED
    BY <1>5, <2>1 DEF JoinCurl
<1>6. CASE JoinQuic(t)
  <2>1. CASE sock["Quic"].reported
    BY <1>6, <2>1, FewMild DEF JoinQuic
  <2>2. CASE ~sock["Quic"].reported
    <3>1. <<"closed", "Quic", "local">> \in Fails("Quic")
      BY DEF Fails
    <3>2. Then(t, << <<"closed", "Quic", "local">> >>) /\ Head(todo[t]) = <<"joinQuic">>
      BY <1>6, <2>2 DEF JoinQuic
    <3>. QED
      BY <1>6, <2>2, <3>1, <3>2 DEF Turns
  <2>. QED
    BY <2>1, <2>2
<1>. QED
  BY <1>1, <1>2, <1>3, <1>4, <1>5, <1>6 DEF CloseStep

LEMMA ConnectTurns ==
    ASSUME NEW t \in Threads, ConnectStep(t)
    PROVE  /\ Mildly(t) \/ Turns(t)
           /\ Head(todo[t]) \in Begins => ChooseLeg(t) \/ OpenPrimary(t)
<1>. USE DEF Mildly, At, Begins
<1>1. CASE BeginConnect(t) \/ Unsuppress(t) \/ ChooseLeg(t) \/ OpenAlt(t) \/ UnlockRace(t)
  BY <1>1, FewMild DEF BeginConnect, Unsuppress, ChooseLeg, OpenAlt, UnlockRace
<1>2. CASE OpenPrimary(t)
  <2>1. CASE Then(t, <<>>)
    BY <1>2, <2>1, FewMild
  <2>2. CASE Then(t, << <<"scheduleFallback">> >>)
    BY <1>2, <2>2, FewMild, MildShapes
  <2>3. ASSUME NEW k \in {"timeout", "other"}, Then(t, << <<"error", "Quic", k>> >>)
        PROVE  Turns(t)
    <3>1. <<"error", "Quic", k>> \in Fails("Quic")
      BY DEF Fails
    <3>. QED
      BY <1>2, <2>3, <3>1 DEF Turns
  <2>. QED
    BY <1>2, <2>1, <2>2, <2>3 DEF OpenPrimary, OpenQuic
<1>3. CASE ScheduleMixedTcpFallback(t)
  <2>1. << <<"startFallback">> >> \in Milds
    BY MildShapes, FewMild
  <2>. QED
    BY <1>3, <2>1, FewMild DEF ScheduleMixedTcpFallback
<1>4. CASE StartMixedTcpFallback(t)
  <2>1. << <<"openAlt">>, <<"enterRace">> >> \in Milds
    BY MildShapes, FewMild
  <2>. QED
    BY <1>4, <2>1, FewMild DEF StartMixedTcpFallback
<1>5. CASE EnterRace(t)
  <2>1. << <<"closeCurl", "async">>, <<"unlockRace">> >> \in Milds
    BY MildShapes, FewMild
  <2>. QED
    BY <1>5, <2>1, FewMild DEF EnterRace
<1>6. CASE HandleMixedTransportFailure(t)
  <2>1. PICK l \in Legs, fallback \in {"fallback", "none"}, k \in {"fatal", "reconnect"} :
          /\ Head(todo[t]) = <<"failure", l, fallback, k>>
          /\ \/ Then(t, <<>>)
             \/ mixedMode /\ l = "Quic" /\ Then(t, << <<"startFallback">>, <<"promote", k>> >>)
             \/ Then(t, afterFailure(k))
    BY <1>6 DEF HandleMixedTransportFailure
  <2>2. <<"promote", k>> \in Promotes /\ (l = "Quic" => <<"failure", l, fallback, k>> \in Fails("Quic"))
    BY DEF Promotes, Fails
  <2>3. Head(todo[t]) \notin Begins
    BY <2>1
  <2>4. Mildly(t) \/ Turns(t)
    BY <2>1, <2>2, FewMild, MildFunctions DEF Turns
  <2>. QED
    BY <2>3, <2>4
<1>7. CASE Promote(t)
  <2>1. Mildly(t)
    BY <1>7, FewMild, MildFunctions DEF Promote
  <2>. QED
    BY <1>7, <2>1 DEF Promote
<1>. QED
  BY <1>1, <1>2, <1>3, <1>4, <1>5, <1>6, <1>7 DEF ConnectStep

LEMMA CallbackTurns ==
    ASSUME NEW t \in Threads, CallbackStep(t)
    PROVE  (Mildly(t) \/ Turns(t)) /\ Head(todo[t]) \notin Begins
<1>. USE DEF Mildly, At, Begins
<1>1. CASE onTransportOpen(t)
  <2>1. PICK l \in Legs :
          /\ Head(todo[t]) = <<"opened", l>>
          /\ \/ Then(t, <<>>) \/ Then(t, closeAsync(l)) \/ Then(t, closeAsync("Curl"))
             \/ Then(t, << <<"declareWinner", l>>, <<"startKeepalive">> >>)
             \/ Then(t, << <<"startKeepalive">> >>)
    BY <1>1 DEF onTransportOpen
  <2>2. << <<"startKeepalive">> >> \in Milds /\ "Curl" \in Legs
    BY MildShapes, FewMild DEF Legs
  <2>3. Mildly(t) \/ Turns(t)
    BY <2>1, <2>2, FewMild, MildFunctions DEF Turns
  <2>. QED
    BY <2>1, <2>3
<1>2. CASE MixedDeclareWinner(t)
  <2>1. PICK l \in Legs :
          /\ Head(todo[t]) = <<"declareWinner", l>>
          /\ \/ Then(t, <<>>) \/ Then(t, closeAsync("Curl"))
             \/ isAlt(l) /\ Then(t, closeAsync(race.primary_leg))
    BY <1>2 DEF MixedDeclareWinner
  <2>2. isAlt(l) => race.primary_leg \in Legs
    BY DEF isAlt, Legs
  <2>3. Mildly(t)
    BY <2>1, <2>2, FewMild, MildFunctions DEF Legs
  <2>. QED
    BY <2>1, <2>3
<1>3. CASE StartKeepalive(t) \/ SessionOff(t) \/ Tell(t)
  BY <1>3, FewMild DEF StartKeepalive, SessionOff, Tell
<1>4. ASSUME NEW l \in Legs, NEW s \in Fails(l), NEW f \in {"fallback", "none"},
             NEW k \in {"fatal", "reconnect"}, Head(todo[t]) = s,
             Then(t, <<>>) \/ Then(t, failFatal) \/ Then(t, << <<"failure", l, f, k>> >>)
      PROVE  Mildly(t) \/ Turns(t)
  <2>1. CASE l = "Curl"
    <3>1. << <<"failure", "Curl", f, k>> >> \in Milds
      BY MildShapes, FewMild
    <3>. QED
      BY <1>4, <2>1, <3>1, FewMild, MildFunctions
  <2>2. CASE l = "Quic"
    <3>1. <<"failure", "Quic", f, k>> \in Fails("Quic")
      BY DEF Fails
    <3>. QED
      BY <1>4, <2>2, <3>1, FewMild, MildFunctions DEF Turns
  <2>. QED
    BY <2>1, <2>2 DEF Legs
<1>5. CASE onTransportClose(t)
  <2>1. PICK l \in Legs, how \in {"local", "remote", "token"}, f \in {"fallback", "none"} :
          /\ Head(todo[t]) = <<"closed", l, how>>
          /\ Then(t, <<>>) \/ Then(t, failFatal) \/ Then(t, << <<"failure", l, f, "reconnect">> >>)
    BY <1>5 DEF onTransportClose
  <2>2. <<"closed", l, how>> \in Fails(l)
    BY DEF Fails
  <2>3. Mildly(t) \/ Turns(t)
    BY <1>4, <2>1, <2>2
  <2>. QED
    BY <2>1, <2>3
<1>6. CASE onTransportError(t)
  <2>1. PICK l \in Legs, e \in {"security", "timeout", "other"}, k \in {"fatal", "reconnect"} :
          /\ Head(todo[t]) = <<"error", l, e>>
          /\ Then(t, <<>>) \/ Then(t, failFatal) \/ Then(t, << <<"failure", l, "fallback", k>> >>)
    BY <1>6 DEF onTransportError
  <2>2. <<"error", l, e>> \in Fails(l)
    BY DEF Fails
  <2>3. Mildly(t) \/ Turns(t)
    BY <1>4, <2>1, <2>2
  <2>. QED
    BY <2>1, <2>3
<1>7. CASE onTransportRecv(t)
  <2>1. PICK l \in Legs, m \in {"ok", "leave", "refused"} :
          /\ Head(todo[t]) = <<"recv", l, m>>
          /\ \/ Then(t, <<>>)
             \/ Then(t, << <<"closeAfterDisconnect">> >> \o << <<"tell">> >>)
             \/ Then(t, closeAllTransports("async") \o << <<"tell">> >>)
             \/ Then(t, << <<"closeAfterDisconnect">> >>)
    BY <1>7 DEF onTransportRecv
  <2>2. << <<"closeAfterDisconnect">> >> \in Milds /\ << <<"tell">> >> \in Milds
        /\ closeAllTransports("async") \in Milds
    BY MildShapes, FewMild, MildFunctions
  <2>3. /\ << <<"closeAfterDisconnect">> >> \o << <<"tell">> >> \in Milds
        /\ closeAllTransports("async") \o << <<"tell">> >> \in Milds
    BY <2>2 DEF Milds
  <2>4. Mildly(t)
    BY <2>1, <2>2, <2>3, FewMild
  <2>. QED
    BY <2>1, <2>4
<1>. QED
  BY <1>1, <1>2, <1>3, <1>5, <1>6, <1>7 DEF CallbackStep

LEMMA RetryTurns ==
    ASSUME NEW t \in Threads, RetryStep(t)
    PROVE  Mildly(t) /\ Head(todo[t]) \notin Begins
<1>. USE DEF Mildly, At, Begins
<1>1. CASE FailFatal(t) \/ Report(t) \/ Reconnecting(t) \/ Resume(t) \/ ArmReconnect(t)
           \/ AwaitLeave(t)
  BY <1>1, FewMild DEF FailFatal, Report, Reconnecting, Resume, ArmReconnect, AwaitLeave
<1>2. CASE ScheduleReconnect(t)
  BY <1>2, FewMild, MildFunctions DEF ScheduleReconnect
<1>3. CASE SendLeave(t)
  <2>1. << <<"awaitLeave">> >> \in Milds /\ << <<"closeAfterDisconnect">> >> \in Milds
    BY MildShapes, FewMild
  <2>. QED
    BY <1>3, <2>1 DEF SendLeave
<1>4. CASE CloseSocketAfterDisconnect(t)
  BY <1>4, FewMild, MildFunctions DEF CloseSocketAfterDisconnect
<1>. QED
  BY <1>1, <1>2, <1>3, <1>4 DEF RetryStep

\* Whatever a thread does, its steps turn out so.
LEMMA StepTurns ==
    ASSUME NEW t \in Threads, Step(t)
    PROVE  /\ Mildly(t) \/ Turns(t)
           /\ Head(todo[t]) \in Begins => ChooseLeg(t) \/ OpenPrimary(t)
BY CloseTurns, ConnectTurns, CallbackTurns, RetryTurns DEF Step

\* A thread t that was idle has started on these steps.
Started(t, steps) == todo[t] = <<>> /\ todo' = [todo EXCEPT ![t] = steps]

\* What threads start on: mild steps, the callback of a socket that opened, of
\* the quic socket that failed, or a new attempt.
StartTurns ==
    \/ \E t \in Threads, steps \in Milds : Started(t, steps)
    \/ \E l \in Legs : SocketOpens(l) /\ Started(l, << <<"opened", l>> >>)
    \/ \E f \in Fails("Quic") :
          /\ SocketFails("Quic") \/ SocketClosedByPeer("Quic") \/ SocketStops("Quic")
          /\ Started("Quic", <<f>>)
    \/ \E t \in {"app"} \cup Detached :
          Started(t, beginConnect) /\ past'.attempts = past.attempts + 1

LEMMA StartsTurn ==
    ASSUME DataOK, Wakeup \/ (\E l \in Legs : Transport(l)) \/ Connect \/ Disconnect
    PROVE  StartTurns
<1>. USE DEF Starts, Started
<1>1. CASE DelayElapses
  <2>1. << <<"startFallback">> >> \in Milds
    BY MildShapes, FewMild
  <2>. QED
    BY <1>1, <2>1 DEF DelayElapses, StartTurns, Threads
<1>2. CASE ReconnectElapses
  <2>1. past'.attempts = past.attempts + 1
    BY <1>2 DEF ReconnectElapses, DataOK, Pasts
  <2>. QED
    BY <1>2, <2>1, FewMild DEF ReconnectElapses, StartTurns, Threads
<1>3. CASE PingTimeout
  <2>1. << <<"scheduleReconnect">> >> \in Milds
    BY MildShapes, FewMild
  <2>. QED
    BY <1>3, <2>1 DEF PingTimeout, StartTurns, Threads
<1>4. CASE LeaveTimeout
  <2>1. << <<"closeAfterDisconnect">> >> \in Milds
    BY MildShapes, FewMild
  <2>. QED
    BY <1>4, <2>1, FewMild DEF LeaveTimeout, StartTurns, Threads
<1>5. CASE Connect
  <2>1. past'.attempts = past.attempts + 1
    BY <1>5 DEF Connect, DataOK, Pasts
  <2>. QED
    BY <1>5, <2>1 DEF Connect, StartTurns
<1>6. CASE Disconnect
  <2>1. << <<"sendLeave">> >> \in Milds
    BY MildShapes, FewMild
  <2>. QED
    BY <1>6, <2>1 DEF Disconnect, StartTurns, Threads
<1>7. ASSUME NEW l \in Legs, Transport(l) PROVE StartTurns
  <2>. l \in Threads
    BY DEF Threads
  <2>1. CASE SocketOpens(l)
    BY <2>1 DEF SocketOpens, StartTurns
  <2>2. ASSUME NEW f \in Fails(l), f \in Mild \/ l = "Quic", Started(l, <<f>>),
               SocketFails(l) \/ SocketClosedByPeer(l) \/ SocketStops(l)
        PROVE  StartTurns
    BY <2>2, FewMild DEF StartTurns
  <2>3. CASE SocketFails(l)
    <3>1. PICK k \in {"security", "timeout", "other"} : Started(l, << <<"error", l, k>> >>)
      BY <2>3 DEF SocketFails
    <3>2. <<"error", l, k>> \in Fails(l) /\ (<<"error", l, k>> \in Mild \/ l = "Quic")
      BY MildShapes DEF Fails, Legs
    <3>. QED
      BY <2>2, <2>3, <3>1, <3>2
  <2>4. CASE SocketClosedByPeer(l)
    <3>1. PICK how \in {"remote", "token"} : Started(l, << <<"closed", l, how>> >>)
      BY <2>4 DEF SocketClosedByPeer
    <3>2. <<"closed", l, how>> \in Fails(l) /\ (<<"closed", l, how>> \in Mild \/ l = "Quic")
      BY MildShapes DEF Fails, Legs
    <3>. QED
      BY <2>2, <2>4, <3>1, <3>2
  <2>5. CASE SocketStops(l)
    <3>1. Started(l, << <<"closed", l, "local">> >>)
      BY <2>5 DEF SocketStops
    <3>2. <<"closed", l, "local">> \in Fails(l) /\ (<<"closed", l, "local">> \in Mild \/ l = "Quic")
      BY MildShapes DEF Fails, Legs
    <3>. QED
      BY <2>2, <2>5, <3>1, <3>2
  <2>6. CASE SocketEnds(l)
    BY <2>6, FewMild DEF SocketEnds, StartTurns
  <2>7. CASE SocketReceives(l)
    <3>1. \A m \in {"ok", "leave", "refused"} : << <<"recv", l, m>> >> \in Milds
      BY MildShapes, FewMild
    <3>. QED
      BY <2>7, <3>1 DEF SocketReceives, StartTurns
  <2>8. CASE SocketBreaks(l)
    BY <2>8, BreakMoves, FewMild DEF StartTurns
  <2>. QED
    BY <1>7, <2>1, <2>3, <2>4, <2>5, <2>6, <2>7, <2>8 DEF Transport
<1>. QED
  BY <1>1, <1>2, <1>3, <1>4, <1>5, <1>6, <1>7 DEF Wakeup

\* A program that was terminated does nothing.
LEMMA StepRuns == ASSUME NEW t \in Threads, Step(t) PROVE crash = "none"
<1>. USE DEF At
<1>1. CASE CloseStep(t)
  BY <1>1 DEF CloseStep, CancelMixedRace, CloseCurlAsync, CloseCurlJoin, JoinCurl, UnlockCurl,
              CloseQuicAsync, CloseQuicJoin, JoinQuic, AllClosed
<1>2. CASE ConnectStep(t)
  BY <1>2, ZenonT(60) DEF ConnectStep, BeginConnect, Unsuppress, ChooseLeg, OpenPrimary,
              ScheduleMixedTcpFallback, StartMixedTcpFallback, OpenAlt, EnterRace, UnlockRace,
              HandleMixedTransportFailure, Promote
<1>3. CASE CallbackStep(t)
  BY <1>3 DEF CallbackStep, onTransportOpen, MixedDeclareWinner, StartKeepalive,
              onTransportClose, onTransportError, SessionOff, onTransportRecv, Tell
<1>4. CASE RetryStep(t)
  BY <1>4 DEF RetryStep, FailFatal, Report, ScheduleReconnect, Reconnecting, Resume,
              ArmReconnect, SendLeave, AwaitLeave, CloseSocketAfterDisconnect
<1>. QED
  BY <1>1, <1>2, <1>3, <1>4 DEF Step

LEMMA StartRuns ==
    ASSUME Wakeup \/ (\E l \in Legs : Transport(l)) \/ Connect \/ Disconnect
    PROVE  crash = "none" /\ crash' = "none"
BY DEF Wakeup, DelayElapses, ReconnectElapses, PingTimeout, LeaveTimeout, Connect,
     Disconnect, Transport, SocketBreaks, SocketOpens, SocketFails, SocketClosedByPeer,
     SocketStops, SocketEnds, SocketReceives, Starts, OnlyRace, OnlyLeave, OnlySock

-------------------------------------------------------------------------------
(* The sockets.                                                              *)

\* A step of a thread asks a socket to close, or replaces one that is dead.
Touches(l) ==
    \/ sock'[l] = sock[l]
    \/ sock'[l] = CloseRequested(sock[l])
    \/ ~sock[l].alive /\ sock'[l] \in {Joined(sock[l]), Joined(NeverOpened), Opened}

LEMMA StepTouches ==
    ASSUME DataOK, HeedsInv, NEW t \in Threads, Step(t), crash' = "none"
    PROVE  \A l \in Legs : Touches(l)
<1>. sock \in [Legs -> Sockets] /\ "Curl" \in Legs /\ "Quic" \in Legs
  BY DEF DataOK, Legs
<1>0. OpenCurl => \A l \in Legs : Touches(l)
  BY DEF OpenCurl, Touches, HeedsInv, Heeds
<1>1. CASE CloseStep(t)
  <2>1. CASE CloseCurlAsync(t) \/ CloseCurlJoin(t)
    BY <2>1 DEF CloseCurlAsync, CloseCurlJoin, Touches
  <2>2. CASE JoinCurl(t)
    BY <2>2 DEF JoinCurl, Touches
  <2>3. CASE CloseQuicAsync(t) \/ CloseQuicJoin(t)
    BY <2>3 DEF CloseQuicAsync, CloseQuicJoin, Touches
  <2>4. CASE JoinQuic(t)
    BY <2>4 DEF JoinQuic, Touches
  <2>5. CASE CancelMixedRace(t) \/ AllClosed(t) \/ UnlockCurl(t)
    BY <2>5 DEF CancelMixedRace, AllClosed, UnlockCurl, OnlyRace, Touches
  <2>. QED
    BY <1>1, <2>1, <2>2, <2>3, <2>4, <2>5 DEF CloseStep
<1>2. CASE ConnectStep(t)
  <2>1. CASE OpenPrimary(t)
    <3>1. CASE OpenQuic(t)
      BY <3>1 DEF OpenQuic, Touches
    <3>. QED
      BY <1>0, <2>1, <3>1 DEF OpenPrimary
  <2>2. CASE OpenAlt(t)
    BY <1>0, <2>2 DEF OpenAlt
  <2>3. CASE BeginConnect(t) \/ Unsuppress(t) \/ ChooseLeg(t)
    BY <2>3 DEF BeginConnect, Unsuppress, ChooseLeg, OnlyRetry, OnlyRace, Touches
  <2>4. CASE ScheduleMixedTcpFallback(t) \/ StartMixedTcpFallback(t) \/ EnterRace(t)
             \/ UnlockRace(t) \/ HandleMixedTransportFailure(t) \/ Promote(t)
    BY <2>4 DEF ScheduleMixedTcpFallback, StartMixedTcpFallback, EnterRace, UnlockRace,
                HandleMixedTransportFailure, Promote, OnlyRace, Touches
  <2>. QED
    BY <1>2, <2>1, <2>2, <2>3, <2>4 DEF ConnectStep
<1>3. CASE CallbackStep(t)
  BY <1>3 DEF CallbackStep, onTransportOpen, MixedDeclareWinner, StartKeepalive,
              onTransportClose, onTransportError, SessionOff, onTransportRecv, Tell,
              OnlyTodo, OnlyRace, Touches
<1>4. CASE RetryStep(t)
  BY <1>4 DEF RetryStep, FailFatal, Report, ScheduleReconnect, Reconnecting, Resume,
              ArmReconnect, SendLeave, AwaitLeave, CloseSocketAfterDisconnect,
              OnlyTodo, OnlyRetry, OnlyLeave, Touches
<1>. QED
  BY <1>1, <1>2, <1>3, <1>4 DEF Step

\* The thread of a dead socket is idle, and the socket says that it is closed.
Rests(l) == /\ todo[l] # <<>> => sock[l].alive
            /\ ~sock[l].alive => sock[l].state = "Closed" /\ ~Live(l)
SockInv == crash = "none" => \A l \in Legs : Rests(l)

\* A thread neither opens a socket up nor ends what lives.
LEMMA StepLives ==
    ASSUME DataOK, HeedsInv, NEW t \in Threads, Step(t), crash' = "none", NEW l \in Legs, Rests(l)
    PROVE  /\ Live(l)' <=> Live(l)
           /\ sock[l].alive => sock'[l].alive /\ sock'[l].reported = sock[l].reported
           /\ ~sock'[l].alive => sock'[l].state = "Closed"
<1>1. Touches(l) /\ sock[l] \in Sockets
  BY StepTouches DEF DataOK
<1>2. CASE sock'[l] = sock[l]
  BY <1>2 DEF Rests, Live
<1>3. CASE sock'[l] = CloseRequested(sock[l])
  BY <1>1, <1>3 DEF Rests, Live, CloseRequested, Sockets
<1>4. CASE ~sock[l].alive /\ sock'[l] = Joined(sock[l])
  BY <1>1, <1>4 DEF Rests, Live, Joined, Sockets
<1>5. CASE ~sock[l].alive /\ sock'[l] = Opened
  <2>1. Opened.alive /\ ~Opened.notified
    BY DEF Opened
  <2>. QED
    BY <1>1, <1>5, <2>1 DEF Rests, Live
<1>6. CASE ~sock[l].alive /\ sock'[l] = Joined(NeverOpened)
  <2>1. ~Joined(NeverOpened).notified /\ Joined(NeverOpened).state = "Closed"
    BY DEF Joined, NeverOpened
  <2>. QED
    BY <1>1, <1>6, <2>1 DEF Rests, Live
<1>. QED
  BY <1>1, <1>2, <1>3, <1>4, <1>5, <1>6 DEF Touches

\* What a socket does by itself.
LEMMA TransportLives ==
    ASSUME DataOK, NEW k \in Legs, Transport(k), NEW l \in Legs, Rests(l)
    PROVE  /\ Live(l) => Live(l)' \/ SocketFails(l) \/ SocketClosedByPeer(l) \/ SocketStops(l)
           /\ Live(l) /\ todo[l] # <<>> => Live(l)'
           /\ SocketOpens(l) => Live(l)'
           /\ sock'[l].alive => sock[l].alive
           /\ ~sock'[l].alive => sock'[l].state = "Closed" /\ ~Live(l)'
<1>. sock \in [Legs -> Sockets] /\ sock[l] \in Sockets
  BY DEF DataOK
<1>1. CASE sock'[l] = sock[l]
  <2>1. ~SocketOpens(l)
    BY <1>1 DEF SocketOpens, MayOpen, OpenedUp, Sockets
  <2>. QED
    BY <1>1, <2>1 DEF Live, Rests
<1>2. CASE l = k /\ SocketOpens(l)
  <2>1. sock'[l] = OpenedUp(sock[l]) /\ sock[l].alive /\ ~sock[l].reported
    BY <1>2 DEF SocketOpens, MayOpen
  <2>2. sock'[l].notified /\ ~sock'[l].reported /\ sock'[l].alive
    BY <2>1 DEF OpenedUp, Sockets
  <2>. QED
    BY <2>1, <2>2 DEF Live
<1>3. CASE l = k /\ (SocketFails(l) \/ SocketClosedByPeer(l) \/ SocketStops(l))
  <2>1. todo[l] = <<>> /\ sock[l].alive
    BY <1>3 DEF SocketFails, SocketClosedByPeer, SocketStops, Starts, MayFail, MayBeClosed,
         MayStop
  <2>2. sock'[l].alive
    BY <1>3, <2>1 DEF SocketFails, SocketClosedByPeer, SocketStops, Reporting, Sockets
  <2>3. sock'[l].reported
    BY <1>3 DEF SocketFails, SocketClosedByPeer, SocketStops, Reporting, Sockets
  <2>4. ~SocketOpens(l)
    BY <2>3, <2>1 DEF SocketOpens, MayOpen, OpenedUp, Sockets
  <2>. QED
    BY <1>3, <2>1, <2>2, <2>4
<1>4. CASE l = k /\ SocketEnds(l)
  <2>1. sock'[l] = Ended(sock[l]) /\ sock[l].reported /\ sock[l].alive
    BY <1>4 DEF SocketEnds, MayEnd
  <2>2. sock'[l].state = "Closed" /\ sock'[l].reported /\ ~SocketOpens(l)
    BY <2>1 DEF Ended, Sockets, SocketOpens, MayOpen
  <2>. QED
    BY <2>1, <2>2 DEF Live
<1>7. CASE l = k /\ SocketBreaks(l)
  <2>1. sock'[l] = Broken(sock[l]) /\ sock[l].alive /\ ~sock[l].notified /\ ~sock[l].reported
    BY <1>7, BreakMoves
  <2>2. sock'[l].alive /\ ~sock'[l].notified /\ ~sock'[l].reported
    BY <2>1 DEF Broken, Sockets
  <2>3. ~SocketOpens(l)
    BY <2>2 DEF SocketOpens, OpenedUp, Sockets
  <2>. QED
    BY <2>1, <2>2, <2>3 DEF Live
<1>5. sock'[l] = sock[l] \/ l = k
  BY DEF Transport, SocketBreaks, SocketOpens, SocketFails, SocketClosedByPeer, SocketStops,
       SocketEnds, SocketReceives, Reporting
<1>6. SocketReceives(l) => sock'[l] = sock[l]
  BY DEF SocketReceives
<1>. QED
  BY <1>1, <1>2, <1>3, <1>4, <1>5, <1>6, <1>7 DEF Transport

\* A start gives its own thread steps, and no other.
LEMMA StartedAt ==
    ASSUME TodoOK, NEW t \in Threads, NEW steps, Started(t, steps)
    PROVE  todo'[t] = steps /\ \A u \in Threads \ {t} : todo'[u] = todo[u]
BY DEF Started, TodoOK

LEMMA SockStep == TypeOK /\ HeedsInv /\ SockInv /\ [Next]_vars => SockInv'
<1>. SUFFICES ASSUME TypeOK, HeedsInv, SockInv, [Next]_vars, crash' = "none", NEW l \in Legs
              PROVE  Rests(l)'
  BY DEF SockInv
<1>. DataOK /\ TodoOK /\ l \in Threads
  BY DEF TypeOK, Threads
<1>1. ASSUME NEW t \in Threads, Step(t) PROVE Rests(l)'
  <2>1. Rests(l) /\ crash = "none"
    BY <1>1, StepRuns DEF SockInv
  <2>2. /\ Live(l)' <=> Live(l)
        /\ sock[l].alive => sock'[l].alive
        /\ ~sock'[l].alive => sock'[l].state = "Closed"
    BY <1>1, <2>1, StepLives
  <2>3. todo'[l] # <<>> => todo[l] # <<>>
    <3>1. PICK steps \in Seq(Steps) : Then(t, steps)
      BY <1>1, StepMoves
    <3>2. todo[t] # <<>> /\ \A u \in Threads \ {t} : todo'[u] = todo[u]
      BY <1>1, <3>1, StepMoves, ThenAt
    <3>. QED
      BY <3>2
  <2>. QED
    BY <2>1, <2>2, <2>3 DEF Rests
<1>2. CASE Wakeup \/ (\E k \in Legs : Transport(k)) \/ Connect \/ Disconnect
  <2>1. Rests(l)
    BY <1>2, StartRuns DEF SockInv
  <2>2. CASE Wakeup \/ Connect \/ Disconnect
    <3>1. UNCHANGED sock
      BY <2>2 DEF Wakeup, DelayElapses, ReconnectElapses, PingTimeout, LeaveTimeout, Connect,
                  Disconnect, OnlyRace, OnlyLeave
    <3>2. todo'[l] = todo[l]
      BY <2>2, ThreadNames DEF Wakeup, DelayElapses, ReconnectElapses, PingTimeout,
                  LeaveTimeout, Connect, Disconnect, Starts, TodoOK
    <3>. QED
      BY <2>1, <3>1, <3>2 DEF Rests, Live
  <2>3. ASSUME NEW k \in Legs, Transport(k) PROVE Rests(l)'
    <3>1. /\ sock'[l].alive => sock[l].alive
          /\ ~sock'[l].alive => sock'[l].state = "Closed" /\ ~Live(l)'
      BY <2>1, <2>3, TransportLives
    <3>2. todo'[l] # <<>> => sock'[l].alive
      <4>. k \in Threads /\ sock[l] \in Sockets
        BY DEF Threads, DataOK
      <4>1. CASE l # k
        <5>1. sock'[l] = sock[l] /\ todo'[l] = todo[l]
          BY <2>3, <4>1 DEF Transport, SocketBreaks, SocketOpens, SocketFails,
               SocketClosedByPeer, SocketStops, SocketEnds, SocketReceives, Reporting,
               Starts, DataOK, TodoOK
        <5>. QED
          BY <2>1, <5>1 DEF Rests
      <4>2. CASE l = k /\ SocketEnds(l)
        BY <4>2 DEF SocketEnds, Starts, TodoOK
      <4>3. CASE l = k /\ (SocketOpens(l) \/ SocketFails(l) \/ SocketClosedByPeer(l)
                           \/ SocketStops(l) \/ SocketReceives(l))
        <5>1. sock[l].alive
          BY <4>3 DEF SocketBreaks, SocketOpens, SocketFails, SocketClosedByPeer,
               SocketStops, SocketReceives, MayOpen, MayFail, MayBeClosed, MayStop
        <5>2. sock'[l].alive
          <6>1. CASE SocketOpens(l)
            BY <5>1, <6>1 DEF SocketOpens, OpenedUp, Sockets, DataOK
          <6>2. CASE SocketFails(l) \/ SocketClosedByPeer(l) \/ SocketStops(l)
            BY <5>1, <6>2 DEF SocketFails, SocketClosedByPeer, SocketStops, Reporting,
                 Sockets, DataOK
          <6>3. CASE SocketReceives(l)
            BY <5>1, <6>3 DEF SocketReceives
          <6>. QED
            BY <4>3, <6>1, <6>2, <6>3
        <5>. QED
          BY <5>2
      <4>4. CASE l = k /\ SocketBreaks(l)
        BY <4>4, BreakMoves DEF TodoOK
      <4>. QED
        BY <2>3, <4>1, <4>2, <4>3, <4>4 DEF Transport
    <3>. QED
      BY <3>1, <3>2 DEF Rests
  <2>. QED
    BY <1>2, <2>2, <2>3
<1>3. CASE UNCHANGED vars
  BY <1>3 DEF vars, SockInv, Rests, Live
<1>. QED
  BY <1>1, <1>2, <1>3 DEF Next, Busy

LEMMA SockInit == Init => SockInv
<1>. SUFFICES ASSUME Init, NEW l \in Legs PROVE Rests(l)
  BY DEF SockInv
<1>1. ~NeverOpened.notified /\ ~NeverOpened.alive /\ NeverOpened.state = "Closed"
  BY DEF NeverOpened
<1>2. sock[l] = NeverOpened /\ todo[l] = <<>>
  BY DEF Init, Threads
<1>. QED
  BY <1>1, <1>2 DEF Rests, Live

-------------------------------------------------------------------------------
(* What the steps of a thread turn into, one by one.                         *)

LEMMA KindsApart ==
    /\ Mild \subseteq Steps /\ Callbacks \subseteq Steps /\ Begins \subseteq Steps
    /\ Tokens \subseteq Steps
    /\ Mild \cap Callbacks = {} /\ Mild \cap Begins = {} /\ Mild \cap Tokens = {}
    /\ Callbacks \cap Begins = {} /\ Callbacks \cap Tokens = {} /\ Begins \cap Tokens = {}
    /\ Fails("Quic") \cap Promotes = {}
<1>1. Callbacks \subseteq Steps /\ Begins \subseteq Steps /\ Tokens \subseteq Steps
  BY DEF Steps, Callbacks, Begins, Tokens, Fails, Promotes, Legs
<1>2. Callbacks \cap Begins = {} /\ Begins \cap Tokens = {}
  BY DEF Callbacks, Begins, Tokens, Fails, Promotes
<1>3. Callbacks \cap Tokens = {} /\ Fails("Quic") \cap Promotes = {}
  BY DEF Callbacks, Tokens, Fails, Promotes
<1>. QED
  BY <1>1, <1>2, <1>3 DEF Mild

\* The i-th of the steps that t puts in place of its first one.
TurnsInto(t, steps, i) ==
    \/ steps[i] \in Mild
    \/ /\ i = 1
       /\ \E l \in Legs : Head(todo[t]) = <<"opened", l>> /\ steps[1] = <<"declareWinner", l>>
    \/ /\ steps[i] \in Tokens
       /\ Head(todo[t]) \in Tokens \/ (JoinQuic(t) /\ ~sock["Quic"].reported) \/ OpenPrimary(t)
       /\ steps[i] \in Promotes => mixedMode
       /\ \A j \in 1..Len(steps) : steps[j] \in Tokens => j = i

LEMMA StepTurnsInto ==
    ASSUME NEW t \in Threads, Step(t)
    PROVE  \E steps \in Seq(Steps) :
              Then(t, steps) /\ \A i \in 1..Len(steps) : TurnsInto(t, steps, i)
<1>1. Milds \subseteq Seq(Steps)
  BY DEF Milds, Mild
<1>2. CASE Mildly(t)
  <2>1. \A steps \in Milds : \A i \in 1..Len(steps) : TurnsInto(t, steps, i)
    BY DEF Milds, TurnsInto
  <2>. QED
    BY <1>1, <1>2, <2>1 DEF Mildly
<1>3. ASSUME NEW l \in Legs, Head(todo[t]) = <<"opened", l>>,
             Then(t, << <<"declareWinner", l>>, <<"startKeepalive">> >>)
      PROVE  \E steps \in Seq(Steps) :
                Then(t, steps) /\ \A i \in 1..Len(steps) : TurnsInto(t, steps, i)
  <2>. DEFINE steps == << <<"declareWinner", l>>, <<"startKeepalive">> >>
  <2>1. steps[2] \in Mild /\ Len(steps) = 2
    BY MildShapes
  <2>2. steps \in Seq(Steps)
    <3>1. <<"declareWinner", l>> \in Callbacks
      BY DEF Callbacks
    <3>2. <<"declareWinner", l>> \in Steps /\ <<"startKeepalive">> \in Steps
      BY <3>1, KindsApart, MildShapes
    <3>. QED
      BY <3>2
  <2>3. TurnsInto(t, steps, 1) /\ TurnsInto(t, steps, 2)
    BY <1>3, <2>1 DEF TurnsInto
  <2>4. \A i \in 1..Len(steps) : i = 1 \/ i = 2
    BY <2>1
  <2>. HIDE DEF steps
  <2>5. Then(t, steps)
    BY <1>3 DEF steps
  <2>. QED
    BY <2>2, <2>3, <2>4, <2>5
<1>4. ASSUME NEW f \in Fails("Quic"), Then(t, <<f>>),
             \/ Head(todo[t]) \in Fails("Quic")
             \/ JoinQuic(t) /\ ~sock["Quic"].reported
             \/ OpenPrimary(t)
      PROVE  \E steps \in Seq(Steps) :
                Then(t, steps) /\ \A i \in 1..Len(steps) : TurnsInto(t, steps, i)
  <2>1. f \in Tokens /\ f \notin Promotes /\ f \in Steps
    BY KindsApart DEF Tokens
  <2>2. <<f>> \in Seq(Steps) /\ Len(<<f>>) = 1 /\ <<f>>[1] = f
    BY <2>1
  <2>3. TurnsInto(t, <<f>>, 1) /\ \A i \in 1..Len(<<f>>) : i = 1
    BY <1>4, <2>1, <2>2 DEF TurnsInto, Tokens
  <2>. QED
    BY <1>4, <2>2, <2>3
<1>5. ASSUME NEW p \in Promotes, Then(t, << <<"startFallback">>, p>>),
             Head(todo[t]) \in Fails("Quic"), mixedMode
      PROVE  \E steps \in Seq(Steps) :
                Then(t, steps) /\ \A i \in 1..Len(steps) : TurnsInto(t, steps, i)
  <2>. DEFINE steps == << <<"startFallback">>, p>>
  <2>1. p \in Tokens /\ p \in Steps
    BY KindsApart DEF Tokens
  <2>2. <<"startFallback">> \in Mild /\ <<"startFallback">> \in Steps
    BY MildShapes, KindsApart
  <2>3. steps \in Seq(Steps) /\ Len(steps) = 2 /\ steps[1] = <<"startFallback">> /\ steps[2] = p
    BY <2>1, <2>2
  <2>. HIDE DEF steps
  <2>4. steps[1] \notin Tokens
    BY <2>2, <2>3, KindsApart
  <2>5. TurnsInto(t, steps, 1) /\ TurnsInto(t, steps, 2)
    BY <1>5, <2>1, <2>2, <2>3, <2>4 DEF TurnsInto, Tokens
  <2>6. Then(t, steps) /\ \A i \in 1..Len(steps) : i = 1 \/ i = 2
    BY <1>5, <2>3 DEF steps
  <2>. QED
    BY <2>3, <2>5, <2>6
<1>. QED
  BY <1>2, <1>3, <1>4, <1>5, StepTurns DEF Turns

\* A thread that is in a callback of an open socket is that socket's own, at the
\* beginning of the callback, and the socket lives.
CallbackInv ==
    crash = "none" =>
        \A t \in Threads : \A i \in 1..Len(todo[t]) : \A l \in Legs :
            todo[t][i] \in {<<"opened", l>>, <<"declareWinner", l>>} => t = l /\ i = 1 /\ Live(l)

LEMMA CallbackInvStep ==
    TypeOK /\ HeedsInv /\ SockInv /\ CallbackInv /\ [Next]_vars => CallbackInv'
<1>. SUFFICES ASSUME TypeOK, HeedsInv, SockInv, CallbackInv, [Next]_vars, crash' = "none",
                     NEW u \in Threads, NEW i \in 1..Len(todo'[u]), NEW l \in Legs,
                     todo'[u][i] \in {<<"opened", l>>, <<"declareWinner", l>>}
              PROVE  u = l /\ i = 1 /\ Live(l)'
  BY DEF CallbackInv
<1>. DataOK /\ TodoOK /\ l \in Threads
  BY DEF TypeOK, Threads
<1>0. todo'[u][i] \in Callbacks /\ todo'[u][i] \notin Mild \cup Tokens \cup Begins
  <2>1. todo'[u][i] \in Callbacks
    BY DEF Callbacks
  <2>. QED
    BY <2>1, KindsApart
<1>1. ASSUME NEW t \in Threads, Step(t) PROVE u = l /\ i = 1 /\ Live(l)'
  <2>1. crash = "none" /\ (Live(l)' <=> Live(l))
    BY <1>1, StepRuns, StepLives DEF SockInv
  <2>2. PICK steps \in Seq(Steps) :
          Then(t, steps) /\ \A j \in 1..Len(steps) : TurnsInto(t, steps, j)
    BY <1>1, StepTurnsInto
  <2>3. CASE u # t
    <3>1. todo'[u] = todo[u]
      BY <1>1, <2>2, <2>3, StepMoves, ThenAt
    <3>. QED
      BY <2>1, <3>1 DEF CallbackInv
  <2>4. CASE u = t /\ i \in 1..Len(steps) /\ todo'[t][i] = steps[i]
    <3>1. PICK k \in Legs : i = 1 /\ Head(todo[t]) = <<"opened", k>> /\ steps[1] = <<"declareWinner", k>>
      BY <1>0, <2>2, <2>4 DEF TurnsInto
    <3>2. k = l
      BY <2>4, <3>1
    <3>3. 1 \in 1..Len(todo[t]) /\ todo[t][1] = <<"opened", l>>
      BY <1>1, <3>1, <3>2, StepMoves DEF TodoOK
    <3>4. t = l /\ Live(l)
      BY <2>1, <3>3 DEF CallbackInv
    <3>. QED
      BY <2>1, <2>4, <3>1, <3>4
  <2>5. CASE u = t /\ i - Len(steps) + 1 \in 2..Len(todo[t])
             /\ todo'[t][i] = todo[t][i - Len(steps) + 1]
    <3>1. i - Len(steps) + 1 \in 1..Len(todo[t]) /\ i - Len(steps) + 1 # 1
      BY <2>5
    <3>. QED
      BY <2>1, <2>5, <3>1 DEF CallbackInv
  <2>. QED
    BY <1>1, <2>2, <2>3, <2>4, <2>5, StepMoves, ThenAt
<1>2. CASE Wakeup \/ (\E k \in Legs : Transport(k)) \/ Connect \/ Disconnect
  <2>1. crash = "none" /\ Rests(l)
    BY <1>2, StartRuns DEF SockInv
  <2>2. Live(l) /\ todo[l] # <<>> => Live(l)'
    <3>1. CASE Wakeup \/ Connect \/ Disconnect
      BY <3>1 DEF Wakeup, DelayElapses, ReconnectElapses, PingTimeout, LeaveTimeout, Connect,
                  Disconnect, OnlyRace, OnlyLeave, Live
    <3>. QED
      BY <1>2, <2>1, <3>1, TransportLives
  <2>3. ASSUME NEW t \in Threads, NEW steps, Started(t, steps),
               u = t => steps[i] \notin Callbacks
        PROVE  u = l /\ i = 1 /\ Live(l)'
    <3>1. u # t /\ todo'[u] = todo[u]
      BY <1>0, <2>3, StartedAt
    <3>2. u = l /\ i = 1 /\ Live(l)
      BY <2>1, <3>1 DEF CallbackInv
    <3>3. todo[l] # <<>>
      BY <3>1, <3>2 DEF TodoOK
    <3>. QED
      BY <2>2, <3>2, <3>3
  <2>4. CASE \E t \in Threads, steps \in Milds : Started(t, steps)
    <3>1. PICK t \in Threads, steps \in Milds : Started(t, steps)
      BY <2>4
    <3>2. u = t => todo'[u] = steps
      BY <3>1, StartedAt
    <3>3. u = t => steps[i] \in Mild
      BY <3>2 DEF Milds
    <3>. QED
      BY <1>0, <2>3, <3>1, <3>2, <3>3
  <2>5. ASSUME NEW k \in Legs, SocketOpens(k), Started(k, << <<"opened", k>> >>)
        PROVE  u = l /\ i = 1 /\ Live(l)'
    <3>. k \in Threads
      BY DEF Threads
    <3>1. CASE u # k
      BY <2>3, <2>5, <3>1
    <3>2. CASE u = k
      <4>1. todo'[u] = << <<"opened", k>> >>
        BY <2>5, <3>2, StartedAt
      <4>2. i = 1 /\ k = l
        BY <4>1
      <4>. QED
        BY <2>1, <2>5, <3>2, <4>2, TransportLives DEF Transport
    <3>. QED
      BY <3>1, <3>2
  <2>6. ASSUME NEW f \in Fails("Quic"), Started("Quic", <<f>>)
        PROVE  u = l /\ i = 1 /\ Live(l)'
    <3>. "Quic" \in Threads
      BY DEF Threads, Legs
    <3>1. f \notin Callbacks
      BY KindsApart DEF Tokens
    <3>2. u = "Quic" => todo'[u] = <<f>>
      BY <2>6, StartedAt
    <3>3. u = "Quic" => i = 1
      BY <3>2
    <3>. QED
      BY <2>3, <2>6, <3>1, <3>3
  <2>7. ASSUME NEW t \in {"app"} \cup Detached, Started(t, beginConnect)
        PROVE  u = l /\ i = 1 /\ Live(l)'
    <3>. t \in Threads
      BY ThreadNames
    <3>1. \A j \in 1..Len(beginConnect) : beginConnect[j] \notin Callbacks
      BY DEF beginConnect, closeAllTransports, Callbacks
    <3>2. u = t => todo'[u] = beginConnect
      BY <2>7, StartedAt
    <3>. QED
      BY <2>3, <2>7, <3>1, <3>2
  <2>. QED
    BY <1>2, <2>4, <2>5, <2>6, <2>7, StartsTurn DEF StartTurns
<1>3. CASE UNCHANGED vars
  BY <1>3 DEF vars, CallbackInv, Live
<1>. QED
  BY <1>1, <1>2, <1>3 DEF Next, Busy

LEMMA CallbackInvInit == Init => CallbackInv
BY DEF Init, CallbackInv

-------------------------------------------------------------------------------
(* What takes an open session down is on its way as long as its socket is    *)
(* dead.                                                                     *)

\* The steps that close a session.
Closers  == {<<"sessionOff">>, <<"allClosed">>, <<"report">>, <<"resume">>, <<"chooseLeg">>}
Declares == {<<"declareWinner", "Curl">>}

\* The session of l lives, or is about to be closed, or to pass to the TCP leg.
Carried(l) ==
    \/ Live(l)
    \/ Pends(Closers \cup Fails(l))
    \/ isAlt("Curl") /\ Pends(Declares)

SessionInv ==
    crash = "none" /\ FirstRace /\ race.session_open =>
        \A l \in Legs : race.primary_leg = l => Carried(l)

\* Thread t ran a step that opens no session, takes no leg out of the race, and
\* is none that a session waits for.
Calm(t) ==
    /\ race'.session_open => race.session_open
    /\ race'.primary_leg = race.primary_leg
    /\ race.has_alt => race'.has_alt
    /\ Head(todo[t]) \notin Closers \cup Fails("Curl") \cup Fails("Quic") \cup Declares

LEMMA CalmHeads ==
    /\ \A s \in {"failFatal", "beginConnect", "unsuppress", "openPrimary",
                 "scheduleReconnect", "reconnecting",
                 "armReconnect", "joinCurl", "unlockCurl", "joinQuic", "scheduleFallback",
                 "startFallback", "openAlt", "enterRace", "unlockRace", "startKeepalive",
                 "tell", "sendLeave", "awaitLeave", "closeAfterDisconnect"} :
          <<s>> \notin Closers \cup Fails("Curl") \cup Fails("Quic") \cup Declares
    /\ \A s \in {"cancelMixedRace", "closeCurl", "closeQuic"}, how \in {"join", "async"} :
          <<s, how>> \notin Closers \cup Fails("Curl") \cup Fails("Quic") \cup Declares
    /\ \A l \in Legs :
          <<"opened", l>> \notin Closers \cup Fails("Curl") \cup Fails("Quic") \cup Declares
    /\ \A l \in Legs, m \in {"ok", "leave", "refused"} :
          <<"recv", l, m>> \notin Closers \cup Fails("Curl") \cup Fails("Quic") \cup Declares
    /\ \A k \in {"fatal", "reconnect"} :
          <<"promote", k>> \notin Closers \cup Fails("Curl") \cup Fails("Quic") \cup Declares
BY DEF Closers, Fails, Declares, Legs

LEMMA StepCalm ==
    ASSUME DataOK, NEW t \in Threads, Step(t)
    PROVE  \/ Calm(t) \/ CancelMixedRace(t) \/ AllClosed(t) \/ ChooseLeg(t)
           \/ HandleMixedTransportFailure(t) \/ Promote(t) \/ onTransportOpen(t)
           \/ MixedDeclareWinner(t) \/ onTransportClose(t) \/ onTransportError(t)
           \/ SessionOff(t) \/ Report(t) \/ Resume(t)
<1>. USE DEF At, Calm
<1>1. ASSUME CloseStep(t), ~CancelMixedRace(t), ~AllClosed(t) PROVE Calm(t)
  BY <1>1, CalmHeads DEF CloseStep, CloseCurlAsync, CloseCurlJoin, JoinCurl, UnlockCurl,
        CloseQuicAsync, CloseQuicJoin, JoinQuic, OnlySock
<1>2. CASE BeginConnect(t) \/ Unsuppress(t) \/ OpenPrimary(t) \/ OpenAlt(t)
  BY <1>2, CalmHeads DEF BeginConnect, Unsuppress, OpenPrimary, OpenAlt, OnlyRetry
<1>3. CASE ScheduleMixedTcpFallback(t)
  BY <1>3, CalmHeads DEF ScheduleMixedTcpFallback, DataOK, Races
<1>4. CASE StartMixedTcpFallback(t)
  BY <1>4, CalmHeads DEF StartMixedTcpFallback, DataOK, Races
<1>5. CASE EnterRace(t)
  BY <1>5, CalmHeads DEF EnterRace, DataOK, Races
<1>6. CASE UnlockRace(t)
  BY <1>6, CalmHeads DEF UnlockRace, DataOK, Races
<1>7. CASE StartKeepalive(t) \/ Tell(t)
  BY <1>7, CalmHeads DEF StartKeepalive, Tell
<1>8. CASE onTransportRecv(t)
  <2>1. PICK l \in Legs, m \in {"ok", "leave", "refused"} : Head(todo[t]) = <<"recv", l, m>>
    BY <1>8 DEF onTransportRecv
  <2>2. Head(todo[t]) \notin Closers \cup Fails("Curl") \cup Fails("Quic") \cup Declares
    BY <2>1, CalmHeads
  <2>. QED
    BY <1>8, <2>2 DEF onTransportRecv
<1>9. ASSUME RetryStep(t), ~Report(t), ~Resume(t) PROVE Calm(t)
  BY <1>9, CalmHeads DEF RetryStep, FailFatal, ScheduleReconnect, Reconnecting, ArmReconnect,
        SendLeave, AwaitLeave, CloseSocketAfterDisconnect, OnlyTodo, OnlyRetry, OnlyLeave
<1>. QED
  BY <1>1, <1>2, <1>3, <1>4, <1>5, <1>6, <1>7, <1>8, <1>9 DEF Step, ConnectStep, CallbackStep

\* No step of a thread begins an attempt, or is a call of the application.
LEMMA StepFirst ==
    ASSUME DataOK, NEW t \in Threads, Step(t)
    PROVE  /\ past'.attempts = past.attempts /\ past'.wanted = past.wanted
           /\ past'.disconnects = past.disconnects /\ scenario' = scenario
<1>1. CASE CloseStep(t)
  BY <1>1 DEF CloseStep, CancelMixedRace, CloseCurlAsync, CloseCurlJoin, JoinCurl, UnlockCurl,
              CloseQuicAsync, CloseQuicJoin, JoinQuic, AllClosed, OnlyRace, OnlySock
<1>2. CASE ConnectStep(t)
  BY <1>2 DEF ConnectStep, BeginConnect, Unsuppress, ChooseLeg, OpenPrimary,
              ScheduleMixedTcpFallback, StartMixedTcpFallback, OpenAlt, EnterRace, UnlockRace,
              HandleMixedTransportFailure, Promote, OnlyRace, OnlyRetry
<1>3. CASE CallbackStep(t) /\ ~Tell(t)
  BY <1>3 DEF CallbackStep, onTransportOpen, MixedDeclareWinner, StartKeepalive,
       onTransportClose, onTransportError, SessionOff, onTransportRecv, OnlyTodo, OnlyRace
<1>4. CASE RetryStep(t) /\ ~Report(t)
  BY <1>4 DEF RetryStep, FailFatal, ScheduleReconnect, Reconnecting, Resume,
              ArmReconnect, SendLeave, AwaitLeave, CloseSocketAfterDisconnect,
              OnlyTodo, OnlyRetry, OnlyLeave
<1>5. CASE Tell(t) \/ Report(t)
  BY <1>5 DEF Tell, Report, DataOK, Pasts
<1>. QED
  BY <1>1, <1>2, <1>3, <1>4, <1>5 DEF Step

\* What a failure that the race does not absorb comes to closes the session.
LEMMA FunctionsClose ==
    /\ \E i \in 1..Len(failFatal) : failFatal[i] \in Closers
    /\ \A k : \E i \in 1..Len(afterFailure(k)) : afterFailure(k)[i] \in Closers
<1>1. << <<"failFatal">> >> \o closeAllTransports("async") \in Seq(Mild)
      /\ << <<"report">> >> \in Seq(Mild)
  BY MildShapes, FewMild, MildFunctions DEF Milds
<1>2. \E i \in 1..Len(failFatal) : failFatal[i] \in Closers
  <2>. DEFINE a == << <<"failFatal">> >> \o closeAllTransports("async")
              b == << <<"report">> >>
  <2>1. 1 \in 1..Len(b) /\ b[1] \in Closers
    BY DEF Closers
  <2>2. a \in Seq(Mild) /\ b \in Seq(Mild) /\ failFatal = a \o b
    BY <1>1 DEF failFatal
  <2>. HIDE DEF a, b
  <2>3. Len(a) + 1 \in 1..Len(failFatal) /\ failFatal[Len(a) + 1] = b[1]
    BY <2>1, <2>2, LastOf
  <2>. QED
    BY <2>1, <2>3
<1>3. ASSUME NEW k PROVE \E i \in 1..Len(afterFailure(k)) : afterFailure(k)[i] \in Closers
  <2>. DEFINE off == << <<"sessionOff">>, <<"scheduleReconnect">> >>
  <2>1. 1 \in 1..Len(off) /\ off[1] \in Closers
    BY DEF Closers
  <2>. QED
    BY <1>2, <2>1 DEF afterFailure
<1>. QED
  BY <1>2, <1>3

\* A step keeps an open session carried.  The step that makes the TCP leg primary
\* after the quic leg failed finds no trace of the quic leg (Promote): see below.
LEMMA StepCarried ==
    ASSUME TypeOK, HeedsInv, SockInv, CallbackInv, PairsInv, SessionInv,
           NEW t \in Threads, Step(t), crash' = "none", FirstRace', race'.session_open,
           Promote(t) => ~Live("Quic") /\ ~Pends(Fails("Quic")),
           NEW l \in Legs, race'.primary_leg = l
    PROVE  Carried(l)'
<1>. DataOK /\ TodoOK /\ race \in Races
  BY DEF TypeOK, DataOK
<1>. USE DEF At
<1>1. crash = "none" /\ FirstRace
  BY StepRuns, StepFirst DEF FirstRace, mixedMode
<1>2. \A k \in Legs : (Live(k)' <=> Live(k))
  BY <1>1, StepLives DEF SockInv
<1>3. todo[t] # <<>>
  BY StepMoves
\* Whatever steps t puts in place, and for any set of steps:
<1>4. ASSUME NEW steps \in Seq(Steps), Then(t, steps), NEW S
      PROVE  /\ Pends(S) /\ Head(todo[t]) \notin S => Pends(S)'
             /\ (\E i \in 1..Len(steps) : steps[i] \in S) => Pends(S)'
  BY <1>3, <1>4, ThenPends
<1>5. ASSUME NEW S, Head(todo[t]) \notin S, Pends(S) PROVE Pends(S)'
  <2>1. PICK steps \in Seq(Steps) : Then(t, steps)
    BY StepMoves
  <2>. QED
    BY <1>4, <1>5, <2>1
<1>6. ASSUME Pends(Closers)' PROVE Carried(l)'
  BY <1>6 DEF Carried, Pends
<1>7. ASSUME race.session_open, race.primary_leg = l,
             isAlt("Curl") => isAlt("Curl")',
             Head(todo[t]) \notin Closers \cup Fails(l) \cup Declares
      PROVE  Carried(l)'
  <2>1. Carried(l)
    BY <1>1, <1>7 DEF SessionInv
  <2>2. CASE Live(l)
    BY <1>2, <2>2 DEF Carried
  <2>3. CASE Pends(Closers \cup Fails(l))
    <3>1. Pends(Closers \cup Fails(l))'
      BY <1>5, <1>7, <2>3
    <3>. QED
      BY <3>1 DEF Carried
  <2>4. CASE isAlt("Curl") /\ Pends(Declares)
    <3>1. Pends(Declares)'
      BY <1>5, <1>7, <2>4
    <3>. QED
      BY <1>7, <2>4, <3>1 DEF Carried
  <2>. QED
    BY <2>1, <2>2, <2>3, <2>4 DEF Carried
<1>8. CASE Calm(t)
  <2>1. Head(todo[t]) \notin Closers \cup Fails(l) \cup Declares
    BY <1>8 DEF Calm, Legs
  <2>2. race.session_open /\ race.primary_leg = l /\ (isAlt("Curl") => isAlt("Curl")')
    BY <1>8 DEF Calm, isAlt
  <2>. QED
    BY <1>7, <2>1, <2>2
<1>9. CASE CancelMixedRace(t)
  <2>1. PICK how \in {"join", "async"} : Head(todo[t]) = <<"cancelMixedRace", how>>
    BY <1>9 DEF CancelMixedRace
  <2>2. << <<"cancelMixedRace", how>>, <<"allClosed">> >> \in Follows
    BY DEF Follows
  <2>3. \E i \in 2..Len(todo[t]) : todo[t][i] = <<"allClosed">>
    BY <1>3, <2>1, <2>2, PairPends
  <2>4. PICK steps \in Seq(Steps) : Then(t, steps)
    BY StepMoves
  <2>5. Pends(Closers)'
    BY <1>3, <2>3, <2>4, ThenPends DEF Closers
  <2>. QED
    BY <1>6, <2>5
<1>10. CASE AllClosed(t) \/ ChooseLeg(t) \/ SessionOff(t) \/ Report(t) \/ Resume(t)
  BY <1>10 DEF AllClosed, ChooseLeg, SessionOff, Report, Resume, Races
<1>11. ASSUME NEW k, Then(t, afterFailure(k)) PROVE Carried(l)'
  <2>1. afterFailure(k) \in Seq(Steps)
    BY MildFunctions, KindsApart DEF Milds
  <2>. QED
    BY <1>4, <1>6, <1>11, <2>1, FunctionsClose
<1>12. ASSUME Then(t, failFatal) PROVE Carried(l)'
  <2>1. failFatal \in Seq(Steps)
    BY MildFunctions, KindsApart DEF Milds
  <2>. QED
    BY <1>4, <1>6, <1>12, <2>1, FunctionsClose
<1>13. CASE HandleMixedTransportFailure(t)
  <2>1. race.session_open
    BY <1>13, ZenonT(60) DEF HandleMixedTransportFailure, Races
  <2>2. \E k : Then(t, afterFailure(k))
    BY <1>13, <2>1 DEF HandleMixedTransportFailure
  <2>. QED
    BY <1>11, <2>2
\* A failure of the leg that carries the session goes on as one.
<1>14. ASSUME NEW k \in Legs, Head(todo[t]) \in Fails(k), UNCHANGED race,
              \/ ~isCandidate(k)
              \/ Then(t, failFatal)
              \/ \E f \in Fails(k) : Then(t, <<f>>)
       PROVE  Carried(l)'
  <2>1. CASE Then(t, failFatal)
    BY <1>12, <2>1
  <2>2. CASE k # l
    <3>1. Head(todo[t]) \notin Closers \cup Fails(l) \cup Declares
      BY <1>14, <2>2 DEF Closers, Fails, Declares
    <3>. QED
      BY <1>7, <1>14, <3>1 DEF isAlt
  <2>3. CASE k = l /\ \E f \in Fails(k) : Then(t, <<f>>)
    <3>1. PICK f \in Fails(l) : Then(t, <<f>>)
      BY <2>3
    <3>2. f \in Steps
      BY DEF Steps, Fails
    <3>3. <<f>> \in Seq(Steps) /\ 1 \in 1..Len(<<f>>) /\ <<f>>[1] \in Closers \cup Fails(l)
      BY <3>2
    <3>4. Pends(Closers \cup Fails(l))'
      BY <1>4, <3>1, <3>3
    <3>. QED
      BY <3>4 DEF Carried
  <2>. QED
    BY <1>14, <2>1, <2>2, <2>3 DEF isCandidate
<1>15. CASE onTransportClose(t)
  <2>1. PICK k \in Legs, how \in {"local", "remote", "token"}, f \in {"fallback", "none"} :
          /\ Head(todo[t]) = <<"closed", k, how>>
          /\ \/ ~isCandidate(k) \/ Then(t, failFatal)
             \/ Then(t, << <<"failure", k, f, "reconnect">> >>)
    BY <1>15 DEF onTransportClose
  <2>2. <<"closed", k, how>> \in Fails(k) /\ <<"failure", k, f, "reconnect">> \in Fails(k)
    BY DEF Fails
  <2>. QED
    BY <1>14, <1>15, <2>1, <2>2 DEF onTransportClose, OnlyTodo
<1>16. CASE onTransportError(t)
  <2>1. PICK k \in Legs, e \in {"security", "timeout", "other"}, r \in {"fatal", "reconnect"} :
          /\ Head(todo[t]) = <<"error", k, e>>
          /\ \/ ~isCandidate(k) \/ Then(t, failFatal)
             \/ Then(t, << <<"failure", k, "fallback", r>> >>)
    BY <1>16 DEF onTransportError
  <2>2. <<"error", k, e>> \in Fails(k) /\ <<"failure", k, "fallback", r>> \in Fails(k)
    BY DEF Fails
  <2>. QED
    BY <1>14, <1>16, <2>1, <2>2 DEF onTransportError, OnlyTodo
<1>17. CASE Promote(t)
  <2>1. ~Live("Quic") /\ ~Pends(Fails("Quic"))
    BY <1>17
  <2>2. Head(todo[t]) \notin Closers \cup Fails("Curl") \cup Fails("Quic") \cup Declares
        /\ race.session_open
    BY <1>17, CalmHeads, ZenonT(60) DEF Promote, Races
  <2>3. CASE ~race.has_alt
    BY <1>11, <1>17, <2>3 DEF Promote
  <2>4. CASE race.has_alt /\ race.primary_leg = "Curl"
    BY <1>7, <1>17, <2>2, <2>4 DEF Promote, Races, isAlt, Legs
  <2>5. CASE race.has_alt /\ race.primary_leg = "Quic"
    <3>1. l = "Curl"
      BY <1>17, <2>5 DEF Promote, Races
    <3>2. Carried("Quic")
      BY <1>1, <2>2, <2>5 DEF SessionInv, Legs
    <3>3. Pends(Closers \cup Fails("Quic")) \/ Pends(Declares)
      BY <2>1, <3>2 DEF Carried
    <3>4. CASE Pends(Declares)
      <4>1. Live("Curl")
        BY <1>1, <3>4 DEF Pends, Declares, CallbackInv, Legs
      <4>. QED
        BY <1>2, <3>1, <4>1 DEF Carried
    <3>5. CASE Pends(Closers \cup Fails("Quic"))
      <4>1. Pends(Closers)
        BY <2>1, <3>5 DEF Pends
      <4>. QED
        BY <1>5, <1>6, <2>2, <4>1
    <3>. QED
      BY <3>3, <3>4, <3>5
  <2>. QED
    BY <2>3, <2>4, <2>5 DEF Races, Legs
\* A thread in a callback of an open socket is at the callback's first step.
<1>18. ASSUME NEW k \in Legs, Head(todo[t]) \in {<<"opened", k>>, <<"declareWinner", k>>}
       PROVE  t = k /\ Live(k)
  <2>1. 1 \in 1..Len(todo[t]) /\ todo[t][1] = Head(todo[t])
    BY <1>3 DEF TodoOK
  <2>. QED
    BY <1>1, <1>18, <2>1 DEF CallbackInv
<1>19. CASE onTransportOpen(t)
  <2>1. PICK k \in Legs :
          /\ Head(todo[t]) = <<"opened", k>>
          /\ \/ ~isCandidate(k) /\ UNCHANGED race
             \/ isCandidate(k) /\ ~race'.session_open
             \/ /\ race.session_open /\ isAlt(k)
                /\ race' = [race EXCEPT !.has_alt = FALSE]
             \/ /\ isCandidate(k) /\ ~(race.session_open /\ isAlt(k))
                /\ race' = [race EXCEPT !.session_open = TRUE]
                /\ Then(t, IF race.has_alt \/ race.mixed_delay_pending
                             THEN << <<"declareWinner", k>>, <<"startKeepalive">> >>
                             ELSE << <<"startKeepalive">> >>)
    BY <1>19 DEF onTransportOpen, Races
  <2>2. t = k /\ Live(k)
    BY <1>18, <2>1
  <2>3. Head(todo[t]) \notin Closers \cup Fails(l) \cup Declares
    BY <2>1, CalmHeads DEF Legs
  <2>4. CASE ~isCandidate(k) /\ UNCHANGED race
    BY <1>7, <2>3, <2>4 DEF isAlt
  <2>5. CASE race.session_open /\ isAlt(k) /\ race' = [race EXCEPT !.has_alt = FALSE]
    <3>1. ~Pends(Declares)
      <4>. SUFFICES ASSUME NEW u \in Threads, NEW i \in 1..Len(todo[u]),
                           todo[u][i] = <<"declareWinner", "Curl">>
                    PROVE  FALSE
        BY DEF Pends, Declares
      <4>1. u = "Curl" /\ i = 1
        BY <1>1 DEF CallbackInv, Legs
      <4>2. t = "Curl" /\ todo[t][1] = <<"opened", k>>
        BY <1>3, <2>1, <2>2, <2>5 DEF isAlt, TodoOK
      <4>. QED
        BY <4>1, <4>2
    <3>2. race.primary_leg = l /\ race.session_open
      BY <2>5 DEF Races
    <3>3. Carried(l)
      BY <1>1, <3>2 DEF SessionInv
    <3>4. CASE Live(l)
      BY <1>2, <3>4 DEF Carried
    <3>5. CASE Pends(Closers \cup Fails(l))
      <4>1. Pends(Closers \cup Fails(l))'
        BY <1>5, <2>3, <3>5
      <4>. QED
        BY <4>1 DEF Carried
    <3>. QED
      BY <3>1, <3>3, <3>4, <3>5 DEF Carried
  <2>6. ASSUME isCandidate(k), ~(race.session_open /\ isAlt(k)),
               race' = [race EXCEPT !.session_open = TRUE],
               Then(t, IF race.has_alt \/ race.mixed_delay_pending
                         THEN << <<"declareWinner", k>>, <<"startKeepalive">> >>
                         ELSE << <<"startKeepalive">> >>)
        PROVE  Carried(l)'
    <3>1. race.primary_leg = l /\ race'.has_alt = race.has_alt
          /\ race'.primary_leg = race.primary_leg
      BY <2>6 DEF Races
    <3>2. CASE k = l
      BY <1>2, <2>2, <3>2 DEF Carried
    <3>3. CASE isAlt(k)
      <4>. DEFINE steps == << <<"declareWinner", "Curl">>, <<"startKeepalive">> >>
      <4>1. k = "Curl" /\ race.has_alt /\ isAlt("Curl")' /\ Then(t, steps)
        BY <2>6, <3>1, <3>3 DEF isAlt
      <4>2. steps \in Seq(Steps)
        <5>1. <<"declareWinner", "Curl">> \in Callbacks
          BY DEF Callbacks, Legs
        <5>2. <<"declareWinner", "Curl">> \in Steps /\ <<"startKeepalive">> \in Steps
          BY <5>1, KindsApart, MildShapes
        <5>. QED
          BY <5>2
      <4>3. 1 \in 1..Len(steps) /\ steps[1] \in Declares
        BY DEF Declares
      <4>. HIDE DEF steps
      <4>4. Pends(Declares)'
        BY <1>4, <4>1, <4>2, <4>3
      <4>. QED
        BY <4>1, <4>4 DEF Carried
    <3>. QED
      BY <2>6, <3>1, <3>2, <3>3 DEF isCandidate
  <2>. QED
    BY <2>1, <2>4, <2>5, <2>6
<1>20. CASE MixedDeclareWinner(t)
  <2>1. PICK k \in Legs :
          /\ Head(todo[t]) = <<"declareWinner", k>>
          /\ \/ race.has_alt /\ k = race.primary_leg /\ race'.primary_leg = race.primary_leg
             \/ isAlt(k) /\ race'.primary_leg = k
             \/ /\ ~isAlt(k) /\ ~(race.has_alt /\ k = race.primary_leg)
                /\ race' = [race EXCEPT !.mixed_delay_pending = FALSE]
    BY <1>20 DEF MixedDeclareWinner, Races
  <2>2. Live(k)
    BY <1>18, <2>1
  <2>3. CASE k = l
    BY <1>2, <2>2, <2>3 DEF Carried
  <2>4. CASE k # l
    <3>1. /\ ~isAlt(k) /\ ~(race.has_alt /\ k = race.primary_leg)
          /\ race' = [race EXCEPT !.mixed_delay_pending = FALSE]
      BY <2>1, <2>4
    <3>2. race.primary_leg = l /\ race.session_open /\ ~isAlt("Curl")
      BY <3>1 DEF Races, isAlt, Legs
    <3>3. Carried(l)
      BY <1>1, <3>2 DEF SessionInv
    <3>4. CASE Live(l)
      BY <1>2, <3>4 DEF Carried
    <3>5. CASE Pends(Closers \cup Fails(l))
      <4>1. Head(todo[t]) \notin Closers \cup Fails(l)
        BY <2>1 DEF Closers, Fails
      <4>2. Pends(Closers \cup Fails(l))'
        BY <1>5, <3>5, <4>1
      <4>. QED
        BY <4>2 DEF Carried
    <3>. QED
      BY <3>2, <3>3, <3>4, <3>5 DEF Carried
  <2>. QED
    BY <2>3, <2>4
<1>. QED
  BY <1>8, <1>9, <1>10, <1>13, <1>15, <1>16, <1>17, <1>19, <1>20, StepCalm

\* What starts a thread keeps an open session carried: a socket that ends it starts
\* on the callback that says so.
LEMMA StartCarried ==
    ASSUME TypeOK, SockInv, SessionInv,
           Wakeup \/ (\E k \in Legs : Transport(k)) \/ Connect \/ Disconnect,
           FirstRace', race'.session_open, NEW l \in Legs, race'.primary_leg = l
    PROVE  Carried(l)'
<1>. DataOK /\ TodoOK /\ race \in Races /\ past \in Pasts
  BY DEF TypeOK, DataOK
<1>1. crash = "none"
  BY StartRuns
<1>2. /\ scenario' = scenario
      /\ race'.session_open = race.session_open /\ race'.primary_leg = race.primary_leg
      /\ race'.has_alt = race.has_alt
  BY DEF Wakeup, DelayElapses, ReconnectElapses, PingTimeout, LeaveTimeout, Connect,
       Disconnect, Transport, SocketBreaks, SocketOpens, SocketFails, SocketClosedByPeer,
       SocketStops, SocketEnds, SocketReceives, OnlyRace, OnlyLeave, OnlySock, Races
<1>3. past.attempts <= past'.attempts
  <2>1. past.attempts \in Nat
    BY DEF Pasts
  <2>2. CASE ReconnectElapses \/ Connect
    <3>1. past'.attempts = past.attempts + 1
      BY <2>2 DEF ReconnectElapses, Connect, Pasts
    <3>. QED
      BY <2>1, <3>1
  <2>3. CASE ~(ReconnectElapses \/ Connect)
    <3>1. past'.attempts = past.attempts
      BY <2>3 DEF Wakeup, DelayElapses, PingTimeout, LeaveTimeout, Disconnect, Transport,
           SocketBreaks, SocketOpens, SocketFails, SocketClosedByPeer, SocketStops,
           SocketEnds, SocketReceives, OnlyRace, OnlyLeave, OnlySock, Pasts
    <3>. QED
      BY <2>1, <3>1
  <2>. QED
    BY <2>2, <2>3
<1>4. FirstRace
  <2>1. past.attempts \in Nat /\ past'.attempts \in Nat
    BY DataStarts DEF Pasts, DataOK
  <2>2. mixedMode => past'.attempts <= 1
    BY <1>2 DEF FirstRace, mixedMode
  <2>3. mixedMode => past.attempts <= 1
    BY <1>3, <2>1, <2>2
  <2>. QED
    BY <2>3 DEF FirstRace
<1>5. Carried(l)
  BY <1>1, <1>2, <1>4 DEF SessionInv
<1>6. \A S : Pends(S) => Pends(S)'
  BY StartsMove
<1>7. CASE Pends(Closers \cup Fails(l)) \/ (isAlt("Curl") /\ Pends(Declares))
  <2>1. Pends(Closers \cup Fails(l)) => Pends(Closers \cup Fails(l))'
    BY <1>6
  <2>2. Pends(Declares) => Pends(Declares)'
    BY <1>6
  <2>. QED
    BY <1>2, <1>7, <2>1, <2>2 DEF Carried, isAlt
<1>8. CASE Live(l)
  <2>1. CASE Wakeup \/ Connect \/ Disconnect
    BY <1>8, <2>1 DEF Wakeup, DelayElapses, ReconnectElapses, PingTimeout, LeaveTimeout,
         Connect, Disconnect, OnlyRace, OnlyLeave, Live, Carried
  <2>2. CASE \E k \in Legs : Transport(k)
    <3>1. Live(l)' \/ SocketFails(l) \/ SocketClosedByPeer(l) \/ SocketStops(l)
      BY <1>1, <1>8, <2>2, TransportLives DEF SockInv
    <3>2. ASSUME SocketFails(l) \/ SocketClosedByPeer(l) \/ SocketStops(l)
          PROVE  Pends(Closers \cup Fails(l))'
      <4>1. PICK f \in Fails(l) : Started(l, <<f>>)
        <5>1. SocketFails(l) =>
                \E k \in {"security", "timeout", "other"} : Started(l, << <<"error", l, k>> >>)
          BY DEF SocketFails, Starts, Started
        <5>2. SocketClosedByPeer(l) =>
                \E how \in {"remote", "token"} : Started(l, << <<"closed", l, how>> >>)
          BY DEF SocketClosedByPeer, Starts, Started
        <5>3. SocketStops(l) => Started(l, << <<"closed", l, "local">> >>)
          BY DEF SocketStops, Starts, Started
        <5>4. /\ \A k \in {"security", "timeout", "other"} : <<"error", l, k>> \in Fails(l)
              /\ \A how \in {"local", "remote", "token"} : <<"closed", l, how>> \in Fails(l)
          BY DEF Fails
        <5>. QED
          BY <3>2, <5>1, <5>2, <5>3, <5>4
      <4>2. f \in Steps
        BY DEF Fails, Steps
      <4>3. <<f>> \in Seq(Steps) /\ 1 \in 1..Len(<<f>>) /\ <<f>>[1] \in Closers \cup Fails(l)
        BY <4>2
      <4>. QED
        BY <4>1, <4>3, StartPends DEF Started, Threads
    <3>. QED
      BY <3>1, <3>2 DEF Carried
  <2>. QED
    BY <2>1, <2>2
<1>. QED
  BY <1>5, <1>7, <1>8 DEF Carried

-------------------------------------------------------------------------------
(* The first attempt begins with nobody else about.                          *)

\* What is pending after a step was pending before it, or was put in its place.
LEMMA ThenPended ==
    ASSUME TodoOK, NEW t \in Threads, todo[t] # <<>>, NEW steps \in Seq(Steps),
           Then(t, steps), NEW S, \A i \in 1..Len(steps) : steps[i] \notin S, Pends(S)'
    PROVE  Pends(S)
<1>1. PICK u \in Threads : \E i \in 1..Len(todo'[u]) : todo'[u][i] \in S
  BY DEF Pends
<1>2. PICK i \in 1..Len(todo'[u]) : todo'[u][i] \in S
  BY <1>1
<1>3. CASE u # t
  <2>1. todo'[u] = todo[u]
    BY <1>3, ThenAt
  <2>. QED
    BY <1>2, <2>1 DEF Pends
<1>4. CASE u = t
  <2>1. /\ i - Len(steps) + 1 \in 2..Len(todo[t])
        /\ todo'[t][i] = todo[t][i - Len(steps) + 1]
    BY <1>2, <1>4, ThenAt
  <2>2. i - Len(steps) + 1 \in 1..Len(todo[t])
    BY <2>1
  <2>. QED
    BY <1>2, <1>4, <2>1, <2>2 DEF Pends
<1>. QED
  BY <1>3, <1>4

\* A beginConnect ends with the choice of a leg and its opening.
Ordered(seq) ==
    \A i \in 1..Len(seq) :
        /\ seq[i] = <<"openPrimary">> => i = Len(seq)
        /\ seq[i] = <<"chooseLeg">> => i + 1 = Len(seq) /\ seq[i + 1] = <<"openPrimary">>
OrderInv == \A t \in Threads : Ordered(todo[t])

\* The i-th step that t puts in place neither chooses nor opens a leg.
LEMMA TurnsNoBegin ==
    ASSUME NEW t, NEW steps, NEW i, TurnsInto(t, steps, i)
    PROVE  steps[i] \notin Begins
<1>1. \A l \in Legs : <<"declareWinner", l>> \in Callbacks
  BY DEF Callbacks
<1>. QED
  BY <1>1, KindsApart DEF TurnsInto

LEMMA BeginConnectSteps ==
    /\ Len(beginConnect) = 8
    /\ beginConnect[1] = <<"beginConnect">> /\ beginConnect[2] = <<"cancelMixedRace", "join">>
    /\ beginConnect[3] = <<"closeCurl", "join">> /\ beginConnect[4] = <<"closeQuic", "join">>
    /\ beginConnect[5] = <<"allClosed">> /\ beginConnect[6] = <<"unsuppress">>
    /\ beginConnect[7] = <<"chooseLeg">> /\ beginConnect[8] = <<"openPrimary">>
BY DEF beginConnect, closeAllTransports

LEMMA OrderStep == TypeOK /\ OrderInv /\ [Next]_vars => OrderInv'
<1>. SUFFICES ASSUME TypeOK, OrderInv, [Next]_vars, NEW u \in Threads PROVE Ordered(todo'[u])
  BY DEF OrderInv
<1>. DataOK /\ TodoOK
  BY DEF TypeOK
<1>0. Ordered(todo[u])
  BY DEF OrderInv
<1>1. ASSUME NEW t \in Threads, Step(t) PROVE Ordered(todo'[u])
  <2>1. PICK steps \in Seq(Steps) :
          Then(t, steps) /\ \A j \in 1..Len(steps) : TurnsInto(t, steps, j)
    BY <1>1, StepTurnsInto
  <2>2. \A j \in 1..Len(steps) : steps[j] \notin Begins
    BY <2>1, TurnsNoBegin
  <2>3. todo[t] # <<>>
    BY <1>1, StepMoves
  <2>4. CASE u # t
    <3>1. todo'[u] = todo[u]
      BY <2>1, <2>3, <2>4, ThenAt
    <3>. QED
      BY <1>0, <3>1
  <2>5. CASE u = t
    <3>1. \A i \in 1..Len(todo'[t]) : todo'[t][i] \in Begins =>
            /\ i - Len(steps) + 1 \in 2..Len(todo[t])
            /\ todo'[t][i] = todo[t][i - Len(steps) + 1]
      BY <2>1, <2>2, <2>3, ThenAt
    <3>2. /\ Len(todo'[t]) = Len(steps) + Len(todo[t]) - 1
          /\ \A i \in 2..Len(todo[t]) : todo'[t][Len(steps) + i - 1] = todo[t][i]
      <4>1. todo[t] \in Seq(Steps) /\ Tail(todo[t]) \in Seq(Steps)
            /\ Len(Tail(todo[t])) = Len(todo[t]) - 1
            /\ todo'[t] = steps \o Tail(todo[t])
        BY <2>1, <2>3 DEF Then, TodoOK
      <4>2. \A i \in 1..Len(Tail(todo[t])) : Tail(todo[t])[i] = todo[t][i + 1]
        BY <2>3, <4>1
      <4>3. Len(todo'[t]) = Len(steps) + Len(todo[t]) - 1
        BY <4>1
      <4>4. ASSUME NEW i \in 2..Len(todo[t])
            PROVE  todo'[t][Len(steps) + i - 1] = todo[t][i]
        <5>1. i - 1 \in 1..Len(Tail(todo[t])) /\ i - 1 + 1 = i
              /\ Len(steps) + i - 1 = Len(steps) + (i - 1)
          BY <4>1
        <5>2. Tail(todo[t])[i - 1] = todo[t][i]
          BY <4>2, <5>1
        <5>3. todo'[t][Len(steps) + (i - 1)] = Tail(todo[t])[i - 1]
          BY <4>1, <5>1, LastOf
        <5>. QED
          BY <5>1, <5>2, <5>3
      <4>. QED
        BY <4>3, <4>4
    <3>3. ASSUME NEW i \in 1..Len(todo'[t]), todo'[t][i] \in Begins
          PROVE  /\ todo'[t][i] = <<"openPrimary">> => i = Len(todo'[t])
                 /\ todo'[t][i] = <<"chooseLeg">> =>
                       i + 1 = Len(todo'[t]) /\ todo'[t][i + 1] = <<"openPrimary">>
      <4>. DEFINE j == i - Len(steps) + 1
      <4>1. j \in 2..Len(todo[t]) /\ j \in 1..Len(todo[t]) /\ todo'[t][i] = todo[t][j]
        BY <3>1, <3>3
      <4>2. /\ todo[t][j] = <<"openPrimary">> => j = Len(todo[t])
            /\ todo[t][j] = <<"chooseLeg">> =>
                  j + 1 = Len(todo[t]) /\ todo[t][j + 1] = <<"openPrimary">>
        BY <1>0, <2>5, <4>1 DEF Ordered
      <4>3. Len(steps) \in Nat /\ Len(todo[t]) \in Nat /\ i = Len(steps) + j - 1
        BY DEF TodoOK
      <4>. HIDE DEF j
      <4>4. j = Len(todo[t]) => i = Len(todo'[t])
        BY <3>2, <4>1, <4>3
      <4>5. j + 1 = Len(todo[t]) => /\ i + 1 = Len(todo'[t])
                                    /\ todo'[t][i + 1] = todo[t][j + 1]
        <5>. SUFFICES ASSUME j + 1 = Len(todo[t]) PROVE /\ i + 1 = Len(todo'[t])
                                                        /\ todo'[t][i + 1] = todo[t][j + 1]
          OBVIOUS
        <5>1. j + 1 \in 2..Len(todo[t]) /\ i + 1 = Len(steps) + (j + 1) - 1
          BY <4>1, <4>3
        <5>2. todo'[t][Len(steps) + (j + 1) - 1] = todo[t][j + 1]
          BY <3>2, <5>1
        <5>. QED
          BY <3>2, <4>1, <4>3, <5>1, <5>2
      <4>. QED
        BY <4>1, <4>2, <4>4, <4>5
    <3>. QED
      BY <2>5, <3>3 DEF Ordered, Begins
  <2>. QED
    BY <2>4, <2>5
<1>2. CASE Wakeup \/ (\E k \in Legs : Transport(k)) \/ Connect \/ Disconnect
  <2>1. ASSUME NEW t \in Threads, NEW steps, Started(t, steps), Ordered(steps)
        PROVE  Ordered(todo'[u])
    BY <1>0, <2>1, StartedAt
  <2>2. \A steps \in Milds : Ordered(steps)
    BY KindsApart DEF Milds, Ordered, Begins
  <2>3. ASSUME NEW s \in Callbacks \cup Fails("Quic") PROVE Ordered(<<s>>)
    <3>1. s \notin Begins
      BY KindsApart DEF Tokens
    <3>2. Len(<<s>>) = 1 /\ <<s>>[1] = s
      OBVIOUS
    <3>3. \A i \in 1..Len(<<s>>) : <<s>>[i] \notin Begins
      BY <3>1, <3>2
    <3>. QED
      BY <3>3 DEF Ordered, Begins
  <2>4. Ordered(beginConnect)
    <3>1. Len(beginConnect) = 8 /\ beginConnect[8] = <<"openPrimary">>
          /\ beginConnect[7] = <<"chooseLeg">>
      BY BeginConnectSteps
    <3>2. \A i \in 1..6 : beginConnect[i] \notin Begins
      BY BeginConnectSteps DEF Begins
    <3>. QED
      BY <3>1, <3>2 DEF Ordered, Begins
  <2>5. \A l \in Legs : <<"opened", l>> \in Callbacks
    BY DEF Callbacks
  <2>. QED
    BY <1>2, <2>1, <2>2, <2>3, <2>4, <2>5, StartsTurn, ThreadNames DEF StartTurns, Legs
<1>3. CASE UNCHANGED vars
  BY <1>0, <1>3 DEF vars
<1>. QED
  BY <1>1, <1>2, <1>3 DEF Next, Busy

LEMMA OrderInit == Init => OrderInv
BY DEF Init, OrderInv, Ordered

\* The configuration never changes.
LEMMA SameScenario == DataOK /\ [Next]_vars => scenario' = scenario
<1>. SUFFICES ASSUME DataOK, [Next]_vars PROVE scenario' = scenario
  OBVIOUS
<1>1. CASE Wakeup \/ (\E l \in Legs : Transport(l)) \/ Connect \/ Disconnect
  BY <1>1 DEF Wakeup, DelayElapses, ReconnectElapses, PingTimeout, LeaveTimeout, Connect,
       Disconnect, Transport, SocketBreaks, SocketOpens, SocketFails, SocketClosedByPeer,
       SocketStops, SocketEnds, SocketReceives, OnlyRace, OnlyLeave, OnlySock
<1>. QED
  BY <1>1, StepFirst DEF Next, Busy, vars

\* Only the Mixed implementation starts a TCP leg.
PromoteInv == ~mixedMode => ~Pends(Promotes)

LEMMA PromoteStep == TypeOK /\ PromoteInv /\ [Next]_vars => PromoteInv'
<1>. SUFFICES ASSUME TypeOK, PromoteInv, [Next]_vars, ~mixedMode', Pends(Promotes)' PROVE FALSE
  BY DEF PromoteInv
<1>. DataOK /\ TodoOK
  BY DEF TypeOK
<1>1. ~mixedMode /\ ~Pends(Promotes)
  BY SameScenario DEF mixedMode, PromoteInv
<1>2. ASSUME NEW t \in Threads, Step(t) PROVE FALSE
  <2>1. PICK steps \in Seq(Steps) :
          Then(t, steps) /\ \A j \in 1..Len(steps) : TurnsInto(t, steps, j)
    BY <1>2, StepTurnsInto
  <2>2. \A j \in 1..Len(steps) : steps[j] \notin Promotes
    <3>1. \A l \in Legs : <<"declareWinner", l>> \in Callbacks
      BY DEF Callbacks
    <3>. QED
      BY <1>1, <2>1, <3>1, KindsApart DEF TurnsInto, Tokens
  <2>. QED
    BY <1>1, <1>2, <2>1, <2>2, ThenPended, StepMoves
<1>3. CASE Wakeup \/ (\E k \in Legs : Transport(k)) \/ Connect \/ Disconnect
  <2>1. ASSUME NEW t \in Threads, NEW steps, Started(t, steps),
               \A i \in 1..Len(steps) : steps[i] \notin Promotes
        PROVE  FALSE
    <3>1. todo'[t] = steps /\ \A u \in Threads \ {t} : todo'[u] = todo[u]
      BY <2>1, StartedAt
    <3>. QED
      BY <1>1, <2>1, <3>1 DEF Pends
  <2>2. \A steps \in Milds : \A i \in 1..Len(steps) : steps[i] \notin Promotes
    BY KindsApart DEF Milds, Tokens
  <2>3. ASSUME NEW s \in Callbacks \cup Fails("Quic")
        PROVE  \A i \in 1..Len(<<s>>) : <<s>>[i] \notin Promotes
    <3>1. s \notin Promotes
      BY KindsApart DEF Tokens
    <3>. QED
      BY <3>1
  <2>4. \A i \in 1..Len(beginConnect) : beginConnect[i] \notin Promotes
    BY BeginConnectSteps DEF Promotes
  <2>5. \A l \in Legs : <<"opened", l>> \in Callbacks
    BY DEF Callbacks
  <2>. QED
    BY <1>3, <2>1, <2>2, <2>3, <2>4, <2>5, StartsTurn, ThreadNames DEF StartTurns, Legs
<1>4. CASE UNCHANGED vars
  BY <1>1, <1>4 DEF vars, Pends
<1>. QED
  BY <1>2, <1>3, <1>4 DEF Next, Busy

LEMMA PromoteInit == Init => PromoteInv
BY DEF Init, PromoteInv, Pends

\* What the application's thread may have to do in a disconnect before any attempt,
\* and in these and the first beginConnect.
Pre ==
    {<<s>> : s \in {"sendLeave", "closeAfterDisconnect", "allClosed", "joinCurl", "unlockCurl",
                    "joinQuic", "sessionOff", "scheduleReconnect"}}
    \cup ({"cancelMixedRace", "closeCurl", "closeQuic"} \X {"join", "async"})
    \cup ({"closed"} \X Legs \X {"local"})
    \cup {<<"failure", "Curl", "none", "reconnect">>}
Beginning ==
    Pre \cup {<<s>> : s \in {"beginConnect", "unsuppress", "chooseLeg", "openPrimary", "failFatal",
                             "report", "reconnecting", "resume", "armReconnect"}}
Pres       == Seq(Pre)
Beginnings == Seq(Beginning)

\* No leg was opened yet, whoever is on the way to it.
Opening == {<<"openPrimary">>}
Young   == past.attempts = 0 \/ (past.attempts = 1 /\ Pends(Opening))

\* All that is left is to open the leg.
OpensOnly(seq) == Len(seq) = 1 /\ seq[1] = <<"openPrimary">>

\* Until the first leg of the first connection is opened, only the application's
\* thread runs, in a beginConnect or a disconnect, and nothing is armed.
YoungInv ==
    crash = "none" /\ Young =>
        /\ \A t \in Threads \ {"app"} : todo[t] = <<>>
        /\ \A l \in Legs : ~sock[l].alive
        /\ ~race.mixed_delay_pending /\ ~ping.armed /\ ~leave.armed
        /\ todo["app"] \in Beginnings
        /\ race.primary_leg = "Curl" \/ OpensOnly(todo["app"])
        /\ past.attempts = 0 =>
              /\ ~retry.armed /\ race.primary_leg = "Curl" /\ todo["app"] \in Pres
              /\ retry.user_closed \/ todo["app"] = <<>>

LEMMA BeginningShapes ==
    /\ Pre \subseteq Beginning /\ Beginning \subseteq Steps
    /\ \A s \in {"sendLeave", "closeAfterDisconnect", "allClosed", "joinCurl", "unlockCurl",
                 "joinQuic", "sessionOff", "scheduleReconnect"} : <<s>> \in Pre
    /\ \A s \in {"cancelMixedRace", "closeCurl", "closeQuic"}, how \in {"join", "async"} :
          <<s, how>> \in Pre
    /\ \A l \in Legs : <<"closed", l, "local">> \in Pre
    /\ <<"failure", "Curl", "none", "reconnect">> \in Pre
    /\ \A s \in {"beginConnect", "unsuppress", "chooseLeg", "openPrimary", "failFatal",
                 "report", "reconnecting", "resume", "armReconnect"} : <<s>> \in Beginning
<1>1. Pre \subseteq Steps
  BY DEF Pre, Steps, Legs
<1>2. {<<s>> : s \in {"beginConnect", "unsuppress", "chooseLeg", "openPrimary", "failFatal",
                      "report", "reconnecting", "resume", "armReconnect"}} \subseteq Steps
  BY DEF Steps
<1>. QED
  BY <1>1, <1>2 DEF Beginning, Pre

LEMMA NotBeginning ==
    /\ \A s \in {"startKeepalive", "scheduleFallback", "startFallback", "openAlt", "enterRace",
                 "unlockRace", "tell", "awaitLeave"} : <<s>> \notin Beginning
    /\ \A s \in {"opened", "declareWinner"}, l \in Legs : <<s, l>> \notin Beginning
    /\ \A k \in {"fatal", "reconnect"} : <<"promote", k>> \notin Beginning
    /\ \A l \in Legs, k \in {"security", "timeout", "other"} : <<"error", l, k>> \notin Beginning
    /\ \A l \in Legs, m \in {"ok", "leave", "refused"} : <<"recv", l, m>> \notin Beginning
    /\ \A l \in Legs, how \in {"local", "remote", "token"} :
          <<"closed", l, how>> \in Beginning => how = "local"
    /\ \A l \in Legs, f \in {"fallback", "none"}, k \in {"fatal", "reconnect"} :
          <<"failure", l, f, k>> \in Beginning => l = "Curl" /\ f = "none" /\ k = "reconnect"
    /\ \A s \in {"beginConnect", "unsuppress", "chooseLeg", "openPrimary", "failFatal",
                 "report", "reconnecting", "resume", "armReconnect"} : <<s>> \notin Pre
BY DEF Beginning, Pre

LEMMA FewBeginning ==
    /\ Pres \subseteq Beginnings
    /\ <<>> \in Pres
    /\ \A a \in Pre : <<a>> \in Pres
    /\ \A a, b \in Pre : <<a, b>> \in Pres
    /\ \A a, b, c, d \in Pre : <<a, b, c, d>> \in Pres
    /\ \A a, b, c \in Beginnings : a \o b \o c \in Beginnings
    /\ \A a \in Beginning : <<a>> \in Beginnings
    /\ \A a, b \in Beginning : <<a, b>> \in Beginnings
    /\ \A a, b, c \in Beginning : <<a, b, c>> \in Beginnings
<1>1. Pre \subseteq Beginning
  BY BeginningShapes
<1>2. Pres \subseteq Beginnings
  BY <1>1 DEF Pres, Beginnings
<1>3. /\ <<>> \in Pres
      /\ \A a \in Pre : <<a>> \in Pres
      /\ \A a, b \in Pre : <<a, b>> \in Pres
      /\ \A a, b, c, d \in Pre : <<a, b, c, d>> \in Pres
  BY DEF Pres
<1>4. /\ \A a, b, c \in Beginnings : a \o b \o c \in Beginnings
      /\ \A a \in Beginning : <<a>> \in Beginnings
      /\ \A a, b \in Beginning : <<a, b>> \in Beginnings
      /\ \A a, b, c \in Beginning : <<a, b, c>> \in Beginnings
  BY DEF Beginnings
<1>. QED
  BY <1>2, <1>3, <1>4

\* The functions that run before the first leg is opened.
LEMMA BeginningFunctions ==
    /\ \A how \in {"join", "async"} : closeAllTransports(how) \in Pres
    /\ failFatal \in Beginnings
    /\ beginConnect \in Beginnings
    /\ << <<"reconnecting">> >> \o closeAllTransports("async")
          \o << <<"resume">>, <<"armReconnect">> >> \in Beginnings
<1>1. ASSUME NEW how \in {"join", "async"}
      PROVE  closeAllTransports(how) \in Pres /\ closeAllTransports(how) \in Beginnings
  BY BeginningShapes, FewBeginning DEF closeAllTransports
<1>2. failFatal \in Beginnings
  <2>1. << <<"failFatal">> >> \in Beginnings /\ << <<"report">> >> \in Beginnings
    BY BeginningShapes, FewBeginning
  <2>. QED
    BY <1>1, <2>1, FewBeginning DEF failFatal
<1>3. beginConnect \in Beginnings
  <2>1. << <<"beginConnect">> >> \in Beginnings
        /\ << <<"unsuppress">>, <<"chooseLeg">>, <<"openPrimary">> >> \in Beginnings
    BY BeginningShapes, FewBeginning
  <2>. QED
    BY <1>1, <2>1, FewBeginning DEF beginConnect
<1>4. << <<"reconnecting">> >> \o closeAllTransports("async")
        \o << <<"resume">>, <<"armReconnect">> >> \in Beginnings
  <2>1. << <<"reconnecting">> >> \in Beginnings
        /\ << <<"resume">>, <<"armReconnect">> >> \in Beginnings
    BY BeginningShapes, FewBeginning
  <2>. QED
    BY <1>1, <2>1, FewBeginning
<1>. QED
  BY <1>1, <1>2, <1>3, <1>4

\* The steps a thread runs at a beginning, when no transport lives.
LEMMA BeginningSteps ==
    ASSUME NEW t \in Threads, Step(t), Head(todo[t]) \in Beginning, ~OpenPrimary(t),
           race.primary_leg = "Curl"
    PROVE  \/ CloseStep(t) \/ BeginConnect(t) \/ Unsuppress(t) \/ ChooseLeg(t)
           \/ HandleMixedTransportFailure(t) /\ UNCHANGED race
                /\ Then(t, afterFailure("reconnect"))
           \/ SessionOff(t) \/ onTransportClose(t) \/ FailFatal(t) \/ Report(t)
           \/ ScheduleReconnect(t) \/ Reconnecting(t) \/ Resume(t) \/ ArmReconnect(t)
           \/ SendLeave(t) \/ CloseSocketAfterDisconnect(t)
<1>. USE DEF At
<1>1. ASSUME \/ ScheduleMixedTcpFallback(t) \/ StartMixedTcpFallback(t) \/ OpenAlt(t)
             \/ EnterRace(t) \/ UnlockRace(t) \/ Promote(t)
      PROVE  FALSE
  BY <1>1, NotBeginning DEF ScheduleMixedTcpFallback, StartMixedTcpFallback, OpenAlt, EnterRace,
        UnlockRace, Promote
<1>2. ASSUME HandleMixedTransportFailure(t)
      PROVE  UNCHANGED race /\ Then(t, afterFailure("reconnect"))
  <2>1. Head(todo[t]) = <<"failure", "Curl", "none", "reconnect">>
    <3>1. PICK l \in Legs, f \in {"fallback", "none"}, k \in {"fatal", "reconnect"} :
            Head(todo[t]) = <<"failure", l, f, k>>
      BY <1>2 DEF HandleMixedTransportFailure
    <3>. QED
      BY <3>1, NotBeginning
  <2>2. ~isAlt("Curl")
    BY DEF isAlt
  <2>. QED
    BY <1>2, <2>1, <2>2 DEF HandleMixedTransportFailure
<1>3. ASSUME onTransportOpen(t) PROVE FALSE
  BY <1>3, NotBeginning DEF onTransportOpen
<1>4. ASSUME MixedDeclareWinner(t) PROVE FALSE
  BY <1>4, NotBeginning DEF MixedDeclareWinner
<1>5. ASSUME StartKeepalive(t) \/ Tell(t) \/ AwaitLeave(t) PROVE FALSE
  BY <1>5, NotBeginning DEF StartKeepalive, Tell, AwaitLeave
<1>6. ASSUME onTransportError(t) PROVE FALSE
  BY <1>6, NotBeginning DEF onTransportError
<1>7. ASSUME onTransportRecv(t) PROVE FALSE
  <2>1. PICK l \in Legs, m \in {"ok", "leave", "refused"} : Head(todo[t]) = <<"recv", l, m>>
    BY <1>7 DEF onTransportRecv
  <2>. QED
    BY <2>1, NotBeginning
<1>. QED
  BY <1>1, <1>2, <1>3, <1>4, <1>5, <1>6, <1>7, Zenon
     DEF Step, ConnectStep, CallbackStep, RetryStep

\* A thread at a step of a beginning goes on with steps of a beginning; one that the
\* application has closed, with steps of a disconnect.
GoesOn(t) ==
    \E steps \in Beginnings :
        Then(t, steps) /\ (Head(todo[t]) \in Pre /\ retry.user_closed => steps \in Pres)

LEMMA BeginningTurns ==
    ASSUME DataOK, NEW t \in Threads, Step(t), Head(todo[t]) \in Beginning, ~OpenPrimary(t),
           \A l \in Legs : ~sock[l].alive, race.primary_leg = "Curl"
    PROVE  GoesOn(t)
<1>. USE DEF At
<1>0. ASSUME NEW steps \in Pres, Then(t, steps) PROVE GoesOn(t)
  BY <1>0, FewBeginning DEF GoesOn
<1>1. CASE CloseStep(t)
  <2>1. PICK steps \in {<<>>, << <<"closeCurl", "join">> >>, << <<"closeCurl", "async">> >>,
                        << <<"joinCurl">> >>, << <<"unlockCurl">> >>, << <<"joinQuic">> >>,
                        << <<"closed", "Curl", "local">>, <<"unlockCurl">> >>,
                        << <<"closed", "Quic", "local">> >>} : Then(t, steps)
    <3>1. CASE CancelMixedRace(t)
      BY <3>1 DEF CancelMixedRace
    <3>2. CASE CloseCurlAsync(t) \/ CloseCurlJoin(t) \/ JoinCurl(t) \/ UnlockCurl(t)
      BY <3>2 DEF CloseCurlAsync, CloseCurlJoin, JoinCurl, UnlockCurl
    <3>3. CASE CloseQuicAsync(t) \/ CloseQuicJoin(t) \/ JoinQuic(t) \/ AllClosed(t)
      BY <3>3 DEF CloseQuicAsync, CloseQuicJoin, JoinQuic, AllClosed
    <3>. QED
      BY <1>1, <3>1, <3>2, <3>3 DEF CloseStep
  <2>2. /\ <<"closeCurl", "join">> \in Pre /\ <<"closeCurl", "async">> \in Pre
        /\ <<"joinCurl">> \in Pre /\ <<"unlockCurl">> \in Pre /\ <<"joinQuic">> \in Pre
        /\ <<"closed", "Curl", "local">> \in Pre /\ <<"closed", "Quic", "local">> \in Pre
    BY BeginningShapes DEF Legs
  <2>3. steps \in Pres
    BY <2>2, FewBeginning
  <2>. QED
    BY <1>0, <2>1, <2>3
<1>2. CASE \/ BeginConnect(t) \/ Unsuppress(t) \/ ChooseLeg(t) \/ SessionOff(t) \/ FailFatal(t)
           \/ Report(t) \/ Reconnecting(t) \/ Resume(t) \/ ArmReconnect(t)
  BY <1>0, <1>2, FewBeginning DEF BeginConnect, Unsuppress, ChooseLeg, SessionOff, FailFatal,
        Report, Reconnecting, Resume, ArmReconnect
<1>3. CASE Then(t, afterFailure("reconnect"))
  <2>1. afterFailure("reconnect") = << <<"sessionOff">>, <<"scheduleReconnect">> >>
    BY DEF afterFailure
  <2>. QED
    BY <1>0, <1>3, <2>1, BeginningShapes, FewBeginning
<1>4. CASE onTransportClose(t)
  <2>1. PICK l \in Legs, how \in {"local", "remote", "token"} :
          /\ Head(todo[t]) = <<"closed", l, how>>
          /\ Then(t, IF ~isCandidate(l) THEN <<>>
                     ELSE IF how = "token" THEN failFatal
                     ELSE << <<"failure", l,
                               IF how = "remote" /\ ~retry.user_closed THEN "fallback" ELSE "none",
                               "reconnect">> >>)
    BY <1>4 DEF onTransportClose
  <2>2. how = "local"
    BY <2>1, NotBeginning
  <2>3. isCandidate(l) => l = "Curl"
    BY DEF isCandidate, isAlt
  <2>4. Then(t, <<>>) \/ Then(t, << <<"failure", "Curl", "none", "reconnect">> >>)
    BY <2>1, <2>2, <2>3
  <2>. QED
    BY <1>0, <2>4, BeginningShapes, FewBeginning
<1>5. CASE ScheduleReconnect(t)
  <2>1. \/ Then(t, <<>>)
        \/ ~retry.user_closed /\ Then(t, failFatal)
        \/ /\ ~retry.user_closed
           /\ Then(t, << <<"reconnecting">> >> \o closeAllTransports("async")
                      \o << <<"resume">>, <<"armReconnect">> >>)
    BY <1>5 DEF ScheduleReconnect
  <2>. QED
    BY <1>0, <2>1, FewBeginning, BeginningFunctions DEF GoesOn
<1>6. CASE SendLeave(t)
  <2>1. \A taken \in LeaveTaken(race.primary_leg) : taken = FALSE
    <3>1. sock["Curl"].alive = FALSE
      BY DEF DataOK, Sockets, Legs
    <3>2. LET runs == sock["Curl"].alive /\ sock["Curl"].state # "Closed"
          IN  LeaveTaken(race.primary_leg) = {runs, runs /\ ~sock["Curl"].reported}
      BY DEF LeaveTaken
    <3>3. (sock["Curl"].alive /\ ~sock["Curl"].reported) = FALSE
      BY <3>1
    <3>. QED
      BY <3>1, <3>2, <3>3
  <2>2. Then(t, << <<"closeAfterDisconnect">> >>)
    BY <1>6, <2>1 DEF SendLeave
  <2>. QED
    BY <1>0, <2>2, BeginningShapes, FewBeginning
<1>7. CASE CloseSocketAfterDisconnect(t)
  BY <1>0, <1>7, FewBeginning, BeginningFunctions DEF CloseSocketAfterDisconnect
<1>. QED
  BY <1>1, <1>2, <1>3, <1>4, <1>5, <1>6, <1>7, BeginningSteps

\* What a step of a beginning leaves alone: nothing is armed, no leg opened.
LEMMA BeginningData ==
    ASSUME DataOK, NEW t \in Threads, Step(t), Head(todo[t]) \in Beginning, ~OpenPrimary(t),
           \A l \in Legs : ~sock[l].alive, race.primary_leg = "Curl"
    PROVE  /\ race'.mixed_delay_pending => race.mixed_delay_pending
           /\ ping'.armed => ping.armed
           /\ leave'.armed => leave.armed
           /\ \A l \in Legs : ~sock'[l].alive
           /\ race'.primary_leg = race.primary_leg \/ ChooseLeg(t)
           /\ Head(todo[t]) \in Pre => retry' = retry /\ race'.primary_leg = race.primary_leg
<1>. USE DEF At
<1>. race \in Races /\ ping \in Pings /\ leave \in Leaves /\ sock \in [Legs -> Sockets]
  BY DEF DataOK
<1>1. CASE CancelMixedRace(t) \/ AllClosed(t) \/ SessionOff(t)
  BY <1>1 DEF CancelMixedRace, AllClosed, SessionOff, OnlyRace, Races
<1>2. CASE \/ CloseCurlAsync(t) \/ CloseCurlJoin(t) \/ JoinCurl(t) \/ CloseQuicAsync(t)
           \/ CloseQuicJoin(t) \/ JoinQuic(t)
  <2>1. \A l \in Legs : CloseRequested(sock[l]).alive = sock[l].alive
                       /\ Joined(sock[l]).alive = sock[l].alive
    BY DEF CloseRequested, Joined, Sockets
  <2>2. UNCHANGED <<race, retry, ping, leave>>
    BY <1>2 DEF CloseCurlAsync, CloseCurlJoin, JoinCurl, CloseQuicAsync, CloseQuicJoin,
         JoinQuic, OnlySock
  <2>3. PICK l \in Legs : \/ sock' = [sock EXCEPT ![l] = CloseRequested(@)]
                          \/ sock' = [sock EXCEPT ![l] = Joined(@)]
    BY <1>2 DEF CloseCurlAsync, CloseCurlJoin, JoinCurl, CloseQuicAsync, CloseQuicJoin,
         JoinQuic, Legs
  <2>4. \A k \in Legs : ~sock'[k].alive
    BY <2>1, <2>3
  <2>. QED
    BY <2>2, <2>4
<1>3. CASE UnlockCurl(t) \/ onTransportClose(t) \/ ScheduleReconnect(t)
  BY <1>3 DEF UnlockCurl, onTransportClose, ScheduleReconnect, OnlyTodo
<1>4. CASE BeginConnect(t) \/ FailFatal(t) \/ Reconnecting(t)
  <2>1. Head(todo[t]) \notin Pre
    BY <1>4, NotBeginning DEF BeginConnect, FailFatal, Reconnecting
  <2>2. UNCHANGED <<race, leave, sock>> /\ ping' = [armed |-> FALSE, answered |-> FALSE]
    BY <1>4 DEF BeginConnect, FailFatal, Reconnecting
  <2>. QED
    BY <2>1, <2>2
<1>5. CASE Unsuppress(t) \/ ArmReconnect(t)
  BY <1>5, NotBeginning DEF Unsuppress, ArmReconnect, OnlyRetry
<1>6. CASE ChooseLeg(t) \/ Report(t) \/ Resume(t)
  BY <1>6, NotBeginning DEF ChooseLeg, Report, Resume, OnlyRace, Races
<1>7. CASE HandleMixedTransportFailure(t) /\ UNCHANGED race
  BY <1>7 DEF HandleMixedTransportFailure, OnlyRace
<1>8. CASE SendLeave(t)
  BY <1>8 DEF SendLeave, OnlyLeave, Leaves
<1>9. CASE CloseSocketAfterDisconnect(t)
  BY <1>9 DEF CloseSocketAfterDisconnect, OnlyLeave, Leaves
<1>. QED
  BY <1>1, <1>2, <1>3, <1>4, <1>5, <1>6, <1>7, <1>8, <1>9, BeginningSteps DEF CloseStep

\* Until then the thread that runs is the application's, at a step of a beginning.
LEMMA YoungMoves ==
    ASSUME TypeOK, OrderInv, YoungInv, NEW t \in Threads, Step(t), Young'
    PROVE  /\ Young /\ t = "app" /\ Head(todo[t]) \in Beginning /\ ~OpenPrimary(t)
           /\ race.primary_leg = "Curl"
<1>. DataOK /\ TodoOK /\ past \in Pasts /\ "app" \in Threads
  BY DEF TypeOK, DataOK, Threads
<1>0. past.attempts \in Nat
  BY DEF Pasts
<1>1. /\ crash = "none" /\ past'.attempts = past.attempts /\ todo[t] # <<>>
  BY StepRuns, StepFirst, StepMoves
<1>2. PICK turns \in Seq(Steps) :
        Then(t, turns) /\ \A i \in 1..Len(turns) : TurnsInto(t, turns, i)
  BY StepTurnsInto
<1>3. \A i \in 1..Len(turns) : turns[i] \notin Opening
  BY <1>2, TurnsNoBegin DEF Begins, Opening
<1>4. Young
  <2>1. Pends(Opening)' => Pends(Opening)
    BY <1>1, <1>2, <1>3, ThenPended
  <2>. QED
    BY <1>1, <2>1 DEF Young
<1>5. /\ \A u \in Threads \ {"app"} : todo[u] = <<>>
      /\ \A l \in Legs : ~sock[l].alive
      /\ ~race.mixed_delay_pending /\ ~ping.armed /\ ~leave.armed
      /\ todo["app"] \in Beginnings
      /\ race.primary_leg = "Curl" \/ OpensOnly(todo["app"])
      /\ past.attempts = 0 =>
            /\ ~retry.armed /\ race.primary_leg = "Curl" /\ todo["app"] \in Pres
            /\ retry.user_closed \/ todo["app"] = <<>>
  BY <1>0, <1>1, <1>4 DEF YoungInv
<1>6. t = "app" /\ Head(todo[t]) \in Beginning /\ Tail(todo[t]) \in Beginnings
  BY <1>1, <1>5 DEF Beginnings
<1>7. past.attempts = 0 => Head(todo[t]) \in Pre /\ Tail(todo[t]) \in Pres
  BY <1>1, <1>5, <1>6 DEF Pres
<1>8. 1 \in 1..Len(todo[t]) /\ todo[t][1] = Head(todo[t])
  BY <1>1 DEF TodoOK
<1>9. ~OpenPrimary(t)
  <2>. SUFFICES ASSUME OpenPrimary(t) PROVE FALSE
    OBVIOUS
  <2>1. Head(todo[t]) = <<"openPrimary">>
    BY DEF OpenPrimary, At
  <2>2. past.attempts # 0
    BY <1>7, <2>1, NotBeginning
  <2>3. Len(todo[t]) = 1
    BY <1>8, <2>1 DEF OrderInv, Ordered
  <2>4. PICK u \in Threads : \E i \in 1..Len(todo'[u]) : todo'[u][i] \in Opening
    BY <1>1, <2>2 DEF Young, Pends
  <2>5. u = t
    BY <1>1, <1>2, <1>5, <1>6, <2>4, ThenAt
  <2>6. PICK i \in 1..Len(todo'[t]) : todo'[t][i] \in Opening
    BY <2>4, <2>5
  <2>7. i - Len(turns) + 1 \in 2..Len(todo[t])
    BY <1>1, <1>2, <1>3, <2>6, ThenAt
  <2>. QED
    BY <2>3, <2>7
<1>10. race.primary_leg = "Curl"
  <2>. SUFFICES ASSUME OpensOnly(todo[t]) PROVE FALSE
    BY <1>5, <1>6
  <2>1. Head(todo[t]) = <<"openPrimary">>
    BY <1>8 DEF OpensOnly
  <2>2. ~ChooseLeg(t)
    BY <2>1 DEF ChooseLeg, At
  <2>. QED
    BY <1>9, <2>1, <2>2, StepTurns DEF Begins
<1>. QED
  BY <1>4, <1>6, <1>9, <1>10

\* And nothing but a call of the application can start.
LEMMA YoungStarts ==
    ASSUME TypeOK, YoungInv, Young',
           Wakeup \/ (\E k \in Legs : Transport(k)) \/ Connect \/ Disconnect
    PROVE  Young /\ (todo["app"] = <<>> => past.attempts = 0) /\ (Connect \/ Disconnect)
<1>. DataOK /\ TodoOK /\ past \in Pasts /\ "app" \in Threads
  BY DEF TypeOK, DataOK, Threads
<1>0. past.attempts \in Nat /\ crash = "none"
  BY StartRuns DEF Pasts
<1>1. Young
  <2>1. ASSUME past'.attempts = past.attempts + 1 PROVE Young
    <3>1. past'.attempts = 1
      BY <1>0, <2>1 DEF Young
    <3>2. past.attempts = 0
      BY <1>0, <2>1, <3>1
    <3>. QED
      BY <3>2 DEF Young
  <2>2. ASSUME past'.attempts = past.attempts, NEW t \in Threads, NEW steps, Started(t, steps),
               \A i \in 1..Len(steps) : steps[i] \notin Opening
        PROVE  Young
    <3>1. todo'[t] = steps /\ \A u \in Threads \ {t} : todo'[u] = todo[u]
      BY <2>2, StartedAt
    <3>2. Pends(Opening)' => Pends(Opening)
      BY <2>2, <3>1 DEF Pends
    <3>. QED
      BY <2>2, <3>2 DEF Young
  <2>3. past'.attempts = past.attempts + 1 \/ past'.attempts = past.attempts
    <3>1. CASE ReconnectElapses \/ Connect
      BY <3>1 DEF ReconnectElapses, Connect, Pasts
    <3>2. CASE ~(ReconnectElapses \/ Connect)
      BY <3>2 DEF Wakeup, DelayElapses, PingTimeout, LeaveTimeout, Disconnect, Transport,
           SocketBreaks, SocketOpens, SocketFails, SocketClosedByPeer, SocketStops,
           SocketEnds, SocketReceives, OnlyRace, OnlyLeave, OnlySock, Pasts
    <3>. QED
      BY <3>1, <3>2
  <2>4. \A steps \in Milds : \A i \in 1..Len(steps) : steps[i] \notin Opening
    BY KindsApart DEF Milds, Opening, Begins
  <2>5. ASSUME NEW s \in Callbacks \cup Fails("Quic")
        PROVE  \A i \in 1..Len(<<s>>) : <<s>>[i] \notin Opening
    <3>1. s \notin Opening
      BY KindsApart DEF Tokens, Opening, Begins
    <3>. QED
      BY <3>1
  <2>6. \A l \in Legs : <<"opened", l>> \in Callbacks
    BY DEF Callbacks
  <2>. QED
    BY <2>1, <2>2, <2>3, <2>4, <2>5, <2>6, StartsTurn, ThreadNames DEF StartTurns, Legs
<1>2. /\ \A u \in Threads \ {"app"} : todo[u] = <<>>
      /\ \A l \in Legs : ~sock[l].alive
      /\ ~race.mixed_delay_pending /\ ~ping.armed /\ ~leave.armed
      /\ todo["app"] \in Beginnings
      /\ race.primary_leg = "Curl" \/ OpensOnly(todo["app"])
      /\ past.attempts = 0 =>
            /\ ~retry.armed /\ race.primary_leg = "Curl" /\ todo["app"] \in Pres
            /\ retry.user_closed \/ todo["app"] = <<>>
  BY <1>0, <1>1 DEF YoungInv
<1>3. ~DelayElapses /\ ~PingTimeout /\ ~LeaveTimeout
  BY <1>2 DEF DelayElapses, PingTimeout, LeaveTimeout
<1>4. \A k \in Legs : ~Transport(k)
  BY <1>2 DEF Transport, SocketBreaks, SocketOpens, SocketFails, SocketClosedByPeer,
       SocketStops, SocketEnds, SocketReceives, MayBreak, MayOpen, MayFail, MayBeClosed,
       MayStop, MayEnd
<1>5. todo["app"] = <<>> => past.attempts = 0
  BY <1>1, <1>2 DEF Young, Pends
<1>6. ~ReconnectElapses
  <2>. SUFFICES ASSUME ReconnectElapses PROVE FALSE
    OBVIOUS
  <2>1. past'.attempts = past.attempts + 1 /\ retry.armed
    BY DEF ReconnectElapses, Pasts
  <2>2. past'.attempts = 0 \/ past'.attempts = 1
    BY DEF Young
  <2>. QED
    BY <1>0, <1>2, <2>1, <2>2
<1>. QED
  BY <1>1, <1>3, <1>4, <1>5, <1>6 DEF Wakeup

\* Until then no start changes more than the application's thread.
LEMMA YoungStep ==
    TypeOK /\ HeedsInv /\ OrderInv /\ YoungInv /\ [Next]_vars => YoungInv'
<1>. SUFFICES ASSUME TypeOK, HeedsInv, OrderInv, YoungInv, [Next]_vars,
                     crash' = "none", Young'
              PROVE  YoungInv'
  BY DEF YoungInv
<1>. DataOK /\ TodoOK /\ past \in Pasts /\ "app" \in Threads
  BY DEF TypeOK, DataOK, Threads
<1>0. past.attempts \in Nat
  BY DEF Pasts
<1>1. ASSUME NEW t \in Threads, Step(t) PROVE YoungInv'
  <2>1. crash = "none" /\ past'.attempts = past.attempts /\ todo[t] # <<>>
    BY <1>1, StepRuns, StepFirst, StepMoves
  <2>4. /\ Young /\ t = "app" /\ Head(todo[t]) \in Beginning /\ ~OpenPrimary(t)
        /\ race.primary_leg = "Curl"
    BY <1>1, YoungMoves
  <2>5. /\ \A u \in Threads \ {"app"} : todo[u] = <<>>
        /\ \A l \in Legs : ~sock[l].alive
        /\ ~race.mixed_delay_pending /\ ~ping.armed /\ ~leave.armed
        /\ todo["app"] \in Beginnings
        /\ past.attempts = 0 =>
              /\ ~retry.armed /\ race.primary_leg = "Curl" /\ todo["app"] \in Pres
              /\ retry.user_closed \/ todo["app"] = <<>>
    BY <1>0, <2>1, <2>4 DEF YoungInv
  <2>6. t = "app" /\ Head(todo[t]) \in Beginning /\ Tail(todo[t]) \in Beginnings
    BY <2>1, <2>4, <2>5 DEF Beginnings
  <2>7. past.attempts = 0 => Head(todo[t]) \in Pre /\ Tail(todo[t]) \in Pres
    BY <2>1, <2>5, <2>6 DEF Pres
  <2>8. 1 \in 1..Len(todo[t]) /\ todo[t][1] = Head(todo[t])
    BY <2>1 DEF TodoOK
  <2>9. ~OpenPrimary(t)
    BY <2>4
  <2>10. race.primary_leg = "Curl"
    BY <2>4
  <2>11. PICK steps \in Beginnings :
          Then(t, steps) /\ (Head(todo[t]) \in Pre /\ retry.user_closed => steps \in Pres)
    BY <1>0, <1>1, <2>5, <2>6, <2>9, <2>10, BeginningTurns DEF GoesOn
  <2>12. todo'[t] = steps \o Tail(todo[t]) /\ \A u \in Threads \ {t} : todo'[u] = todo[u]
    BY <2>11 DEF Then, TodoOK
  <2>13. todo'["app"] \in Beginnings /\ \A u \in Threads \ {"app"} : todo'[u] = <<>>
    <3>1. steps \o Tail(todo[t]) \in Beginnings
      BY <2>6, <2>11 DEF Beginnings
    <3>. QED
      BY <2>5, <2>6, <2>12, <3>1
  <2>14. /\ \A l \in Legs : ~sock'[l].alive
         /\ ~race'.mixed_delay_pending /\ ~ping'.armed /\ ~leave'.armed
         /\ race'.primary_leg = race.primary_leg \/ ChooseLeg(t)
         /\ Head(todo[t]) \in Pre => retry' = retry /\ race'.primary_leg = race.primary_leg
    BY <1>1, <2>5, <2>6, <2>9, <2>10, BeginningData
  <2>15. race'.primary_leg = "Curl" \/ OpensOnly(todo'["app"])
    <3>. SUFFICES ASSUME ChooseLeg(t) PROVE OpensOnly(todo'["app"])
      BY <2>10, <2>14
    <3>1. Head(todo[t]) = <<"chooseLeg">> /\ Then(t, <<>>)
      BY DEF ChooseLeg, At
    <3>2. Len(todo[t]) = 2 /\ todo[t][2] = <<"openPrimary">>
      <4>1. 1 + 1 = Len(todo[t]) /\ todo[t][1 + 1] = <<"openPrimary">>
        BY <2>8, <3>1 DEF OrderInv, Ordered
      <4>. QED
        BY <4>1
    <3>3. todo[t] \in Seq(Steps) /\ Tail(todo[t]) \in Seq(Steps)
      BY <2>1 DEF TodoOK
    <3>4. Len(Tail(todo[t])) = 1 /\ Tail(todo[t])[1] = <<"openPrimary">>
      BY <3>2, <3>3
    <3>5. todo'[t] = <<>> \o Tail(todo[t])
      BY <3>1 DEF Then, TodoOK
    <3>6. todo'[t] = Tail(todo[t])
      BY <3>3, <3>5
    <3>. QED
      BY <2>6, <3>4, <3>6 DEF OpensOnly
  <2>16. past'.attempts = 0 =>
           /\ ~retry'.armed /\ race'.primary_leg = "Curl" /\ todo'["app"] \in Pres
           /\ retry'.user_closed \/ todo'["app"] = <<>>
    <3>. SUFFICES ASSUME past.attempts = 0
                  PROVE  /\ ~retry'.armed /\ race'.primary_leg = "Curl"
                         /\ todo'["app"] \in Pres /\ retry'.user_closed
      BY <2>1
    <3>1. retry.user_closed /\ ~retry.armed /\ retry' = retry /\ race'.primary_leg = "Curl"
      BY <2>1, <2>5, <2>6, <2>7, <2>14
    <3>2. steps \in Pres /\ Tail(todo[t]) \in Pres
      BY <2>7, <2>11, <3>1
    <3>3. steps \o Tail(todo[t]) \in Pres
      BY <3>2 DEF Pres
    <3>. QED
      BY <2>6, <2>12, <3>1, <3>3
  <2>. QED
    BY <2>13, <2>14, <2>15, <2>16 DEF YoungInv
<1>2. CASE Wakeup \/ (\E k \in Legs : Transport(k)) \/ Connect \/ Disconnect
  <2>0. crash = "none"
    BY <1>2, StartRuns
  <2>1. Young /\ (todo["app"] = <<>> => past.attempts = 0) /\ (Connect \/ Disconnect)
    BY <1>2, YoungStarts
  <2>5. todo["app"] = <<>> => past.attempts = 0
    BY <2>1
  <2>2. /\ \A u \in Threads \ {"app"} : todo[u] = <<>>
        /\ \A l \in Legs : ~sock[l].alive
        /\ ~race.mixed_delay_pending /\ ~ping.armed /\ ~leave.armed
        /\ todo["app"] \in Beginnings
        /\ race.primary_leg = "Curl" \/ OpensOnly(todo["app"])
        /\ past.attempts = 0 =>
              /\ ~retry.armed /\ race.primary_leg = "Curl" /\ todo["app"] \in Pres
              /\ retry.user_closed \/ todo["app"] = <<>>
    BY <1>0, <2>0, <2>1 DEF YoungInv
  <2>7. CASE Connect
    <3>1. /\ todo["app"] = <<>> /\ todo' = [todo EXCEPT !["app"] = beginConnect]
          /\ UNCHANGED <<race, ping, leave, sock>> /\ past'.attempts = past.attempts + 1
      BY <2>7 DEF Connect, Starts, Pasts
    <3>2. todo'["app"] = beginConnect /\ \A u \in Threads \ {"app"} : todo'[u] = todo[u]
      BY <3>1 DEF TodoOK
    <3>3. race.primary_leg = "Curl" /\ past'.attempts # 0
      BY <1>0, <2>2, <2>5, <3>1
    <3>. QED
      BY <2>2, <3>1, <3>2, <3>3, BeginningFunctions DEF YoungInv
  <2>8. CASE Disconnect
    <3>1. /\ todo["app"] = <<>> /\ todo' = [todo EXCEPT !["app"] = << <<"sendLeave">> >>]
          /\ UNCHANGED <<race, sock>> /\ past'.attempts = past.attempts
          /\ retry'.user_closed /\ ~retry'.armed /\ ~ping'.armed /\ leave'.armed = leave.armed
      BY <2>8 DEF Disconnect, Starts, Pasts, DataOK, Retries, Leaves
    <3>2. /\ todo'["app"] = << <<"sendLeave">> >>
          /\ \A u \in Threads \ {"app"} : todo'[u] = todo[u]
      BY <3>1 DEF TodoOK
    <3>3. todo'["app"] \in Pres /\ todo'["app"] \in Beginnings
      BY <3>2, BeginningShapes, FewBeginning
    <3>4. race.primary_leg = "Curl"
      BY <2>2, <2>5, <3>1
    <3>. QED
      BY <2>2, <3>1, <3>2, <3>3, <3>4 DEF YoungInv
  <2>. QED
    BY <2>1, <2>7, <2>8
<1>3. CASE UNCHANGED vars
  BY <1>3 DEF vars, YoungInv, Young, Pends
<1>. QED
  BY <1>1, <1>2, <1>3 DEF Next, Busy

LEMMA YoungInit == Init => YoungInv
<1>. SUFFICES ASSUME Init PROVE YoungInv
  OBVIOUS
<1>1. \A t \in Threads : todo[t] = <<>>
  BY DEF Init
<1>2. \A l \in Legs : ~sock[l].alive
  <2>1. ~NeverOpened.alive
    BY DEF NeverOpened
  <2>. QED
    BY <2>1 DEF Init
<1>3. /\ ~race.mixed_delay_pending /\ ~ping.armed /\ ~leave.armed /\ ~retry.armed
      /\ race.primary_leg = "Curl"
  BY DEF Init
<1>4. "app" \in Threads /\ <<>> \in Pres /\ <<>> \in Beginnings
  BY FewBeginning DEF Threads
<1>. QED
  BY <1>1, <1>2, <1>3, <1>4 DEF YoungInv

-------------------------------------------------------------------------------
(* The quic leg of the first Mixed attempt fails once.                       *)

\* A failure of the quic leg that is not yet dealt with, and its consequence.
TokenAt(t, i) == i \in 1..Len(todo[t]) /\ todo[t][i] \in Tokens
OneToken == \A t, u \in Threads : \A i, j \in Nat : TokenAt(t, i) /\ TokenAt(u, j) => t = u /\ i = j

\* Once the leg was opened, it has either not reported its end yet, and nobody has a
\* failure of it to deal with, or it has, and one thread at most has one.
TokenInv ==
    crash = "none" /\ mixedMode /\ past.attempts = 1 /\ ~Pends(Opening) =>
        /\ ~sock["Quic"].alive => sock["Quic"].reported
        /\ ~sock["Quic"].reported => ~Pends(Tokens)
        /\ OneToken

\* Only the opening of the leg takes back that it has reported its end.
LEMMA StepReported ==
    ASSUME DataOK, NEW t \in Threads, Step(t), ~OpenPrimary(t)
    PROVE  sock["Quic"].reported => sock'["Quic"].reported
<1>. sock \in [Legs -> Sockets] /\ "Curl" \in Legs /\ "Quic" \in Legs
  BY DEF DataOK, Legs
<1>1. CASE CloseStep(t)
  <2>1. \A l \in Legs : /\ CloseRequested(sock[l]).reported = sock[l].reported
                        /\ Joined(sock[l]).reported
    BY DEF CloseRequested, Joined, Sockets
  <2>2. CASE \/ CloseCurlAsync(t) \/ CloseCurlJoin(t) \/ JoinCurl(t) \/ CloseQuicAsync(t)
             \/ CloseQuicJoin(t) \/ JoinQuic(t)
    <3>1. PICK l \in Legs : \/ sock' = [sock EXCEPT ![l] = CloseRequested(@)]
                            \/ sock' = [sock EXCEPT ![l] = Joined(@)]
      BY <2>2 DEF CloseCurlAsync, CloseCurlJoin, JoinCurl, CloseQuicAsync, CloseQuicJoin,
           JoinQuic
    <3>. QED
      BY <2>1, <3>1
  <2>3. CASE CancelMixedRace(t) \/ AllClosed(t) \/ UnlockCurl(t)
    BY <2>3 DEF CancelMixedRace, AllClosed, UnlockCurl, OnlyRace
  <2>. QED
    BY <1>1, <2>2, <2>3 DEF CloseStep
<1>2. CASE ConnectStep(t)
  <2>1. CASE OpenAlt(t)
    BY <2>1 DEF OpenAlt, OpenCurl
  <2>2. CASE BeginConnect(t) \/ Unsuppress(t) \/ ChooseLeg(t)
    BY <2>2 DEF BeginConnect, Unsuppress, ChooseLeg, OnlyRetry, OnlyRace
  <2>3. CASE ScheduleMixedTcpFallback(t) \/ StartMixedTcpFallback(t) \/ EnterRace(t)
             \/ UnlockRace(t) \/ HandleMixedTransportFailure(t) \/ Promote(t)
    BY <2>3 DEF ScheduleMixedTcpFallback, StartMixedTcpFallback, EnterRace, UnlockRace,
                HandleMixedTransportFailure, Promote, OnlyRace
  <2>. QED
    BY <1>2, <2>1, <2>2, <2>3 DEF ConnectStep
<1>3. CASE CallbackStep(t)
  BY <1>3 DEF CallbackStep, onTransportOpen, MixedDeclareWinner, StartKeepalive,
              onTransportClose, onTransportError, SessionOff, onTransportRecv, Tell,
              OnlyTodo, OnlyRace
<1>4. CASE RetryStep(t)
  BY <1>4 DEF RetryStep, FailFatal, Report, ScheduleReconnect, Reconnecting, Resume,
              ArmReconnect, SendLeave, AwaitLeave, CloseSocketAfterDisconnect,
              OnlyTodo, OnlyRetry, OnlyLeave
<1>. QED
  BY <1>1, <1>2, <1>3, <1>4 DEF Step

\* A start neither: and a socket that leaves its body has reported.
LEMMA StartReported ==
    ASSUME DataOK, Wakeup \/ (\E k \in Legs : Transport(k)) \/ Connect \/ Disconnect
    PROVE  /\ sock["Quic"].reported => sock'["Quic"].reported
           /\ sock["Quic"].alive => sock'["Quic"].alive \/ sock'["Quic"].reported
           /\ SocketFails("Quic") \/ SocketClosedByPeer("Quic") \/ SocketStops("Quic") =>
                 ~sock["Quic"].reported /\ sock'["Quic"].reported
<1>. sock \in [Legs -> Sockets] /\ "Quic" \in Legs
  BY DEF DataOK, Legs
<1>1. CASE Wakeup \/ Connect \/ Disconnect
  <2>1. sock' = sock
    BY <1>1 DEF Wakeup, DelayElapses, ReconnectElapses, PingTimeout, LeaveTimeout, Connect,
         Disconnect, OnlyRace, OnlyLeave
  <2>2. ~(SocketFails("Quic") \/ SocketClosedByPeer("Quic") \/ SocketStops("Quic"))
    BY <2>1 DEF SocketFails, SocketClosedByPeer, SocketStops, Reporting, MayFail, MayBeClosed,
         MayStop, Sockets
  <2>. QED
    BY <2>1, <2>2
<1>2. ASSUME SocketFails("Quic") \/ SocketClosedByPeer("Quic") \/ SocketStops("Quic")
      PROVE  ~sock["Quic"].reported /\ sock'["Quic"].reported
  BY <1>2 DEF SocketFails, SocketClosedByPeer, SocketStops, Reporting, MayFail, MayBeClosed,
        MayStop, Sockets
<1>3. ASSUME NEW k \in Legs, Transport(k)
      PROVE  /\ sock["Quic"].reported => sock'["Quic"].reported
             /\ sock["Quic"].alive => sock'["Quic"].alive \/ sock'["Quic"].reported
  <2>1. CASE k = "Curl"
    <3>1. sock'["Quic"] = sock["Quic"]
      BY <1>3, <2>1 DEF Transport, SocketBreaks, SocketOpens, SocketFails,
           SocketClosedByPeer, SocketStops, SocketEnds, SocketReceives, Reporting
    <3>. QED
      BY <3>1
  <2>2. CASE k = "Quic"
    <3>1. CASE SocketOpens("Quic") \/ SocketReceives("Quic")
      BY <3>1 DEF SocketOpens, SocketReceives, OpenedUp, Sockets
    <3>2. CASE SocketEnds("Quic")
      BY <3>2 DEF SocketEnds, MayEnd, Ended, Sockets
    <3>3. ~SocketBreaks("Quic")
      BY DEF SocketBreaks
    <3>. QED
      BY <1>2, <1>3, <2>2, <3>1, <3>2, <3>3 DEF Transport
  <2>. QED
    BY <2>1, <2>2 DEF Legs
<1>. QED
  BY <1>1, <1>2, <1>3

\* The opening of the quic leg leaves it running, or with one failure to deal with.
LEMMA OpenToken ==
    ASSUME TypeOK, SockInv, OrderInv, YoungInv, NEW t \in Threads, OpenPrimary(t),
           crash' = "none", mixedMode, past.attempts = 1
    PROVE  /\ ~sock'["Quic"].alive => sock'["Quic"].reported
           /\ ~sock'["Quic"].reported => ~Pends(Tokens)'
           /\ OneToken'
<1>. DataOK /\ TodoOK /\ sock \in [Legs -> Sockets] /\ "Quic" \in Legs
  BY DEF TypeOK, DataOK, Legs
<1>1. crash = "none" /\ todo[t] # <<>> /\ Head(todo[t]) = <<"openPrimary">>
  BY DEF OpenPrimary, At
<1>2. 1 \in 1..Len(todo[t]) /\ todo[t][1] = <<"openPrimary">>
  BY <1>1 DEF TodoOK
<1>3. Young
  BY <1>2 DEF Young, Pends, Opening
<1>4. t = "app" /\ (\A u \in Threads \ {t} : todo[u] = <<>>) /\ ~sock["Quic"].alive
  BY <1>1, <1>3 DEF YoungInv
<1>5. Len(todo[t]) = 1
  BY <1>2 DEF OrderInv, Ordered
<1>6. sock["Quic"].state = "Closed"
  BY <1>1, <1>4 DEF SockInv, Rests
<1>7. OpenQuic(t)
  BY DEF OpenPrimary, mixedMode
<1>8. ASSUME NEW steps \in Seq(Steps), Then(t, steps)
      PROVE  \A u \in Threads, i \in Nat : TokenAt(u, i)' =>
                u = t /\ i \in 1..Len(steps) /\ steps[i] \in Tokens
  <2>. SUFFICES ASSUME NEW u \in Threads, NEW i \in Nat, TokenAt(u, i)'
                PROVE  u = t /\ i \in 1..Len(steps) /\ steps[i] \in Tokens
    OBVIOUS
  <2>1. i \in 1..Len(todo'[u]) /\ todo'[u][i] \in Tokens
    BY DEF TokenAt
  <2>2. u = t
    BY <1>1, <1>4, <1>8, <2>1, ThenAt
  <2>3. ~(i - Len(steps) + 1 \in 2..Len(todo[t]))
    BY <1>5
  <2>. QED
    BY <1>1, <1>8, <2>1, <2>2, <2>3, ThenAt
<1>9. ASSUME NEW steps \in Seq(Steps), Then(t, steps), \A i \in 1..Len(steps) : steps[i] \notin Tokens
      PROVE  ~Pends(Tokens)' /\ OneToken'
  <2>1. \A u \in Threads, i \in Nat : ~TokenAt(u, i)'
    BY <1>8, <1>9
  <2>2. ASSUME Pends(Tokens)' PROVE FALSE
    <3>1. PICK u \in Threads : \E i \in 1..Len(todo'[u]) : todo'[u][i] \in Tokens
      BY <2>2 DEF Pends
    <3>2. PICK i \in 1..Len(todo'[u]) : todo'[u][i] \in Tokens
      BY <3>1
    <3>3. i \in Nat
      OBVIOUS
    <3>. QED
      BY <2>1, <3>2, <3>3 DEF TokenAt
  <2>. QED
    BY <2>1, <2>2 DEF OneToken
<1>10. CASE sock' = [sock EXCEPT !["Quic"] = Opened] /\ Then(t, << <<"scheduleFallback">> >>)
  <2>1. sock'["Quic"].alive
    <3>1. Opened.alive
      BY DEF Opened
    <3>. QED
      BY <1>10, <3>1
  <2>2. << <<"scheduleFallback">> >> \in Seq(Steps) /\ <<"scheduleFallback">> \notin Tokens
    BY MildShapes, KindsApart
  <2>3. \A i \in 1..Len(<< <<"scheduleFallback">> >>) : << <<"scheduleFallback">> >>[i] \notin Tokens
    BY <2>2
  <2>4. ~Pends(Tokens)' /\ OneToken'
    BY <1>9, <1>10, <2>2, <2>3
  <2>. QED
    BY <2>1, <2>4
<1>11. ASSUME sock' = [sock EXCEPT !["Quic"] = Joined(NeverOpened)],
              NEW k \in {"timeout", "other"}, Then(t, << <<"error", "Quic", k>> >>)
       PROVE  sock'["Quic"].reported /\ OneToken'
  <2>1. sock'["Quic"].reported
    <3>1. Joined(NeverOpened).reported
      BY DEF Joined, NeverOpened
    <3>. QED
      BY <1>11, <3>1
  <2>2. <<"error", "Quic", k>> \in Steps
    BY DEF Steps, Legs
  <2>3. << <<"error", "Quic", k>> >> \in Seq(Steps) /\ Len(<< <<"error", "Quic", k>> >>) = 1
    BY <2>2
  <2>4. \A u \in Threads, i \in Nat : TokenAt(u, i)' => u = t /\ i \in 1..1
    BY <1>8, <1>11, <2>3
  <2>5. \A u \in Threads, i \in Nat : TokenAt(u, i)' => u = t /\ i = 1
    BY <2>4
  <2>. QED
    BY <2>1, <2>5 DEF OneToken
<1>. QED
  BY <1>6, <1>7, <1>10, <1>11 DEF OpenQuic

\* Any other step passes a failure on, or ends it, and adds none.
LEMMA PassToken ==
    ASSUME TypeOK, HeedsInv, NEW t \in Threads, Step(t), ~OpenPrimary(t), crash' = "none",
           ~sock["Quic"].alive => sock["Quic"].reported,
           ~sock["Quic"].reported => ~Pends(Tokens), OneToken
    PROVE  /\ ~sock'["Quic"].alive => sock'["Quic"].reported
           /\ ~sock'["Quic"].reported => ~Pends(Tokens)'
           /\ OneToken'
<1>. DataOK /\ TodoOK /\ sock["Quic"] \in Sockets /\ "Quic" \in Legs
  BY DEF TypeOK, DataOK, Legs
<1>1. ~sock'["Quic"].alive => sock'["Quic"].reported
  <2>1. sock["Quic"].reported => sock'["Quic"].reported
    BY StepReported
  <2>2. Touches("Quic")
    BY StepTouches
  <2>3. Joined(NeverOpened).reported /\ Joined(sock["Quic"]).reported /\ Opened.alive
    BY DEF Joined, NeverOpened, Opened, Sockets
  <2>4. CloseRequested(sock["Quic"]).alive = sock["Quic"].alive
    BY DEF CloseRequested, Sockets
  <2>. QED
    BY <2>1, <2>2, <2>3, <2>4 DEF Touches
<1>2. PICK steps \in Seq(Steps) :
        Then(t, steps) /\ \A i \in 1..Len(steps) : TurnsInto(t, steps, i)
  BY StepTurnsInto
<1>3. todo[t] # <<>>
  BY StepMoves
<1>4. \A i \in 1..Len(steps) : steps[i] \in Tokens =>
        /\ Head(todo[t]) \in Tokens
        /\ \A j \in 1..Len(steps) : steps[j] \in Tokens => j = i
  <2>. SUFFICES ASSUME NEW i \in 1..Len(steps), steps[i] \in Tokens
                PROVE  /\ Head(todo[t]) \in Tokens
                       /\ \A j \in 1..Len(steps) : steps[j] \in Tokens => j = i
    OBVIOUS
  <2>1. ~(JoinQuic(t) /\ ~sock["Quic"].reported)
    BY DEF JoinQuic
  <2>2. steps[i] \notin Mild /\ steps[i] \notin Callbacks
    BY KindsApart
  <2>3. \A l \in Legs : <<"declareWinner", l>> \in Callbacks
    BY DEF Callbacks
  <2>. QED
    BY <1>2, <2>1, <2>2, <2>3 DEF TurnsInto
<1>5. 1 \in 1..Len(todo[t]) /\ todo[t][1] = Head(todo[t])
  BY <1>3 DEF TodoOK
<1>6. Head(todo[t]) \in Tokens => TokenAt(t, 1)
  BY <1>5 DEF TokenAt
<1>7. ASSUME ~sock'["Quic"].reported PROVE ~Pends(Tokens)'
  <2>1. ~Pends(Tokens)
    BY <1>7, StepReported
  <2>2. Head(todo[t]) \notin Tokens
    BY <1>5, <2>1 DEF Pends
  <2>3. \A i \in 1..Len(steps) : steps[i] \notin Tokens
    BY <1>4, <2>2
  <2>. QED
    BY <1>2, <1>3, <2>1, <2>3, ThenPended
<1>8. ASSUME NEW u \in Threads, NEW i \in Nat, TokenAt(u, i)'
      PROVE  \/ u = t /\ i \in 1..Len(steps) /\ steps[i] \in Tokens
             \/ u = t /\ i - Len(steps) + 1 \in 2..Len(todo[t]) /\ TokenAt(t, i - Len(steps) + 1)
             \/ u # t /\ TokenAt(u, i)
  <2>1. i \in 1..Len(todo'[u]) /\ todo'[u][i] \in Tokens
    BY <1>8 DEF TokenAt
  <2>2. CASE u # t
    BY <1>2, <1>3, <2>1, <2>2, ThenAt DEF TokenAt
  <2>3. CASE u = t
    <3>1. \/ i \in 1..Len(steps) /\ todo'[t][i] = steps[i]
          \/ /\ i - Len(steps) + 1 \in 2..Len(todo[t])
             /\ todo'[t][i] = todo[t][i - Len(steps) + 1]
      BY <1>2, <1>3, <2>1, <2>3, ThenAt
    <3>2. i - Len(steps) + 1 \in 2..Len(todo[t]) => i - Len(steps) + 1 \in 1..Len(todo[t])
      OBVIOUS
    <3>. QED
      BY <2>1, <2>3, <3>1, <3>2 DEF TokenAt
  <2>. QED
    BY <2>2, <2>3
<1>9. OneToken'
  <2>. SUFFICES ASSUME NEW a \in Threads, NEW b \in Threads, NEW i \in Nat, NEW j \in Nat,
                       TokenAt(a, i)', TokenAt(b, j)'
                PROVE  a = b /\ i = j
    BY DEF OneToken
  <2>1. CASE Head(todo[t]) \in Tokens
    <3>1. ASSUME NEW u \in Threads, NEW m \in Nat, TokenAt(u, m) PROVE u = t /\ m = 1
      BY <1>6, <2>1, <3>1 DEF OneToken
    <3>2. ASSUME NEW u \in Threads, NEW k \in Nat, TokenAt(u, k)'
          PROVE  u = t /\ k \in 1..Len(steps) /\ steps[k] \in Tokens
      <4>1. ASSUME k - Len(steps) + 1 \in 2..Len(todo[t]), TokenAt(t, k - Len(steps) + 1)
            PROVE  FALSE
        <5>1. k - Len(steps) + 1 \in Nat /\ k - Len(steps) + 1 # 1
          BY <4>1
        <5>. QED
          BY <3>1, <4>1, <5>1
      <4>. QED
        BY <1>8, <3>1, <3>2, <4>1
    <3>. QED
      BY <1>4, <3>2
  <2>2. CASE Head(todo[t]) \notin Tokens
    <3>1. ASSUME NEW u \in Threads, NEW k \in Nat, TokenAt(u, k)'
          PROVE  \E m \in Nat : TokenAt(u, m) /\ k = IF u = t THEN m + Len(steps) - 1 ELSE m
      <4>1. ~(k \in 1..Len(steps) /\ steps[k] \in Tokens)
        BY <1>4, <2>2
      <4>2. CASE u = t
        <5>1. k - Len(steps) + 1 \in 2..Len(todo[t]) /\ TokenAt(t, k - Len(steps) + 1)
          BY <1>8, <3>1, <4>1, <4>2
        <5>2. k - Len(steps) + 1 \in Nat /\ k = (k - Len(steps) + 1) + Len(steps) - 1
          BY <5>1
        <5>. QED
          BY <4>2, <5>1, <5>2
      <4>3. CASE u # t
        BY <1>8, <3>1, <4>3
      <4>. QED
        BY <4>2, <4>3
    <3>2. PICK m \in Nat : TokenAt(a, m) /\ i = IF a = t THEN m + Len(steps) - 1 ELSE m
      BY <3>1
    <3>3. PICK n \in Nat : TokenAt(b, n) /\ j = IF b = t THEN n + Len(steps) - 1 ELSE n
      BY <3>1
    <3>4. a = b /\ m = n
      BY <3>2, <3>3 DEF OneToken
    <3>. QED
      BY <3>2, <3>3, <3>4
  <2>. QED
    BY <2>1, <2>2
<1>. QED
  BY <1>1, <1>7, <1>9

\* A connection after whose start the first leg is open was not just begun.
LEMMA StartFirst ==
    ASSUME TypeOK, YoungInv, past'.attempts = 1, ~Pends(Opening)',
           Wakeup \/ (\E k \in Legs : Transport(k)) \/ Connect \/ Disconnect
    PROVE  past.attempts = 1 /\ ~Pends(Opening)
<1>. DataOK /\ TodoOK /\ past \in Pasts
  BY DEF TypeOK, DataOK
<1>1. crash = "none"
  BY StartRuns
<1>2. ASSUME past'.attempts = past.attempts + 1 PROVE FALSE
  <2>1. past.attempts = 0
    BY <1>2 DEF Pasts
  <2>2. ~retry.armed
    BY <1>1, <2>1 DEF YoungInv, Young
  <2>3. Connect
    <3>1. ~ReconnectElapses
      BY <2>2 DEF ReconnectElapses
    <3>2. past.attempts # past'.attempts
      BY <1>2, <2>1
    <3>. QED
      BY <3>1, <3>2 DEF Wakeup, DelayElapses, PingTimeout, LeaveTimeout, Disconnect,
           Transport, SocketBreaks, SocketOpens, SocketFails, SocketClosedByPeer,
           SocketStops, SocketEnds, SocketReceives, OnlyRace, OnlyLeave, OnlySock, Pasts
  <2>4. todo["app"] = <<>> /\ todo' = [todo EXCEPT !["app"] = beginConnect]
    BY <2>3 DEF Connect, Starts
  <2>5. 8 \in 1..Len(beginConnect) /\ beginConnect[8] \in Opening
    BY BeginConnectSteps DEF Opening
  <2>6. "app" \in Threads /\ beginConnect \in Seq(Steps)
    BY PlainFunctions DEF Threads, Sound, PlainSteps
  <2>7. Pends(Opening)'
    BY <2>4, <2>5, <2>6, StartPends
  <2>. QED
    BY <2>7
<1>3. past.attempts = 1
  <2>1. CASE ReconnectElapses \/ Connect
    <3>1. past'.attempts = past.attempts + 1
      BY <2>1 DEF ReconnectElapses, Connect, Pasts
    <3>. QED
      BY <1>2, <3>1
  <2>2. CASE ~(ReconnectElapses \/ Connect)
    BY <2>2 DEF Wakeup, DelayElapses, PingTimeout, LeaveTimeout, Disconnect, Transport,
         SocketBreaks, SocketOpens, SocketFails, SocketClosedByPeer, SocketStops,
         SocketEnds, SocketReceives, OnlyRace, OnlyLeave, OnlySock, Pasts
  <2>. QED
    BY <2>1, <2>2
<1>4. ~Pends(Opening)
  BY StartsMove
<1>. QED
  BY <1>3, <1>4

LEMMA TokenStep ==
    TypeOK /\ HeedsInv /\ SockInv /\ OrderInv /\ YoungInv /\ TokenInv /\ [Next]_vars => TokenInv'
<1>. DEFINE Once == /\ ~sock["Quic"].alive => sock["Quic"].reported
                    /\ ~sock["Quic"].reported => ~Pends(Tokens)
                    /\ OneToken
<1>. SUFFICES ASSUME TypeOK, HeedsInv, SockInv, OrderInv, YoungInv, TokenInv, [Next]_vars,
                     crash' = "none", mixedMode', past'.attempts = 1, ~Pends(Opening)'
              PROVE  Once'
  BY DEF TokenInv
<1>. DataOK /\ TodoOK /\ past \in Pasts
  BY DEF TypeOK, DataOK
<1>0. mixedMode
  BY SameScenario DEF mixedMode
<1>1. ASSUME NEW t \in Threads, Step(t) PROVE Once'
  <2>1. crash = "none" /\ past.attempts = 1 /\ todo[t] # <<>>
    BY <1>1, StepRuns, StepFirst, StepMoves
  <2>2. CASE OpenPrimary(t)
    BY <1>0, <2>1, <2>2, OpenToken
  <2>3. CASE ~OpenPrimary(t)
    <3>1. PICK steps \in Seq(Steps) : Then(t, steps)
      BY <1>1, StepMoves
    <3>2. Head(todo[t]) \notin Opening
      <4>1. Head(todo[t]) = <<"openPrimary">> => ~ChooseLeg(t)
        BY DEF ChooseLeg, At
      <4>. QED
        BY <1>1, <2>3, <4>1, StepTurns DEF Opening, Begins
    <3>3. ~Pends(Opening)
      BY <2>1, <3>1, <3>2, ThenPends
    <3>4. Once
      BY <1>0, <2>1, <3>3 DEF TokenInv
    <3>. QED
      BY <1>1, <2>3, <3>4, PassToken
  <2>. QED
    BY <2>2, <2>3
<1>2. CASE Wakeup \/ (\E k \in Legs : Transport(k)) \/ Connect \/ Disconnect
  <2>0. crash = "none"
    BY <1>2, StartRuns
  <2>1. past.attempts = 1 /\ ~Pends(Opening)
    BY <1>2, StartFirst
  <2>2. past'.attempts # past.attempts + 1
    BY <2>1
  <2>4. Once
    BY <1>0, <2>0, <2>1 DEF TokenInv
  <2>5. ~sock'["Quic"].alive => sock'["Quic"].reported
    BY <1>2, <2>4, StartReported
  <2>6. ASSUME NEW t \in Threads, NEW steps, Started(t, steps),
               \A i \in 1..Len(steps) : steps[i] \notin Tokens
        PROVE  Once'
    <3>1. todo'[t] = steps /\ \A u \in Threads \ {t} : todo'[u] = todo[u]
      BY <2>6, StartedAt
    <3>2. \A u \in Threads, i \in Nat : TokenAt(u, i)' => TokenAt(u, i)
      BY <2>6, <3>1 DEF TokenAt
    <3>3. Pends(Tokens)' => Pends(Tokens)
      BY <2>6, <3>1 DEF Pends
    <3>4. OneToken'
      BY <2>4, <3>2 DEF OneToken
    <3>. QED
      BY <1>2, <2>4, <2>5, <3>3, <3>4, StartReported
  <2>7. ASSUME NEW f \in Fails("Quic"), Started("Quic", <<f>>),
               SocketFails("Quic") \/ SocketClosedByPeer("Quic") \/ SocketStops("Quic")
        PROVE  Once'
    <3>1. "Quic" \in Threads
      BY DEF Threads, Legs
    <3>2. todo'["Quic"] = <<f>> /\ \A u \in Threads \ {"Quic"} : todo'[u] = todo[u]
      BY <2>7, <3>1, StartedAt
    <3>3. ~sock["Quic"].reported /\ sock'["Quic"].reported
      BY <1>2, <2>7, StartReported
    <3>4. ~Pends(Tokens)
      BY <2>4, <3>3
    <3>5. \A u \in Threads, i \in Nat : TokenAt(u, i)' => u = "Quic" /\ i = 1
      BY <3>2, <3>4 DEF TokenAt, Pends
    <3>6. OneToken'
      BY <3>5 DEF OneToken
    <3>. QED
      BY <2>5, <3>3, <3>6
  <2>8. \A steps \in Milds : \A i \in 1..Len(steps) : steps[i] \notin Tokens
    BY KindsApart DEF Milds
  <2>9. ASSUME NEW l \in Legs
        PROVE  \A i \in 1..Len(<< <<"opened", l>> >>) : << <<"opened", l>> >>[i] \notin Tokens
    <3>1. <<"opened", l>> \in Callbacks
      BY DEF Callbacks
    <3>2. <<"opened", l>> \notin Tokens
      BY <3>1, KindsApart
    <3>. QED
      BY <3>2
  <2>10. \A l \in Legs : l \in Threads
    BY DEF Threads
  <2>. QED
    BY <1>2, <2>2, <2>6, <2>7, <2>8, <2>9, <2>10, StartsTurn DEF StartTurns
<1>3. CASE UNCHANGED vars
  BY <1>0, <1>3 DEF vars, TokenInv, OneToken, TokenAt, mixedMode, Pends
<1>. QED
  BY <1>1, <1>2, <1>3 DEF Next, Busy

LEMMA TokenInit == Init => TokenInv
BY DEF Init, TokenInv

-------------------------------------------------------------------------------
(* The session.                                                              *)

\* When the TCP leg takes over from the quic leg of the first attempt, that leg has
\* reported its end, and no other failure of it is about.
LEMMA PromoteLate ==
    ASSUME TypeOK, PromoteInv, YoungInv, TokenInv, FirstRace, crash = "none",
           NEW t \in Threads, Promote(t)
    PROVE  sock["Quic"].reported /\ ~Live("Quic") /\ ~Pends(Fails("Quic"))
<1>. DataOK /\ TodoOK /\ past.attempts \in Nat
  BY DEF TypeOK, DataOK, Pasts
<1>1. PICK k \in {"fatal", "reconnect"} : todo[t] # <<>> /\ Head(todo[t]) = <<"promote", k>>
  BY DEF Promote, At
<1>2. /\ 1 \in 1..Len(todo[t]) /\ todo[t][1] = Head(todo[t])
      /\ Head(todo[t]) \in Promotes /\ Head(todo[t]) \in Tokens
  <2>1. 1 \in 1..Len(todo[t]) /\ todo[t][1] = Head(todo[t])
    BY <1>1 DEF TodoOK
  <2>2. Head(todo[t]) \in Promotes
    <3>1. <<"promote", k>> \in Promotes
      BY DEF Promotes
    <3>. QED
      BY <1>1, <3>1
  <2>. QED
    BY <2>1, <2>2 DEF Tokens
<1>3. mixedMode /\ Pends(Tokens)
  BY <1>2 DEF PromoteInv, Pends
<1>4. ~Young
  <2>. SUFFICES ASSUME Young PROVE FALSE
    OBVIOUS
  <2>1. t = "app" /\ todo[t] \in Beginnings
    BY <1>1, <1>3 DEF YoungInv
  <2>2. Head(todo[t]) \in Beginning
    BY <1>1, <2>1 DEF Beginnings
  <2>. QED
    BY <1>1, <2>2, NotBeginning
<1>5. past.attempts = 1 /\ ~Pends(Opening)
  BY <1>3, <1>4 DEF Young, FirstRace
<1>6. sock["Quic"].reported /\ OneToken
  BY <1>3, <1>5 DEF TokenInv
<1>7. ASSUME Pends(Fails("Quic")) PROVE FALSE
  <2>1. PICK u \in Threads : \E i \in 1..Len(todo[u]) : todo[u][i] \in Fails("Quic")
    BY <1>7 DEF Pends
  <2>2. PICK i \in 1..Len(todo[u]) : todo[u][i] \in Fails("Quic")
    BY <2>1
  <2>3. TokenAt(u, i) /\ TokenAt(t, 1) /\ i \in Nat
    BY <1>2, <2>2 DEF TokenAt, Tokens
  <2>4. u = t /\ i = 1
    BY <1>6, <2>3 DEF OneToken
  <2>. QED
    BY <1>2, <2>2, <2>4, KindsApart
<1>. QED
  BY <1>6, <1>7 DEF Live

LEMMA SessionStep ==
    TypeOK /\ HeedsInv /\ SockInv /\ CallbackInv /\ PairsInv /\ PromoteInv /\ YoungInv
        /\ TokenInv /\ SessionInv /\ [Next]_vars => SessionInv'
<1>. SUFFICES ASSUME TypeOK, HeedsInv, SockInv, CallbackInv, PairsInv, PromoteInv, YoungInv,
                     TokenInv, SessionInv, [Next]_vars, crash' = "none", FirstRace',
                     race'.session_open, NEW l \in Legs, race'.primary_leg = l
              PROVE  Carried(l)'
  BY DEF SessionInv
<1>. DataOK
  BY DEF TypeOK
<1>1. ASSUME NEW t \in Threads, Step(t) PROVE Carried(l)'
  <2>1. crash = "none" /\ FirstRace
    BY <1>1, StepRuns, StepFirst DEF FirstRace, mixedMode
  <2>2. Promote(t) => ~Live("Quic") /\ ~Pends(Fails("Quic"))
    BY <2>1, PromoteLate
  <2>. QED
    BY <1>1, <2>2, StepCarried
<1>2. CASE Wakeup \/ (\E k \in Legs : Transport(k)) \/ Connect \/ Disconnect
  BY <1>2, StartCarried
<1>3. CASE UNCHANGED vars
  <2>1. Carried(l)
    BY <1>3 DEF vars, SessionInv, FirstRace, mixedMode
  <2>. QED
    BY <1>3, <2>1 DEF vars, Carried, Live, Pends, isAlt
<1>. QED
  BY <1>1, <1>2, <1>3 DEF Next, Busy

LEMMA SessionInit == Init => SessionInv
BY DEF Init, SessionInv

\* A session that the Signal holds open when its threads rest is one whose transport
\* opened and has not reported an end (SessionIsLive).
THEOREM SessionIsLiveCorrect == Spec => []SessionIsLive
<1>1. TypeOK /\ SessionInv => SessionIsLive
  <2>. SUFFICES ASSUME TypeOK, SessionInv, Quiet, crash = "none", race.session_open, FirstRace
                PROVE  Live(race.primary_leg)
    BY DEF SessionIsLive, Live
  <2>1. race.primary_leg \in Legs
    BY DEF TypeOK, DataOK, Races
  <2>2. Carried(race.primary_leg)
    BY <2>1 DEF SessionInv
  <2>. QED
    BY <2>2, QuietPends DEF Carried
<1>. QED
  BY <1>1, HeedsInit, HeedsStep, SockInit, SockStep, CallbackInvInit, CallbackInvStep,
     PairsInit, PairsStep, OrderInit, OrderStep, PromoteInit, PromoteStep, YoungInit, YoungStep,
     TokenInit, TokenStep, SessionInit, SessionStep, TypeCorrect, PTL DEF Spec

-------------------------------------------------------------------------------
(* After disconnect no transport is left up.                                 *)

\* In the first attempt nobody but the application's thread opens the leg.
SoloInv ==
    past.attempts <= 1 =>
        \A t \in Threads \ {"app"} : \A i \in 1..Len(todo[t]) : todo[t][i] \notin Opening

\* The application has disconnected, after one attempt at most.
Down == past.attempts <= 1 /\ past.wanted = "down" /\ past.disconnects > 0

\* It has not asked for a new connection since.
DownInv == Down => retry.user_closed /\ ~Pends(Opening)

\* The steps that close a leg, or see to it that it is closed.
Closes(l) ==
    IF l = "Quic" THEN {"closeQuic"} \X {"join", "async"}
                  ELSE ({"closeCurl"} \X {"join", "async"}) \cup {<<"enterRace">>}

\* Once the disconnect has closed the transports, what is still up is being closed.
OrphanInv ==
    Down /\ ~leave.closing => \A l \in Legs : Usable(sock[l]) => Pends(Closes(l))

\* What the starts do to the history.
LEMMA StartPast ==
    ASSUME DataOK, Wakeup \/ (\E k \in Legs : Transport(k)) \/ Connect \/ Disconnect
    PROVE  /\ Connect => past'.attempts = past.attempts + 1 /\ past'.wanted = "up"
           /\ ReconnectElapses =>
                 /\ past'.attempts = past.attempts + 1
                 /\ past'.wanted = past.wanted /\ past'.disconnects = past.disconnects
           /\ ~Connect /\ ~ReconnectElapses => past'.attempts = past.attempts
           /\ ~Connect /\ ~ReconnectElapses /\ ~Disconnect =>
                 past'.wanted = past.wanted /\ past'.disconnects = past.disconnects
<1>. past \in Pasts
  BY DEF DataOK
<1>1. CASE Connect
  <2>1. past'.attempts = past.attempts + 1 /\ past'.wanted = "up"
    BY <1>1 DEF Connect, Pasts
  <2>2. past'.connects = past.connects + 1 /\ past.connects \in Nat
    BY <1>1 DEF Connect, Pasts
  <2>3. ReconnectElapses => past'.connects = past.connects
    BY DEF ReconnectElapses, Pasts
  <2>. QED
    BY <1>1, <2>1, <2>2, <2>3
<1>2. CASE ReconnectElapses
  <2>1. /\ past'.attempts = past.attempts + 1
        /\ past'.wanted = past.wanted /\ past'.disconnects = past.disconnects
    BY <1>2 DEF ReconnectElapses, Pasts
  <2>2. past'.connects = past.connects /\ past.connects \in Nat
    BY <1>2 DEF ReconnectElapses, Pasts
  <2>3. Connect => past'.connects = past.connects + 1
    BY DEF Connect, Pasts
  <2>. QED
    BY <1>2, <2>1, <2>2, <2>3
<1>3. CASE ~Connect /\ ~ReconnectElapses
  <2>1. CASE Disconnect
    BY <1>3, <2>1 DEF Disconnect, Pasts
  <2>2. CASE ~Disconnect
    BY <1>3, <2>2 DEF Wakeup, DelayElapses, PingTimeout, LeaveTimeout, Transport,
         SocketBreaks, SocketOpens, SocketFails, SocketClosedByPeer, SocketStops,
         SocketEnds, SocketReceives, OnlyRace, OnlyLeave, OnlySock, Pasts
  <2>. QED
    BY <1>3, <2>1, <2>2
<1>. QED
  BY <1>1, <1>2, <1>3

\* A reconnect thread cannot be what begins the first attempt.
LEMMA FirstByConnect ==
    ASSUME TypeOK, YoungInv, ReconnectElapses, past'.attempts <= 1
    PROVE  FALSE
<1>. DataOK /\ past.attempts \in Nat
  BY DEF TypeOK, DataOK, Pasts
<1>1. past'.attempts = past.attempts + 1
  BY StartPast DEF Wakeup
<1>2. past.attempts = 0
  BY <1>1
<1>3. crash = "none"
  BY StartRuns DEF Wakeup
<1>. QED
  BY <1>2, <1>3 DEF YoungInv, Young, ReconnectElapses

LEMMA SoloStep == TypeOK /\ YoungInv /\ SoloInv /\ [Next]_vars => SoloInv'
<1>. SUFFICES ASSUME TypeOK, YoungInv, SoloInv, [Next]_vars, past'.attempts <= 1,
                     NEW u \in Threads \ {"app"}, NEW i \in 1..Len(todo'[u])
              PROVE  todo'[u][i] \notin Opening
  BY DEF SoloInv
<1>. DataOK /\ TodoOK /\ past.attempts \in Nat
  BY DEF TypeOK, DataOK, Pasts
<1>1. ASSUME NEW t \in Threads, Step(t) PROVE todo'[u][i] \notin Opening
  <2>1. past.attempts <= 1 /\ todo[t] # <<>>
    BY <1>1, StepFirst, StepMoves
  <2>2. PICK turns \in Seq(Steps) :
          Then(t, turns) /\ \A j \in 1..Len(turns) : TurnsInto(t, turns, j)
    BY <1>1, StepTurnsInto
  <2>3. \A j \in 1..Len(turns) : turns[j] \notin Opening
    BY <2>2, TurnsNoBegin DEF Begins, Opening
  <2>4. CASE u # t
    <3>1. todo'[u] = todo[u]
      BY <2>1, <2>2, <2>4, ThenAt
    <3>. QED
      BY <2>1, <3>1 DEF SoloInv
  <2>5. CASE u = t
    <3>1. \/ i \in 1..Len(turns) /\ todo'[t][i] = turns[i]
          \/ /\ i - Len(turns) + 1 \in 2..Len(todo[t])
             /\ todo'[t][i] = todo[t][i - Len(turns) + 1]
      BY <2>1, <2>2, <2>5, ThenAt
    <3>2. i - Len(turns) + 1 \in 2..Len(todo[t]) => i - Len(turns) + 1 \in 1..Len(todo[t])
      OBVIOUS
    <3>. QED
      BY <2>1, <2>3, <2>5, <3>1, <3>2 DEF SoloInv
  <2>. QED
    BY <2>4, <2>5
<1>2. CASE Wakeup \/ (\E k \in Legs : Transport(k)) \/ Connect \/ Disconnect
  <2>1. ~ReconnectElapses
    BY FirstByConnect
  <2>2. past.attempts <= 1
    BY <1>2, <2>1, StartPast
  <2>3. ASSUME NEW t \in Threads, NEW steps, Started(t, steps),
               t = "app" \/ \A j \in 1..Len(steps) : steps[j] \notin Opening
        PROVE  todo'[u][i] \notin Opening
    <3>1. todo'[t] = steps /\ \A v \in Threads \ {t} : todo'[v] = todo[v]
      BY <2>3, StartedAt
    <3>. QED
      BY <2>2, <2>3, <3>1 DEF SoloInv
  <2>4. CASE Connect
    BY <2>3, <2>4 DEF Connect, Starts, Started, Threads
  <2>5. CASE ~Connect
    <3>1. \A steps \in Milds : \A j \in 1..Len(steps) : steps[j] \notin Opening
      BY KindsApart DEF Milds, Opening, Begins
    <3>2. ASSUME NEW s \in Callbacks \cup Fails("Quic")
          PROVE  \A j \in 1..Len(<<s>>) : <<s>>[j] \notin Opening
      <4>1. s \notin Opening
        BY KindsApart DEF Tokens, Opening, Begins
      <4>. QED
        BY <4>1
    <3>3. \A l \in Legs : <<"opened", l>> \in Callbacks
      BY DEF Callbacks
    <3>4. past'.attempts # past.attempts + 1
      BY <1>2, <2>1, <2>5, StartPast
    <3>. QED
      BY <1>2, <2>3, <3>1, <3>2, <3>3, <3>4, StartsTurn, ThreadNames DEF StartTurns, Legs
  <2>. QED
    BY <2>4, <2>5
<1>3. CASE UNCHANGED vars
  BY <1>3 DEF vars, SoloInv
<1>. QED
  BY <1>1, <1>2, <1>3 DEF Next, Busy

LEMMA SoloInit == Init => SoloInv
BY DEF Init, SoloInv

\* Only beginConnect takes back that the application closed.
LEMMA StepClosed ==
    ASSUME DataOK, NEW t \in Threads, Step(t), ~Unsuppress(t)
    PROVE  retry'.user_closed = retry.user_closed
<1>. retry \in Retries
  BY DEF DataOK
<1>1. CASE CloseStep(t)
  BY <1>1 DEF CloseStep, CancelMixedRace, CloseCurlAsync, CloseCurlJoin, JoinCurl, UnlockCurl,
              CloseQuicAsync, CloseQuicJoin, JoinQuic, AllClosed, OnlyRace, OnlySock
<1>2. CASE BeginConnect(t)
  BY <1>2 DEF BeginConnect, Retries
<1>3. CASE ConnectStep(t) /\ ~BeginConnect(t)
  BY <1>3 DEF ConnectStep, ChooseLeg, OpenPrimary,
              ScheduleMixedTcpFallback, StartMixedTcpFallback, OpenAlt, EnterRace, UnlockRace,
              HandleMixedTransportFailure, Promote, OnlyRace
<1>4. CASE onTransportRecv(t)
  BY <1>4 DEF onTransportRecv, Retries
<1>5. CASE CallbackStep(t) /\ ~onTransportRecv(t)
  BY <1>5 DEF CallbackStep, onTransportOpen, MixedDeclareWinner, StartKeepalive,
              onTransportClose, onTransportError, SessionOff, Tell, OnlyTodo, OnlyRace
<1>6. CASE FailFatal(t) \/ Reconnecting(t) \/ Resume(t) \/ ArmReconnect(t)
  BY <1>6 DEF FailFatal, Reconnecting, Resume, ArmReconnect, Retries
<1>7. CASE \/ Report(t) \/ ScheduleReconnect(t) \/ SendLeave(t) \/ AwaitLeave(t)
           \/ CloseSocketAfterDisconnect(t)
  BY <1>7 DEF Report, ScheduleReconnect, SendLeave, AwaitLeave, CloseSocketAfterDisconnect,
        OnlyTodo, OnlyLeave
<1>. QED
  BY <1>1, <1>2, <1>3, <1>4, <1>5, <1>6, <1>7 DEF Step, RetryStep

\* A thread that is about to clear user_closed still has to open the leg.
LEMMA UnsuppressOpens ==
    ASSUME TypeOK, PairsInv, OrderInv, NEW t \in Threads, Unsuppress(t)
    PROVE  Pends(Opening)
<1>. TodoOK
  BY DEF TypeOK
<1>1. todo[t] # <<>> /\ Head(todo[t]) = <<"unsuppress">>
  BY DEF Unsuppress, At
<1>2. << <<"unsuppress">>, <<"chooseLeg">> >> \in Follows
  BY DEF Follows
<1>3. \E i \in 2..Len(todo[t]) : todo[t][i] = <<"chooseLeg">>
  BY <1>1, <1>2, PairPends
<1>4. PICK i \in 2..Len(todo[t]) : todo[t][i] = <<"chooseLeg">>
  BY <1>3
<1>5. i + 1 = Len(todo[t]) /\ todo[t][i + 1] = <<"openPrimary">>
  BY <1>4 DEF OrderInv, Ordered
<1>6. i + 1 \in 1..Len(todo[t]) /\ todo[t][i + 1] \in Opening
  BY <1>4, <1>5 DEF Opening
<1>. QED
  BY <1>6 DEF Pends

LEMMA DownStep ==
    TypeOK /\ PairsInv /\ OrderInv /\ YoungInv /\ SoloInv /\ DownInv /\ [Next]_vars => DownInv'
<1>. SUFFICES ASSUME TypeOK, PairsInv, OrderInv, YoungInv, SoloInv, DownInv, [Next]_vars, Down'
              PROVE  retry'.user_closed /\ ~Pends(Opening)'
  BY DEF DownInv
<1>. DataOK /\ TodoOK /\ past \in Pasts /\ retry \in Retries
  BY DEF TypeOK, DataOK
<1>1. ASSUME NEW t \in Threads, Step(t) PROVE retry'.user_closed /\ ~Pends(Opening)'
  <2>1. Down /\ todo[t] # <<>>
    BY <1>1, StepFirst, StepMoves DEF Down
  <2>2. retry.user_closed /\ ~Pends(Opening)
    BY <2>1 DEF DownInv
  <2>3. PICK turns \in Seq(Steps) :
          Then(t, turns) /\ \A j \in 1..Len(turns) : TurnsInto(t, turns, j)
    BY <1>1, StepTurnsInto
  <2>4. \A j \in 1..Len(turns) : turns[j] \notin Opening
    BY <2>3, TurnsNoBegin DEF Begins, Opening
  <2>5. ~Pends(Opening)'
    BY <2>1, <2>2, <2>3, <2>4, ThenPended
  <2>. QED
    BY <1>1, <2>2, <2>5, StepClosed, UnsuppressOpens
<1>2. CASE Wakeup \/ (\E k \in Legs : Transport(k)) \/ Connect \/ Disconnect
  <2>1. ~ReconnectElapses
    BY FirstByConnect DEF Down
  <2>2. ~Connect
    BY <1>2, StartPast DEF Down
  <2>3. past.attempts <= 1
    BY <1>2, <2>1, <2>2, StartPast DEF Down
  <2>4. ASSUME NEW t \in Threads, NEW steps, Started(t, steps),
               \A j \in 1..Len(steps) : steps[j] \notin Opening, ~Pends(Opening)
        PROVE  ~Pends(Opening)'
    <3>1. todo'[t] = steps /\ \A v \in Threads \ {t} : todo'[v] = todo[v]
      BY <2>4, StartedAt
    <3>. QED
      BY <2>4, <3>1 DEF Pends
  <2>5. CASE Disconnect
    <3>1. Started("app", << <<"sendLeave">> >>) /\ retry'.user_closed
      BY <2>5 DEF Disconnect, Starts, Started, Retries
    <3>2. ~Pends(Opening)
      BY <2>3, <3>1 DEF SoloInv, Pends, Started
    <3>3. <<"sendLeave">> \notin Opening /\ "app" \in Threads
      BY DEF Opening, Threads
    <3>4. \A j \in 1..Len(<< <<"sendLeave">> >>) : << <<"sendLeave">> >>[j] \notin Opening
      BY <3>3
    <3>. QED
      BY <2>4, <3>1, <3>2, <3>3, <3>4
  <2>6. CASE ~Disconnect
    <3>1. retry.user_closed /\ ~Pends(Opening)
      BY <1>2, <2>1, <2>2, <2>3, <2>6, StartPast DEF DownInv, Down
    <3>2. retry' = retry
      BY <1>2, <2>1, <2>2, <2>6 DEF Wakeup, DelayElapses, PingTimeout, LeaveTimeout,
           Transport, SocketBreaks, SocketOpens, SocketFails, SocketClosedByPeer,
           SocketStops, SocketEnds, SocketReceives, OnlyRace, OnlyLeave, OnlySock
    <3>3. \A steps \in Milds : \A j \in 1..Len(steps) : steps[j] \notin Opening
      BY KindsApart DEF Milds, Opening, Begins
    <3>4. ASSUME NEW s \in Callbacks \cup Fails("Quic")
          PROVE  \A j \in 1..Len(<<s>>) : <<s>>[j] \notin Opening
      <4>1. s \notin Opening
        BY KindsApart DEF Tokens, Opening, Begins
      <4>. QED
        BY <4>1
    <3>5. \A l \in Legs : <<"opened", l>> \in Callbacks
      BY DEF Callbacks
    <3>6. past'.attempts # past.attempts + 1
      BY <1>2, <2>1, <2>2, StartPast DEF Pasts
    <3>7. ~Pends(Opening)'
      BY <1>2, <2>4, <3>1, <3>3, <3>4, <3>5, <3>6, StartsTurn, ThreadNames DEF StartTurns, Legs
    <3>. QED
      BY <3>1, <3>2, <3>7
  <2>. QED
    BY <2>5, <2>6
<1>3. CASE UNCHANGED vars
  BY <1>3 DEF vars, DownInv, Down, Pends
<1>. QED
  BY <1>1, <1>2, <1>3 DEF Next, Busy

LEMMA DownInit == Init => DownInv
BY DEF Init, DownInv, Down

\* The steps that close one leg or the other; every other step is none of these.
Closing == ({"closeCurl", "closeQuic"} \X {"join", "async"}) \cup {<<"enterRace">>}

LEMMA CloseKinds ==
    /\ \A how \in {"join", "async"} :
          /\ <<"closeCurl", how>> \in Closes("Curl") /\ <<"closeCurl", how>> \notin Closes("Quic")
          /\ <<"closeQuic", how>> \in Closes("Quic") /\ <<"closeQuic", how>> \notin Closes("Curl")
    /\ <<"enterRace">> \in Closes("Curl") /\ <<"enterRace">> \notin Closes("Quic")
    /\ \A l \in Legs : Closes(l) \subseteq Closing
BY DEF Closes, Closing, Legs

LEMMA CloseHeads ==
    /\ \A s \in {"allClosed", "report", "failFatal", "beginConnect", "unsuppress",
                 "chooseLeg", "openPrimary", "sessionOff", "scheduleReconnect",
                 "reconnecting", "resume", "armReconnect", "joinCurl", "unlockCurl",
                 "joinQuic", "scheduleFallback", "startFallback", "openAlt", "unlockRace",
                 "startKeepalive", "tell", "sendLeave", "awaitLeave", "closeAfterDisconnect"} :
          <<s>> \notin Closing
    /\ \A how \in {"join", "async"} : <<"cancelMixedRace", how>> \notin Closing
    /\ \A l \in Legs : <<"opened", l>> \notin Closing /\ <<"declareWinner", l>> \notin Closing
    /\ \A k \in {"fatal", "reconnect"} : <<"promote", k>> \notin Closing
    /\ \A l \in Legs, how \in {"local", "remote", "token"} : <<"closed", l, how>> \notin Closing
    /\ \A l \in Legs, k \in {"security", "timeout", "other"} : <<"error", l, k>> \notin Closing
    /\ \A l \in Legs, m \in {"ok", "leave", "refused"} : <<"recv", l, m>> \notin Closing
    /\ \A l \in Legs, f \in {"fallback", "none"}, k \in {"fatal", "reconnect"} :
          <<"failure", l, f, k>> \notin Closing
BY DEF Closing, Legs

\* Thread t ran a step that closes nothing and opens nothing.
Keeps(t) ==
    /\ Head(todo[t]) \notin Closing
    /\ \A l \in Legs : Usable(sock'[l]) => Usable(sock[l])

LEMMA StepKeeps ==
    ASSUME DataOK, NEW t \in Threads, Step(t)
    PROVE  \/ Keeps(t) \/ CloseCurlAsync(t) \/ CloseCurlJoin(t) \/ CloseQuicAsync(t)
           \/ CloseQuicJoin(t) \/ EnterRace(t) \/ OpenPrimary(t) \/ OpenAlt(t)
<1>. USE DEF At, Keeps
<1>. sock \in [Legs -> Sockets] /\ "Curl" \in Legs /\ "Quic" \in Legs
  BY DEF DataOK, Legs
<1>1. CASE JoinCurl(t) \/ JoinQuic(t)
  <2>1. PICK l \in Legs : ~sock[l].alive /\ sock' = [sock EXCEPT ![l] = Joined(@)]
    BY <1>1 DEF JoinCurl, JoinQuic
  <2>2. ~Usable(sock'[l]) /\ \A k \in Legs \ {l} : sock'[k] = sock[k]
    BY <2>1 DEF Joined, Usable, Sockets
  <2>3. Head(todo[t]) \notin Closing
    BY <1>1, CloseHeads DEF JoinCurl, JoinQuic
  <2>. QED
    BY <2>2, <2>3
<1>2. CASE CancelMixedRace(t) \/ UnlockCurl(t) \/ AllClosed(t)
  BY <1>2, CloseHeads DEF CancelMixedRace, UnlockCurl, AllClosed, OnlyRace
<1>3. CASE \/ BeginConnect(t) \/ Unsuppress(t) \/ ChooseLeg(t) \/ ScheduleMixedTcpFallback(t)
           \/ StartMixedTcpFallback(t) \/ UnlockRace(t) \/ Promote(t)
  BY <1>3, CloseHeads DEF BeginConnect, Unsuppress, ChooseLeg, ScheduleMixedTcpFallback,
        StartMixedTcpFallback, UnlockRace, Promote, OnlyRace, OnlyRetry
<1>4. CASE HandleMixedTransportFailure(t)
  <2>1. PICK k \in Legs, f \in {"fallback", "none"}, how \in {"fatal", "reconnect"} :
          Head(todo[t]) = <<"failure", k, f, how>>
    BY <1>4 DEF HandleMixedTransportFailure
  <2>2. sock' = sock
    BY <1>4 DEF HandleMixedTransportFailure, OnlyRace
  <2>3. Head(todo[t]) \notin Closing
    BY <2>1, CloseHeads
  <2>. QED
    BY <2>2, <2>3
<1>5. CASE onTransportOpen(t) \/ MixedDeclareWinner(t) \/ StartKeepalive(t) \/ SessionOff(t)
           \/ Tell(t)
  BY <1>5, CloseHeads DEF onTransportOpen, MixedDeclareWinner, StartKeepalive, SessionOff, Tell,
        OnlyRace
<1>6. CASE onTransportClose(t) \/ onTransportError(t) \/ onTransportRecv(t)
  <2>1. sock' = sock
    BY <1>6 DEF onTransportClose, onTransportError, onTransportRecv, OnlyTodo
  <2>2. CASE onTransportClose(t)
    BY <2>1, <2>2, CloseHeads DEF onTransportClose
  <2>3. CASE onTransportError(t)
    BY <2>1, <2>3, CloseHeads DEF onTransportError
  <2>4. CASE onTransportRecv(t)
    <3>1. PICK l \in Legs, m \in {"ok", "leave", "refused"} : Head(todo[t]) = <<"recv", l, m>>
      BY <2>4 DEF onTransportRecv
    <3>. QED
      BY <2>1, <3>1, CloseHeads
  <2>. QED
    BY <1>6, <2>2, <2>3, <2>4
<1>7. CASE RetryStep(t)
  BY <1>7, CloseHeads DEF RetryStep, FailFatal, Report, ScheduleReconnect, Reconnecting, Resume,
        ArmReconnect, SendLeave, AwaitLeave, CloseSocketAfterDisconnect,
        OnlyTodo, OnlyRetry, OnlyLeave
<1>. QED
  BY <1>1, <1>2, <1>3, <1>4, <1>5, <1>6, <1>7 DEF Step, CloseStep, ConnectStep, CallbackStep

\* Only closeSocketAfterDisconnect ends the wait for the answer to the Leave.
LEMMA StepClosing ==
    ASSUME NEW t \in Threads, Step(t), ~CloseSocketAfterDisconnect(t), leave \in Leaves
    PROVE  leave'.closing = leave.closing
<1>1. CASE CloseStep(t)
  BY <1>1 DEF CloseStep, CancelMixedRace, CloseCurlAsync, CloseCurlJoin, JoinCurl, UnlockCurl,
              CloseQuicAsync, CloseQuicJoin, JoinQuic, AllClosed, OnlyRace, OnlySock
<1>2. CASE ConnectStep(t)
  BY <1>2 DEF ConnectStep, BeginConnect, Unsuppress, ChooseLeg, OpenPrimary,
              ScheduleMixedTcpFallback, StartMixedTcpFallback, OpenAlt, EnterRace, UnlockRace,
              HandleMixedTransportFailure, Promote, OnlyRace, OnlyRetry
<1>3. CASE CallbackStep(t)
  BY <1>3 DEF CallbackStep, onTransportOpen, MixedDeclareWinner, StartKeepalive,
              onTransportClose, onTransportError, SessionOff, onTransportRecv, Tell,
              OnlyTodo, OnlyRace
<1>4. CASE SendLeave(t) \/ AwaitLeave(t)
  BY <1>4 DEF SendLeave, AwaitLeave, Leaves
<1>5. CASE RetryStep(t) /\ ~SendLeave(t) /\ ~AwaitLeave(t)
  BY <1>5 DEF RetryStep, FailFatal, Report, ScheduleReconnect, Reconnecting, Resume,
              ArmReconnect, OnlyTodo, OnlyRetry
<1>. QED
  BY <1>1, <1>2, <1>3, <1>4, <1>5 DEF Step

\* A close request reaches a transport that is up.
LEMMA RequestStops ==
    ASSUME NEW s \in Sockets, Heeds(s)
    PROVE  ~Usable(CloseRequested(s))
BY DEF Heeds, Usable, CloseRequested, Sockets

\* A leg that is up stays with the thread that is to close it.
LEMMA StepPends ==
    ASSUME TypeOK, HeedsInv, PairsInv, NEW t \in Threads, Step(t), ~OpenPrimary(t), NEW l \in Legs,
           Usable(sock'[l]), Usable(sock[l]) => Pends(Closes(l)),
           l = "Curl" /\ EnterRace(t) => retry.user_closed \/ race.session_open
    PROVE  Pends(Closes(l))'
<1>. DataOK /\ TodoOK
  BY DEF TypeOK
<1>. sock \in [Legs -> Sockets] /\ "Curl" \in Legs /\ "Quic" \in Legs
  BY DEF DataOK, Legs
<1>1. PICK steps \in Seq(Steps) : todo[t] # <<>> /\ Then(t, steps)
  BY StepMoves
<1>2. CASE Keeps(t)
  BY <1>1, <1>2, CloseKinds, ThenPends DEF Keeps
<1>3. CASE CloseCurlAsync(t) \/ CloseCurlJoin(t)
  <2>1. PICK how \in {"join", "async"} : Head(todo[t]) = <<"closeCurl", how>>
    BY <1>3 DEF CloseCurlAsync, CloseCurlJoin, At
  <2>2. sock' = [sock EXCEPT !["Curl"] = CloseRequested(@)]
    BY <1>3 DEF CloseCurlAsync, CloseCurlJoin
  <2>3. l # "Curl"
    BY <2>2, RequestStops DEF HeedsInv
  <2>4. l = "Quic" /\ sock'[l] = sock[l]
    BY <2>2, <2>3 DEF Legs
  <2>5. Head(todo[t]) \notin Closes(l)
    BY <2>1, <2>4, CloseKinds
  <2>. QED
    BY <1>1, <2>4, <2>5, ThenPends
<1>4. CASE CloseQuicAsync(t) \/ CloseQuicJoin(t)
  <2>1. PICK how \in {"join", "async"} : Head(todo[t]) = <<"closeQuic", how>>
    BY <1>4 DEF CloseQuicAsync, CloseQuicJoin, At
  <2>2. sock' = [sock EXCEPT !["Quic"] = CloseRequested(@)]
    BY <1>4 DEF CloseQuicAsync, CloseQuicJoin
  <2>3. l # "Quic"
    BY <2>2, RequestStops DEF HeedsInv
  <2>4. l = "Curl" /\ sock'[l] = sock[l]
    BY <2>2, <2>3 DEF Legs
  <2>5. Head(todo[t]) \notin Closes(l)
    BY <2>1, <2>4, CloseKinds
  <2>. QED
    BY <1>1, <2>4, <2>5, ThenPends
<1>5. CASE EnterRace(t)
  <2>1. Head(todo[t]) = <<"enterRace">> /\ sock' = sock
    BY <1>5 DEF EnterRace, At, OnlyRace
  <2>2. << <<"closeCurl", "async">>, <<"unlockRace">> >> \in Seq(Steps)
    BY DEF Steps
  <2>3. CASE l = "Curl"
    <3>1. Then(t, << <<"closeCurl", "async">>, <<"unlockRace">> >>)
      BY <1>5, <2>3 DEF EnterRace
    <3>2. <<"closeCurl", "async">> \in Closes(l)
      BY <2>3, CloseKinds
    <3>3. \E i \in 1..2 : << <<"closeCurl", "async">>, <<"unlockRace">> >>[i] \in Closes(l)
      BY <3>2
    <3>. QED
      BY <1>1, <2>2, <3>1, <3>3, ThenPends
  <2>4. CASE l = "Quic"
    <3>1. Head(todo[t]) \notin Closes(l)
      BY <2>1, <2>4, CloseKinds
    <3>. QED
      BY <1>1, <2>1, <3>1, ThenPends
  <2>. QED
    BY <2>3, <2>4 DEF Legs
<1>6. CASE OpenAlt(t)
  <2>1. Head(todo[t]) = <<"openAlt">> /\ sock' = [sock EXCEPT !["Curl"] = Opened]
    BY <1>6 DEF OpenAlt, OpenCurl, At
  <2>2. CASE l = "Curl"
    <3>1. << <<"openAlt">>, <<"enterRace">> >> \in Follows
      BY DEF Follows
    <3>2. \E i \in 2..Len(todo[t]) : todo[t][i] = <<"enterRace">>
      BY <1>1, <2>1, <3>1, PairPends
    <3>3. \E i \in 2..Len(todo[t]) : todo[t][i] \in Closes(l)
      BY <2>2, <3>2, CloseKinds
    <3>. QED
      BY <1>1, <3>3, ThenPends
  <2>3. CASE l = "Quic"
    <3>1. Head(todo[t]) \notin Closes(l) /\ sock'[l] = sock[l]
      BY <2>1, <2>3, CloseHeads, CloseKinds
    <3>. QED
      BY <1>1, <3>1, ThenPends
  <2>. QED
    BY <2>2, <2>3 DEF Legs
<1>. QED
  BY <1>2, <1>3, <1>4, <1>5, <1>6, StepKeeps

\* One step of a thread after the disconnect has closed the transports.
LEMMA StepOrphan ==
    ASSUME TypeOK, HeedsInv, PairsInv, DownInv, OrphanInv, NEW t \in Threads, Step(t), Down',
           ~leave'.closing, NEW l \in Legs, Usable(sock'[l])
    PROVE  Pends(Closes(l))'
<1>. DataOK /\ TodoOK
  BY DEF TypeOK
<1>. sock \in [Legs -> Sockets] /\ "Curl" \in Legs /\ "Quic" \in Legs /\ leave \in Leaves
  BY DEF DataOK, Legs
<1>1. Down /\ retry.user_closed /\ ~Pends(Opening)
  BY StepFirst DEF Down, DownInv
<1>2. PICK steps \in Seq(Steps) : todo[t] # <<>> /\ Then(t, steps)
  BY StepMoves
<1>3. CASE CloseSocketAfterDisconnect(t) /\ leave.closing
  <2>1. Then(t, closeAllTransports("join"))
    BY <1>3 DEF CloseSocketAfterDisconnect
  <2>2. /\ closeAllTransports("join") \in Seq(Steps) /\ Len(closeAllTransports("join")) = 4
        /\ closeAllTransports("join")[2] = <<"closeCurl", "join">>
        /\ closeAllTransports("join")[3] = <<"closeQuic", "join">>
    BY PlainFunctions DEF closeAllTransports, Sound, PlainSteps
  <2>3. l = "Curl" \/ l = "Quic"
    BY DEF Legs
  <2>4. \E i \in 1..Len(closeAllTransports("join")) : closeAllTransports("join")[i] \in Closes(l)
    <3>. DEFINE all == closeAllTransports("join")
    <3>. HIDE DEF all
    <3>1. 2 \in 1..Len(all) /\ 3 \in 1..Len(all)
      BY <2>2 DEF all
    <3>2. CASE l = "Curl"
      <4>1. all[2] \in Closes(l)
        BY <2>2, <3>2, CloseKinds DEF all
      <4>. QED
        BY <3>1, <4>1 DEF all
    <3>3. CASE l = "Quic"
      <4>1. all[3] \in Closes(l)
        BY <2>2, <3>3, CloseKinds DEF all
      <4>. QED
        BY <3>1, <4>1 DEF all
    <3>. QED
      BY <2>3, <3>2, <3>3
  <2>. QED
    BY <1>2, <2>1, <2>2, <2>4, ThenPends
<1>4. CASE ~(CloseSocketAfterDisconnect(t) /\ leave.closing)
  <2>1. ~leave.closing
    BY <1>4, StepClosing DEF CloseSocketAfterDisconnect
  <2>2. Usable(sock[l]) => Pends(Closes(l))
    BY <1>1, <2>1 DEF OrphanInv
  <2>3. CASE OpenPrimary(t)
    <3>1. Head(todo[t]) \in Opening
      BY <2>3 DEF OpenPrimary, At, Opening
    <3>2. 1 \in 1..Len(todo[t]) /\ todo[t][1] \in Opening
      BY <1>2, <3>1 DEF TodoOK
    <3>. QED
      BY <1>1, <3>2 DEF Pends
  <2>. QED
    BY <1>1, <2>2, <2>3, StepPends
<1>. QED
  BY <1>3, <1>4

\* A transport does not come up by itself.
LEMMA StartUsable ==
    ASSUME DataOK, Wakeup \/ (\E k \in Legs : Transport(k)) \/ Connect \/ Disconnect,
           NEW l \in Legs, Usable(sock'[l])
    PROVE  Usable(sock[l])
<1>. sock \in [Legs -> Sockets]
  BY DEF DataOK
<1>1. CASE sock' = sock
  BY <1>1
<1>2. CASE sock' # sock
  <2>1. PICK k \in Legs : SocketBreaks(k) \/ SocketOpens(k) \/ SocketFails(k)
                          \/ SocketClosedByPeer(k) \/ SocketStops(k) \/ SocketEnds(k)
    BY <1>2 DEF Wakeup, DelayElapses, ReconnectElapses, PingTimeout, LeaveTimeout,
         Connect, Disconnect, Transport,
         SocketReceives, OnlyRace, OnlyLeave
  <2>2. CASE l = k
    BY <2>1, <2>2, ZenonT(30) DEF SocketBreaks, SocketOpens, SocketFails,
         SocketClosedByPeer, SocketStops, SocketEnds, Reporting, MayBreak, MayOpen,
         OpenedUp, Broken, Ended, Usable, Sockets
  <2>3. CASE l # k
    BY <2>1, <2>3 DEF SocketBreaks, SocketOpens, SocketFails, SocketClosedByPeer,
         SocketStops, SocketEnds, Reporting
  <2>. QED
    BY <2>2, <2>3
<1>. QED
  BY <1>1, <1>2

\* And who connects wants it up.
LEMMA StartOrphan ==
    ASSUME TypeOK, OrphanInv, Wakeup \/ (\E k \in Legs : Transport(k)) \/ Connect \/ Disconnect,
           YoungInv, Down', ~leave'.closing, NEW l \in Legs, Usable(sock'[l])
    PROVE  Pends(Closes(l))'
<1>. DataOK /\ TodoOK
  BY DEF TypeOK
<1>. sock \in [Legs -> Sockets] /\ leave \in Leaves /\ past \in Pasts
  BY DEF DataOK
<1>1. ~Connect /\ ~Disconnect /\ ~ReconnectElapses
  <2>1. ~Connect
    BY StartPast DEF Down
  <2>2. ~Disconnect
    BY DEF Disconnect, Leaves
  <2>. QED
    BY <2>1, <2>2, FirstByConnect DEF Down
<1>2. Down
  BY <1>1, StartPast DEF Down
<1>3. leave'.closing = leave.closing
  BY <1>1 DEF Wakeup, DelayElapses, PingTimeout, LeaveTimeout, Transport, SocketBreaks,
       SocketOpens, SocketFails, SocketClosedByPeer, SocketStops, SocketEnds,
       SocketReceives, OnlyRace, OnlySock, Leaves
<1>4. Usable(sock[l])
  BY StartUsable
<1>5. Pends(Closes(l))
  BY <1>2, <1>3, <1>4 DEF OrphanInv
<1>. QED
  BY <1>5, StartsMove

LEMMA OrphanStep ==
    TypeOK /\ HeedsInv /\ PairsInv /\ YoungInv /\ DownInv /\ OrphanInv /\ [Next]_vars => OrphanInv'
<1>. SUFFICES ASSUME TypeOK, HeedsInv, PairsInv, YoungInv, DownInv, OrphanInv, [Next]_vars, Down',
                     ~leave'.closing, NEW l \in Legs, Usable(sock'[l])
              PROVE  Pends(Closes(l))'
  BY DEF OrphanInv
<1>1. ASSUME NEW t \in Threads, Step(t) PROVE Pends(Closes(l))'
  BY <1>1, StepOrphan
<1>2. CASE Wakeup \/ (\E k \in Legs : Transport(k)) \/ Connect \/ Disconnect
  BY <1>2, StartOrphan
<1>3. CASE UNCHANGED vars
  BY <1>3 DEF vars, OrphanInv, Down, Pends
<1>. QED
  BY <1>1, <1>2, <1>3 DEF Next, Busy

LEMMA OrphanInit == Init => OrphanInv
BY DEF Init, OrphanInv, Down

\* After disconnect has run its course no transport is left up (NoOrphan): a leg
\* opened while the application disconnects is closed by the thread that opened it.
THEOREM NoOrphanCorrect == Spec => []NoOrphan
<1>1. OrphanInv => NoOrphan
  <2>. SUFFICES ASSUME OrphanInv, Quiet, Down, ~leave.closing, NEW l \in Legs, Usable(sock[l])
                PROVE  FALSE
    BY DEF NoOrphan, Down
  <2>. QED
    BY QuietPends DEF OrphanInv
<1>. QED
  BY <1>1, HeedsInit, HeedsStep, PairsInit, PairsStep, OrderInit, OrderStep, YoungInit, YoungStep,
     SoloInit, SoloStep, DownInit, DownStep, OrphanInit, OrphanStep, TypeCorrect, PTL DEF Spec

-------------------------------------------------------------------------------
(* A connection over one transport: nobody is left alone.  With the Mixed     *)
(* implementation the property fails, so the theorem excludes it.             *)

\* The transport of a connection that does not race.
OneLeg == IF scenario.implementation = "Curl" THEN "Curl" ELSE "Quic"

\* The steps of a race, and all the others.
Racing == {<<s>> : s \in {"scheduleFallback", "startFallback", "openAlt", "enterRace"}}
          \cup Promotes
Sole   == Steps \ Racing
Soles  == Seq(Sole)

\* There is no race but in the Mixed implementation.
SoleInv == ~mixedMode => ~race.has_alt /\ ~race.mixed_delay_pending /\ ~Pends(Racing)

LEMMA SoleShapes ==
    /\ \A s \in {"allClosed", "report", "failFatal", "beginConnect", "unsuppress",
                 "chooseLeg", "openPrimary", "sessionOff", "scheduleReconnect",
                 "reconnecting", "resume", "armReconnect", "joinCurl", "unlockCurl", "joinQuic",
                 "unlockRace", "startKeepalive", "tell", "sendLeave", "awaitLeave",
                 "closeAfterDisconnect"} : <<s>> \in Sole
    /\ \A s \in {"cancelMixedRace", "closeCurl", "closeQuic"}, how \in {"join", "async"} :
          <<s, how>> \in Sole
    /\ \A s \in {"opened", "declareWinner"}, l \in Legs : <<s, l>> \in Sole
    /\ \A l \in Legs, how \in {"local", "remote", "token"} : <<"closed", l, how>> \in Sole
    /\ \A l \in Legs, k \in {"security", "timeout", "other"} : <<"error", l, k>> \in Sole
    /\ \A l \in Legs, m \in {"ok", "leave", "refused"} : <<"recv", l, m>> \in Sole
    /\ \A l \in Legs, f \in {"fallback", "none"}, k \in {"fatal", "reconnect"} :
          <<"failure", l, f, k>> \in Sole
BY DEF Sole, Steps, Racing, Promotes, Legs

LEMMA FewSole ==
    /\ <<>> \in Soles
    /\ \A a \in Sole : <<a>> \in Soles
    /\ \A a, b \in Sole : <<a, b>> \in Soles
    /\ \A a, b, c \in Sole : <<a, b, c>> \in Soles
    /\ \A a, b, c, d \in Sole : <<a, b, c, d>> \in Soles
    /\ \A r, s \in Soles : r \o s \in Soles
BY DEF Soles

LEMMA SoleFunctions ==
    /\ \A how \in {"join", "async"} : closeAllTransports(how) \in Soles
    /\ \A l \in Legs : closeAsync(l) \in Soles
    /\ failFatal \in Soles
    /\ beginConnect \in Soles
    /\ \A k : afterFailure(k) \in Soles
    /\ << <<"reconnecting">> >> \o closeAllTransports("async")
          \o << <<"resume">>, <<"armReconnect">> >> \in Soles
<1>1. ASSUME NEW how \in {"join", "async"} PROVE closeAllTransports(how) \in Soles
  BY SoleShapes, FewSole DEF closeAllTransports
<1>2. ASSUME NEW l \in Legs PROVE closeAsync(l) \in Soles
  <2>1. CASE l = "Curl"
    BY <2>1, SoleShapes, FewSole DEF closeAsync
  <2>2. CASE l # "Curl"
    BY <2>2, SoleShapes, FewSole DEF closeAsync
  <2>. QED
    BY <2>1, <2>2
<1>3. ASSUME NEW a \in Soles, NEW how \in {"join", "async"}, NEW c \in Soles
      PROVE  a \o closeAllTransports(how) \o c \in Soles
  <2>1. a \o closeAllTransports(how) \in Soles
    BY <1>1, FewSole
  <2>. QED
    BY <2>1, FewSole
<1>4. failFatal \in Soles
  <2>1. << <<"failFatal">> >> \in Soles /\ << <<"report">> >> \in Soles
    BY SoleShapes, FewSole
  <2>. QED
    BY <1>3, <2>1 DEF failFatal
<1>5. beginConnect \in Soles
  <2>1. << <<"beginConnect">> >> \in Soles
        /\ << <<"unsuppress">>, <<"chooseLeg">>, <<"openPrimary">> >> \in Soles
    BY SoleShapes, FewSole
  <2>. QED
    BY <1>3, <2>1 DEF beginConnect
<1>6. << <<"reconnecting">> >> \o closeAllTransports("async")
        \o << <<"resume">>, <<"armReconnect">> >> \in Soles
  <2>1. << <<"reconnecting">> >> \in Soles
        /\ << <<"resume">>, <<"armReconnect">> >> \in Soles
    BY SoleShapes, FewSole
  <2>. QED
    BY <1>3, <2>1
<1>7. ASSUME NEW k PROVE afterFailure(k) \in Soles
  <2>1. << <<"sessionOff">>, <<"scheduleReconnect">> >> \in Soles
    BY SoleShapes, FewSole
  <2>. QED
    BY <1>4, <2>1 DEF afterFailure
<1>. QED
  BY <1>1, <1>2, <1>4, <1>5, <1>6, <1>7

\* Thread t goes on without a race, on the same transport.
Solely(t) ==
    /\ \E steps \in Soles : Then(t, steps)
    /\ ~race'.has_alt /\ ~race'.mixed_delay_pending
    /\ race'.primary_leg = IF ChooseLeg(t) THEN OneLeg ELSE race.primary_leg

\* Other steps than chooseLeg.
LEMMA NotChoose ==
    ASSUME NEW t, Head(todo[t]) # <<"chooseLeg">>, NEW steps \in Soles, Then(t, steps),
           ~race'.has_alt /\ ~race'.mixed_delay_pending /\ race'.primary_leg = race.primary_leg
    PROVE  Solely(t)
BY DEF Solely, ChooseLeg, At

LEMMA SoleClose ==
    ASSUME DataOK, ~race.has_alt, ~race.mixed_delay_pending, NEW t \in Threads, CloseStep(t)
    PROVE  Solely(t)
<1>. USE DEF At
<1>. race \in Races
  BY DEF DataOK
<1>1. CASE CancelMixedRace(t)
  <2>1. Then(t, <<>>) /\ Head(todo[t]) # <<"chooseLeg">>
    BY <1>1 DEF CancelMixedRace
  <2>2. ~race'.has_alt /\ ~race'.mixed_delay_pending /\ race'.primary_leg = race.primary_leg
    BY <1>1 DEF CancelMixedRace, Races
  <2>. QED
    BY <2>1, <2>2, FewSole, NotChoose
<1>2. CASE AllClosed(t)
  <2>1. Then(t, <<>>) /\ Head(todo[t]) # <<"chooseLeg">>
    BY <1>2 DEF AllClosed
  <2>2. ~race'.has_alt /\ ~race'.mixed_delay_pending /\ race'.primary_leg = race.primary_leg
    BY <1>2 DEF AllClosed, Races
  <2>. QED
    BY <2>1, <2>2, FewSole, NotChoose
<1>3. ASSUME race' = race, Head(todo[t]) # <<"chooseLeg">>, NEW steps \in Soles, Then(t, steps)
      PROVE  Solely(t)
  BY <1>3, NotChoose
<1>4. CASE CloseCurlAsync(t) \/ CloseQuicAsync(t) \/ UnlockCurl(t)
  BY <1>3, <1>4, FewSole DEF CloseCurlAsync, CloseQuicAsync, UnlockCurl, OnlySock
<1>5. CASE CloseCurlJoin(t) \/ CloseQuicJoin(t)
  <2>1. << <<"joinCurl">> >> \in Soles /\ << <<"joinQuic">> >> \in Soles
    BY SoleShapes, FewSole
  <2>. QED
    BY <1>3, <1>5, <2>1 DEF CloseCurlJoin, CloseQuicJoin
<1>6. CASE JoinCurl(t)
  <2>1. << <<"unlockCurl">> >> \in Soles
        /\ << <<"closed", "Curl", "local">>, <<"unlockCurl">> >> \in Soles
    BY SoleShapes, FewSole DEF Legs
  <2>2. race' = race /\ Head(todo[t]) # <<"chooseLeg">>
    BY <1>6 DEF JoinCurl, OnlySock
  <2>. QED
    BY <1>3, <1>6, <2>1, <2>2 DEF JoinCurl
<1>7. CASE JoinQuic(t)
  <2>1. <<>> \in Soles /\ << <<"closed", "Quic", "local">> >> \in Soles
    BY SoleShapes, FewSole DEF Legs
  <2>2. race' = race /\ Head(todo[t]) # <<"chooseLeg">>
    BY <1>7 DEF JoinQuic, OnlySock
  <2>. QED
    BY <1>3, <1>7, <2>1, <2>2 DEF JoinQuic
<1>. QED
  BY <1>1, <1>2, <1>4, <1>5, <1>6, <1>7 DEF CloseStep

LEMMA SoleConnect ==
    ASSUME DataOK, ~mixedMode, ~race.has_alt, ~race.mixed_delay_pending,
           NEW t \in Threads, ConnectStep(t), Head(todo[t]) \notin Racing
    PROVE  Solely(t)
<1>. USE DEF At
<1>. race \in Races
  BY DEF DataOK
<1>1. ASSUME race' = race, Head(todo[t]) # <<"chooseLeg">>, NEW steps \in Soles, Then(t, steps)
      PROVE  Solely(t)
  BY <1>1, NotChoose
<1>2. CASE BeginConnect(t) \/ Unsuppress(t)
  BY <1>1, <1>2, FewSole DEF BeginConnect, Unsuppress, OnlyRetry
<1>3. CASE ChooseLeg(t)
  <2>1. Then(t, <<>>)
    BY <1>3 DEF ChooseLeg
  <2>2. ~race'.has_alt /\ ~race'.mixed_delay_pending /\ race'.primary_leg = OneLeg
    BY <1>3 DEF ChooseLeg, OneLeg, Races
  <2>. QED
    BY <1>3, <2>1, <2>2, FewSole DEF Solely
<1>4. CASE OpenPrimary(t)
  <2>1. race' = race /\ Head(todo[t]) = <<"openPrimary">>
    BY <1>4 DEF OpenPrimary
  <2>2. \/ Then(t, <<>>)
        \/ \E k \in {"timeout", "other"} : Then(t, << <<"error", "Quic", k>> >>)
    BY <1>4 DEF OpenPrimary, OpenQuic
  <2>3. \A k \in {"timeout", "other"} : << <<"error", "Quic", k>> >> \in Soles
    BY SoleShapes, FewSole DEF Legs
  <2>. QED
    BY <1>1, <2>1, <2>2, <2>3, FewSole
<1>5. ~ScheduleMixedTcpFallback(t) /\ ~StartMixedTcpFallback(t) /\ ~OpenAlt(t) /\ ~EnterRace(t)
  BY DEF ScheduleMixedTcpFallback, StartMixedTcpFallback, OpenAlt, EnterRace, Racing
<1>6. ~Promote(t)
  <2>1. \A k \in {"fatal", "reconnect"} : <<"promote", k>> \in Racing
    BY DEF Racing, Promotes
  <2>. QED
    BY <2>1 DEF Promote
<1>7. CASE UnlockRace(t)
  <2>1. Then(t, <<>>) /\ Head(todo[t]) # <<"chooseLeg">>
    BY <1>7 DEF UnlockRace
  <2>2. ~race'.has_alt /\ ~race'.mixed_delay_pending /\ race'.primary_leg = race.primary_leg
    BY <1>7 DEF UnlockRace, Races
  <2>. QED
    BY <2>1, <2>2, FewSole, NotChoose
<1>8. CASE HandleMixedTransportFailure(t)
  <2>1. PICK l \in Legs, fallback \in {"fallback", "none"}, k \in {"fatal", "reconnect"} :
          /\ Head(todo[t]) = <<"failure", l, fallback, k>>
          /\ Then(t, afterFailure(k)) /\ race' = race
    BY <1>8 DEF HandleMixedTransportFailure
  <2>. QED
    BY <1>1, <2>1, SoleFunctions
<1>. QED
  BY <1>2, <1>3, <1>4, <1>5, <1>6, <1>7, <1>8 DEF ConnectStep

LEMMA SoleCallback ==
    ASSUME DataOK, ~race.has_alt, ~race.mixed_delay_pending, NEW t \in Threads, CallbackStep(t)
    PROVE  Solely(t)
<1>. USE DEF At
<1>. race \in Races
  BY DEF DataOK
<1>1. ASSUME Head(todo[t]) # <<"chooseLeg">>, NEW steps \in Soles, Then(t, steps), race' = race
      PROVE  Solely(t)
  BY <1>1, NotChoose
<1>2. CASE onTransportOpen(t)
  <2>1. PICK l \in Legs :
          /\ Head(todo[t]) = <<"opened", l>>
          /\ \/ Then(t, <<>>) \/ Then(t, closeAsync(l)) \/ Then(t, << <<"startKeepalive">> >>)
    BY <1>2 DEF onTransportOpen, isAlt
  <2>2. ~race'.has_alt /\ ~race'.mixed_delay_pending /\ race'.primary_leg = race.primary_leg
    BY <1>2 DEF onTransportOpen, isAlt, Races
  <2>3. << <<"startKeepalive">> >> \in Soles
    BY SoleShapes, FewSole
  <2>. QED
    BY <2>1, <2>2, <2>3, FewSole, SoleFunctions, NotChoose
<1>3. CASE MixedDeclareWinner(t)
  <2>1. Then(t, <<>>) /\ Head(todo[t]) # <<"chooseLeg">>
    BY <1>3 DEF MixedDeclareWinner, isAlt
  <2>2. ~race'.has_alt /\ ~race'.mixed_delay_pending /\ race'.primary_leg = race.primary_leg
    BY <1>3 DEF MixedDeclareWinner, isAlt, Races
  <2>. QED
    BY <2>1, <2>2, FewSole, NotChoose
<1>4. CASE StartKeepalive(t) \/ Tell(t)
  BY <1>1, <1>4, FewSole DEF StartKeepalive, Tell
<1>5. CASE SessionOff(t)
  <2>1. Then(t, <<>>) /\ Head(todo[t]) # <<"chooseLeg">>
    BY <1>5 DEF SessionOff
  <2>2. ~race'.has_alt /\ ~race'.mixed_delay_pending /\ race'.primary_leg = race.primary_leg
    BY <1>5 DEF SessionOff, Races
  <2>. QED
    BY <2>1, <2>2, FewSole, NotChoose
<1>6. CASE onTransportClose(t)
  <2>1. PICK l \in Legs, how \in {"local", "remote", "token"}, f \in {"fallback", "none"} :
          /\ Head(todo[t]) = <<"closed", l, how>> /\ race' = race
          /\ Then(t, <<>>) \/ Then(t, failFatal) \/ Then(t, << <<"failure", l, f, "reconnect">> >>)
    BY <1>6 DEF onTransportClose, OnlyTodo
  <2>2. << <<"failure", l, f, "reconnect">> >> \in Soles
    BY SoleShapes, FewSole
  <2>. QED
    BY <1>1, <2>1, <2>2, FewSole, SoleFunctions
<1>7. CASE onTransportError(t)
  <2>1. PICK l \in Legs, e \in {"security", "timeout", "other"}, k \in {"fatal", "reconnect"} :
          /\ Head(todo[t]) = <<"error", l, e>> /\ race' = race
          /\ Then(t, <<>>) \/ Then(t, failFatal) \/ Then(t, << <<"failure", l, "fallback", k>> >>)
    BY <1>7 DEF onTransportError, OnlyTodo
  <2>2. << <<"failure", l, "fallback", k>> >> \in Soles
    BY SoleShapes, FewSole
  <2>. QED
    BY <1>1, <2>1, <2>2, FewSole, SoleFunctions
<1>8. CASE onTransportRecv(t)
  <2>1. PICK l \in Legs, m \in {"ok", "leave", "refused"} :
          /\ Head(todo[t]) = <<"recv", l, m>> /\ race' = race
          /\ \/ Then(t, <<>>)
             \/ Then(t, << <<"closeAfterDisconnect">> >> \o << <<"tell">> >>)
             \/ Then(t, closeAllTransports("async") \o << <<"tell">> >>)
             \/ Then(t, << <<"closeAfterDisconnect">> >>)
    BY <1>8 DEF onTransportRecv
  <2>2. << <<"closeAfterDisconnect">> >> \in Soles /\ << <<"tell">> >> \in Soles
        /\ closeAllTransports("async") \in Soles
    BY SoleShapes, FewSole, SoleFunctions
  <2>3. /\ << <<"closeAfterDisconnect">> >> \o << <<"tell">> >> \in Soles
        /\ closeAllTransports("async") \o << <<"tell">> >> \in Soles
    BY <2>2, FewSole
  <2>. QED
    BY <1>1, <2>1, <2>2, <2>3, FewSole
<1>. QED
  BY <1>2, <1>3, <1>4, <1>5, <1>6, <1>7, <1>8 DEF CallbackStep

LEMMA SoleRetry ==
    ASSUME DataOK, ~race.has_alt, ~race.mixed_delay_pending, NEW t \in Threads, RetryStep(t)
    PROVE  Solely(t)
<1>. USE DEF At
<1>. race \in Races
  BY DEF DataOK
<1>1. CASE Report(t) \/ Resume(t)
  <2>1. Then(t, <<>>) /\ Head(todo[t]) # <<"chooseLeg">>
    BY <1>1 DEF Report, Resume
  <2>2. ~race'.has_alt /\ ~race'.mixed_delay_pending /\ race'.primary_leg = race.primary_leg
    BY <1>1 DEF Report, Resume, Races
  <2>. QED
    BY <2>1, <2>2, FewSole, NotChoose
<1>2. ASSUME Head(todo[t]) # <<"chooseLeg">>, NEW steps \in Soles, Then(t, steps), race' = race
      PROVE  Solely(t)
  BY <1>2, NotChoose
<1>3. CASE FailFatal(t) \/ Reconnecting(t) \/ ArmReconnect(t) \/ AwaitLeave(t)
  BY <1>2, <1>3, FewSole DEF FailFatal, Reconnecting, ArmReconnect, AwaitLeave, OnlyRetry,
       OnlyLeave
<1>4. CASE ScheduleReconnect(t)
  BY <1>2, <1>4, FewSole, SoleFunctions DEF ScheduleReconnect, OnlyTodo
<1>5. CASE SendLeave(t)
  <2>1. << <<"awaitLeave">> >> \in Soles /\ << <<"closeAfterDisconnect">> >> \in Soles
    BY SoleShapes, FewSole
  <2>2. /\ Head(todo[t]) # <<"chooseLeg">> /\ race' = race
        /\ Then(t, << <<"awaitLeave">> >>) \/ Then(t, << <<"closeAfterDisconnect">> >>)
    BY <1>5 DEF SendLeave, OnlyLeave
  <2>. QED
    BY <1>2, <2>1, <2>2
<1>6. CASE CloseSocketAfterDisconnect(t)
  BY <1>2, <1>6, FewSole, SoleFunctions DEF CloseSocketAfterDisconnect, OnlyLeave
<1>. QED
  BY <1>1, <1>3, <1>4, <1>5, <1>6 DEF RetryStep

\* No step of a thread enters a race.
LEMMA StepSole ==
    ASSUME TypeOK, SoleInv, ~mixedMode, NEW t \in Threads, Step(t)
    PROVE  Solely(t)
<1>. DataOK /\ TodoOK
  BY DEF TypeOK
<1>1. todo[t] # <<>> /\ Head(todo[t]) \notin Racing
  <2>1. todo[t] # <<>>
    BY StepMoves
  <2>2. 1 \in 1..Len(todo[t]) /\ todo[t][1] = Head(todo[t])
    BY <2>1 DEF TodoOK
  <2>. QED
    BY <2>1, <2>2 DEF SoleInv, Pends
<1>2. ~race.has_alt /\ ~race.mixed_delay_pending
  BY DEF SoleInv
<1>. QED
  BY <1>1, <1>2, SoleClose, SoleConnect, SoleCallback, SoleRetry DEF Step

\* What starts a thread begins no race.
LEMMA StartSole ==
    ASSUME DataOK, ~race.mixed_delay_pending,
           Wakeup \/ (\E l \in Legs : Transport(l)) \/ Connect \/ Disconnect
    PROVE  race' = race /\ \E t \in Threads, steps \in Soles : Started(t, steps)
<1>. USE DEF Starts, Started
<1>1. ~DelayElapses
  BY DEF DelayElapses
<1>2. race' = race
  BY <1>1 DEF Wakeup, ReconnectElapses, PingTimeout, LeaveTimeout, Connect, Disconnect,
       Transport, SocketBreaks, SocketOpens, SocketFails, SocketClosedByPeer, SocketStops,
       SocketEnds, SocketReceives, OnlyLeave, OnlySock
<1>3. \E t \in Threads, steps \in Soles : Started(t, steps)
  <2>1. CASE ReconnectElapses
    BY <2>1, FewSole, SoleFunctions DEF ReconnectElapses, Threads
  <2>2. CASE PingTimeout
    <3>1. << <<"scheduleReconnect">> >> \in Soles
      BY SoleShapes, FewSole
    <3>. QED
      BY <2>2, <3>1 DEF PingTimeout, Threads
  <2>3. CASE LeaveTimeout
    <3>1. << <<"closeAfterDisconnect">> >> \in Soles
      BY SoleShapes, FewSole
    <3>. QED
      BY <2>3, <3>1, FewSole DEF LeaveTimeout, Threads
  <2>4. CASE Connect
    BY <2>4, SoleFunctions DEF Connect, Threads
  <2>5. CASE Disconnect
    <3>1. << <<"sendLeave">> >> \in Soles
      BY SoleShapes, FewSole
    <3>. QED
      BY <2>5, <3>1 DEF Disconnect, Threads
  <2>6. ASSUME NEW l \in Legs, Transport(l)
        PROVE  \E t \in Threads, steps \in Soles : Started(t, steps)
    <3>. l \in Threads
      BY DEF Threads
    <3>1. << <<"opened", l>> >> \in Soles /\ << <<"closed", l, "local">> >> \in Soles
      BY SoleShapes, FewSole
    <3>2. \A k \in {"security", "timeout", "other"} : << <<"error", l, k>> >> \in Soles
      BY SoleShapes, FewSole
    <3>3. \A how \in {"remote", "token"} : << <<"closed", l, how>> >> \in Soles
      BY SoleShapes, FewSole
    <3>4. \A m \in {"ok", "leave", "refused"} : << <<"recv", l, m>> >> \in Soles
      BY SoleShapes, FewSole
    <3>5. CASE SocketOpens(l)
      BY <3>1, <3>5 DEF SocketOpens
    <3>6. CASE SocketFails(l)
      BY <3>2, <3>6 DEF SocketFails
    <3>7. CASE SocketClosedByPeer(l)
      BY <3>3, <3>7 DEF SocketClosedByPeer
    <3>8. CASE SocketStops(l)
      BY <3>1, <3>8 DEF SocketStops
    <3>9. CASE SocketEnds(l)
      BY <3>9, FewSole DEF SocketEnds
    <3>10. CASE SocketReceives(l)
      BY <3>4, <3>10 DEF SocketReceives
    <3>11. CASE SocketBreaks(l)
      BY <3>11, BreakMoves, FewSole
    <3>. QED
      BY <2>6, <3>5, <3>6, <3>7, <3>8, <3>9, <3>10, <3>11 DEF Transport
  <2>. QED
    BY <1>1, <2>1, <2>2, <2>3, <2>4, <2>5, <2>6 DEF Wakeup
<1>. QED
  BY <1>2, <1>3

LEMMA SoleStep == TypeOK /\ SoleInv /\ [Next]_vars => SoleInv'
<1>. SUFFICES ASSUME TypeOK, SoleInv, [Next]_vars, ~mixedMode'
              PROVE  ~race'.has_alt /\ ~race'.mixed_delay_pending /\ ~Pends(Racing)'
  BY DEF SoleInv
<1>. DataOK /\ TodoOK
  BY DEF TypeOK
<1>1. ~mixedMode /\ ~race.has_alt /\ ~race.mixed_delay_pending /\ ~Pends(Racing)
  BY SameScenario DEF mixedMode, SoleInv
<1>2. Soles \subseteq Seq(Steps)
  BY DEF Soles, Sole
<1>3. \A steps \in Soles : \A i \in 1..Len(steps) : steps[i] \notin Racing
  BY DEF Soles, Sole
<1>4. ASSUME NEW t \in Threads, Step(t)
      PROVE  ~race'.has_alt /\ ~race'.mixed_delay_pending /\ ~Pends(Racing)'
  <2>1. Solely(t) /\ todo[t] # <<>>
    BY <1>1, <1>4, StepSole, StepMoves
  <2>2. PICK steps \in Soles : Then(t, steps)
    BY <2>1 DEF Solely
  <2>3. ~Pends(Racing)'
    BY <1>1, <1>2, <1>3, <2>1, <2>2, ThenPended
  <2>. QED
    BY <2>1, <2>3 DEF Solely
<1>5. CASE Wakeup \/ (\E k \in Legs : Transport(k)) \/ Connect \/ Disconnect
  <2>1. race' = race
    BY <1>1, <1>5, StartSole
  <2>2. PICK t \in Threads, steps \in Soles : Started(t, steps)
    BY <1>1, <1>5, StartSole
  <2>3. todo'[t] = steps /\ \A u \in Threads \ {t} : todo'[u] = todo[u]
    BY <2>2, StartedAt
  <2>4. ~Pends(Racing)'
    BY <1>1, <1>3, <2>3 DEF Pends
  <2>. QED
    BY <1>1, <2>1, <2>4
<1>6. CASE UNCHANGED vars
  BY <1>1, <1>6 DEF vars, Pends
<1>. QED
  BY <1>4, <1>5, <1>6 DEF Next, Busy

LEMMA SoleInit == Init => SoleInv
BY DEF Init, SoleInv, Pends

\* A leg is opened by the thread that has just chosen it.
Chosen(seq) ==
    \A i \in 1..Len(seq) :
        seq[i] = <<"openPrimary">> /\ i # 1 => seq[i - 1] = <<"chooseLeg">>
ChosenInv ==
    \A t \in Threads :
        /\ Chosen(todo[t])
        /\ todo[t] # <<>> /\ Head(todo[t]) = <<"openPrimary">> /\ ~mixedMode =>
              race.primary_leg = OneLeg

LEMMA BeginsApart ==
    /\ <<"chooseLeg">> \in Begins /\ <<"openPrimary">> \in Begins
    /\ <<"chooseLeg">> # <<"openPrimary">>
BY DEF Begins

LEMMA ChosenStep == TypeOK /\ SoleInv /\ ChosenInv /\ [Next]_vars => ChosenInv'
<1>. SUFFICES ASSUME TypeOK, SoleInv, ChosenInv, [Next]_vars, NEW u \in Threads
              PROVE  /\ Chosen(todo'[u])
                     /\ todo'[u] # <<>> /\ Head(todo'[u]) = <<"openPrimary">> /\ ~mixedMode' =>
                           race'.primary_leg = OneLeg'
  BY DEF ChosenInv
<1>. DataOK /\ TodoOK
  BY DEF TypeOK
<1>1. mixedMode' = mixedMode /\ OneLeg' = OneLeg
  BY SameScenario DEF mixedMode, OneLeg
<1>2. ASSUME NEW t \in Threads, Step(t)
      PROVE  /\ Chosen(todo'[u])
             /\ todo'[u] # <<>> /\ Head(todo'[u]) = <<"openPrimary">> /\ ~mixedMode =>
                   race'.primary_leg = OneLeg
  <2>1. PICK steps \in Seq(Steps) :
          Then(t, steps) /\ \A j \in 1..Len(steps) : TurnsInto(t, steps, j)
    BY <1>2, StepTurnsInto
  <2>2. todo[t] # <<>>
    BY <1>2, StepMoves
  <2>3. \A j \in 1..Len(steps) : steps[j] # <<"openPrimary">>
    BY <2>1, TurnsNoBegin DEF Begins
  <2>4. ~mixedMode /\ race.primary_leg = OneLeg => race'.primary_leg = OneLeg
    BY <1>2, StepSole DEF Solely
  <2>5. CASE u # t
    <3>1. todo'[u] = todo[u]
      BY <2>1, <2>2, <2>5, ThenAt
    <3>. QED
      BY <2>4, <3>1 DEF ChosenInv
  <2>6. CASE u = t
    <3>1. /\ todo[t] \in Seq(Steps) /\ todo'[t] \in Seq(Steps) /\ Tail(todo[t]) \in Seq(Steps)
          /\ todo'[t] = steps \o Tail(todo[t])
          /\ Len(Tail(todo[t])) = Len(todo[t]) - 1
      BY <2>1, <2>2 DEF Then, TodoOK
    <3>2. \A j \in 1..Len(Tail(todo[t])) : Tail(todo[t])[j] = todo[t][j + 1]
      BY <2>2, <3>1
    <3>3. ASSUME NEW i \in 1..Len(todo'[t]), todo'[t][i] = <<"openPrimary">>
          PROVE  /\ i > Len(steps) + 1 => todo'[t][i - 1] = <<"chooseLeg">>
                 /\ i = Len(steps) + 1 => ChooseLeg(t)
                 /\ i >= Len(steps) + 1
      <4>. DEFINE j == i - Len(steps)
      <4>1. i > Len(steps)
        BY <2>3, <3>1, <3>3
      <4>2. j \in 1..Len(Tail(todo[t])) /\ i = Len(steps) + j
        BY <3>1, <4>1
      <4>. HIDE DEF j
      <4>3. todo'[t][i] = Tail(todo[t])[j]
        BY <3>1, <4>2, LastOf
      <4>4. j + 1 \in 1..Len(todo[t]) /\ todo[t][j + 1] = <<"openPrimary">>
        BY <3>1, <3>2, <3>3, <4>2, <4>3
      <4>5. todo[t][j] = <<"chooseLeg">>
        <5>1. j + 1 # 1 /\ (j + 1) - 1 = j
          BY <4>2
        <5>2. Chosen(todo[t])
          BY DEF ChosenInv
        <5>3. todo[t][(j + 1) - 1] = <<"chooseLeg">>
          BY <4>4, <5>1, <5>2 DEF Chosen
        <5>. QED
          BY <5>1, <5>3
      <4>6. j = 1 => ChooseLeg(t)
        <5>. SUFFICES ASSUME j = 1 PROVE ChooseLeg(t)
          OBVIOUS
        <5>1. Head(todo[t]) = <<"chooseLeg">>
          BY <2>2, <3>1, <4>5
        <5>2. Head(todo[t]) \in Begins /\ Head(todo[t]) # <<"openPrimary">>
          BY <5>1, BeginsApart
        <5>. QED
          BY <1>2, <5>2, StepTurns DEF OpenPrimary, At
      <4>7. ASSUME j > 1 PROVE todo'[t][i - 1] = <<"chooseLeg">>
        <5>0. Len(steps) \in Nat /\ Len(Tail(todo[t])) \in Nat
          BY <3>1
        <5>1. j - 1 \in 1..Len(Tail(todo[t])) /\ i - 1 = Len(steps) + (j - 1) /\ j - 1 + 1 = j
          BY <4>2, <4>7, <5>0
        <5>2. todo'[t][Len(steps) + (j - 1)] = Tail(todo[t])[j - 1]
          <6>1. PICK k \in 1..Len(Tail(todo[t])) : k = j - 1
            BY <5>1
          <6>2. todo'[t][Len(steps) + k] = Tail(todo[t])[k]
            BY <3>1, LastOf
          <6>. QED
            BY <6>1, <6>2
        <5>. QED
          BY <3>2, <4>5, <5>1, <5>2
      <4>. QED
        BY <4>1, <4>2, <4>6, <4>7, <3>1
    <3>4. ChooseLeg(t) => steps = <<>> /\ Len(steps) = 0
      <4>. SUFFICES ASSUME ChooseLeg(t) PROVE steps = <<>>
        OBVIOUS
      <4>1. todo' = [todo EXCEPT ![t] = <<>> \o Tail(@)]
        BY DEF ChooseLeg, Then
      <4>2. todo'[t] = <<>> \o Tail(todo[t])
        BY <4>1 DEF TodoOK
      <4>3. Len(steps) = 0
        <5>1. Len(<<>> \o Tail(todo[t])) = Len(Tail(todo[t]))
          BY <3>1
        <5>2. Len(steps \o Tail(todo[t])) = Len(steps) + Len(Tail(todo[t]))
          BY <3>1
        <5>3. Len(steps) \in Nat /\ Len(Tail(todo[t])) \in Nat
          BY <3>1
        <5>4. Len(todo'[t]) = Len(Tail(todo[t]))
          BY <4>2, <5>1
        <5>5. Len(todo'[t]) = Len(steps) + Len(Tail(todo[t]))
          BY <3>1, <5>2
        <5>. QED
          BY <5>3, <5>4, <5>5
      <4>. QED
        BY <4>3
    <3>5. Chosen(todo'[t])
      <4>. SUFFICES ASSUME NEW i \in 1..Len(todo'[t]), todo'[t][i] = <<"openPrimary">>, i # 1
                    PROVE  todo'[t][i - 1] = <<"chooseLeg">>
        BY DEF Chosen
      <4>1. i # Len(steps) + 1
        BY <3>3, <3>4
      <4>2. i >= Len(steps) + 1 /\ i \in Nat /\ Len(steps) \in Nat
        BY <3>1, <3>3, SMTT(30)
      <4>3. i > Len(steps) + 1
        BY <4>1, <4>2
      <4>. QED
        BY <3>3, <4>3
    <3>6. ASSUME todo'[t] # <<>>, Head(todo'[t]) = <<"openPrimary">>, ~mixedMode
          PROVE  race'.primary_leg = OneLeg
      <4>1. 1 \in 1..Len(todo'[t]) /\ todo'[t][1] = <<"openPrimary">>
        BY <3>1, <3>6
      <4>2. 1 = Len(steps) + 1
        BY <3>1, <3>3, <4>1
      <4>3. ChooseLeg(t)
        BY <3>3, <4>1, <4>2
      <4>. QED
        BY <1>2, <3>6, <4>3, StepSole DEF Solely
    <3>. QED
      BY <2>6, <3>5, <3>6
  <2>. QED
    BY <2>5, <2>6
<1>3. CASE Wakeup \/ (\E k \in Legs : Transport(k)) \/ Connect \/ Disconnect
  <2>1. ~mixedMode => race' = race
    BY <1>3, StartSole DEF SoleInv
  <2>2. ASSUME NEW t \in Threads, NEW steps, Started(t, steps), Chosen(steps),
               steps = <<>> \/ Head(steps) # <<"openPrimary">>
        PROVE  /\ Chosen(todo'[u])
               /\ todo'[u] # <<>> /\ Head(todo'[u]) = <<"openPrimary">> /\ ~mixedMode =>
                     race'.primary_leg = OneLeg
    BY <2>1, <2>2, StartedAt DEF ChosenInv
  <2>3. \A steps \in Milds : Chosen(steps) /\ (steps = <<>> \/ Head(steps) # <<"openPrimary">>)
    <3>1. \A s \in Mild : s # <<"openPrimary">>
      BY KindsApart DEF Begins
    <3>2. ASSUME NEW steps \in Milds
          PROVE  Chosen(steps) /\ (steps = <<>> \/ Head(steps) # <<"openPrimary">>)
      <4>1. \A i \in 1..Len(steps) : steps[i] # <<"openPrimary">>
        <5>1. \A i \in 1..Len(steps) : steps[i] \in Mild
          BY DEF Milds
        <5>. QED
          BY <3>1, <5>1
      <4>2. steps # <<>> => Head(steps) = steps[1] /\ 1 \in 1..Len(steps)
        BY DEF Milds
      <4>. QED
        BY <4>1, <4>2 DEF Chosen
    <3>. QED
      BY <3>2
  <2>4. ASSUME NEW s \in Callbacks \cup Fails("Quic")
        PROVE  Chosen(<<s>>) /\ Head(<<s>>) # <<"openPrimary">>
    <3>1. s # <<"openPrimary">>
      BY KindsApart DEF Tokens, Begins
    <3>2. \A i \in 1..Len(<<s>>) : <<s>>[i] # <<"openPrimary">>
      BY <3>1
    <3>. QED
      BY <3>1, <3>2 DEF Chosen
  <2>5. Chosen(beginConnect) /\ Head(beginConnect) # <<"openPrimary">>
    <3>1. \A i \in 1..7 : beginConnect[i] # <<"openPrimary">>
      BY BeginConnectSteps
    <3>2. \A i \in 1..8 : i = 8 \/ i \in 1..7
      OBVIOUS
    <3>3. Chosen(beginConnect)
      BY <3>1, <3>2, BeginConnectSteps DEF Chosen
    <3>4. Head(beginConnect) = beginConnect[1]
      BY BeginConnectSteps
    <3>. QED
      BY <3>3, <3>4, BeginConnectSteps
  <2>6. \A l \in Legs : <<"opened", l>> \in Callbacks
    BY DEF Callbacks
  <2>. QED
    BY <1>1, <1>3, <2>2, <2>3, <2>4, <2>5, <2>6, StartsTurn, ThreadNames DEF StartTurns, Legs
<1>4. CASE UNCHANGED vars
  BY <1>1, <1>4 DEF vars, ChosenInv
<1>. QED
  BY <1>1, <1>2, <1>3, <1>4 DEF Next, Busy

LEMMA ChosenInit == Init => ChosenInv
BY DEF Init, ChosenInv, Chosen

\* A QuicSocket is Closed before it reports so.
ClosedInv == crash = "none" /\ sock["Quic"].reported => sock["Quic"].state = "Closed"

LEMMA ClosedStep == TypeOK /\ HeedsInv /\ ClosedInv /\ [Next]_vars => ClosedInv'
<1>. SUFFICES ASSUME TypeOK, HeedsInv, ClosedInv, [Next]_vars, crash' = "none",
                     sock'["Quic"].reported
              PROVE  sock'["Quic"].state = "Closed"
  BY DEF ClosedInv
<1>. DataOK /\ sock \in [Legs -> Sockets] /\ "Quic" \in Legs /\ sock["Quic"] \in Sockets
  BY DEF TypeOK, DataOK, Legs
<1>1. ASSUME NEW t \in Threads, Step(t) PROVE sock'["Quic"].state = "Closed"
  <2>1. Touches("Quic") /\ crash = "none"
    BY <1>1, StepTouches, StepRuns
  <2>2. sock'["Quic"] = CloseRequested(sock["Quic"]) =>
          /\ sock'["Quic"].reported = sock["Quic"].reported
          /\ sock["Quic"].state = "Closed" => sock'["Quic"].state = "Closed"
    BY DEF CloseRequested, Sockets
  <2>3. ~Opened.reported /\ Joined(NeverOpened).state = "Closed"
    BY DEF Opened, NeverOpened, Joined
  <2>4. Joined(sock["Quic"]).state = "Closed"
    BY DEF Joined, Sockets
  <2>. QED
    BY <2>1, <2>2, <2>3, <2>4 DEF Touches, ClosedInv
<1>2. CASE Wakeup \/ (\E k \in Legs : Transport(k)) \/ Connect \/ Disconnect
  <2>1. crash = "none"
    BY <1>2, StartRuns
  <2>2. CASE sock'["Quic"] = sock["Quic"]
    BY <2>1, <2>2 DEF ClosedInv
  <2>3. CASE sock'["Quic"] # sock["Quic"]
    <3>1. PICK k \in Legs : Transport(k) /\ ~SocketReceives(k)
      BY <1>2, <2>3 DEF Wakeup, DelayElapses, ReconnectElapses, PingTimeout, LeaveTimeout,
           Connect, Disconnect, Transport, SocketReceives, OnlyRace, OnlyLeave
    <3>2. k = "Quic"
      BY <2>3, <3>1 DEF Transport, SocketBreaks, SocketOpens, SocketFails,
           SocketClosedByPeer, SocketStops, SocketEnds, Reporting
    <3>3. CASE SocketOpens("Quic")
      <4>1. sock'["Quic"].reported = sock["Quic"].reported /\ ~sock["Quic"].reported
        BY <3>3 DEF SocketOpens, MayOpen, OpenedUp, Sockets
      <4>. QED
        BY <4>1
    <3>4. CASE SocketFails("Quic") \/ SocketClosedByPeer("Quic") \/ SocketStops("Quic")
      <4>1. Reporting("Quic")
        BY <3>4 DEF SocketFails, SocketClosedByPeer, SocketStops
      <4>. QED
        BY <4>1 DEF Reporting, Sockets
    <3>5. CASE SocketEnds("Quic")
      BY <3>5 DEF SocketEnds, Ended, Sockets
    <3>6. CASE SocketBreaks("Quic")
      BY <3>6, BreakMoves
    <3>. QED
      BY <3>1, <3>2, <3>3, <3>4, <3>5, <3>6 DEF Transport
  <2>. QED
    BY <2>2, <2>3
<1>3. CASE UNCHANGED vars
  BY <1>3 DEF vars, ClosedInv
<1>. QED
  BY <1>1, <1>2, <1>3 DEF Next, Busy

LEMMA ClosedInit == Init => ClosedInv
<1>. SUFFICES ASSUME Init PROVE ~sock["Quic"].reported
  BY DEF ClosedInv
<1>. QED
  BY DEF Init, NeverOpened, Legs

\* Who wants the connection takes back, sooner or later, that the application closed.
WantedInv == past.wanted = "up" /\ retry.user_closed => Pends({<<"unsuppress">>})

LEMMA StepUnsuppress ==
    ASSUME DataOK, NEW t \in Threads, Step(t), Head(todo[t]) = <<"unsuppress">>
    PROVE  Unsuppress(t)
<1>1. ~Aside(t)
  BY DEF Aside, Ends
<1>2. ~BeginConnect(t) /\ ~ChooseLeg(t) /\ ~StartKeepalive(t) /\ ~FailFatal(t) /\ ~Report(t)
      /\ ~ScheduleReconnect(t) /\ ~Reconnecting(t) /\ ~Resume(t)
  BY DEF At, BeginConnect, ChooseLeg, StartKeepalive, FailFatal, Report, ScheduleReconnect,
         Reconnecting, Resume
<1>3. ~onTransportOpen(t)
  <2>1. onTransportOpen(t) => Head(todo[t]) \notin Ends
    BY DEF At, onTransportOpen, Ends
  <2>. QED
    BY <2>1 DEF Ends
<1>. QED
  BY <1>1, <1>2, <1>3, AsideClose, AsideConnect, AsideCallback, AsideRetry DEF Step

LEMMA WantedStep == TypeOK /\ WantedInv /\ [Next]_vars => WantedInv'
<1>. SUFFICES ASSUME TypeOK, WantedInv, [Next]_vars, past'.wanted = "up", retry'.user_closed
              PROVE  Pends({<<"unsuppress">>})'
  BY DEF WantedInv
<1>. DataOK /\ TodoOK /\ past \in Pasts /\ retry \in Retries
  BY DEF TypeOK, DataOK
<1>1. ASSUME NEW t \in Threads, Step(t) PROVE Pends({<<"unsuppress">>})'
  <2>1. past.wanted = "up"
    BY <1>1, StepFirst
  <2>2. ~Unsuppress(t)
    BY DEF Unsuppress, Retries
  <2>3. retry.user_closed /\ Head(todo[t]) # <<"unsuppress">>
    BY <1>1, <2>2, StepClosed, StepUnsuppress
  <2>4. Pends({<<"unsuppress">>}) /\ Head(todo[t]) \notin {<<"unsuppress">>}
    BY <2>1, <2>3 DEF WantedInv
  <2>. QED
    BY <1>1, <2>4, ThenPends, StepMoves
<1>2. CASE Connect
  <2>1. Started("app", beginConnect) /\ "app" \in Threads
    BY <1>2 DEF Connect, Starts, Started, Threads
  <2>2. todo'["app"] = beginConnect
    BY <2>1, StartedAt
  <2>3. 6 \in 1..Len(todo'["app"]) /\ todo'["app"][6] \in {<<"unsuppress">>}
    BY <2>2, BeginConnectSteps
  <2>. QED
    BY <2>1, <2>3 DEF Pends
<1>3. CASE Disconnect
  BY <1>3 DEF Disconnect, Pasts
<1>4. CASE ~Connect /\ ~Disconnect /\ (Wakeup \/ (\E k \in Legs : Transport(k)))
  <2>1. past'.wanted = past.wanted
    BY <1>4, StartPast
  <2>2. retry'.user_closed = retry.user_closed
    BY <1>4 DEF Wakeup, DelayElapses, ReconnectElapses, PingTimeout, LeaveTimeout,
         Transport, SocketBreaks, SocketOpens, SocketFails, SocketClosedByPeer, SocketStops,
         SocketEnds, SocketReceives, OnlyRace, OnlyLeave, OnlySock, Retries
  <2>. QED
    BY <1>4, <2>1, <2>2, StartsMove DEF WantedInv
<1>5. CASE UNCHANGED vars
  BY <1>5 DEF vars, WantedInv, Pends
<1>. QED
  BY <1>1, <1>2, <1>3, <1>4, <1>5 DEF Next, Busy

LEMMA WantedInit == Init => WantedInv
BY DEF Init, WantedInv

\* An unsuppress that is pending has the opening of the leg after it.
LEMMA UnsuppressLeads ==
    ASSUME TypeOK, PairsInv, OrderInv, NEW t \in Threads, NEW i \in 1..Len(todo[t]),
           todo[t][i] = <<"unsuppress">>
    PROVE  \E j \in (i + 1)..Len(todo[t]) : todo[t][j] \in Opening
<1>. TodoOK
  BY DEF TypeOK
<1>1. << <<"unsuppress">>, <<"chooseLeg">> >> \in Follows
  BY DEF Follows
<1>2. \A p \in Follows : todo[t][i] = p[1] => \E j \in (i + 1)..Len(todo[t]) : todo[t][j] = p[2]
  BY DEF PairsInv, Paired
<1>3. \E j \in (i + 1)..Len(todo[t]) : todo[t][j] = <<"chooseLeg">>
  BY <1>1, <1>2
<1>4. PICK j \in (i + 1)..Len(todo[t]) : todo[t][j] = <<"chooseLeg">>
  BY <1>3
<1>5. j \in 1..Len(todo[t]) /\ Len(todo[t]) \in Nat
  BY DEF TodoOK
<1>6. j + 1 = Len(todo[t]) /\ todo[t][j + 1] = <<"openPrimary">>
  BY <1>4, <1>5 DEF OrderInv, Ordered
<1>7. j + 1 \in (i + 1)..Len(todo[t]) /\ todo[t][j + 1] \in Opening
  BY <1>5, <1>6 DEF Opening
<1>. QED
  BY <1>7

LEMMA UnsuppressPends ==
    ASSUME TypeOK, PairsInv, OrderInv, Pends({<<"unsuppress">>})
    PROVE  Pends(Opening)
<1>1. PICK t \in Threads : \E i \in 1..Len(todo[t]) : todo[t][i] \in {<<"unsuppress">>}
  BY DEF Pends
<1>2. PICK i \in 1..Len(todo[t]) : todo[t][i] = <<"unsuppress">>
  BY <1>1
<1>3. PICK j \in (i + 1)..Len(todo[t]) : todo[t][j] \in Opening
  BY <1>2, UnsuppressLeads
<1>4. j \in 1..Len(todo[t])
  OBVIOUS
<1>. QED
  BY <1>3, <1>4 DEF Pends

\* The steps that open the leg, tell the application, or see to a reconnection.
Hopes == {<<"openPrimary">>, <<"report">>, <<"armReconnect">>, <<"scheduleReconnect">>}

\* What the application still has to expect: it was told, a reconnect thread waits,
\* one of these steps is to come, or the transport is up, or its end is dealt with.
Hope ==
    \/ past.told \/ retry.armed \/ Pends(Hopes)
    \/ /\ race.primary_leg = OneLeg
       /\ Pends(Fails(OneLeg)) \/ (sock[OneLeg].alive /\ ~sock[OneLeg].reported)
HopeInv == ~mixedMode /\ crash = "none" /\ past.wanted = "up" => Hope

LEMMA FunctionsHope ==
    /\ \E i \in 1..Len(beginConnect) : beginConnect[i] \in Hopes
    /\ \E i \in 1..Len(failFatal) : failFatal[i] \in Hopes
    /\ \A k : \E i \in 1..Len(afterFailure(k)) : afterFailure(k)[i] \in Hopes
    /\ LET resuming == << <<"reconnecting">> >> \o closeAllTransports("async")
                         \o << <<"resume">>, <<"armReconnect">> >>
       IN  \E i \in 1..Len(resuming) : resuming[i] \in Hopes
<1>1. \E i \in 1..Len(beginConnect) : beginConnect[i] \in Hopes
  BY BeginConnectSteps DEF Hopes
<1>2. \E i \in 1..Len(failFatal) : failFatal[i] \in Hopes
  <2>1. Len(failFatal) = 6 /\ failFatal[6] = <<"report">>
    BY DEF failFatal, closeAllTransports
  <2>2. 6 \in 1..Len(failFatal) /\ failFatal[6] \in Hopes
    BY <2>1 DEF Hopes
  <2>. QED
    BY <2>2
<1>3. ASSUME NEW k PROVE \E i \in 1..Len(afterFailure(k)) : afterFailure(k)[i] \in Hopes
  <2>. DEFINE off == << <<"sessionOff">>, <<"scheduleReconnect">> >>
  <2>1. 2 \in 1..Len(off) /\ off[2] \in Hopes
    BY DEF Hopes
  <2>. QED
    BY <1>2, <2>1 DEF afterFailure
<1>. DEFINE resuming == << <<"reconnecting">> >> \o closeAllTransports("async")
                         \o << <<"resume">>, <<"armReconnect">> >>
<1>4. \E i \in 1..Len(resuming) : resuming[i] \in Hopes
  <2>1. Len(resuming) = 7 /\ resuming[7] = <<"armReconnect">>
    BY DEF closeAllTransports
  <2>. HIDE DEF resuming
  <2>2. 7 \in 1..Len(resuming) /\ resuming[7] \in Hopes
    BY <2>1 DEF Hopes
  <2>. QED
    BY <2>2
<1>. QED
  BY <1>1, <1>2, <1>3, <1>4

\* Thread t ran a step that takes no hope away, and is none.
Tame(t) ==
    /\ past.told => past'.told
    /\ retry.armed => retry'.armed
    /\ Head(todo[t]) \notin Hopes \cup Fails("Curl") \cup Fails("Quic")

LEMMA TameHeads ==
    /\ \A s \in {"failFatal", "beginConnect", "unsuppress", "allClosed", "sessionOff", "resume",
                 "chooseLeg", "reconnecting",
                 "joinCurl", "unlockCurl", "joinQuic", "scheduleFallback",
                 "startFallback", "openAlt", "enterRace", "unlockRace", "startKeepalive",
                 "tell", "sendLeave", "awaitLeave", "closeAfterDisconnect"} :
          <<s>> \notin Hopes \cup Fails("Curl") \cup Fails("Quic")
    /\ \A s \in {"cancelMixedRace", "closeCurl", "closeQuic"}, how \in {"join", "async"} :
          <<s, how>> \notin Hopes \cup Fails("Curl") \cup Fails("Quic")
    /\ \A s \in {"opened", "declareWinner"}, l \in Legs :
          <<s, l>> \notin Hopes \cup Fails("Curl") \cup Fails("Quic")
    /\ \A l \in Legs, m \in {"ok", "leave", "refused"} :
          <<"recv", l, m>> \notin Hopes \cup Fails("Curl") \cup Fails("Quic")
    /\ \A k \in {"fatal", "reconnect"} :
          <<"promote", k>> \notin Hopes \cup Fails("Curl") \cup Fails("Quic")
BY DEF Hopes, Fails, Legs

LEMMA StepTames ==
    ASSUME DataOK, NEW t \in Threads, Step(t)
    PROVE  \/ Tame(t) \/ BeginConnect(t) \/ OpenPrimary(t) \/ Report(t) \/ ArmReconnect(t)
           \/ ScheduleReconnect(t) \/ onTransportClose(t) \/ onTransportError(t)
           \/ HandleMixedTransportFailure(t)
<1>. USE DEF At, Tame
<1>. retry \in Retries /\ past \in Pasts
  BY DEF DataOK
<1>1. CASE CloseStep(t)
  BY <1>1, TameHeads DEF CloseStep, CancelMixedRace, CloseCurlAsync, CloseCurlJoin, JoinCurl,
        UnlockCurl, CloseQuicAsync, CloseQuicJoin, JoinQuic, AllClosed, OnlyRace, OnlySock
<1>2. CASE Unsuppress(t)
  BY <1>2, TameHeads DEF Unsuppress, OnlyRetry, Retries
<1>3. CASE ChooseLeg(t) \/ ScheduleMixedTcpFallback(t) \/ StartMixedTcpFallback(t) \/ OpenAlt(t)
           \/ EnterRace(t) \/ UnlockRace(t)
  BY <1>3, TameHeads DEF ChooseLeg, ScheduleMixedTcpFallback, StartMixedTcpFallback, OpenAlt,
        EnterRace, UnlockRace, OnlyRace
<1>4. CASE Promote(t)
  <2>1. PICK k \in {"fatal", "reconnect"} : Head(todo[t]) = <<"promote", k>>
    BY <1>4 DEF Promote
  <2>2. past' = past /\ retry' = retry
    BY <1>4 DEF Promote, OnlyRace
  <2>. QED
    BY <2>1, <2>2, TameHeads
<1>5. CASE onTransportOpen(t)
  <2>1. PICK l \in Legs : Head(todo[t]) = <<"opened", l>>
    BY <1>5 DEF onTransportOpen
  <2>2. past' = past /\ retry' = retry
    BY <1>5 DEF onTransportOpen, OnlyRace
  <2>. QED
    BY <2>1, <2>2, TameHeads
<1>6. CASE MixedDeclareWinner(t)
  <2>1. PICK l \in Legs : Head(todo[t]) = <<"declareWinner", l>>
    BY <1>6 DEF MixedDeclareWinner
  <2>2. past' = past /\ retry' = retry
    BY <1>6 DEF MixedDeclareWinner, OnlyRace
  <2>. QED
    BY <2>1, <2>2, TameHeads
<1>7. CASE StartKeepalive(t) \/ SessionOff(t)
  BY <1>7, TameHeads DEF StartKeepalive, SessionOff, OnlyRace
<1>8. CASE Tell(t)
  BY <1>8, TameHeads DEF Tell, Pasts
<1>9. CASE onTransportRecv(t)
  <2>1. PICK l \in Legs, m \in {"ok", "leave", "refused"} : Head(todo[t]) = <<"recv", l, m>>
    BY <1>9 DEF onTransportRecv
  <2>2. \/ retry' = retry
        \/ \E n \in {0, retry.reconnect_count} : retry' = [retry EXCEPT !.reconnect_count = n]
    BY <1>9 DEF onTransportRecv
  <2>3. retry'.armed = retry.armed
    BY <2>2 DEF Retries
  <2>4. past' = past
    BY <1>9 DEF onTransportRecv
  <2>. QED
    BY <2>1, <2>3, <2>4, TameHeads
<1>10. CASE FailFatal(t) \/ Reconnecting(t)
  BY <1>10, TameHeads DEF FailFatal, Reconnecting, Retries
<1>11. CASE Resume(t)
  BY <1>11, TameHeads DEF Resume, Retries
<1>12. CASE SendLeave(t) \/ AwaitLeave(t) \/ CloseSocketAfterDisconnect(t)
  BY <1>12, TameHeads DEF SendLeave, AwaitLeave, CloseSocketAfterDisconnect, OnlyLeave
<1>. QED
  BY <1>1, <1>2, <1>3, <1>4, <1>5, <1>6, <1>7, <1>8, <1>9, <1>10, <1>11, <1>12
     DEF Step, ConnectStep, CallbackStep, RetryStep

\* One step of a thread leaves hope.
LEMMA StepHope ==
    ASSUME TypeOK, HeedsInv, SockInv, PairsInv, OrderInv, SuppressInv, SoleInv, ChosenInv,
           ClosedInv, WantedInv, HopeInv, NEW t \in Threads, Step(t), ~mixedMode,
           crash' = "none", past'.wanted = "up"
    PROVE  Hope'
<1>. DataOK /\ TodoOK /\ past \in Pasts /\ retry \in Retries /\ sock \in [Legs -> Sockets]
  BY DEF TypeOK, DataOK
<1>. OneLeg \in Legs /\ sock[OneLeg] \in Sockets
  BY DEF OneLeg, Legs, DataOK
<1>1. crash = "none" /\ past.wanted = "up" /\ Hope
  BY StepRuns, StepFirst DEF HopeInv
<1>2. OneLeg' = OneLeg
  BY StepFirst DEF OneLeg
<1>3. PICK steps \in Seq(Steps) : todo[t] # <<>> /\ Then(t, steps)
  BY StepMoves
<1>4. race.primary_leg = OneLeg => race'.primary_leg = OneLeg
  BY StepSole DEF Solely
<1>5. sock[OneLeg].alive /\ ~sock[OneLeg].reported =>
         sock'[OneLeg].alive /\ ~sock'[OneLeg].reported
  <2>1. Touches(OneLeg)
    BY StepTouches
  <2>2. CloseRequested(sock[OneLeg]).alive = sock[OneLeg].alive
        /\ CloseRequested(sock[OneLeg]).reported = sock[OneLeg].reported
    BY DEF CloseRequested, Sockets
  <2>. QED
    BY <2>1, <2>2 DEF Touches
<1>6. \A S : Pends(S) /\ Head(todo[t]) \notin S => Pends(S)'
  BY <1>3, ThenPends
<1>7. ASSUME NEW some \in Seq(Steps), Then(t, some), \E i \in 1..Len(some) : some[i] \in Hopes
      PROVE  Hope'
  BY <1>3, <1>7, ThenPends DEF Hope
<1>8. ASSUME Pends(Opening), Head(todo[t]) \notin Opening PROVE Hope'
  <2>1. Pends(Opening)'
    BY <1>6, <1>8
  <2>2. Opening \subseteq Hopes
    BY DEF Opening, Hopes
  <2>3. Pends(Hopes)'
    BY <2>1, <2>2 DEF Pends
  <2>. QED
    BY <2>3 DEF Hope
<1>9. ASSUME retry.user_closed, Head(todo[t]) \notin Opening PROVE Hope'
  BY <1>1, <1>8, <1>9, UnsuppressPends DEF WantedInv
<1>10. CASE Tame(t)
  <2>1. Head(todo[t]) \notin Hopes /\ Head(todo[t]) \notin Fails(OneLeg)
    BY <1>10 DEF Tame, OneLeg
  <2>. QED
    BY <1>1, <1>2, <1>4, <1>5, <1>6, <1>10, <2>1 DEF Tame, Hope
<1>11. CASE BeginConnect(t)
  <2>1. Head(todo[t]) = <<"beginConnect">>
    BY <1>11 DEF BeginConnect, At
  <2>2. << <<"beginConnect">>, <<"unsuppress">> >> \in Follows
    BY DEF Follows
  <2>3. \E i \in 2..Len(todo[t]) : todo[t][i] = <<"unsuppress">>
    BY <1>3, <2>1, <2>2, PairPends
  <2>4. PICK i \in 2..Len(todo[t]) : todo[t][i] = <<"unsuppress">>
    BY <2>3
  <2>5. i \in 1..Len(todo[t])
    OBVIOUS
  <2>6. Pends(Opening)
    BY <2>4, <2>5, UnsuppressPends DEF Pends
  <2>7. Head(todo[t]) \notin Opening
    BY <2>1 DEF Opening
  <2>. QED
    BY <1>8, <2>6, <2>7
<1>12. CASE OpenPrimary(t)
  <2>1. Head(todo[t]) = <<"openPrimary">>
    BY <1>12 DEF OpenPrimary, At
  <2>2. race'.primary_leg = OneLeg
    BY <1>3, <1>4, <2>1 DEF ChosenInv
  <2>3. CASE scenario.implementation = "Curl"
    <3>1. OneLeg = "Curl" /\ sock' = [sock EXCEPT !["Curl"] = Opened]
      BY <1>12, <2>3 DEF OneLeg, OpenPrimary, OpenCurl
    <3>2. Opened.alive /\ ~Opened.reported
      BY DEF Opened
    <3>3. sock'[OneLeg] = Opened
      BY <3>1
    <3>. QED
      BY <1>2, <2>2, <3>2, <3>3 DEF Hope
  <2>4. CASE scenario.implementation # "Curl"
    <3>1. OneLeg = "Quic" /\ OpenQuic(t)
      BY <1>12, <2>4 DEF OneLeg, OpenPrimary
    <3>2. CASE sock["Quic"].state \in {"Connecting", "Open"} /\ sock' = sock
      <4>1. sock["Quic"].alive /\ ~sock["Quic"].reported
        BY <1>1, <3>1, <3>2 DEF SockInv, Rests, ClosedInv
      <4>. QED
        BY <1>2, <2>2, <3>1, <3>2, <4>1 DEF Hope
    <3>3. CASE sock' = [sock EXCEPT !["Quic"] = Opened]
      <4>1. Opened.alive /\ ~Opened.reported
        BY DEF Opened
      <4>2. sock'[OneLeg] = Opened
        BY <3>1, <3>3
      <4>. QED
        BY <1>2, <2>2, <4>1, <4>2 DEF Hope
    <3>4. ASSUME NEW k \in {"timeout", "other"}, Then(t, << <<"error", "Quic", k>> >>)
          PROVE  Hope'
      <4>1. <<"error", "Quic", k>> \in Fails("Quic") /\ <<"error", "Quic", k>> \in Steps
        BY DEF Fails, Steps, Legs
      <4>2. << <<"error", "Quic", k>> >> \in Seq(Steps)
        BY <4>1
      <4>3. \E i \in 1..Len(<< <<"error", "Quic", k>> >>) :
              << <<"error", "Quic", k>> >>[i] \in Fails("Quic")
        BY <4>1
      <4>4. Pends(Fails("Quic"))'
        BY <1>3, <3>4, <4>2, <4>3, ThenPends
      <4>. QED
        BY <1>2, <2>2, <3>1, <4>4 DEF Hope
    <3>. QED
      BY <3>1, <3>2, <3>3, <3>4 DEF OpenQuic
  <2>. QED
    BY <2>3, <2>4
<1>13. CASE Report(t)
  BY <1>13 DEF Report, Hope, Pasts
<1>14. CASE ArmReconnect(t)
  <2>1. Head(todo[t]) \notin Opening
    BY <1>14 DEF ArmReconnect, At, Opening
  <2>2. ~retry.user_closed => retry'.armed
    BY <1>14 DEF ArmReconnect, Retries
  <2>. QED
    BY <1>9, <2>1, <2>2 DEF Hope
<1>15. CASE ScheduleReconnect(t)
  <2>1. Head(todo[t]) = <<"scheduleReconnect">> /\ past' = past
    BY <1>15 DEF ScheduleReconnect, At, OnlyTodo
  <2>2. Head(todo[t]) \notin Opening /\ Head(todo[t]) \notin Ends
        /\ Head(todo[t]) # <<"armReconnect">> /\ Head(todo[t]) # <<"report">>
    BY <2>1 DEF Opening, Ends
  <2>3. CASE retry.suppress_reconnect
    <3>1. past.told \/ Pends(Ends)
      BY <2>3 DEF SuppressInv
    <3>2. CASE past.told
      BY <2>1, <3>2 DEF Hope
    <3>3. CASE Pends(Ends)
      <4>1. PICK u \in Threads : \E i \in 1..Len(todo[u]) : todo[u][i] \in Ends
        BY <3>3 DEF Pends
      <4>2. PICK i \in 1..Len(todo[u]) : todo[u][i] \in Ends
        BY <4>1
      <4>3. CASE todo[u][i] = <<"report">>
        <5>1. Pends({<<"report">>})
          BY <4>3 DEF Pends
        <5>2. Pends({<<"report">>})'
          BY <1>6, <2>2, <5>1
        <5>3. Pends(Hopes)'
          BY <5>2 DEF Pends, Hopes
        <5>. QED
          BY <5>3 DEF Hope
      <4>4. CASE todo[u][i] = <<"unsuppress">>
        <5>1. Pends({<<"unsuppress">>})
          BY <4>4 DEF Pends
        <5>. QED
          BY <1>8, <2>2, <5>1, UnsuppressPends
      <4>5. CASE todo[u][i] = <<"resume">>
        <5>1. << <<"resume">>, <<"armReconnect">> >> \in Follows
          BY DEF Follows
        <5>2. \A p \in Follows :
                todo[u][i] = p[1] => \E j \in (i + 1)..Len(todo[u]) : todo[u][j] = p[2]
          BY DEF PairsInv, Paired
        <5>3. PICK j \in (i + 1)..Len(todo[u]) : todo[u][j] = <<"armReconnect">>
          BY <4>5, <5>1, <5>2
        <5>4. j \in 1..Len(todo[u])
          OBVIOUS
        <5>5. Pends({<<"armReconnect">>})
          BY <5>3, <5>4 DEF Pends
        <5>6. Pends({<<"armReconnect">>})'
          BY <1>6, <2>2, <5>5
        <5>7. Pends(Hopes)'
          BY <5>6 DEF Pends, Hopes
        <5>. QED
          BY <5>7 DEF Hope
      <4>. QED
        BY <4>2, <4>3, <4>4, <4>5 DEF Ends
    <3>. QED
      BY <3>1, <3>2, <3>3
  <2>4. CASE ~retry.user_closed /\ ~retry.suppress_reconnect
    <3>. DEFINE resuming == << <<"reconnecting">> >> \o closeAllTransports("async")
                             \o << <<"resume">>, <<"armReconnect">> >>
    <3>1. Then(t, failFatal) \/ Then(t, resuming)
      BY <1>15, <2>4 DEF ScheduleReconnect
    <3>2. failFatal \in Seq(Steps) /\ resuming \in Seq(Steps)
      BY PlainFunctions DEF Sound, PlainSteps
    <3>3. /\ \E i \in 1..Len(failFatal) : failFatal[i] \in Hopes
          /\ \E i \in 1..Len(resuming) : resuming[i] \in Hopes
      BY FunctionsHope
    <3>. HIDE DEF resuming
    <3>. QED
      BY <1>7, <3>1, <3>2, <3>3
  <2>. QED
    BY <1>9, <2>2, <2>3, <2>4
\* The callbacks of the other transport, and those of this one.
<1>16. ASSUME NEW l \in Legs, Head(todo[t]) \in Fails(l),
              l = OneLeg /\ race.primary_leg = l => Hope',
              past' = past, retry' = retry
       PROVE  Hope'
  <2>1. Fails(l) \cap Hopes = {}
    BY DEF Fails, Hopes
  <2>2. l # OneLeg => Fails(l) \cap Fails(OneLeg) = {}
    BY DEF Fails
  <2>3. Pends(Hopes) => Pends(Hopes)'
    BY <1>6, <1>16, <2>1
  <2>4. ASSUME l # OneLeg, Pends(Fails(OneLeg)) PROVE Pends(Fails(OneLeg))'
    <3>1. Head(todo[t]) \notin Fails(OneLeg)
      BY <1>16, <2>2, <2>4
    <3>. QED
      BY <1>2, <1>3, <2>4, <3>1, ThenPends
  <2>. QED
    BY <1>1, <1>2, <1>4, <1>5, <1>16, <2>3, <2>4 DEF Hope
<1>17. failFatal \in Seq(Steps) /\ \A k : afterFailure(k) \in Seq(Steps)
  BY PlainFunctions DEF Sound, PlainSteps
<1>18. Then(t, failFatal) => Hope'
  BY <1>7, <1>17, FunctionsHope
<1>19. ASSUME NEW l \in Legs, NEW f \in {"fallback", "none"}, NEW k \in {"fatal", "reconnect"},
              Then(t, << <<"failure", l, f, k>> >>), l = OneLeg, race.primary_leg = l
       PROVE  Hope'
  <2>1. <<"failure", l, f, k>> \in Fails(l) /\ <<"failure", l, f, k>> \in Steps
    BY DEF Fails, Steps
  <2>2. << <<"failure", l, f, k>> >> \in Seq(Steps)
    BY <2>1
  <2>3. \E i \in 1..Len(<< <<"failure", l, f, k>> >>) : << <<"failure", l, f, k>> >>[i] \in Fails(l)
    BY <2>1
  <2>4. Pends(Fails(l))'
    BY <1>3, <1>19, <2>2, <2>3, ThenPends
  <2>. QED
    BY <1>2, <1>4, <1>19, <2>4 DEF Hope
<1>20. CASE onTransportClose(t)
  <2>1. PICK l \in Legs, how \in {"local", "remote", "token"}, f \in {"fallback", "none"} :
          /\ Head(todo[t]) = <<"closed", l, how>>
          /\ isCandidate(l) => \/ Then(t, failFatal)
                               \/ Then(t, << <<"failure", l, f, "reconnect">> >>)
    BY <1>20 DEF onTransportClose, At
  <2>2. past' = past /\ retry' = retry
    BY <1>20 DEF onTransportClose, OnlyTodo
  <2>3. Head(todo[t]) \in Fails(l)
    <3>1. <<"closed", l, how>> \in Fails(l)
      BY DEF Fails
    <3>. QED
      BY <2>1, <3>1
  <2>4. l = OneLeg /\ race.primary_leg = l => Hope'
    BY <1>18, <1>19, <2>1 DEF isCandidate
  <2>. QED
    BY <1>16, <2>2, <2>3, <2>4
<1>21. CASE onTransportError(t)
  <2>1. PICK l \in Legs, e \in {"security", "timeout", "other"}, k \in {"fatal", "reconnect"} :
          /\ Head(todo[t]) = <<"error", l, e>>
          /\ isCandidate(l) => \/ Then(t, failFatal)
                               \/ Then(t, << <<"failure", l, "fallback", k>> >>)
    BY <1>21 DEF onTransportError, At
  <2>2. past' = past /\ retry' = retry
    BY <1>21 DEF onTransportError, OnlyTodo
  <2>3. Head(todo[t]) \in Fails(l)
    <3>1. <<"error", l, e>> \in Fails(l)
      BY DEF Fails
    <3>. QED
      BY <2>1, <3>1
  <2>4. l = OneLeg /\ race.primary_leg = l => Hope'
    BY <1>18, <1>19, <2>1 DEF isCandidate
  <2>. QED
    BY <1>16, <2>2, <2>3, <2>4
<1>22. CASE HandleMixedTransportFailure(t)
  <2>1. PICK l \in Legs, fallback \in {"fallback", "none"}, k \in {"fatal", "reconnect"} :
          Head(todo[t]) = <<"failure", l, fallback, k>> /\ Then(t, afterFailure(k))
    BY <1>22 DEF HandleMixedTransportFailure, At
  <2>. QED
    BY <1>7, <1>17, <2>1, FunctionsHope
<1>. QED
  BY <1>10, <1>11, <1>12, <1>13, <1>14, <1>15, <1>20, <1>21, <1>22, StepTames

\* What starts a thread leaves hope.
LEMMA StartHope ==
    ASSUME TypeOK, PairsInv, OrderInv, SoleInv, WantedInv, HopeInv, ~mixedMode,
           Wakeup \/ (\E k \in Legs : Transport(k)) \/ Connect \/ Disconnect,
           past'.wanted = "up"
    PROVE  Hope'
<1>. DataOK /\ TodoOK /\ past \in Pasts /\ retry \in Retries /\ sock \in [Legs -> Sockets]
  BY DEF TypeOK, DataOK
<1>. OneLeg \in Legs /\ sock[OneLeg] \in Sockets
  BY DEF OneLeg, Legs, DataOK
<1>1. crash = "none" /\ OneLeg' = OneLeg
  BY StartRuns, SameScenario DEF OneLeg, Next
<1>2. race' = race
  BY StartSole DEF SoleInv
<1>3. \A S : Pends(S) => Pends(S)'
  BY StartsMove
<1>4. ASSUME NEW t \in Threads, Started(t, beginConnect) PROVE Hope'
  <2>1. todo'[t] = beginConnect
    BY <1>4, StartedAt
  <2>2. \E i \in 1..Len(todo'[t]) : todo'[t][i] \in Hopes
    BY <2>1, FunctionsHope
  <2>3. Pends(Hopes)'
    BY <2>2 DEF Pends
  <2>. QED
    BY <2>3 DEF Hope
<1>5. ASSUME Hope, past'.told = past.told, retry'.armed = retry.armed,
             sock[OneLeg].alive /\ ~sock[OneLeg].reported =>
                \/ sock'[OneLeg].alive /\ ~sock'[OneLeg].reported
                \/ Pends(Fails(OneLeg))'
      PROVE  Hope'
  <2>1. Pends(Hopes) => Pends(Hopes)'
    BY <1>3
  <2>2. Pends(Fails(OneLeg)) => Pends(Fails(OneLeg))'
    BY <1>1, StartsMove
  <2>. QED
    BY <1>1, <1>2, <1>5, <2>1, <2>2 DEF Hope
<1>6. CASE Connect
  BY <1>4, <1>6 DEF Connect, Starts, Started, Threads
<1>7. ~Disconnect
  BY DEF Disconnect, Pasts
<1>8. ~Connect => past.wanted = "up" /\ Hope
  BY <1>1, <1>7, StartPast DEF HopeInv
<1>9. CASE ReconnectElapses /\ ~Connect
  <2>1. CASE retry.user_closed
    <3>1. Pends(Opening)
      BY <1>8, <1>9, <2>1, UnsuppressPends DEF WantedInv
    <3>2. Pends(Opening)'
      BY <1>3, <3>1
    <3>3. Opening \subseteq Hopes
      BY DEF Opening, Hopes
    <3>4. Pends(Hopes)'
      BY <3>2, <3>3 DEF Pends
    <3>. QED
      BY <3>4 DEF Hope
  <2>2. CASE ~retry.user_closed
    BY <1>4, <1>9, <2>2 DEF ReconnectElapses, Starts, Started, Threads
  <2>. QED
    BY <2>1, <2>2
<1>10. CASE DelayElapses \/ PingTimeout \/ LeaveTimeout
  <2>1. past' = past /\ retry' = retry /\ sock' = sock
    BY <1>10 DEF DelayElapses, PingTimeout, LeaveTimeout, OnlyRace, OnlyLeave
  <2>2. ~Connect
    <3>1. Connect => past'.connects = past.connects + 1 /\ past.connects \in Nat
      BY DEF Connect, Pasts
    <3>. QED
      BY <2>1, <3>1
  <2>. QED
    BY <1>1, <1>5, <1>8, <2>1, <2>2
<1>11. ASSUME NEW k \in Legs, Transport(k) PROVE Hope'
  <2>1. past'.told = past.told /\ past'.connects = past.connects /\ retry' = retry
    BY <1>11 DEF Transport, SocketBreaks, SocketOpens, SocketFails, SocketClosedByPeer,
         SocketStops, SocketEnds, SocketReceives, OnlySock, Pasts
  <2>2. Hope
    <3>1. Connect => past'.connects = past.connects + 1 /\ past.connects \in Nat
      BY DEF Connect, Pasts
    <3>. QED
      BY <1>8, <2>1, <3>1
  <2>3. ASSUME k = OneLeg, NEW f \in Fails(k), Started(k, <<f>>) PROVE Pends(Fails(OneLeg))'
    <3>1. k \in Threads /\ todo'[k] = <<f>>
      BY <2>3, StartedAt DEF Threads
    <3>2. 1 \in 1..Len(todo'[k]) /\ todo'[k][1] \in Fails(OneLeg)
      BY <2>3, <3>1
    <3>. QED
      BY <1>1, <3>1, <3>2 DEF Pends
  <2>4. CASE k # OneLeg \/ SocketReceives(k)
    <3>1. sock'[OneLeg] = sock[OneLeg]
      BY <1>11, <2>4 DEF Transport, SocketBreaks, SocketOpens, SocketFails,
           SocketClosedByPeer, SocketStops, SocketEnds, SocketReceives, Reporting
    <3>. QED
      BY <1>1, <1>5, <2>1, <2>2, <3>1
  <2>5. CASE k = OneLeg /\ SocketOpens(k)
    <3>1. sock'[OneLeg] = OpenedUp(sock[OneLeg])
      BY <2>5 DEF SocketOpens
    <3>2. sock'[OneLeg].alive = sock[OneLeg].alive /\ sock'[OneLeg].reported = sock[OneLeg].reported
      BY <3>1 DEF OpenedUp, Sockets
    <3>. QED
      BY <1>1, <1>5, <2>1, <2>2, <3>2
  <2>6. CASE k = OneLeg /\ SocketFails(k)
    <3>1. PICK e \in {"security", "timeout", "other"} : Started(k, << <<"error", k, e>> >>)
      BY <2>6 DEF SocketFails, Starts, Started
    <3>2. <<"error", k, e>> \in Fails(k)
      BY DEF Fails
    <3>. QED
      BY <1>1, <1>5, <2>1, <2>2, <2>3, <2>6, <3>1, <3>2
  <2>7. CASE k = OneLeg /\ (SocketClosedByPeer(k) \/ SocketStops(k))
    <3>1. PICK how \in {"local", "remote", "token"} : Started(k, << <<"closed", k, how>> >>)
      BY <2>7 DEF SocketClosedByPeer, SocketStops, Starts, Started
    <3>2. <<"closed", k, how>> \in Fails(k)
      BY DEF Fails
    <3>. QED
      BY <1>1, <1>5, <2>1, <2>2, <2>3, <2>7, <3>1, <3>2
  <2>8. CASE k = OneLeg /\ SocketEnds(k)
    <3>1. sock[OneLeg].reported
      BY <2>8 DEF SocketEnds, MayEnd
    <3>. QED
      BY <1>1, <1>5, <2>1, <2>2, <3>1
  <2>9. CASE k = OneLeg /\ SocketBreaks(k)
    <3>1. sock'[OneLeg].alive = sock[OneLeg].alive /\ sock'[OneLeg].reported = sock[OneLeg].reported
      BY <2>9, BreakMoves DEF Broken, Sockets
    <3>. QED
      BY <1>1, <1>5, <2>1, <2>2, <3>1
  <2>. QED
    BY <1>11, <2>4, <2>5, <2>6, <2>7, <2>8, <2>9 DEF Transport
<1>. QED
  BY <1>6, <1>7, <1>9, <1>10, <1>11 DEF Wakeup

LEMMA HopeStep ==
    TypeOK /\ HeedsInv /\ SockInv /\ PairsInv /\ OrderInv /\ SuppressInv /\ SoleInv /\ ChosenInv
    /\ ClosedInv /\ WantedInv /\ HopeInv /\ [Next]_vars => HopeInv'
<1>. SUFFICES ASSUME TypeOK, HeedsInv, SockInv, PairsInv, OrderInv, SuppressInv, SoleInv,
                     ChosenInv, ClosedInv, WantedInv, HopeInv, [Next]_vars, ~mixedMode',
                     crash' = "none", past'.wanted = "up"
              PROVE  Hope'
  BY DEF HopeInv
<1>1. ~mixedMode
  BY SameScenario DEF mixedMode, TypeOK
<1>2. ASSUME NEW t \in Threads, Step(t) PROVE Hope'
  BY <1>1, <1>2, StepHope
<1>3. CASE Wakeup \/ (\E k \in Legs : Transport(k)) \/ Connect \/ Disconnect
  BY <1>1, <1>3, StartHope
<1>4. CASE UNCHANGED vars
  BY <1>1, <1>4 DEF vars, HopeInv, Hope, OneLeg, Pends
<1>. QED
  BY <1>2, <1>3, <1>4 DEF Next, Busy

LEMMA HopeInit == Init => HopeInv
BY DEF Init, HopeInv

\* A connection over one transport is never abandoned (NeverAbandoned): at rest, an
\* application that wants it was told of an error, or a reconnect thread waits, or
\* the transport still lives.  A Mixed connection is another matter: there the code
\* does leave the application alone, so the theorem cannot include it.
THEOREM NeverAbandonedCorrect == Spec => [](~mixedMode => NeverAbandoned)
<1>1. HopeInv => (~mixedMode => NeverAbandoned)
  <2>. SUFFICES ASSUME HopeInv, ~mixedMode, Quiet, crash = "none", past.wanted = "up",
                       ~past.told, ~retry.armed, \A l \in Legs : Finished(l)
                PROVE  FALSE
    BY DEF NeverAbandoned
  <2>1. ~Pends(Hopes) /\ ~Pends(Fails(OneLeg))
    BY QuietPends
  <2>2. OneLeg \in Legs
    BY DEF OneLeg, Legs
  <2>. QED
    BY <2>1, <2>2 DEF HopeInv, Hope, Finished
<1>2. Init => SuppressInv
  BY DEF Init, SuppressInv
<1>3. TypeOK /\ PairsInv /\ SuppressInv /\ [Next]_vars => SuppressInv'
  <2>. SUFFICES ASSUME TypeOK, PairsInv, SuppressInv, [Next]_vars PROVE SuppressInv'
    OBVIOUS
  <2>1. CASE UNCHANGED vars
    BY <2>1 DEF vars, SuppressInv, Pends
  <2>. QED
    BY <2>1, StepSuppress, StartSuppress DEF Next, Busy
<1>. QED
  BY <1>1, <1>2, <1>3, HeedsInit, HeedsStep, SockInit, SockStep, PairsInit, PairsStep, OrderInit,
     OrderStep, SoleInit, SoleStep, ChosenInit, ChosenStep, ClosedInit, ClosedStep, WantedInit,
     WantedStep, HopeInit, HopeStep, TypeCorrect, PTL DEF Spec

-------------------------------------------------------------------------------
(* First open wins.  In the first race the quic leg and the TCP leg both run    *)
(* until one of them opens; the other is then being closed, or still racing.    *)

\* A step that opens no leg wakes none up, and takes back no report.
LEMMA StepWakes ==
    ASSUME DataOK, NEW t \in Threads, Step(t), ~OpenPrimary(t), ~OpenAlt(t)
    PROVE  \A l \in Legs : /\ sock'[l].alive = sock[l].alive
                           /\ sock'[l].notified = sock[l].notified
                           /\ sock[l].reported => sock'[l].reported
<1>. sock \in [Legs -> Sockets] /\ "Curl" \in Legs /\ "Quic" \in Legs
  BY DEF DataOK, Legs
<1>1. CASE CloseStep(t)
  <2>1. \A l \in Legs : /\ CloseRequested(sock[l]).alive = sock[l].alive
                        /\ CloseRequested(sock[l]).notified = sock[l].notified
                        /\ CloseRequested(sock[l]).reported = sock[l].reported
    BY DEF CloseRequested, Sockets
  <2>2. \A l \in Legs : /\ Joined(sock[l]).alive = sock[l].alive
                        /\ Joined(sock[l]).notified = sock[l].notified
                        /\ Joined(sock[l]).reported
    BY DEF Joined, Sockets
  <2>3. CASE \/ CloseCurlAsync(t) \/ CloseCurlJoin(t) \/ JoinCurl(t) \/ CloseQuicAsync(t)
             \/ CloseQuicJoin(t) \/ JoinQuic(t)
    <3>1. PICK l \in Legs : \/ sock' = [sock EXCEPT ![l] = CloseRequested(@)]
                            \/ sock' = [sock EXCEPT ![l] = Joined(@)]
      BY <2>3 DEF CloseCurlAsync, CloseCurlJoin, JoinCurl, CloseQuicAsync, CloseQuicJoin,
           JoinQuic
    <3>2. \A k \in Legs : \/ sock'[k] = sock[k] \/ sock'[k] = CloseRequested(sock[k])
                          \/ sock'[k] = Joined(sock[k])
      BY <3>1
    <3>. QED
      BY <2>1, <2>2, <3>2
  <2>4. CASE CancelMixedRace(t) \/ AllClosed(t) \/ UnlockCurl(t)
    BY <2>4 DEF CancelMixedRace, AllClosed, UnlockCurl, OnlyRace
  <2>. QED
    BY <1>1, <2>3, <2>4 DEF CloseStep
<1>2. CASE ConnectStep(t)
  <2>1. sock' = sock
    BY <1>2 DEF ConnectStep, BeginConnect, Unsuppress, ChooseLeg, OnlyRetry, OnlyRace,
          ScheduleMixedTcpFallback, StartMixedTcpFallback, EnterRace, UnlockRace,
          HandleMixedTransportFailure, Promote
  <2>. QED
    BY <2>1
<1>3. CASE CallbackStep(t)
  BY <1>3 DEF CallbackStep, onTransportOpen, MixedDeclareWinner, StartKeepalive,
              onTransportClose, onTransportError, SessionOff, onTransportRecv, Tell,
              OnlyTodo, OnlyRace
<1>4. CASE RetryStep(t)
  BY <1>4 DEF RetryStep, FailFatal, Report, ScheduleReconnect, Reconnecting, Resume,
              ArmReconnect, SendLeave, AwaitLeave, CloseSocketAfterDisconnect,
              OnlyTodo, OnlyRetry, OnlyLeave
<1>. QED
  BY <1>1, <1>2, <1>3, <1>4 DEF Step

\* Only the callback of a transport that opened opens the session.
LEMMA StepOpens ==
    ASSUME DataOK, NEW t \in Threads, Step(t), race'.session_open, ~race.session_open
    PROVE  onTransportOpen(t)
<1>. race \in Races
  BY DEF DataOK
<1>1. ~Calm(t)
  BY DEF Calm
<1>2. CancelMixedRace(t) => race'.session_open = race.session_open
  BY DEF CancelMixedRace, Races
<1>3. ~AllClosed(t) /\ ~ChooseLeg(t) /\ ~SessionOff(t) /\ ~Report(t) /\ ~Resume(t)
  BY DEF AllClosed, ChooseLeg, SessionOff, Report, Resume, Races
<1>4. HandleMixedTransportFailure(t) => race'.session_open = race.session_open
  BY DEF HandleMixedTransportFailure, Races
<1>5. Promote(t) => race'.session_open = race.session_open
  BY DEF Promote, Races
<1>6. MixedDeclareWinner(t) => race'.session_open = race.session_open
  BY DEF MixedDeclareWinner, Races
<1>7. ~onTransportClose(t) /\ ~onTransportError(t)
  BY DEF onTransportClose, onTransportError, OnlyTodo
<1>. QED
  BY <1>1, <1>2, <1>3, <1>4, <1>5, <1>6, <1>7, StepCalm

\* The step that opens a leg follows the choice of it.
LEMMA ChosenBefore ==
    ASSUME TypeOK, ChosenInv, NEW t \in Threads, Step(t), OpensOnly(todo'[t])
    PROVE  ChooseLeg(t)
<1>. DataOK /\ TodoOK
  BY DEF TypeOK
<1>1. PICK steps \in Seq(Steps) :
        Then(t, steps) /\ \A j \in 1..Len(steps) : TurnsInto(t, steps, j)
  BY StepTurnsInto
<1>2. todo[t] # <<>> /\ todo[t] \in Seq(Steps)
  BY StepMoves DEF TodoOK
<1>3. \A j \in 1..Len(steps) : steps[j] # <<"openPrimary">>
  BY <1>1, TurnsNoBegin DEF Begins
<1>4. 1 \in 1..Len(todo'[t]) /\ todo'[t][1] = <<"openPrimary">>
  BY DEF OpensOnly
<1>5. 1 - Len(steps) + 1 \in 2..Len(todo[t]) /\ todo'[t][1] = todo[t][1 - Len(steps) + 1]
  BY <1>1, <1>2, <1>3, <1>4, ThenAt
<1>6. 2 \in 1..Len(todo[t]) /\ todo[t][2] = <<"openPrimary">>
  <2>1. Len(steps) \in Nat /\ Len(todo[t]) \in Nat
    BY <1>2
  <2>2. 1 - Len(steps) + 1 = 2
    BY <1>5, <2>1
  <2>. QED
    BY <1>4, <1>5, <2>1, <2>2
<1>7. todo[t][1] = <<"chooseLeg">>
  <2>1. Chosen(todo[t]) /\ 2 # 1 /\ 2 - 1 = 1
    BY DEF ChosenInv
  <2>2. todo[t][2 - 1] = <<"chooseLeg">>
    BY <1>6, <2>1 DEF Chosen
  <2>. QED
    BY <2>1, <2>2
<1>8. Head(todo[t]) = <<"chooseLeg">>
  BY <1>2, <1>7
<1>. QED
  BY <1>8, StepTurns, BeginsApart DEF OpenPrimary, At

\* Until the first leg is opened there is no session and no race, and the leg that
\* a Mixed connection opens first is the quic leg.
EntryInv ==
    crash = "none" /\ Young =>
        /\ ~race.has_alt /\ ~race.session_open
        /\ mixedMode /\ OpensOnly(todo["app"]) => race.primary_leg = "Quic"

LEMMA EntryStep ==
    TypeOK /\ OrderInv /\ YoungInv /\ ChosenInv /\ EntryInv /\ [Next]_vars => EntryInv'
<1>. SUFFICES ASSUME TypeOK, OrderInv, YoungInv, ChosenInv, EntryInv, [Next]_vars,
                     crash' = "none", Young'
              PROVE  /\ ~race'.has_alt /\ ~race'.session_open
                     /\ mixedMode' /\ OpensOnly(todo'["app"]) => race'.primary_leg = "Quic"
  BY DEF EntryInv
<1>. DataOK /\ TodoOK /\ race \in Races /\ "app" \in Threads
  BY DEF TypeOK, DataOK, Threads
<1>0. mixedMode' = mixedMode
  BY SameScenario DEF mixedMode
<1>1. ASSUME NEW t \in Threads, Step(t)
      PROVE  /\ ~race'.has_alt /\ ~race'.session_open
             /\ mixedMode /\ OpensOnly(todo'["app"]) => race'.primary_leg = "Quic"
  <2>1. /\ Young /\ t = "app" /\ Head(todo[t]) \in Beginning /\ ~OpenPrimary(t)
        /\ race.primary_leg = "Curl" /\ crash = "none"
    BY <1>1, YoungMoves, StepRuns
  <2>2. ~race.has_alt /\ ~race.session_open
    BY <2>1 DEF EntryInv
  <2>3. ~race'.session_open
    <3>1. onTransportOpen(t) => \E l \in Legs : Head(todo[t]) = <<"opened", l>>
      BY DEF onTransportOpen, At
    <3>. QED
      BY <1>1, <2>1, <2>2, <3>1, StepOpens, NotBeginning
  <2>4. ~race'.has_alt
    <3>0. UNCHANGED race => ~race'.has_alt
      BY <2>2
    <3>1. CASE CloseStep(t)
      BY <2>2, <3>1 DEF CloseStep, CancelMixedRace, CloseCurlAsync, CloseCurlJoin, JoinCurl,
         UnlockCurl, CloseQuicAsync, CloseQuicJoin, JoinQuic, AllClosed, OnlySock, Races
    <3>2. CASE BeginConnect(t) \/ Unsuppress(t) \/ ChooseLeg(t) \/ SessionOff(t)
               \/ onTransportClose(t)
      BY <2>2, <3>2 DEF BeginConnect, Unsuppress, ChooseLeg, SessionOff, onTransportClose,
         OnlyRetry, OnlyTodo, Races
    <3>3. CASE \/ FailFatal(t) \/ Report(t) \/ ScheduleReconnect(t) \/ Reconnecting(t)
               \/ Resume(t) \/ ArmReconnect(t) \/ SendLeave(t) \/ CloseSocketAfterDisconnect(t)
      BY <2>2, <3>3 DEF FailFatal, Report, ScheduleReconnect, Reconnecting, Resume,
           ArmReconnect, SendLeave, CloseSocketAfterDisconnect, OnlyRetry, OnlyTodo,
           OnlyLeave, Races
    <3>. QED
      BY <1>1, <2>1, <3>0, <3>1, <3>2, <3>3, BeginningSteps, Zenon
  <2>5. mixedMode /\ OpensOnly(todo'["app"]) => race'.primary_leg = "Quic"
    <3>1. mixedMode /\ ChooseLeg(t) => race'.primary_leg = "Quic"
      BY DEF ChooseLeg, mixedMode, Races
    <3>. QED
      BY <1>1, <2>1, <3>1, ChosenBefore
  <2>. QED
    BY <2>3, <2>4, <2>5
<1>2. CASE Wakeup \/ (\E k \in Legs : Transport(k)) \/ Connect \/ Disconnect
  <2>1. Young /\ crash = "none" /\ (Connect \/ Disconnect)
    BY <1>2, YoungStarts, StartRuns
  <2>2. race' = race /\ (Started("app", beginConnect) \/ Started("app", << <<"sendLeave">> >>))
    BY <2>1 DEF Connect, Disconnect, Starts, Started
  <2>3. todo'["app"] = beginConnect \/ todo'["app"] = << <<"sendLeave">> >>
    BY <2>2, StartedAt
  <2>4. ~OpensOnly(beginConnect) /\ ~OpensOnly(<< <<"sendLeave">> >>)
    BY BeginConnectSteps DEF OpensOnly
  <2>. QED
    BY <2>1, <2>2, <2>3, <2>4 DEF EntryInv
<1>3. CASE UNCHANGED vars
  BY <1>0, <1>3 DEF vars, EntryInv, Young, Pends
<1>. QED
  BY <1>0, <1>1, <1>2, <1>3 DEF Next, Busy

LEMMA EntryInit == Init => EntryInv
<1>1. OpensOnly(<<>>) => FALSE
  BY DEF OpensOnly
<1>. QED
  BY <1>1 DEF Init, EntryInv, Threads

\* What the curl worker may have to do once its socket has reported its end in a race.
Ending ==
    {<<s>> : s \in {"failFatal", "allClosed", "report", "sessionOff", "scheduleReconnect",
                    "reconnecting", "resume", "armReconnect"}}
    \cup ({"cancelMixedRace", "closeCurl", "closeQuic"} \X {"async"})
    \cup Fails("Curl")
Endings == Seq(Ending)

LEMMA EndingShapes ==
    /\ \A s \in {"failFatal", "allClosed", "report", "sessionOff", "scheduleReconnect",
                 "reconnecting", "resume", "armReconnect"} : <<s>> \in Ending
    /\ \A s \in {"cancelMixedRace", "closeCurl", "closeQuic"} : <<s, "async">> \in Ending
    /\ \A how \in {"local", "remote", "token"} : <<"closed", "Curl", how>> \in Ending
    /\ \A k \in {"security", "timeout", "other"} : <<"error", "Curl", k>> \in Ending
    /\ \A f \in {"fallback", "none"}, k \in {"fatal", "reconnect"} :
          <<"failure", "Curl", f, k>> \in Ending
BY DEF Ending, Fails

LEMMA NotEnding ==
    /\ \A s \in {"beginConnect", "unsuppress", "chooseLeg", "openPrimary", "joinCurl",
                 "unlockCurl", "joinQuic", "scheduleFallback", "startFallback", "openAlt",
                 "enterRace", "unlockRace", "startKeepalive", "tell", "sendLeave", "awaitLeave",
                 "closeAfterDisconnect"} : <<s>> \notin Ending
    /\ \A s \in {"closeCurl", "closeQuic"} : <<s, "join">> \notin Ending
    /\ \A s \in {"opened", "declareWinner"}, l \in Legs : <<s, l>> \notin Ending
    /\ \A k \in {"fatal", "reconnect"} : <<"promote", k>> \notin Ending
    /\ \A l \in Legs, m \in {"ok", "leave", "refused"} : <<"recv", l, m>> \notin Ending
    /\ \A how \in {"join", "async"} : <<"cancelMixedRace", how>> \in Ending => how = "async"
    /\ \A l \in Legs, how \in {"local", "remote", "token"} :
          <<"closed", l, how>> \in Ending => l = "Curl"
    /\ \A l \in Legs, k \in {"security", "timeout", "other"} :
          <<"error", l, k>> \in Ending => l = "Curl"
    /\ \A l \in Legs, f \in {"fallback", "none"}, k \in {"fatal", "reconnect"} :
          <<"failure", l, f, k>> \in Ending => l = "Curl"
BY DEF Ending, Fails, Legs

LEMMA FewEnding ==
    /\ <<>> \in Endings
    /\ \A a \in Ending : <<a>> \in Endings
    /\ \A a, b \in Ending : <<a, b>> \in Endings
    /\ \A a, b, c, d \in Ending : <<a, b, c, d>> \in Endings
    /\ \A r, s \in Endings : r \o s \in Endings
BY DEF Endings

LEMMA EndingFunctions ==
    /\ failFatal \in Endings
    /\ \A k : afterFailure(k) \in Endings
    /\ << <<"reconnecting">> >> \o closeAllTransports("async")
          \o << <<"resume">>, <<"armReconnect">> >> \in Endings
<1>1. ASSUME NEW a \in Endings, NEW c \in Endings
      PROVE  a \o closeAllTransports("async") \o c \in Endings
  <2>1. closeAllTransports("async") \in Endings
    BY EndingShapes, FewEnding DEF closeAllTransports
  <2>2. a \o closeAllTransports("async") \in Endings
    BY <2>1, FewEnding
  <2>. QED
    BY <2>2, FewEnding
<1>2. failFatal \in Endings
  <2>1. << <<"failFatal">> >> \in Endings /\ << <<"report">> >> \in Endings
    BY EndingShapes, FewEnding
  <2>. QED
    BY <1>1, <2>1 DEF failFatal
<1>3. << <<"reconnecting">> >> \o closeAllTransports("async")
        \o << <<"resume">>, <<"armReconnect">> >> \in Endings
  <2>1. << <<"reconnecting">> >> \in Endings
        /\ << <<"resume">>, <<"armReconnect">> >> \in Endings
    BY EndingShapes, FewEnding
  <2>. QED
    BY <1>1, <2>1
<1>4. ASSUME NEW k PROVE afterFailure(k) \in Endings
  <2>1. << <<"sessionOff">>, <<"scheduleReconnect">> >> \in Endings
    BY EndingShapes, FewEnding
  <2>. QED
    BY <1>2, <2>1 DEF afterFailure
<1>. QED
  BY <1>2, <1>3, <1>4

\* The steps of an ending.
LEMMA EndingSteps ==
    ASSUME NEW t \in Threads, Step(t), Head(todo[t]) \in Ending
    PROVE  \/ CancelMixedRace(t) \/ CloseCurlAsync(t) \/ CloseQuicAsync(t) \/ AllClosed(t)
           \/ HandleMixedTransportFailure(t) \/ SessionOff(t) \/ onTransportClose(t)
           \/ onTransportError(t) \/ FailFatal(t) \/ Report(t) \/ ScheduleReconnect(t)
           \/ Reconnecting(t) \/ Resume(t) \/ ArmReconnect(t)
<1>. USE DEF At
<1>1. ~CloseCurlJoin(t) /\ ~JoinCurl(t) /\ ~UnlockCurl(t) /\ ~CloseQuicJoin(t) /\ ~JoinQuic(t)
  BY NotEnding DEF CloseCurlJoin, JoinCurl, UnlockCurl, CloseQuicJoin, JoinQuic
<1>2. ~BeginConnect(t) /\ ~Unsuppress(t) /\ ~ChooseLeg(t) /\ ~OpenPrimary(t)
  BY NotEnding DEF BeginConnect, Unsuppress, ChooseLeg, OpenPrimary
<1>3. /\ ~ScheduleMixedTcpFallback(t) /\ ~StartMixedTcpFallback(t) /\ ~OpenAlt(t)
      /\ ~EnterRace(t) /\ ~UnlockRace(t) /\ ~Promote(t)
  BY NotEnding DEF ScheduleMixedTcpFallback, StartMixedTcpFallback, OpenAlt, EnterRace,
     UnlockRace, Promote
<1>4. ~onTransportOpen(t) /\ ~MixedDeclareWinner(t)
  BY NotEnding DEF onTransportOpen, MixedDeclareWinner
<1>5. ~onTransportRecv(t)
  <2>1. onTransportRecv(t) =>
          \E l \in Legs, m \in {"ok", "leave", "refused"} : Head(todo[t]) = <<"recv", l, m>>
    BY DEF onTransportRecv
  <2>. QED
    BY <2>1, NotEnding
<1>6. /\ ~StartKeepalive(t) /\ ~Tell(t) /\ ~SendLeave(t) /\ ~AwaitLeave(t)
      /\ ~CloseSocketAfterDisconnect(t)
  BY NotEnding DEF StartKeepalive, Tell, SendLeave, AwaitLeave, CloseSocketAfterDisconnect
<1>. QED
  BY <1>1, <1>2, <1>3, <1>4, <1>5, <1>6, Zenon
     DEF Step, CloseStep, ConnectStep, CallbackStep, RetryStep

\* An ending goes on as one.
LEMMA EndingTurns ==
    ASSUME NEW t \in Threads, Step(t), Head(todo[t]) \in Ending
    PROVE  \E steps \in Endings : Then(t, steps)
<1>. USE DEF At
<1>1. CASE CancelMixedRace(t)
  <2>1. PICK how \in {"join", "async"} :
          /\ Head(todo[t]) = <<"cancelMixedRace", how>>
          /\ Then(t, IF race.has_alt THEN << <<"closeCurl", how>> >> ELSE <<>>)
    BY <1>1 DEF CancelMixedRace
  <2>2. how = "async"
    BY <2>1, NotEnding
  <2>3. Then(t, <<>>) \/ Then(t, << <<"closeCurl", "async">> >>)
    BY <2>1, <2>2
  <2>. QED
    BY <2>3, EndingShapes, FewEnding
<1>2. CASE \/ CloseCurlAsync(t) \/ CloseQuicAsync(t) \/ AllClosed(t) \/ SessionOff(t)
           \/ FailFatal(t) \/ Report(t) \/ Reconnecting(t) \/ Resume(t) \/ ArmReconnect(t)
  BY <1>2, FewEnding DEF CloseCurlAsync, CloseQuicAsync, AllClosed, SessionOff, FailFatal,
       Report, Reconnecting, Resume, ArmReconnect
<1>3. CASE ScheduleReconnect(t)
  BY <1>3, FewEnding, EndingFunctions DEF ScheduleReconnect
<1>4. CASE HandleMixedTransportFailure(t)
  <2>1. PICK l \in Legs, fallback \in {"fallback", "none"}, k \in {"fatal", "reconnect"} :
          /\ Head(todo[t]) = <<"failure", l, fallback, k>>
          /\ l # "Quic" => Then(t, <<>>) \/ Then(t, afterFailure(k))
    BY <1>4 DEF HandleMixedTransportFailure
  <2>2. l = "Curl"
    BY <2>1, NotEnding
  <2>. QED
    BY <2>1, <2>2, FewEnding, EndingFunctions
<1>5. ASSUME NEW l \in Legs, NEW f \in {"fallback", "none"}, NEW k \in {"fatal", "reconnect"},
             l = "Curl", Then(t, << <<"failure", l, f, k>> >>)
      PROVE  \E steps \in Endings : Then(t, steps)
  <2>1. <<"failure", l, f, k>> \in Ending
    BY <1>5, EndingShapes
  <2>. QED
    BY <1>5, <2>1, FewEnding
<1>6. CASE onTransportClose(t)
  <2>1. PICK l \in Legs, how \in {"local", "remote", "token"} :
          /\ Head(todo[t]) = <<"closed", l, how>>
          /\ Then(t, IF ~isCandidate(l) THEN <<>>
                     ELSE IF how = "token" THEN failFatal
                     ELSE << <<"failure", l,
                               IF how = "remote" /\ ~retry.user_closed THEN "fallback" ELSE "none",
                               "reconnect">> >>)
    BY <1>6 DEF onTransportClose
  <2>2. l = "Curl"
    BY <2>1, NotEnding
  <2>3. PICK f \in {"fallback", "none"} :
          f = IF how = "remote" /\ ~retry.user_closed THEN "fallback" ELSE "none"
    OBVIOUS
  <2>4. \/ Then(t, <<>>) \/ Then(t, failFatal)
        \/ Then(t, << <<"failure", l, f, "reconnect">> >>)
    BY <2>1, <2>3
  <2>. QED
    BY <1>5, <2>2, <2>4, FewEnding, EndingFunctions
<1>7. CASE onTransportError(t)
  <2>1. PICK l \in Legs, k \in {"security", "timeout", "other"} :
          /\ Head(todo[t]) = <<"error", l, k>>
          /\ Then(t, IF ~isCandidate(l) THEN <<>>
                     ELSE IF k = "security" THEN failFatal
                     ELSE << <<"failure", l, "fallback",
                               IF k = "timeout" THEN "fatal" ELSE "reconnect">> >>)
    BY <1>7 DEF onTransportError
  <2>2. l = "Curl"
    BY <2>1, NotEnding
  <2>3. PICK c \in {"fatal", "reconnect"} : c = IF k = "timeout" THEN "fatal" ELSE "reconnect"
    OBVIOUS
  <2>4. \/ Then(t, <<>>) \/ Then(t, failFatal)
        \/ Then(t, << <<"failure", l, "fallback", c>> >>)
    BY <2>1, <2>3
  <2>. QED
    BY <1>5, <2>2, <2>4, FewEnding, EndingFunctions
<1>. QED
  BY <1>1, <1>2, <1>3, <1>4, <1>6, <1>7, EndingSteps

\* And it starts nothing.
LEMMA EndingData ==
    ASSUME DataOK, NEW t \in Threads, Step(t), Head(todo[t]) \in Ending
    PROVE  /\ race'.has_alt => race.has_alt
           /\ race'.session_open => race.session_open
           /\ race'.mixed_delay_pending => race.mixed_delay_pending
           /\ ping'.armed => ping.armed
           /\ leave'.armed => leave.armed
<1>. race \in Races /\ ping \in Pings /\ leave \in Leaves
  BY DEF DataOK
<1>1. CASE CancelMixedRace(t) \/ AllClosed(t) \/ SessionOff(t)
  BY <1>1 DEF CancelMixedRace, AllClosed, SessionOff, OnlyRace, Races
<1>2. CASE \/ CloseCurlAsync(t) \/ CloseQuicAsync(t) \/ onTransportClose(t)
           \/ onTransportError(t) \/ ScheduleReconnect(t) \/ ArmReconnect(t)
  BY <1>2 DEF CloseCurlAsync, CloseQuicAsync, onTransportClose, onTransportError,
        ScheduleReconnect, ArmReconnect, OnlySock, OnlyTodo, OnlyRetry
<1>3. CASE Report(t) \/ Resume(t)
  BY <1>3 DEF Report, Resume, Races
<1>4. CASE FailFatal(t) \/ Reconnecting(t)
  BY <1>4 DEF FailFatal, Reconnecting
<1>5. CASE HandleMixedTransportFailure(t)
  BY <1>5 DEF HandleMixedTransportFailure, OnlyRace, Races
<1>. QED
  BY <1>1, <1>2, <1>3, <1>4, <1>5, EndingSteps

\* The TCP leg of a race is started by one of these threads, in these steps.
Starters == {"app"} \cup Detached

LEMMA StarterNames ==
    \A t \in Starters : t \in Threads /\ t \notin Legs /\ t # "Curl" /\ t # "Quic"
BY ThreadNames DEF Starters, Legs

Entering == << <<"enterRace">> >>
Chain == {<<>>, << <<"scheduleFallback">> >>, << <<"startFallback">> >>,
          << <<"openAlt">>, <<"enterRace">> >>, Entering}

\* What the curl worker does while the TCP leg races, until it reports an end.
Declaring == << <<"declareWinner", "Curl">>, <<"startKeepalive">> >>
Beats == {<<>>, << <<"opened", "Curl">> >>, Declaring}
         \cup {<< <<"recv", "Curl", m>> >> : m \in {"ok", "leave", "refused"}}

\* The quic leg runs, and its Signal does not know yet whether it opened.
Unopened ==
    /\ sock["Quic"].alive /\ ~sock["Quic"].reported
    /\ sock["Quic"].notified => todo["Quic"] # <<>> /\ Head(todo["Quic"]) = <<"opened", "Quic">>

\* The first race is on: the quic leg was opened, and may still win.
Early ==
    /\ crash = "none" /\ mixedMode /\ past.attempts = 1 /\ ~Pends(Opening)
    /\ ~retry.user_closed /\ race.primary_leg = "Quic" /\ Unopened

\* No TCP leg was opened yet.
Fresh == ~sock["Curl"].alive /\ todo["Curl"] = <<>>

\* The quic loop has nothing else to do, and nothing else is armed.
Bystanders ==
    /\ todo["Quic"] \in {<<>>, << <<"opened", "Quic">> >>}
    /\ ~ping.armed /\ ~leave.armed

\* One thread at a time is about to start the TCP leg, or waits to; it opens a fresh
\* one, and there is none in the race before it has entered it.
Starting ==
    /\ \A t \in Starters :
          /\ todo[t] \in Chain
          /\ todo[t] # <<>> =>
                /\ ~race.mixed_delay_pending /\ ~race.has_alt
                /\ \A u \in Starters \ {t} : todo[u] = <<>>
          /\ todo[t] \notin {<<>>, Entering} => Fresh
    /\ race.mixed_delay_pending => Fresh /\ ~race.has_alt

\* The TCP leg opens the session only from within the race, and a running one that
\* has not entered it is about to.
Contending ==
    /\ todo["Curl"] \in Beats \/ (sock["Curl"].reported /\ todo["Curl"] \in Endings)
    /\ race.session_open => todo["Curl"] = Declaring
    /\ todo["Curl"] = Declaring => race.has_alt
    /\ Usable(sock["Curl"]) /\ ~race.has_alt => \E t \in Starters : todo[t] = Entering

EarlyInv == Early => Bystanders /\ Starting /\ Contending

\* Only chooseLeg makes the quic leg the primary one.
LEMMA StepPrimary ==
    ASSUME DataOK, NEW t \in Threads, Step(t), ~ChooseLeg(t)
    PROVE  race'.primary_leg \in {race.primary_leg, "Curl"}
<1>. race \in Races
  BY DEF DataOK
<1>1. CASE Calm(t)
  BY <1>1 DEF Calm
<1>2. CASE CancelMixedRace(t) \/ AllClosed(t) \/ SessionOff(t) \/ Report(t) \/ Resume(t)
  BY <1>2 DEF CancelMixedRace, AllClosed, SessionOff, Report, Resume, Races
<1>3. CASE HandleMixedTransportFailure(t)
  BY <1>3 DEF HandleMixedTransportFailure, Races
<1>4. CASE Promote(t)
  BY <1>4 DEF Promote, Races
<1>5. CASE onTransportOpen(t)
  BY <1>5 DEF onTransportOpen, Races
<1>6. CASE MixedDeclareWinner(t)
  BY <1>6 DEF MixedDeclareWinner, isAlt, Races
<1>7. CASE onTransportClose(t) \/ onTransportError(t)
  BY <1>7 DEF onTransportClose, onTransportError, OnlyTodo
<1>. QED
  BY <1>1, <1>2, <1>3, <1>4, <1>5, <1>6, <1>7, StepCalm

\* The choice of a leg is followed by its opening.
LEMMA ChooseOpens ==
    ASSUME TodoOK, OrderInv, NEW t \in Threads, ChooseLeg(t)
    PROVE  Pends(Opening)
<1>1. 1 \in 1..Len(todo[t]) /\ todo[t][1] = <<"chooseLeg">>
  BY DEF ChooseLeg, At, TodoOK
<1>2. 1 + 1 = Len(todo[t]) /\ todo[t][1 + 1] = <<"openPrimary">>
  BY <1>1 DEF OrderInv, Ordered
<1>3. Len(todo[t]) = 2 /\ todo[t][2] = <<"openPrimary">>
  BY <1>2
<1>4. 2 \in 1..Len(todo[t]) /\ todo[t][2] \in Opening
  BY <1>3 DEF Opening
<1>. QED
  BY <1>4 DEF Pends

\* Opening a leg is the only step that takes an openPrimary from what is pending.
LEMMA StepOpening ==
    ASSUME TypeOK, NEW t \in Threads, Step(t), ~OpenPrimary(t), ~Pends(Opening)'
    PROVE  ~Pends(Opening)
<1>. TodoOK
  BY DEF TypeOK
<1>1. PICK steps \in Seq(Steps) : todo[t] # <<>> /\ Then(t, steps)
  BY StepMoves
<1>2. Head(todo[t]) \notin Opening
  <2>1. Head(todo[t]) = <<"openPrimary">> => ~ChooseLeg(t)
    BY DEF ChooseLeg, At
  <2>. QED
    BY <2>1, StepTurns DEF Opening, Begins
<1>. QED
  BY <1>1, <1>2, ThenPends

\* A thread does not put a callback of a transport that opened in its own place.
LEMMA StepOpened ==
    ASSUME TypeOK, CallbackInv, NEW t \in Threads, Step(t), NEW l \in Legs,
           todo'[l] # <<>>, Head(todo'[l]) = <<"opened", l>>
    PROVE  t # l /\ todo'[l] = todo[l]
<1>. TodoOK /\ l \in Threads /\ crash = "none"
  BY StepRuns DEF TypeOK, Threads
<1>1. PICK steps \in Seq(Steps) :
        Then(t, steps) /\ \A j \in 1..Len(steps) : TurnsInto(t, steps, j)
  BY StepTurnsInto
<1>2. todo[t] # <<>>
  BY StepMoves
<1>. SUFFICES ASSUME t = l PROVE FALSE
  BY <1>1, <1>2, ThenAt
<1>3. todo'[t] \in Seq(Steps)
  BY <1>1, <1>2, ThenTodo DEF TodoOK
<1>4. 1 \in 1..Len(todo'[t]) /\ todo'[t][1] = <<"opened", l>>
  BY <1>3
<1>5. <<"opened", l>> \in Callbacks /\ \A k \in Legs : <<"opened", l>> # <<"declareWinner", k>>
  BY DEF Callbacks
<1>6. \A j \in 1..Len(steps) : steps[j] # <<"opened", l>>
  BY <1>1, <1>5, KindsApart DEF TurnsInto
<1>7. 1 - Len(steps) + 1 \in 2..Len(todo[t]) /\ todo'[t][1] = todo[t][1 - Len(steps) + 1]
  BY <1>1, <1>2, <1>4, <1>6, ThenAt
<1>8. PICK i \in 2..Len(todo[t]) : todo[t][i] = <<"opened", l>>
  BY <1>4, <1>7
<1>9. i \in 1..Len(todo[t]) /\ i # 1
  BY <1>8
<1>. QED
  BY <1>8, <1>9 DEF CallbackInv

\* The early race begins when the quic leg is opened.
LEMMA EarlyBefore ==
    ASSUME TypeOK, PairsInv, OrderInv, CallbackInv, NEW t \in Threads, Step(t),
           ~OpenPrimary(t), Early'
    PROVE  Early
<1>. DataOK /\ TodoOK /\ "Quic" \in Threads /\ "Quic" \in Legs
  BY DEF TypeOK, Threads, Legs
<1>1. crash = "none" /\ past.attempts = 1 /\ mixedMode
  BY StepRuns, StepFirst DEF Early, mixedMode
<1>2. ~Pends(Opening)
  BY StepOpening DEF Early
<1>3. ~retry.user_closed
  BY <1>2, StepClosed, UnsuppressOpens DEF Early
<1>4. race.primary_leg = "Quic"
  <2>1. ~ChooseLeg(t)
    BY <1>2, ChooseOpens
  <2>. QED
    BY <2>1, StepPrimary DEF Early
<1>5. /\ sock'["Quic"].alive = sock["Quic"].alive
      /\ sock'["Quic"].notified = sock["Quic"].notified
      /\ sock["Quic"].reported => sock'["Quic"].reported
  <2>1. CASE OpenAlt(t)
    <3>1. sock' = [sock EXCEPT !["Curl"] = Opened]
      BY <2>1 DEF OpenAlt, OpenCurl
    <3>. QED
      BY <3>1 DEF DataOK
  <2>2. CASE ~OpenAlt(t)
    BY <2>2, StepWakes
  <2>. QED
    BY <2>1, <2>2
<1>6. Unopened
  BY <1>5, StepOpened DEF Early, Unopened
<1>. QED
  BY <1>1, <1>2, <1>3, <1>4, <1>6 DEF Early

\* ... and by no start.
LEMMA EarlyStarted ==
    ASSUME TypeOK, YoungInv, Early',
           Wakeup \/ (\E k \in Legs : Transport(k)) \/ Connect \/ Disconnect
    PROVE  /\ Early
           /\ \/ DelayElapses \/ PingTimeout \/ LeaveTimeout
              \/ SocketOpens("Quic") \/ Transport("Curl")
<1>. /\ DataOK /\ TodoOK /\ "Quic" \in Threads /\ "Quic" \in Legs /\ "Curl" \in Legs
     /\ race \in Races /\ retry \in Retries /\ past \in Pasts /\ sock \in [Legs -> Sockets]
  BY DEF TypeOK, DataOK, Threads, Legs
<1>1. crash = "none" /\ past.attempts = 1 /\ ~Pends(Opening)
  BY StartRuns, StartFirst DEF Early
<1>2. mixedMode
  BY SameScenario DEF Early, mixedMode, Next
<1>3. ~ReconnectElapses /\ ~Connect /\ ~Disconnect
  <2>1. ~Disconnect
    BY DEF Disconnect, Early, Retries
  <2>2. past'.attempts # past.attempts + 1
    BY <1>1 DEF Early
  <2>. QED
    BY <2>1, <2>2, StartPast
<1>4. race.primary_leg = "Quic" /\ ~retry.user_closed
  BY <1>3 DEF Wakeup, DelayElapses, PingTimeout, LeaveTimeout, Transport, SocketBreaks,
       SocketOpens, SocketFails, SocketClosedByPeer, SocketStops, SocketEnds,
       SocketReceives, OnlyRace, OnlyLeave, OnlySock, Early, Races
<1>5. ASSUME sock'["Quic"] = sock["Quic"], NEW t \in Threads \ {"Quic"}, NEW steps,
             Started(t, steps)
      PROVE  Unopened
  <2>1. todo'["Quic"] = todo["Quic"]
    BY <1>5, StartedAt
  <2>. QED
    BY <1>5, <2>1 DEF Early, Unopened
<1>6. CASE Wakeup
  <2>1. UNCHANGED sock
    BY <1>3, <1>6 DEF Wakeup, DelayElapses, PingTimeout, LeaveTimeout, OnlyRace, OnlyLeave
  <2>2. \E t \in Detached : \E steps : Started(t, steps)
    BY <1>3, <1>6 DEF Wakeup, DelayElapses, PingTimeout, LeaveTimeout, Starts, Started
  <2>3. Unopened
    BY <1>5, <2>1, <2>2, ThreadNames
  <2>. QED
    BY <1>1, <1>2, <1>3, <1>4, <1>6, <2>3 DEF Early, Wakeup
<1>7. CASE Transport("Curl")
  <2>1. sock'["Quic"] = sock["Quic"] /\ \E steps : Started("Curl", steps)
    <3>1. \A s : [sock EXCEPT !["Curl"] = s]["Quic"] = sock["Quic"]
      OBVIOUS
    <3>. QED
      BY <1>7, <3>1 DEF Transport, SocketBreaks, SocketOpens, SocketFails,
           SocketClosedByPeer, SocketStops, SocketEnds, SocketReceives, Reporting, Starts,
           Started
  <2>2. Unopened
    BY <1>5, <2>1 DEF Threads, Legs
  <2>. QED
    BY <1>1, <1>2, <1>4, <1>7, <2>2 DEF Early
<1>8. CASE Transport("Quic")
  <2>1. ~SocketFails("Quic") /\ ~SocketClosedByPeer("Quic") /\ ~SocketStops("Quic")
    <3>1. Reporting("Quic") => sock'["Quic"].reported
      BY DEF Reporting, Sockets
    <3>. QED
      BY <3>1 DEF SocketFails, SocketClosedByPeer, SocketStops, Early, Unopened
  <2>2. ~SocketEnds("Quic")
    BY DEF SocketEnds, Ended, Sockets, Early, Unopened
  <2>3. ~SocketReceives("Quic")
    <3>. SUFFICES ASSUME SocketReceives("Quic") PROVE FALSE
      OBVIOUS
    <3>1. PICK m \in {"ok", "leave", "refused"} : Started("Quic", << <<"recv", "Quic", m>> >>)
      BY DEF SocketReceives, Starts, Started
    <3>2. todo'["Quic"] = << <<"recv", "Quic", m>> >> /\ sock'["Quic"].notified
      BY <3>1, StartedAt DEF SocketReceives
    <3>. QED
      BY <3>2 DEF Early, Unopened
  <2>6. ~SocketBreaks("Quic")
    BY BreakMoves
  <2>4. SocketOpens("Quic")
    BY <1>8, <2>1, <2>2, <2>3, <2>6 DEF Transport
  <2>5. Unopened
    BY <2>4 DEF SocketOpens, MayOpen, Unopened
  <2>. QED
    BY <1>1, <1>2, <1>4, <2>4, <2>5 DEF Early
<1>. QED
  BY <1>3, <1>6, <1>7, <1>8 DEF Legs

LEMMA OnlyTail ==
    ASSUME NEW S, NEW s \in Seq(S), s # <<>>, Len(s) = 1
    PROVE  Tail(s) = <<>>
<1>1. ASSUME NEW r \in Seq(S), Len(r) = 0 PROVE r = <<>>
  BY <1>1
<1>2. Tail(s) \in Seq(S) /\ Len(Tail(s)) = 0
  OBVIOUS
<1>. QED
  BY <1>1, <1>2

\* The opening of the quic leg is followed by that of the TCP leg.
LEMMA EarlyOpens ==
    ASSUME TypeOK, OrderInv, YoungInv, EntryInv, NEW t \in Threads, OpenPrimary(t), Early'
    PROVE  (Bystanders /\ Starting /\ Contending)'
<1>. /\ DataOK /\ TodoOK /\ sock \in [Legs -> Sockets] /\ "Quic" \in Legs /\ "Curl" \in Legs
     /\ {"app", "Curl", "Quic"} \subseteq Threads
  BY DEF TypeOK, DataOK, Legs, Threads
<1>1. crash = "none" /\ todo[t] # <<>> /\ Head(todo[t]) = <<"openPrimary">>
  BY DEF OpenPrimary, At
<1>2. 1 \in 1..Len(todo[t]) /\ todo[t][1] = <<"openPrimary">>
  BY <1>1 DEF TodoOK
<1>3. Young
  <2>1. past.attempts = 1
    <3>1. Step(t)
      BY <1>1 DEF Step, ConnectStep, Runs
    <3>. QED
      BY <3>1, StepFirst DEF Early
  <2>. QED
    BY <1>2, <2>1 DEF Young, Pends, Opening
<1>4. /\ t = "app" /\ (\A u \in Threads \ {"app"} : todo[u] = <<>>)
      /\ (\A l \in Legs : ~sock[l].alive)
      /\ ~race.mixed_delay_pending /\ ~ping.armed /\ ~leave.armed
      /\ ~race.has_alt /\ ~race.session_open
  BY <1>1, <1>3 DEF YoungInv, EntryInv
<1>5. UNCHANGED <<race, ping, leave>>
  BY DEF OpenPrimary
<1>6. mixedMode
  <2>1. scenario' = scenario
    BY DEF OpenPrimary
  <2>. QED
    BY <2>1 DEF Early, mixedMode
<1>7. sock' = [sock EXCEPT !["Quic"] = Opened] /\ Then(t, << <<"scheduleFallback">> >>)
  <2>1. ~Joined(NeverOpened).alive
    BY DEF Joined, NeverOpened
  <2>2. sock'["Quic"].alive
    BY DEF Early, Unopened
  <2>3. OpenQuic(t)
    BY <1>6 DEF OpenPrimary, mixedMode
  <2>4. sock' # sock /\ sock' # [sock EXCEPT !["Quic"] = Joined(NeverOpened)]
    BY <1>4, <2>1, <2>2
  <2>. QED
    BY <1>6, <2>3, <2>4 DEF OpenQuic
<1>8. todo'["app"] = << <<"scheduleFallback">> >> /\ \A u \in Threads \ {"app"} : todo'[u] = <<>>
  <2>1. todo[t] \in Seq(Steps) /\ Len(todo[t]) = 1
    BY <1>2 DEF OrderInv, Ordered, TodoOK
  <2>2. Tail(todo[t]) = <<>>
    BY <1>1, <2>1, OnlyTail
  <2>3. todo'[t] = << <<"scheduleFallback">> >> \o <<>>
    BY <1>7, <2>2 DEF Then, TodoOK
  <2>4. \A u \in Threads \ {t} : todo'[u] = todo[u]
    BY <1>7 DEF Then, TodoOK
  <2>. QED
    BY <1>4, <2>3, <2>4
<1>9. ~sock'["Curl"].alive
  BY <1>4, <1>7
<1>10. Fresh'
  BY <1>8, <1>9 DEF Fresh
<1>11. Bystanders'
  BY <1>4, <1>5, <1>8, ThreadNames DEF Bystanders, Legs
<1>12. Starting'
  <2>1. << <<"scheduleFallback">> >> \in Chain /\ <<>> \in Chain
    BY DEF Chain
  <2>2. ~race'.mixed_delay_pending /\ ~race'.has_alt
    BY <1>4, <1>5
  <2>. QED
    BY <1>8, <1>10, <2>1, <2>2, StarterNames DEF Starting
<1>13. Contending'
  <2>1. <<>> \in Beats /\ <<>> # Declaring
    BY DEF Beats, Declaring
  <2>. QED
    BY <1>4, <1>5, <1>8, <1>9, <2>1 DEF Contending, Usable
<1>. QED
  BY <1>11, <1>12, <1>13

\* The steps that start the TCP leg, and those of its callbacks.
Stage ==
    {<<s>> : s \in {"scheduleFallback", "startFallback", "openAlt", "enterRace"}}
    \cup Callbacks \cup ({"recv"} \X Legs \X {"ok", "leave", "refused"})

LEMMA NotStage ==
    /\ \A s \in {"allClosed", "report", "failFatal", "beginConnect", "unsuppress",
                 "chooseLeg", "openPrimary", "sessionOff", "scheduleReconnect",
                 "reconnecting", "resume", "armReconnect", "joinCurl", "unlockCurl", "joinQuic",
                 "unlockRace", "startKeepalive", "tell", "sendLeave", "awaitLeave",
                 "closeAfterDisconnect"} : <<s>> \notin Stage
    /\ \A s \in {"cancelMixedRace", "closeCurl", "closeQuic"}, how \in {"join", "async"} :
          <<s, how>> \notin Stage
    /\ \A k \in {"fatal", "reconnect"} : <<"promote", k>> \notin Stage
    /\ \A l \in Legs, how \in {"local", "remote", "token"} : <<"closed", l, how>> \notin Stage
    /\ \A l \in Legs, k \in {"security", "timeout", "other"} : <<"error", l, k>> \notin Stage
    /\ \A l \in Legs, f \in {"fallback", "none"}, k \in {"fatal", "reconnect"} :
          <<"failure", l, f, k>> \notin Stage
BY DEF Stage, Callbacks, Legs

LEMMA InStage ==
    /\ \A s \in {"scheduleFallback", "startFallback", "openAlt", "enterRace"} : <<s>> \in Stage
    /\ \A s \in {"opened", "declareWinner"}, l \in Legs : <<s, l>> \in Stage
    /\ \A l \in Legs, m \in {"ok", "leave", "refused"} : <<"recv", l, m>> \in Stage
BY DEF Stage, Callbacks

LEMMA StageSteps ==
    ASSUME NEW t \in Threads, Step(t), Head(todo[t]) \in Stage
    PROVE  \/ ScheduleMixedTcpFallback(t) \/ StartMixedTcpFallback(t) \/ OpenAlt(t)
           \/ EnterRace(t) \/ onTransportOpen(t) \/ MixedDeclareWinner(t) \/ onTransportRecv(t)
<1>. USE DEF At
<1>1. CASE CloseStep(t)
  <2>1. ~CancelMixedRace(t)
    BY NotStage DEF CancelMixedRace
  <2>2. /\ ~CloseCurlAsync(t) /\ ~CloseCurlJoin(t) /\ ~JoinCurl(t) /\ ~UnlockCurl(t)
        /\ ~CloseQuicAsync(t) /\ ~CloseQuicJoin(t) /\ ~JoinQuic(t) /\ ~AllClosed(t)
    BY NotStage DEF CloseCurlAsync, CloseCurlJoin, JoinCurl, UnlockCurl, CloseQuicAsync,
       CloseQuicJoin, JoinQuic, AllClosed
  <2>. QED
    BY <1>1, <2>1, <2>2 DEF CloseStep
<1>2. CASE ConnectStep(t)
  <2>1. ~BeginConnect(t) /\ ~Unsuppress(t) /\ ~ChooseLeg(t) /\ ~OpenPrimary(t) /\ ~UnlockRace(t)
    BY NotStage DEF BeginConnect, Unsuppress, ChooseLeg, OpenPrimary, UnlockRace
  <2>2. ~Promote(t)
    BY NotStage DEF Promote
  <2>3. ~HandleMixedTransportFailure(t)
    <3>1. HandleMixedTransportFailure(t) =>
            \E l \in Legs, f \in {"fallback", "none"}, k \in {"fatal", "reconnect"} :
              Head(todo[t]) = <<"failure", l, f, k>>
      BY DEF HandleMixedTransportFailure
    <3>. QED
      BY <3>1, NotStage
  <2>. QED
    BY <1>2, <2>1, <2>2, <2>3 DEF ConnectStep
<1>3. CASE CallbackStep(t)
  <2>1. ~StartKeepalive(t) /\ ~SessionOff(t) /\ ~Tell(t)
    BY NotStage DEF StartKeepalive, SessionOff, Tell
  <2>2. ~onTransportClose(t)
    <3>1. onTransportClose(t) =>
            \E l \in Legs, how \in {"local", "remote", "token"} :
              Head(todo[t]) = <<"closed", l, how>>
      BY DEF onTransportClose
    <3>. QED
      BY <3>1, NotStage
  <2>3. ~onTransportError(t)
    <3>1. onTransportError(t) =>
            \E l \in Legs, k \in {"security", "timeout", "other"} :
              Head(todo[t]) = <<"error", l, k>>
      BY DEF onTransportError
    <3>. QED
      BY <3>1, NotStage
  <2>. QED
    BY <1>3, <2>1, <2>2, <2>3 DEF CallbackStep
<1>4. CASE RetryStep(t)
  BY <1>4, NotStage DEF RetryStep, FailFatal, Report, ScheduleReconnect, Reconnecting, Resume,
     ArmReconnect, SendLeave, AwaitLeave, CloseSocketAfterDisconnect
<1>. QED
  BY <1>1, <1>2, <1>3, <1>4 DEF Step

LEMMA StageStep ==
    ASSUME NEW t \in Threads, Step(t)
    PROVE  /\ Head(todo[t]) = <<"scheduleFallback">> => ScheduleMixedTcpFallback(t)
           /\ Head(todo[t]) = <<"startFallback">> => StartMixedTcpFallback(t)
           /\ Head(todo[t]) = <<"openAlt">> => OpenAlt(t)
           /\ Head(todo[t]) = <<"enterRace">> => EnterRace(t)
           /\ \A l \in Legs : Head(todo[t]) = <<"opened", l>> => onTransportOpen(t)
           /\ \A l \in Legs : Head(todo[t]) = <<"declareWinner", l>> => MixedDeclareWinner(t)
           /\ \A l \in Legs, m \in {"ok", "leave", "refused"} :
                 Head(todo[t]) = <<"recv", l, m>> => onTransportRecv(t)
<1>1. /\ ScheduleMixedTcpFallback(t) => Head(todo[t]) = <<"scheduleFallback">>
      /\ StartMixedTcpFallback(t) => Head(todo[t]) = <<"startFallback">>
      /\ OpenAlt(t) => Head(todo[t]) = <<"openAlt">>
      /\ EnterRace(t) => Head(todo[t]) = <<"enterRace">>
  BY DEF At, ScheduleMixedTcpFallback, StartMixedTcpFallback, OpenAlt, EnterRace
<1>2. onTransportOpen(t) => \E l \in Legs : Head(todo[t]) = <<"opened", l>>
  BY DEF At, onTransportOpen
<1>3. MixedDeclareWinner(t) => \E l \in Legs : Head(todo[t]) = <<"declareWinner", l>>
  BY DEF At, MixedDeclareWinner
<1>4. onTransportRecv(t) =>
        \E l \in Legs, m \in {"ok", "leave", "refused"} : Head(todo[t]) = <<"recv", l, m>>
  BY DEF At, onTransportRecv
<1>5. ASSUME NEW s \in {"scheduleFallback", "startFallback", "openAlt", "enterRace"},
             Head(todo[t]) = <<s>>
      PROVE  ~onTransportOpen(t) /\ ~MixedDeclareWinner(t) /\ ~onTransportRecv(t)
             /\ Head(todo[t]) \in Stage
  BY <1>2, <1>3, <1>4, <1>5, InStage
<1>6. ASSUME NEW l \in Legs, Head(todo[t]) = <<"opened", l>> PROVE onTransportOpen(t)
  <2>1. \A k \in Legs : <<"opened", l>> # <<"declareWinner", k>>
    OBVIOUS
  <2>2. ~MixedDeclareWinner(t)
    BY <1>3, <1>6, <2>1
  <2>3. ~onTransportRecv(t)
    BY <1>4, <1>6
  <2>4. Head(todo[t]) \in Stage
    BY <1>6, InStage
  <2>. QED
    BY <1>1, <1>6, <2>2, <2>3, <2>4, StageSteps
<1>7. ASSUME NEW l \in Legs, Head(todo[t]) = <<"declareWinner", l>> PROVE MixedDeclareWinner(t)
  <2>1. \A k \in Legs : <<"declareWinner", l>> # <<"opened", k>>
    OBVIOUS
  <2>2. ~onTransportOpen(t)
    BY <1>2, <1>7, <2>1
  <2>3. ~onTransportRecv(t)
    BY <1>4, <1>7
  <2>4. Head(todo[t]) \in Stage
    BY <1>7, InStage
  <2>. QED
    BY <1>1, <1>7, <2>2, <2>3, <2>4, StageSteps
<1>8. ASSUME NEW l \in Legs, NEW m \in {"ok", "leave", "refused"},
             Head(todo[t]) = <<"recv", l, m>>
      PROVE  onTransportRecv(t)
  <2>1. ~onTransportOpen(t) /\ ~MixedDeclareWinner(t)
    BY <1>2, <1>3, <1>8
  <2>2. Head(todo[t]) \in Stage
    BY <1>8, InStage
  <2>. QED
    BY <1>1, <1>8, <2>1, <2>2, StageSteps
<1>9. /\ Head(todo[t]) = <<"scheduleFallback">> => ScheduleMixedTcpFallback(t)
      /\ Head(todo[t]) = <<"startFallback">> => StartMixedTcpFallback(t)
      /\ Head(todo[t]) = <<"openAlt">> => OpenAlt(t)
      /\ Head(todo[t]) = <<"enterRace">> => EnterRace(t)
  BY <1>1, <1>5, StageSteps
<1>. QED
  BY <1>6, <1>7, <1>8, <1>9

\* The steps of a thread that has one left, or two.
LEMMA ThenOnly ==
    ASSUME TodoOK, NEW t \in Threads, NEW steps \in Seq(Steps), Then(t, steps)
    PROVE  /\ \A u \in Threads \ {t} : todo'[u] = todo[u]
           /\ \A a : todo[t] = <<a>> => todo'[t] = steps
<1>1. todo'[t] = steps \o Tail(todo[t]) /\ \A u \in Threads \ {t} : todo'[u] = todo[u]
  BY DEF Then, TodoOK
<1>2. ASSUME NEW a, todo[t] = <<a>> PROVE todo'[t] = steps
  <2>1. Tail(<<a>>) = <<>>
    OBVIOUS
  <2>. QED
    BY <1>1, <1>2, <2>1
<1>. QED
  BY <1>1, <1>2

LEMMA ThenNext ==
    ASSUME TodoOK, NEW t \in Threads, NEW a, NEW b, todo[t] = <<a, b>>, Then(t, <<>>)
    PROVE  todo'[t] = <<b>>
<1>1. todo'[t] = <<>> \o Tail(todo[t])
  BY DEF Then, TodoOK
<1>2. <<>> \o Tail(<<a, b>>) = <<b>>
  OBVIOUS
<1>. QED
  BY <1>1, <1>2

\* The thread that starts the TCP leg takes a step.
LEMMA EarlyStarter ==
    ASSUME TypeOK, Early, Early', Bystanders, Starting, Contending, NEW t \in Starters, Step(t)
    PROVE  (Bystanders /\ Starting /\ Contending)'
<1>. /\ DataOK /\ TodoOK /\ sock \in [Legs -> Sockets] /\ race \in Races /\ "Curl" \in Legs
     /\ t \in Threads \ {"Curl", "Quic"} /\ "Curl" \in Threads /\ "Quic" \in Threads
     /\ Starters \subseteq Threads
  BY StarterNames, ThreadNames DEF TypeOK, DataOK, Legs
<1>1. /\ todo[t] \in Chain /\ todo[t] # <<>> /\ ~race.mixed_delay_pending /\ ~race.has_alt
      /\ \A u \in Starters \ {t} : todo[u] = <<>>
      /\ todo[t] # Entering => Fresh
  BY StepMoves DEF Starting
<1>2. ~race.session_open /\ todo["Curl"] # Declaring /\ ~retry.user_closed
  BY <1>1 DEF Contending, Early
<1>3. /\ <<>> \in Chain /\ Entering \in Chain /\ << <<"startFallback">> >> \in Chain
      /\ << <<"openAlt">>, <<"enterRace">> >> \in Chain
  BY DEF Chain
<1>4. /\ <<>> \in Seq(Steps) /\ << <<"startFallback">> >> \in Seq(Steps)
      /\ << <<"openAlt">>, <<"enterRace">> >> \in Seq(Steps)
  BY DEF Steps
<1>5. ASSUME NEW steps \in Seq(Steps), Then(t, steps), UNCHANGED <<sock, ping, leave>>,
             todo[t] # Entering, \E a : todo[t] = <<a>>, steps \in Chain,
             ~race'.session_open, ~race'.has_alt,
             race'.mixed_delay_pending => steps = <<>>
      PROVE  (Bystanders /\ Starting /\ Contending)'
  <2>1. todo'[t] = steps /\ \A u \in Threads \ {t} : todo'[u] = todo[u]
    BY <1>5, ThenOnly
  <2>2. Fresh /\ Fresh'
    BY <1>1, <1>5, <2>1 DEF Fresh
  <2>3. Bystanders'
    BY <1>5, <2>1 DEF Bystanders
  <2>4. Starting'
    BY <1>1, <1>3, <1>5, <2>1, <2>2 DEF Starting
  <2>5. Contending'
    BY <1>2, <1>5, <2>1, <2>2 DEF Contending, Fresh, Usable
  <2>. QED
    BY <2>3, <2>4, <2>5
<1>6. CASE todo[t] = << <<"scheduleFallback">> >>
  <2>1. Head(todo[t]) = <<"scheduleFallback">> /\ todo[t] # Entering
    BY <1>6 DEF Entering
  <2>2. ScheduleMixedTcpFallback(t)
    BY <2>1, StageStep
  <2>3. \/ Then(t, << <<"startFallback">> >>) /\ race' = race
        \/ Then(t, <<>>) /\ race' = [race EXCEPT !.mixed_delay_pending = TRUE]
    BY <2>2 DEF ScheduleMixedTcpFallback
  <2>4. UNCHANGED <<sock, ping, leave>>
    BY <2>2 DEF ScheduleMixedTcpFallback, OnlyRace
  <2>. QED
    BY <1>1, <1>2, <1>3, <1>4, <1>5, <1>6, <2>1, <2>3, <2>4 DEF Races
<1>7. CASE todo[t] = << <<"startFallback">> >>
  <2>1. Head(todo[t]) = <<"startFallback">> /\ todo[t] # Entering
    BY <1>7 DEF Entering
  <2>2. StartMixedTcpFallback(t)
    BY <2>1, StageStep
  <2>3. /\ Then(t, <<>>) \/ Then(t, << <<"openAlt">>, <<"enterRace">> >>)
        /\ race' = [race EXCEPT !.mixed_delay_pending = FALSE]
    BY <1>1, <1>2, <2>2 DEF StartMixedTcpFallback
  <2>4. UNCHANGED <<sock, ping, leave>>
    BY <2>2 DEF StartMixedTcpFallback, OnlyRace
  <2>. QED
    BY <1>1, <1>2, <1>3, <1>4, <1>5, <1>7, <2>1, <2>3, <2>4 DEF Races
<1>8. CASE todo[t] = << <<"openAlt">>, <<"enterRace">> >>
  <2>1. Head(todo[t]) = <<"openAlt">> /\ todo[t] # Entering
    BY <1>8 DEF Entering
  <2>2. OpenAlt(t) /\ Fresh
    BY <1>1, <2>1, StageStep
  <2>3. Then(t, <<>>) /\ UNCHANGED <<race, ping, leave>>
    BY <2>2 DEF OpenAlt
  <2>4. todo'[t] = Entering /\ \A u \in Threads \ {t} : todo'[u] = todo[u]
    <3>1. todo'[t] = << <<"enterRace">> >>
      BY <1>8, <2>3, ThenNext
    <3>2. \A u \in Threads \ {t} : todo'[u] = todo[u]
      BY <1>4, <2>3, ThenOnly
    <3>. QED
      BY <3>1, <3>2 DEF Entering
  <2>5. Bystanders'
    BY <2>3, <2>4 DEF Bystanders
  <2>6. Starting'
    BY <1>1, <1>3, <2>3, <2>4 DEF Starting
  <2>7. Contending'
    <3>1. todo'["Curl"] = <<>> /\ <<>> \in Beats /\ <<>> # Declaring
      BY <2>2, <2>4 DEF Fresh, Beats, Declaring
    <3>. QED
      BY <1>2, <2>3, <2>4, <3>1 DEF Contending
  <2>. QED
    BY <2>5, <2>6, <2>7
<1>9. CASE todo[t] = Entering
  <2>1. Head(todo[t]) = <<"enterRace">>
    BY <1>9 DEF Entering
  <2>2. EnterRace(t)
    BY <2>1, StageStep
  <2>3. /\ Then(t, <<>>) /\ race' = [race EXCEPT !.has_alt = TRUE]
        /\ UNCHANGED <<sock, ping, leave>>
    BY <1>2, <2>2 DEF EnterRace, OnlyRace
  <2>4. todo'[t] = <<>> /\ \A u \in Threads \ {t} : todo'[u] = todo[u]
    <3>1. \E a : todo[t] = <<a>>
      BY <1>9 DEF Entering
    <3>2. todo'[t] = <<>>
      BY <1>4, <2>3, <3>1, ThenOnly
    <3>3. \A u \in Threads \ {t} : todo'[u] = todo[u]
      BY <1>4, <2>3, ThenOnly
    <3>. QED
      BY <3>2, <3>3
  <2>5. race'.has_alt /\ ~race'.session_open /\ ~race'.mixed_delay_pending
    BY <1>1, <1>2, <2>3 DEF Races
  <2>6. Bystanders'
    BY <2>3, <2>4 DEF Bystanders
  <2>7. Starting'
    BY <1>1, <1>3, <2>4, <2>5 DEF Starting
  <2>8. Contending'
    BY <1>2, <2>3, <2>4, <2>5 DEF Contending
  <2>. QED
    BY <2>6, <2>7, <2>8
<1>. QED
  BY <1>1, <1>6, <1>7, <1>8, <1>9 DEF Chain

\* The quic leg's callback ends the early race.
LEMMA EarlyQuic ==
    ASSUME TypeOK, CallbackInv, Early', Bystanders, Step("Quic")
    PROVE  FALSE
<1>. "Quic" \in Threads /\ "Quic" \in Legs /\ DataOK /\ TodoOK
  BY DEF Threads, Legs, TypeOK
<1>1. todo["Quic"] = << <<"opened", "Quic">> >>
  BY StepMoves DEF Bystanders
<1>2. Head(todo["Quic"]) = <<"opened", "Quic">>
  BY <1>1
<1>3. onTransportOpen("Quic") /\ crash = "none"
  BY <1>2, StageStep, StepRuns
<1>4. sock' = sock
  BY <1>3 DEF onTransportOpen, OnlyRace
<1>5. Live("Quic")
  <2>1. 1 \in 1..Len(todo["Quic"]) /\ todo["Quic"][1] = <<"opened", "Quic">>
    BY <1>1
  <2>. QED
    BY <1>3, <2>1 DEF CallbackInv
<1>6. todo'["Quic"] # <<>> /\ Head(todo'["Quic"]) = <<"opened", "Quic">>
  BY <1>4, <1>5 DEF Live, Early, Unopened
<1>. QED
  BY <1>6, StepOpened

\* The curl worker takes a step: while its socket has not reported its end the leg
\* races on, or is declared the winner, which ends the early race.
LEMMA EarlyCurl ==
    ASSUME TypeOK, Early, Early', Bystanders, Starting, Contending, Step("Curl")
    PROVE  (Bystanders /\ Starting /\ Contending)'
<1>. /\ DataOK /\ TodoOK /\ sock \in [Legs -> Sockets] /\ race \in Races /\ "Curl" \in Legs
     /\ "Curl" \in Threads \ Starters /\ "Quic" \in Threads /\ "Quic" # "Curl"
     /\ Starters \subseteq Threads
  BY StarterNames, ThreadNames DEF TypeOK, DataOK, Legs
<1>1. todo["Curl"] # <<>> /\ ~Fresh /\ crash = "none"
  BY StepMoves, StepRuns DEF Fresh
<1>2. /\ \A t \in Starters :
            /\ todo[t] \in {<<>>, Entering}
            /\ todo[t] # <<>> => ~race.has_alt
      /\ ~race.mixed_delay_pending
  BY <1>1 DEF Starting
<1>3. <<>> \in Chain /\ Entering \in Chain /\ <<>> # Entering
  BY DEF Chain, Entering
<1>4. ASSUME NEW steps, todo' = [todo EXCEPT !["Curl"] = steps],
             race'.has_alt => race.has_alt, race'.mixed_delay_pending => race.mixed_delay_pending,
             ping'.armed => ping.armed, leave'.armed => leave.armed
      PROVE  Bystanders' /\ Starting'
  <2>1. todo'["Curl"] = steps /\ \A u \in Threads \ {"Curl"} : todo'[u] = todo[u]
    BY <1>4 DEF TodoOK
  <2>2. Bystanders'
    BY <1>4, <2>1 DEF Bystanders
  <2>3. Starting'
    BY <1>2, <1>3, <1>4, <2>1 DEF Starting
  <2>. QED
    BY <2>2, <2>3
<1>5. /\ <<>> \in Beats /\ Declaring \in Beats /\ <<>> # Declaring
      /\ << <<"opened", "Curl">> >> # Declaring
      /\ \A m : << <<"recv", "Curl", m>> >> # Declaring
  BY DEF Beats, Declaring
<1>6. \A t \in Starters : \A steps :
        todo' = [todo EXCEPT !["Curl"] = steps] => todo'[t] = todo[t] /\ todo'["Curl"] = steps
  BY DEF TodoOK
<1>7. ASSUME NEW steps \in Seq(Steps), Then("Curl", steps), \E a : todo["Curl"] = <<a>>
      PROVE  todo' = [todo EXCEPT !["Curl"] = steps]
  <2>1. PICK a : todo["Curl"] = <<a>>
    BY <1>7
  <2>2. steps \o Tail(<<a>>) = steps
    OBVIOUS
  <2>. QED
    BY <1>7, <2>1, <2>2 DEF Then
<1>8. <<>> \in Seq(Steps) /\ Declaring \in Seq(Steps)
  BY DEF Steps, Declaring, Legs
<1>9. CASE todo["Curl"] = << <<"opened", "Curl">> >>
  <2>1. onTransportOpen("Curl") /\ Head(todo["Curl"]) = <<"opened", "Curl">>
    <3>1. Head(todo["Curl"]) = <<"opened", "Curl">>
      BY <1>9
    <3>. QED
      BY <3>1, StageStep
  <2>2. ~race.session_open /\ ~retry.user_closed /\ race.primary_leg = "Quic"
    BY <1>5, <1>9 DEF Contending, Early
  <2>3. PICK l \in Legs :
          /\ Head(todo["Curl"]) = <<"opened", l>>
          /\ \/ /\ ~isCandidate(l)
                /\ Then("Curl", <<>>)
                /\ UNCHANGED race
             \/ /\ isCandidate(l) /\ retry.user_closed
             \/ /\ isCandidate(l) /\ ~retry.user_closed /\ race.session_open /\ isAlt(l)
             \/ /\ isCandidate(l) /\ ~retry.user_closed /\ ~(race.session_open /\ isAlt(l))
                /\ race' = [race EXCEPT !.session_open = TRUE]
                /\ Then("Curl", IF race.has_alt \/ race.mixed_delay_pending
                             THEN << <<"declareWinner", l>>, <<"startKeepalive">> >>
                             ELSE << <<"startKeepalive">> >>)
          /\ UNCHANGED <<sock, ping, leave>>
    BY <2>1 DEF onTransportOpen, At, OnlyRace
  <2>4. l = "Curl"
    BY <2>1, <2>3
  <2>5. \/ Then("Curl", <<>>) /\ race' = race
        \/ Then("Curl", Declaring) /\ race' = [race EXCEPT !.session_open = TRUE] /\ race.has_alt
    BY <2>2, <2>3, <2>4 DEF isCandidate, isAlt, Declaring
  <2>6. race'.has_alt = race.has_alt /\ race'.mixed_delay_pending = race.mixed_delay_pending
    BY <2>5 DEF Races
  <2>7. CASE Then("Curl", <<>>) /\ race' = race
    <3>1. todo' = [todo EXCEPT !["Curl"] = <<>>]
      BY <1>7, <1>8, <1>9, <2>7
    <3>2. Contending'
      BY <1>5, <1>6, <2>2, <2>3, <2>7, <3>1 DEF Contending
    <3>. QED
      BY <1>4, <2>3, <2>7, <3>1, <3>2
  <2>8. CASE /\ Then("Curl", Declaring) /\ race' = [race EXCEPT !.session_open = TRUE]
             /\ race.has_alt
    <3>1. todo' = [todo EXCEPT !["Curl"] = Declaring]
      BY <1>7, <1>8, <1>9, <2>8
    <3>2. todo'["Curl"] = Declaring /\ race'.has_alt
      BY <2>6, <2>8, <3>1 DEF TodoOK
    <3>3. Contending'
      BY <1>5, <3>2 DEF Contending
    <3>. QED
      BY <1>4, <2>3, <2>6, <3>1, <3>3
  <2>. QED
    BY <2>5, <2>7, <2>8
<1>10. todo["Curl"] # Declaring
  <2>. SUFFICES ASSUME todo["Curl"] = Declaring PROVE FALSE
    OBVIOUS
  <2>1. Head(todo["Curl"]) = <<"declareWinner", "Curl">> /\ isAlt("Curl")
    BY DEF Declaring, Contending, Early, isAlt
  <2>2. MixedDeclareWinner("Curl")
    BY <2>1, StageStep
  <2>3. race'.primary_leg = "Curl"
    <3>1. PICK l \in Legs :
            /\ Head(todo["Curl"]) = <<"declareWinner", l>>
            /\ \/ l = race.primary_leg
               \/ race' = [race EXCEPT !.mixed_delay_pending = FALSE, !.has_alt = FALSE,
                                       !.primary_leg = l]
               \/ ~isAlt(l)
      BY <2>2 DEF MixedDeclareWinner, At
    <3>2. l = "Curl" /\ race.primary_leg = "Quic"
      BY <2>1, <3>1 DEF Early
    <3>. QED
      BY <2>1, <3>1, <3>2 DEF Races
  <2>. QED
    BY <2>3 DEF Early
<1>11. ~race.session_open
  BY <1>10 DEF Contending
<1>12. ASSUME NEW m \in {"ok", "leave", "refused"}, todo["Curl"] = << <<"recv", "Curl", m>> >>
       PROVE  (Bystanders /\ Starting /\ Contending)'
  <2>1. Head(todo["Curl"]) = <<"recv", "Curl", m>>
    BY <1>12
  <2>2. onTransportRecv("Curl")
    BY <2>1, StageStep
  <2>3. Then("Curl", <<>>) /\ UNCHANGED <<race, leave, sock, ping>>
    BY <1>11, <2>2 DEF onTransportRecv
  <2>4. todo' = [todo EXCEPT !["Curl"] = <<>>]
    BY <1>7, <1>8, <1>12, <2>3
  <2>5. Contending'
    BY <1>5, <1>6, <1>11, <2>3, <2>4 DEF Contending
  <2>. QED
    BY <1>4, <2>3, <2>4, <2>5
<1>13. CASE sock["Curl"].reported /\ todo["Curl"] \in Endings
  <2>1. Head(todo["Curl"]) \in Ending /\ Tail(todo["Curl"]) \in Endings
    BY <1>1, <1>13 DEF Endings
  <2>2. PICK steps \in Endings : Then("Curl", steps)
    BY <2>1, EndingTurns
  <2>3. todo' = [todo EXCEPT !["Curl"] = steps \o Tail(todo["Curl"])]
    BY <2>2 DEF Then
  <2>4. steps \o Tail(todo["Curl"]) \in Endings
    BY <2>1, <2>2, FewEnding
  <2>5. todo'["Curl"] \in Endings
    BY <2>3, <2>4 DEF TodoOK
  <2>6. ~OpenPrimary("Curl") /\ ~OpenAlt("Curl")
    BY <2>1, NotEnding DEF OpenPrimary, OpenAlt, At
  <2>7. sock'["Curl"].reported
    BY <1>13, <2>6, StepWakes
  <2>8. Declaring \notin Endings
    <3>1. Declaring[1] = <<"declareWinner", "Curl">> /\ 1 \in 1..Len(Declaring)
      BY DEF Declaring
    <3>2. <<"declareWinner", "Curl">> \notin Ending
      BY NotEnding
    <3>. QED
      BY <3>1, <3>2 DEF Endings
  <2>9. /\ race'.has_alt => race.has_alt
        /\ race'.mixed_delay_pending => race.mixed_delay_pending
        /\ ping'.armed => ping.armed
        /\ leave'.armed => leave.armed
        /\ ~race'.session_open
    BY <1>11, <2>1, EndingData
  <2>10. Contending'
    BY <2>5, <2>7, <2>8, <2>9 DEF Contending, Usable
  <2>. QED
    BY <1>4, <2>3, <2>9, <2>10
<1>. QED
  BY <1>1, <1>9, <1>10, <1>12, <1>13 DEF Contending, Beats

\* What starts in the early race: the delay thread, or a callback of a leg.
LEMMA EarlyStart ==
    ASSUME TypeOK, SockInv, Early, Early', Bystanders, Starting, Contending,
           \/ DelayElapses \/ PingTimeout \/ LeaveTimeout
           \/ SocketOpens("Quic") \/ Transport("Curl")
    PROVE  (Bystanders /\ Starting /\ Contending)'
<1>. /\ DataOK /\ TodoOK /\ sock \in [Legs -> Sockets] /\ race \in Races
     /\ "Curl" \in Legs /\ "Quic" \in Legs
     /\ "Curl" \in Threads /\ "Quic" \in Threads /\ Starters \subseteq Threads \ {"Curl", "Quic"}
  BY StarterNames, ThreadNames DEF TypeOK, DataOK, Legs
<1>1. ~PingTimeout /\ ~LeaveTimeout
  BY DEF Bystanders, PingTimeout, LeaveTimeout
<1>2. /\ << <<"startFallback">> >> \in Chain /\ <<>> \in Chain
      /\ << <<"startFallback">> >> # <<>> /\ <<>> \in Beats /\ <<>> # Declaring
  BY DEF Chain, Beats, Declaring
<1>3. CASE DelayElapses
  <2>1. /\ race' = [race EXCEPT !.mixed_delay_pending = FALSE] /\ race.mixed_delay_pending
        /\ UNCHANGED <<sock, ping, leave>>
    BY <1>3 DEF DelayElapses, OnlyRace
  <2>a. PICK t \in Detached : Started(t, << <<"startFallback">> >>)
    BY <1>3 DEF DelayElapses, Starts, Started
  <2>b. t \in Starters /\ t \in Threads /\ t # "Curl" /\ t # "Quic"
    BY StarterNames DEF Starters
  <2>2. /\ todo'[t] = << <<"startFallback">> >>
        /\ \A u \in Threads \ {t} : todo'[u] = todo[u]
    BY <2>a, <2>b, StartedAt
  <2>3. /\ ~race'.mixed_delay_pending /\ race'.has_alt = race.has_alt
        /\ race'.session_open = race.session_open
    BY <2>1 DEF Races
  <2>4. /\ Fresh /\ ~race.has_alt /\ \A u \in Starters : todo[u] = <<>>
    BY <2>1 DEF Starting
  <2>5. Fresh'
    BY <2>1, <2>2, <2>4, <2>b DEF Fresh
  <2>6. Bystanders'
    BY <2>1, <2>2, <2>b DEF Bystanders
  <2>7. Starting'
    BY <1>2, <2>2, <2>3, <2>4, <2>5, <2>b DEF Starting
  <2>8. Contending'
    BY <1>2, <2>2, <2>3, <2>4, <2>5, <2>b DEF Contending, Fresh, Usable
  <2>. QED
    BY <2>6, <2>7, <2>8
<1>4. CASE SocketOpens("Quic")
  <2>1. /\ Started("Quic", << <<"opened", "Quic">> >>) /\ UNCHANGED <<race, ping, leave>>
        /\ sock'["Curl"] = sock["Curl"]
    <3>1. \A s : [sock EXCEPT !["Quic"] = s]["Curl"] = sock["Curl"]
      OBVIOUS
    <3>. QED
      BY <1>4, <3>1 DEF SocketOpens, Starts, Started, OnlySock
  <2>2. /\ todo'["Quic"] = << <<"opened", "Quic">> >>
        /\ \A u \in Threads \ {"Quic"} : todo'[u] = todo[u]
    BY <2>1, StartedAt
  <2>3. Bystanders'
    BY <2>1, <2>2 DEF Bystanders
  <2>4. Starting'
    BY <2>1, <2>2 DEF Starting, Fresh
  <2>5. Contending'
    BY <2>1, <2>2 DEF Contending
  <2>. QED
    BY <2>3, <2>4, <2>5
<1>5. CASE Transport("Curl")
  <2>1. /\ sock["Curl"].alive /\ todo["Curl"] = <<>> /\ UNCHANGED <<race, ping>>
        /\ leave'.armed = leave.armed
    BY <1>5 DEF Transport, SocketBreaks, SocketOpens, SocketFails, SocketClosedByPeer,
         SocketStops, SocketEnds, SocketReceives, MayBreak, MayOpen, MayFail, MayBeClosed,
         MayStop, MayEnd, Starts, OnlySock, DataOK, Leaves
  <2>2. ~race.session_open
    BY <1>2, <2>1 DEF Contending
  <2>3. PICK steps : /\ todo' = [todo EXCEPT !["Curl"] = steps]
                     /\ steps \in Beats \ {Declaring} \/ (sock'["Curl"].reported /\ steps \in Endings)
                     /\ Usable(sock'["Curl"]) => Usable(sock["Curl"])
    <3>1. CASE SocketOpens("Curl")
      <4>1. << <<"opened", "Curl">> >> \in Beats \ {Declaring}
        BY DEF Beats, Declaring
      <4>2. Usable(OpenedUp(sock["Curl"])) => Usable(sock["Curl"])
        BY <3>1 DEF SocketOpens, MayOpen, OpenedUp, Usable, Sockets
      <4>3. sock'["Curl"] = OpenedUp(sock["Curl"])
        BY <3>1 DEF SocketOpens
      <4>. QED
        BY <3>1, <4>1, <4>2, <4>3 DEF SocketOpens, Starts
    <3>2. ASSUME NEW a \in Ending, Reporting("Curl"), todo' = [todo EXCEPT !["Curl"] = <<a>>]
          PROVE  /\ todo' = [todo EXCEPT !["Curl"] = <<a>>]
                 /\ sock'["Curl"].reported /\ <<a>> \in Endings
                 /\ Usable(sock'["Curl"]) => Usable(sock["Curl"])
      <4>1. sock'["Curl"].reported
        BY <3>2 DEF Reporting, Sockets
      <4>. QED
        BY <3>2, <4>1, FewEnding DEF Usable
    <3>3. CASE SocketFails("Curl")
      <4>1. PICK k \in {"security", "timeout", "other"} :
              todo' = [todo EXCEPT !["Curl"] = << <<"error", "Curl", k>> >>]
        BY <3>3 DEF SocketFails, Starts
      <4>2. <<"error", "Curl", k>> \in Ending
        BY EndingShapes
      <4>3. Reporting("Curl")
        BY <3>3 DEF SocketFails
      <4>. QED
        BY <3>2, <4>1, <4>2, <4>3
    <3>4. CASE SocketClosedByPeer("Curl") \/ SocketStops("Curl")
      <4>1. PICK how \in {"local", "remote", "token"} :
              todo' = [todo EXCEPT !["Curl"] = << <<"closed", "Curl", how>> >>]
        BY <3>4 DEF SocketClosedByPeer, SocketStops, Starts
      <4>2. <<"closed", "Curl", how>> \in Ending
        BY EndingShapes
      <4>3. Reporting("Curl")
        BY <3>4 DEF SocketClosedByPeer, SocketStops
      <4>. QED
        BY <3>2, <4>1, <4>2, <4>3
    <3>5. CASE SocketEnds("Curl")
      <4>1. todo' = [todo EXCEPT !["Curl"] = <<>>] /\ sock'["Curl"] = Ended(sock["Curl"])
        BY <3>5 DEF SocketEnds, Starts
      <4>2. ~Usable(Ended(sock["Curl"]))
        BY DEF Ended, Usable, Sockets
      <4>. QED
        BY <1>2, <4>1, <4>2
    <3>6. CASE SocketReceives("Curl")
      <4>1. PICK m \in {"ok", "leave", "refused"} :
              todo' = [todo EXCEPT !["Curl"] = << <<"recv", "Curl", m>> >>] /\ sock' = sock
        BY <3>6 DEF SocketReceives, Starts
      <4>2. << <<"recv", "Curl", m>> >> \in Beats \ {Declaring}
        BY DEF Beats, Declaring
      <4>. QED
        BY <4>1, <4>2
    <3>7. CASE SocketBreaks("Curl")
      <4>1. todo' = [todo EXCEPT !["Curl"] = <<>>] /\ sock'["Curl"] = Broken(sock["Curl"])
        BY <3>7, BreakMoves
      <4>2. ~Usable(Broken(sock["Curl"]))
        BY DEF Broken, Usable, Sockets
      <4>. QED
        BY <1>2, <4>1, <4>2
    <3>. QED
      BY <1>5, <3>1, <3>3, <3>4, <3>5, <3>6, <3>7 DEF Transport
  <2>4. todo'["Curl"] = steps /\ \A u \in Threads \ {"Curl"} : todo'[u] = todo[u]
    BY <2>3 DEF TodoOK
  <2>5. Declaring \notin Endings
    <3>1. Declaring[1] = <<"declareWinner", "Curl">> /\ 1 \in 1..Len(Declaring)
      BY DEF Declaring
    <3>2. <<"declareWinner", "Curl">> \notin Ending
      BY NotEnding
    <3>. QED
      BY <3>1, <3>2 DEF Endings
  <2>6. Bystanders'
    BY <2>1, <2>4 DEF Bystanders
  <2>7. \A t \in Starters : todo'[t] = todo[t]
    BY <2>4
  <2>8. Starting'
    BY <2>1, <2>7 DEF Starting, Fresh
  <2>9. Contending'
    BY <2>1, <2>2, <2>3, <2>4, <2>5, <2>7 DEF Contending
  <2>. QED
    BY <2>6, <2>8, <2>9
<1>. QED
  BY <1>1, <1>3, <1>4, <1>5

LEMMA EarlyStep ==
    TypeOK /\ PairsInv /\ SockInv /\ CallbackInv /\ OrderInv /\ YoungInv /\ EntryInv /\ EarlyInv
        /\ [Next]_vars => EarlyInv'
<1>. SUFFICES ASSUME TypeOK, PairsInv, SockInv, CallbackInv, OrderInv, YoungInv, EntryInv,
                     EarlyInv, [Next]_vars, Early'
              PROVE  (Bystanders /\ Starting /\ Contending)'
  BY DEF EarlyInv
<1>1. ASSUME NEW t \in Threads, Step(t) PROVE (Bystanders /\ Starting /\ Contending)'
  <2>1. CASE OpenPrimary(t)
    BY <2>1, EarlyOpens
  <2>2. CASE ~OpenPrimary(t)
    <3>1. Early /\ Bystanders /\ Starting /\ Contending
      BY <1>1, <2>2, EarlyBefore DEF EarlyInv
    <3>2. t \in Starters \cup {"Curl", "Quic"}
      BY StarterNames, ThreadNames DEF Starters, Threads, Legs
    <3>. QED
      BY <1>1, <3>1, <3>2, EarlyStarter, EarlyCurl, EarlyQuic
  <2>. QED
    BY <2>1, <2>2
<1>2. CASE Wakeup \/ (\E k \in Legs : Transport(k)) \/ Connect \/ Disconnect
  <2>1. /\ Early
        /\ \/ DelayElapses \/ PingTimeout \/ LeaveTimeout
           \/ SocketOpens("Quic") \/ Transport("Curl")
    BY <1>2, EarlyStarted
  <2>. QED
    BY <2>1, EarlyStart DEF EarlyInv
<1>3. CASE UNCHANGED vars
  <2>1. mixedMode' = mixedMode
    BY <1>3 DEF vars, mixedMode
  <2>2. Early' = Early /\ Bystanders' = Bystanders /\ Starting' = Starting
        /\ Contending' = Contending
    BY <1>3, <2>1 DEF vars, Early, Unopened, Pends, Bystanders, Starting, Contending, Fresh
  <2>. QED
    BY <2>2 DEF EarlyInv
<1>. QED
  BY <1>1, <1>2, <1>3 DEF Next, Busy

LEMMA EarlyInit == Init => EarlyInv
BY DEF Init, EarlyInv, Early

\* The quic leg won: a TCP leg that is not in the race is being closed, or is
\* about to enter the race, and is closed then.
TcpLoserInv ==
    mixedMode /\ past.attempts <= 1 /\ race.session_open /\ race.primary_leg = "Quic"
        /\ Usable(sock["Curl"]) /\ ~race.has_alt => Pends(Closes("Curl"))

\* The TCP leg took over: a quic leg that still runs is being closed.
QuicLoserInv ==
    mixedMode /\ past.attempts <= 1 /\ ~Pends(Opening) /\ race.primary_leg = "Curl"
        /\ Usable(sock["Quic"]) => Pends(Closes("Quic"))

\* Without a race the other leg never runs, and never carries the session.
OtherInv ==
    ~mixedMode => \A l \in Legs \ {OneLeg} :
        ~sock[l].alive /\ (race.session_open => race.primary_leg # l)

\* When the quic leg opens the session, a running TCP leg is about to enter the race.
LEMMA QuicWins ==
    ASSUME TypeOK, SockInv, CallbackInv, YoungInv, EarlyInv, NEW t \in Threads, onTransportOpen(t),
           mixedMode, past.attempts <= 1, ~race.session_open, race'.session_open,
           race.primary_leg = "Quic", ~race'.has_alt, Usable(sock'["Curl"])
    PROVE  Pends(Closes("Curl"))'
<1>. /\ DataOK /\ TodoOK /\ race \in Races /\ past.attempts \in Nat
     /\ "Quic" \in Threads /\ "Quic" \in Legs
  BY DEF TypeOK, DataOK, Pasts, Threads, Legs
<1>0. crash = "none" /\ Step(t)
  <2>1. PICK l \in Legs : crash = "none" /\ todo[t] # <<>> /\ Head(todo[t]) = <<"opened", l>>
    BY DEF onTransportOpen, At
  <2>2. Head(todo[t])[1] = "opened"
    BY <2>1
  <2>. QED
    BY <2>1, <2>2 DEF Step, CallbackStep, Runs
<1>1. PICK l \in Legs :
        /\ Head(todo[t]) = <<"opened", l>> /\ todo[t] # <<>>
        /\ isCandidate(l) /\ ~retry.user_closed
        /\ race' = [race EXCEPT !.session_open = TRUE] /\ sock' = sock
  BY DEF onTransportOpen, At, OnlyRace, Races
<1>2. ~race.has_alt /\ l = "Quic"
  <2>1. ~race.has_alt
    BY <1>1 DEF Races
  <2>. QED
    BY <1>1, <2>1 DEF isCandidate, isAlt
<1>3. t = "Quic" /\ Live("Quic")
  <2>1. 1 \in 1..Len(todo[t]) /\ todo[t][1] = <<"opened", "Quic">>
    BY <1>1, <1>2 DEF TodoOK
  <2>. QED
    BY <1>0, <2>1 DEF CallbackInv
<1>4. ~Young
  BY <1>0, <1>1, <1>3 DEF YoungInv
<1>5. Early
  <2>1. past.attempts = 1 /\ ~Pends(Opening)
    BY <1>4 DEF Young
  <2>2. Unopened
    BY <1>0, <1>1, <1>2, <1>3 DEF SockInv, Rests, Live, Unopened
  <2>. QED
    BY <1>0, <1>1, <2>1, <2>2 DEF Early
<1>6. PICK u \in Starters : todo[u] = Entering
  BY <1>1, <1>2, <1>5 DEF EarlyInv, Contending
<1>7. u \in Threads /\ u # t
  BY <1>3, StarterNames
<1>8. todo'[u] = Entering
  <2>1. PICK steps \in Seq(Steps) : Then(t, steps)
    BY <1>0, StepMoves
  <2>. QED
    BY <1>6, <1>7, <2>1, ThenOnly
<1>9. 1 \in 1..Len(todo'[u]) /\ todo'[u][1] \in Closes("Curl")
  <2>1. Len(Entering) = 1 /\ Entering[1] = <<"enterRace">>
    BY DEF Entering
  <2>. QED
    BY <1>8, <2>1, CloseKinds
<1>. QED
  BY <1>7, <1>9 DEF Pends

\* Who takes the TCP leg out of the race of an open session closes it.
LEMMA AltCloses ==
    ASSUME TypeOK, NEW t \in Threads, Step(t), race.session_open, race'.session_open,
           race.has_alt, ~race'.has_alt, race'.primary_leg = "Quic"
    PROVE  Pends(Closes("Curl"))'
<1>. DataOK /\ TodoOK /\ race \in Races
  BY DEF TypeOK, DataOK
<1>1. \E how \in {"join", "async"} : Then(t, << <<"closeCurl", how>> >>)
  <2>1. CASE CancelMixedRace(t)
    BY <2>1 DEF CancelMixedRace
  <2>2. ~Calm(t) /\ ~AllClosed(t) /\ ~ChooseLeg(t) /\ ~SessionOff(t) /\ ~Report(t) /\ ~Resume(t)
    BY DEF Calm, AllClosed, ChooseLeg, SessionOff, Report, Resume, Races
  <2>3. ~HandleMixedTransportFailure(t)
    BY DEF HandleMixedTransportFailure, Races
  <2>4. ~Promote(t)
    BY DEF Promote, Races
  <2>5. ~onTransportClose(t) /\ ~onTransportError(t)
    BY DEF onTransportClose, onTransportError, OnlyTodo
  <2>6. CASE onTransportOpen(t)
    <3>1. Then(t, closeAsync("Curl"))
      BY <2>6 DEF onTransportOpen, Races
    <3>. QED
      BY <3>1 DEF closeAsync
  <2>7. CASE MixedDeclareWinner(t)
    <3>1. Then(t, closeAsync("Curl"))
      BY <2>7 DEF MixedDeclareWinner, isAlt, Races
    <3>. QED
      BY <3>1 DEF closeAsync
  <2>. QED
    BY <2>1, <2>2, <2>3, <2>4, <2>5, <2>6, <2>7, StepCalm
<1>2. PICK how \in {"join", "async"} : Then(t, << <<"closeCurl", how>> >>)
  BY <1>1
<1>3. << <<"closeCurl", how>> >> \in Seq(Steps) /\ <<"closeCurl", how>> \in Closes("Curl")
  BY CloseKinds DEF Steps
<1>4. \E i \in 1..Len(<< <<"closeCurl", how>> >>) : << <<"closeCurl", how>> >>[i] \in Closes("Curl")
  BY <1>3
<1>. QED
  BY <1>2, <1>3, <1>4, StepMoves, ThenPends

LEMMA TcpLoserStep ==
    TypeOK /\ HeedsInv /\ SockInv /\ CallbackInv /\ PairsInv /\ OrderInv /\ YoungInv /\ EarlyInv
        /\ TcpLoserInv /\ [Next]_vars => TcpLoserInv'
<1>. SUFFICES ASSUME TypeOK, HeedsInv, SockInv, CallbackInv, PairsInv, OrderInv, YoungInv, EarlyInv,
                     TcpLoserInv, [Next]_vars, mixedMode', past'.attempts <= 1,
                     race'.session_open, race'.primary_leg = "Quic", ~race'.has_alt,
                     Usable(sock'["Curl"])
              PROVE  Pends(Closes("Curl"))'
  BY DEF TcpLoserInv
<1>. /\ DataOK /\ TodoOK /\ race \in Races /\ "Curl" \in Legs
     /\ sock \in [Legs -> Sockets] /\ past.attempts \in Nat
  BY DEF TypeOK, DataOK, Pasts, Legs
<1>0. mixedMode
  BY SameScenario DEF mixedMode
<1>1. ASSUME NEW t \in Threads, Step(t) PROVE Pends(Closes("Curl"))'
  <2>1. past.attempts <= 1
    BY <1>1, StepFirst
  <2>2. race.primary_leg = "Quic"
    <3>1. ~ChooseLeg(t)
      BY DEF ChooseLeg, Races
    <3>. QED
      BY <1>1, <3>1, StepPrimary
  <2>3. CASE OpenPrimary(t)
    <3>1. /\ race' = race /\ Head(todo[t]) = <<"openPrimary">>
          /\ Usable(sock["Curl"])
      <4>1. \A s : [sock EXCEPT !["Quic"] = s]["Curl"] = sock["Curl"]
        OBVIOUS
      <4>2. sock'["Curl"] = sock["Curl"]
        BY <1>0, <2>3, <4>1 DEF OpenPrimary, OpenQuic, mixedMode
      <4>. QED
        BY <2>3, <4>2 DEF OpenPrimary, At
    <3>2. Pends(Closes("Curl"))
      BY <1>0, <2>1, <3>1 DEF TcpLoserInv
    <3>3. Head(todo[t]) \notin Closes("Curl")
      BY <3>1, CloseHeads, CloseKinds
    <3>. QED
      BY <1>1, <3>2, <3>3, StepMoves, ThenPends
  <2>4. CASE ~OpenPrimary(t) /\ ~race.session_open
    BY <1>0, <1>1, <2>1, <2>2, <2>4, StepOpens, QuicWins
  <2>5. CASE ~OpenPrimary(t) /\ race.session_open /\ race.has_alt
    BY <1>1, <2>5, AltCloses
  <2>6. CASE ~OpenPrimary(t) /\ race.session_open /\ ~race.has_alt
    <3>1. Usable(sock["Curl"]) => Pends(Closes("Curl"))
      BY <1>0, <2>1, <2>2, <2>6 DEF TcpLoserInv
    <3>. QED
      BY <1>1, <2>6, <3>1, StepPends
  <2>. QED
    BY <2>3, <2>4, <2>5, <2>6
<1>2. CASE Wakeup \/ (\E k \in Legs : Transport(k)) \/ Connect \/ Disconnect
  <2>1. past.attempts <= 1
    BY <1>2, StartPast
  <2>2. /\ race'.session_open = race.session_open /\ race'.primary_leg = race.primary_leg
        /\ race'.has_alt = race.has_alt
    BY <1>2 DEF Wakeup, DelayElapses, ReconnectElapses, PingTimeout, LeaveTimeout, Connect,
         Disconnect, Transport, SocketBreaks, SocketOpens, SocketFails, SocketClosedByPeer,
         SocketStops, SocketEnds, SocketReceives, OnlyRace, OnlyLeave, OnlySock, Races
  <2>3. Pends(Closes("Curl"))
    BY <1>0, <1>2, <2>1, <2>2, StartUsable DEF TcpLoserInv
  <2>. QED
    BY <1>2, <2>3, StartsMove
<1>3. CASE UNCHANGED vars
  BY <1>0, <1>3 DEF vars, TcpLoserInv, Pends
<1>. QED
  BY <1>1, <1>2, <1>3 DEF Next, Busy

\* A quic leg of the first Mixed attempt that fails has reported its end.
LEMMA QuicFailed ==
    ASSUME TypeOK, YoungInv, TokenInv, mixedMode, past.attempts <= 1, crash = "none",
           NEW t \in Threads, todo[t] # <<>>,
           NEW f \in {"fallback", "none"}, NEW k \in {"fatal", "reconnect"},
           Head(todo[t]) = <<"failure", "Quic", f, k>>
    PROVE  sock["Quic"].reported
<1>. TodoOK /\ DataOK /\ past.attempts \in Nat /\ "Quic" \in Legs
  BY DEF TypeOK, DataOK, Pasts, Legs
<1>1. Pends(Tokens)
  <2>1. 1 \in 1..Len(todo[t]) /\ todo[t][1] = Head(todo[t])
    BY DEF TodoOK
  <2>2. <<"failure", "Quic", f, k>> \in Tokens
    BY DEF Tokens, Fails
  <2>. QED
    BY <2>1, <2>2 DEF Pends
<1>2. ~Young
  <2>. SUFFICES ASSUME Young PROVE FALSE
    OBVIOUS
  <2>1. t = "app" /\ todo[t] \in Beginnings
    BY DEF YoungInv
  <2>2. Head(todo[t]) \in Beginning
    BY <2>1 DEF Beginnings
  <2>3. "Quic" # "Curl"
    OBVIOUS
  <2>. QED
    BY <2>2, <2>3, NotBeginning
<1>. QED
  BY <1>1, <1>2 DEF Young, TokenInv

\* When the TCP leg takes over from a quic leg that still runs, it closes it.
LEMMA QuicCloses ==
    ASSUME TypeOK, PromoteInv, YoungInv, TokenInv, mixedMode, past.attempts <= 1,
           NEW t \in Threads, Step(t), ~ChooseLeg(t),
           race.primary_leg = "Quic", race'.primary_leg = "Curl", Usable(sock'["Quic"])
    PROVE  Pends(Closes("Quic"))'
<1>. DataOK /\ TodoOK /\ race \in Races
  BY DEF TypeOK, DataOK
<1>0. crash = "none" /\ FirstRace
  BY StepRuns DEF FirstRace
<1>1. ~sock["Quic"].reported \/ sock' # sock
  BY DEF Usable
<1>2. ~Promote(t)
  <2>1. Promote(t) => sock' = sock
    BY DEF Promote, OnlyRace
  <2>. QED
    BY <1>0, <1>1, <2>1, PromoteLate
<1>3. ~HandleMixedTransportFailure(t)
  <2>. SUFFICES ASSUME HandleMixedTransportFailure(t) PROVE FALSE
    OBVIOUS
  <2>1. sock' = sock /\ todo[t] # <<>>
    BY DEF HandleMixedTransportFailure, OnlyRace, At
  <2>2. \E f \in {"fallback", "none"}, k \in {"fatal", "reconnect"} :
           Head(todo[t]) = <<"failure", "Quic", f, k>>
    BY DEF HandleMixedTransportFailure, At, Races
  <2>. QED
    BY <1>0, <1>1, <2>1, <2>2, QuicFailed
<1>4. ~Calm(t) /\ ~AllClosed(t) /\ ~CancelMixedRace(t) /\ ~SessionOff(t) /\ ~Report(t) /\ ~Resume(t)
  BY DEF Calm, AllClosed, CancelMixedRace, SessionOff, Report, Resume, Races
<1>5. ~onTransportOpen(t) /\ ~onTransportClose(t) /\ ~onTransportError(t)
  BY DEF onTransportOpen, onTransportClose, onTransportError, OnlyTodo, Races
<1>6. MixedDeclareWinner(t)
  BY <1>2, <1>3, <1>4, <1>5, StepCalm
<1>7. Then(t, << <<"closeQuic", "async">> >>)
  BY <1>6 DEF MixedDeclareWinner, closeAsync, isAlt, Races
<1>8. << <<"closeQuic", "async">> >> \in Seq(Steps) /\ <<"closeQuic", "async">> \in Closes("Quic")
  BY CloseKinds DEF Steps
<1>9. \E i \in 1..Len(<< <<"closeQuic", "async">> >>) :
         << <<"closeQuic", "async">> >>[i] \in Closes("Quic")
  BY <1>8
<1>. QED
  BY <1>7, <1>8, <1>9, StepMoves, ThenPends

\* The TCP leg is in charge of the first Mixed attempt only after its quic leg was
\* opened.
LEMMA QuicFirst ==
    ASSUME TypeOK, OrderInv, YoungInv, EntryInv, mixedMode, past.attempts <= 1,
           NEW t \in Threads, OpenPrimary(t)
    PROVE  race'.primary_leg = "Quic"
<1>. TodoOK /\ DataOK /\ past.attempts \in Nat
  BY DEF TypeOK, DataOK, Pasts
<1>1. /\ crash = "none" /\ todo[t] # <<>> /\ race' = race
      /\ 1 \in 1..Len(todo[t]) /\ todo[t][1] = <<"openPrimary">>
  BY DEF OpenPrimary, At, TodoOK
<1>2. Young
  <2>1. Pends(Opening)
    BY <1>1 DEF Pends, Opening
  <2>. QED
    BY <2>1 DEF Young
<1>3. t = "app"
  BY <1>1, <1>2 DEF YoungInv
<1>4. OpensOnly(todo["app"])
  BY <1>1, <1>3 DEF OrderInv, Ordered, OpensOnly
<1>. QED
  BY <1>1, <1>2, <1>4 DEF EntryInv

LEMMA QuicLoserStep ==
    TypeOK /\ HeedsInv /\ PairsInv /\ OrderInv /\ PromoteInv /\ YoungInv /\ TokenInv /\ EntryInv
        /\ QuicLoserInv /\ [Next]_vars => QuicLoserInv'
<1>. SUFFICES ASSUME TypeOK, HeedsInv, PairsInv, OrderInv, PromoteInv, YoungInv, TokenInv, EntryInv,
                     QuicLoserInv, [Next]_vars, mixedMode', past'.attempts <= 1,
                     ~Pends(Opening)', race'.primary_leg = "Curl", Usable(sock'["Quic"])
              PROVE  Pends(Closes("Quic"))'
  BY DEF QuicLoserInv
<1>. /\ DataOK /\ TodoOK /\ race \in Races /\ "Quic" \in Legs /\ past.attempts \in Nat
  BY DEF TypeOK, DataOK, Pasts, Legs
<1>0. mixedMode
  BY SameScenario DEF mixedMode
<1>1. ASSUME NEW t \in Threads, Step(t) PROVE Pends(Closes("Quic"))'
  <2>1. past.attempts <= 1
    BY <1>1, StepFirst
  <2>2. ~OpenPrimary(t)
    BY <1>0, <2>1, QuicFirst
  <2>3. ~Pends(Opening) /\ ~ChooseLeg(t)
    BY <1>1, <2>2, StepOpening, ChooseOpens
  <2>4. CASE race.primary_leg = "Quic"
    BY <1>0, <1>1, <2>1, <2>3, <2>4, QuicCloses
  <2>5. CASE race.primary_leg = "Curl"
    <3>1. Usable(sock["Quic"]) => Pends(Closes("Quic"))
      BY <1>0, <2>1, <2>3, <2>5 DEF QuicLoserInv
    <3>. QED
      BY <1>1, <2>2, <3>1, StepPends
  <2>. QED
    BY <2>4, <2>5 DEF Races, Legs
<1>2. CASE Wakeup \/ (\E k \in Legs : Transport(k)) \/ Connect \/ Disconnect
  <2>1. past.attempts <= 1
    BY <1>2, StartPast
  <2>2. ~Pends(Opening)
    BY <1>2, StartsMove
  <2>3. race'.primary_leg = race.primary_leg
    BY <1>2 DEF Wakeup, DelayElapses, ReconnectElapses, PingTimeout, LeaveTimeout, Connect,
         Disconnect, Transport, SocketBreaks, SocketOpens, SocketFails, SocketClosedByPeer,
         SocketStops, SocketEnds, SocketReceives, OnlyRace, OnlyLeave, OnlySock, Races
  <2>4. Pends(Closes("Quic"))
    BY <1>0, <1>2, <2>1, <2>2, <2>3, StartUsable DEF QuicLoserInv
  <2>. QED
    BY <1>2, <2>4, StartsMove
<1>3. CASE UNCHANGED vars
  BY <1>0, <1>3 DEF vars, QuicLoserInv, Pends
<1>. QED
  BY <1>1, <1>2, <1>3 DEF Next, Busy

LEMMA OtherStep ==
    TypeOK /\ SockInv /\ CallbackInv /\ SoleInv /\ OtherInv /\ [Next]_vars => OtherInv'
<1>. SUFFICES ASSUME TypeOK, SockInv, CallbackInv, SoleInv, OtherInv, [Next]_vars, ~mixedMode',
                     NEW l \in Legs \ {OneLeg'}
              PROVE  ~sock'[l].alive /\ (race'.session_open => race'.primary_leg # l)
  BY DEF OtherInv
<1>. /\ DataOK /\ TodoOK /\ race \in Races /\ "Curl" \in Legs /\ "Quic" \in Legs
     /\ sock \in [Legs -> Sockets]
  BY DEF TypeOK, DataOK, Legs
<1>0. ~mixedMode /\ l \in Legs \ {OneLeg}
  BY SameScenario DEF mixedMode, OneLeg
<1>1. ~sock[l].alive /\ (race.session_open => race.primary_leg # l)
  BY <1>0 DEF OtherInv
<1>2. ASSUME NEW t \in Threads, Step(t)
      PROVE  ~sock'[l].alive /\ (race'.session_open => race'.primary_leg # l)
  <2>1. crash = "none" /\ todo[t] # <<>>
    BY <1>2, StepRuns, StepMoves
  <2>2. 1 \in 1..Len(todo[t]) /\ todo[t][1] = Head(todo[t])
    BY <2>1 DEF TodoOK
  <2>3. ~OpenAlt(t)
    <3>1. Head(todo[t]) \notin Racing
      BY <1>0, <2>2 DEF SoleInv, Pends
    <3>. QED
      BY <3>1 DEF OpenAlt, At, Racing
  <2>4. ~sock'[l].alive
    <3>1. CASE OpenPrimary(t)
      <4>1. \A k \in Legs : k # l => \A s : [sock EXCEPT ![k] = s][l] = sock[l]
        BY <1>0
      <4>2. sock'[l] = sock[l]
        BY <1>0, <3>1, <4>1 DEF OpenPrimary, OpenCurl, OpenQuic, OneLeg
      <4>. QED
        BY <1>1, <4>2
    <3>. QED
      BY <1>1, <1>2, <2>3, <3>1, StepWakes
  <2>5. CASE race.session_open
    <3>1. race'.primary_leg \in {OneLeg, race.primary_leg}
      BY <1>0, <1>2, StepSole DEF Solely
    <3>. QED
      BY <1>0, <1>1, <2>4, <2>5, <3>1
  <2>6. CASE ~race.session_open /\ race'.session_open
    <3>1. PICK k \in Legs :
            Head(todo[t]) = <<"opened", k>> /\ isCandidate(k) /\ race'.primary_leg = race.primary_leg
      BY <1>2, <2>6, StepOpens DEF onTransportOpen, At, Races
    <3>2. k = race.primary_leg
      BY <1>0, <3>1 DEF SoleInv, isCandidate, isAlt
    <3>3. sock[k].alive
      BY <2>1, <2>2, <3>1 DEF CallbackInv, SockInv, Rests
    <3>. QED
      BY <1>1, <2>4, <3>1, <3>2, <3>3
  <2>. QED
    BY <2>4, <2>5, <2>6
<1>3. CASE Wakeup \/ (\E k \in Legs : Transport(k)) \/ Connect \/ Disconnect
  <2>1. race' = race
    BY <1>0, <1>3, StartSole DEF SoleInv
  <2>2. ~sock'[l].alive
    <3>1. ASSUME NEW k \in Legs, Transport(k) PROVE ~sock'[l].alive
      <4>1. \A s : \/ [sock EXCEPT ![k] = s][l] = sock[l]
                   \/ k = l /\ [sock EXCEPT ![k] = s][l] = s
        OBVIOUS
      <4>2. sock' = sock \/ sock'[l] = sock[l] \/ sock'[l].alive = sock[l].alive \/ ~sock'[l].alive
        BY <3>1, <4>1 DEF Transport, SocketBreaks, SocketOpens, SocketFails,
             SocketClosedByPeer, SocketStops, SocketEnds, SocketReceives, Reporting, Broken,
             OpenedUp, Ended, Sockets
      <4>. QED
        BY <1>1, <4>2
    <3>. QED
      BY <1>1, <1>3, <3>1 DEF Wakeup, DelayElapses, ReconnectElapses, PingTimeout, LeaveTimeout,
         Connect, Disconnect, OnlyRace, OnlyLeave, OnlySock
  <2>. QED
    BY <1>1, <2>1, <2>2
<1>4. CASE UNCHANGED vars
  BY <1>1, <1>4 DEF vars
<1>. QED
  BY <1>2, <1>3, <1>4 DEF Next, Busy

LEMMA LoserInit == Init => TcpLoserInv /\ QuicLoserInv /\ OtherInv
<1>. SUFFICES ASSUME Init PROVE TcpLoserInv /\ QuicLoserInv /\ OtherInv
  OBVIOUS
<1>1. ~race.session_open /\ \A l \in Legs : ~sock[l].alive
  BY DEF Init, NeverOpened
<1>2. ~Usable(sock["Quic"])
  BY <1>1 DEF Usable, Legs
<1>. QED
  BY <1>1, <1>2 DEF TcpLoserInv, QuicLoserInv, OtherInv

\* First open wins (OneWinner): once a session is open and the threads rest, the other
\* transport is down or asked to close, unless it is the TCP leg that still races, whatever
\* the order in which the legs open, fail, enter the race and are closed.
THEOREM OneWinnerCorrect == Spec => []OneWinner
<1>1. TcpLoserInv /\ QuicLoserInv /\ OtherInv /\ TypeOK => OneWinner
  <2>. SUFFICES ASSUME TcpLoserInv, QuicLoserInv, OtherInv, TypeOK, Quiet, race.session_open,
                       FirstRace, NEW l \in Legs \ {race.primary_leg}, Usable(sock[l]), ~race.has_alt
                PROVE  FALSE
    BY DEF OneWinner
  <2>1. ~Pends(Opening) /\ ~Pends(Closes("Curl")) /\ ~Pends(Closes("Quic"))
    BY QuietPends
  <2>2. race.primary_leg \in Legs /\ sock[l].alive
    BY DEF TypeOK, DataOK, Races, Usable
  <2>3. CASE mixedMode
    <3>1. past.attempts <= 1
      BY <2>3 DEF FirstRace
    <3>2. \/ l = "Curl" /\ race.primary_leg = "Quic"
          \/ l = "Quic" /\ race.primary_leg = "Curl"
      BY <2>2 DEF Legs
    <3>. QED
      BY <2>1, <2>3, <3>1, <3>2 DEF TcpLoserInv, QuicLoserInv
  <2>4. CASE ~mixedMode
    <3>1. l = OneLeg
      BY <2>2, <2>4 DEF OtherInv
    <3>2. race.primary_leg = OneLeg
      BY <2>2, <2>4 DEF OtherInv
    <3>. QED
      BY <3>1, <3>2
  <2>. QED
    BY <2>3, <2>4
<1>. QED
  BY <1>1, HeedsInit, HeedsStep, SockInit, SockStep, CallbackInvInit, CallbackInvStep, PairsInit,
     PairsStep, OrderInit, OrderStep, PromoteInit, PromoteStep, YoungInit, YoungStep, TokenInit,
     TokenStep, SoleInit, SoleStep, ChosenInit, ChosenStep, EntryInit, EntryStep, EarlyInit,
     EarlyStep, LoserInit, TcpLoserStep, QuicLoserStep, OtherStep, TypeCorrect, PTL DEF Spec
===============================================================================
