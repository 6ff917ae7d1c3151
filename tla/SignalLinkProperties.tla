------------------------ MODULE SignalLinkProperties ------------------------
(***************************************************************************)
(* What the connection of a Signal promises.  SignalLink says what the     *)
(* code does; the properties here are about all of its threads together.   *)
(***************************************************************************)
EXTENDS SignalLink

\* No thread is inside a function of the Signal.
Quiet == \A t \in Threads : todo[t] = <<>>

\* The joined thread of l is gone, or has nothing to say any more.
Finished(l) == ~sock[l].alive \/ sock[l].reported

\* The stale thread of an earlier Mixed attempt can act on a later one (see the
\* README): what the race guarantees, it guarantees for the first attempt.
FirstRace == mixedMode => past.attempts <= 1

-------------------------------------------------------------------------------
\* Every step of todo is one of these.
Steps ==
    {<<s>> : s \in {"allClosed", "report", "failFatal", "beginConnect", "unsuppress",
                    "chooseLeg", "openPrimary", "sessionOff", "scheduleReconnect",
                    "reconnecting", "resume", "armReconnect", "joinCurl", "unlockCurl",
                    "joinQuic", "scheduleFallback", "startFallback", "openAlt",
                    "enterRace", "unlockRace", "startKeepalive", "tell", "sendLeave",
                    "awaitLeave", "closeAfterDisconnect"}}
    \cup ({"cancelMixedRace", "closeCurl", "closeQuic"} \X {"join", "async"})
    \cup ({"opened", "declareWinner"} \X Legs)
    \cup ({"promote"} \X {"fatal", "reconnect"})
    \cup ({"closed"} \X Legs \X {"local", "remote", "token"})
    \cup ({"error"} \X Legs \X {"security", "timeout", "other"})
    \cup ({"recv"} \X Legs \X {"ok", "leave", "refused"})
    \cup ({"failure"} \X Legs \X {"fallback", "none"} \X {"fatal", "reconnect"})

Races ==
    [primary_leg : Legs, has_alt : BOOLEAN, session_open : BOOLEAN,
     mixed_delay_pending : BOOLEAN, holder : Threads \cup {"none"}]

Retries ==
    [user_closed : BOOLEAN, suppress_reconnect : BOOLEAN,
     reconnect_count : Nat, armed : BOOLEAN]

Pings == [armed : BOOLEAN, answered : BOOLEAN]

Leaves == [closing : BOOLEAN, req : BOOLEAN, armed : BOOLEAN, sent : BOOLEAN]

Pasts ==
    [wanted : {"up", "down"}, told : BOOLEAN, connects : Nat,
     disconnects : Nat, attempts : Nat, answers : Nat]

TodoOK == todo \in [Threads -> Seq(Steps)]

DataOK ==
    /\ scenario \in Scenarios
    /\ race \in Races /\ retry \in Retries /\ ping \in Pings /\ leave \in Leaves
    /\ sock \in [Legs -> Sockets]
    /\ lifecycle \in Threads \cup {"none"}
    /\ crash \in {"none", "selfJoin", "overwritten"}
    /\ past \in Pasts

\* Types: in particular every thread runs steps of the functions above only, and
\* reconnect_count, which is counted up and reset by different threads, never
\* drops below zero.
TypeOK == TodoOK /\ DataOK

\* A session the Signal holds open when its threads rest is one whose transport
\* opened and has not closed: no interleaving of a close, an error and a
\* reconnection leaves session_open behind on a dead transport, where requests
\* would be sent into nothing (session_open, Signal.cpp onTransportClose and
\* scheduleReconnect).  A program that was terminated (crash) holds no session.
SessionIsLive ==
    Quiet /\ crash = "none" /\ race.session_open /\ FirstRace =>
        sock[race.primary_leg].notified /\ ~sock[race.primary_leg].reported

\* A session that is open at rest, and neither closed by the application nor given
\* up, is watched by a keepalive thread: stopKeepalive of one connection never
\* undoes the startKeepalive of the next.
Watched ==
    Quiet /\ race.session_open /\ ~retry.user_closed /\ ~retry.suppress_reconnect =>
        ping.armed

\* At rest, reconnection is suppressed only after the application was told of an
\* error: otherwise a lost connection would be neither retried nor reported.
\* Every section that sets suppress_reconnect clears it, or reports.
SuppressedOnlyWhenTold ==
    Quiet /\ retry.suppress_reconnect => past.told

\* An application that wants the connection is never left alone: at rest, with
\* every transport finished, either it was told of an error, or a reconnect
\* thread or the Mixed delay thread is going to act.
NeverAbandoned ==
    ~(/\ Quiet /\ crash = "none"
      /\ past.wanted = "up" /\ ~past.told
      /\ ~retry.armed /\ ~race.mixed_delay_pending
      /\ \A l \in Legs : Finished(l))

\* A close that requestClose drops, because the state is Closed, is lost on nobody: a
\* transport that still runs is Closed only when it has reported its end, or when it
\* never opened and is about to fail, so that no session comes of it.  And what runs
\* can be joined, so that close() waits for that report.
NoLostClose ==
    \A l \in Legs :
        sock[l].alive =>
            /\ sock[l].joinable
            /\ sock[l].state = "Closed" => sock[l].reported \/ ~sock[l].notified

\* One thread at a time joins the curl worker and reports for it, and it owns
\* lifecycle_mutex while it does: a second join of the same std::thread would throw.
JoinSteps == {<<"joinCurl">>, <<"unlockCurl">>}
Joins(t) == \E i \in 1..Len(todo[t]) : todo[t][i] \in JoinSteps
OneJoiner == \A t \in Threads : Joins(t) => lifecycle = t

\* "First open wins": once a session is open and its threads rest, the other
\* transport is not left running unless it is still the racing TCP leg.
OneWinner ==
    Quiet /\ race.session_open /\ FirstRace =>
        \A l \in Legs \ {race.primary_leg} : Usable(sock[l]) => race.has_alt

\* After disconnect has run its course no transport is left up, though a TCP leg
\* may be on its way, or a winner being declared, when it is called.
NoOrphan ==
    Quiet /\ past.wanted = "down" /\ past.disconnects > 0 /\ past.attempts <= 1
        /\ ~leave.closing =>
            \A l \in Legs : ~Usable(sock[l])

-------------------------------------------------------------------------------
(* What the code or its comments promise, and the code does not keep.        *)

\* closeAsync is safe from the worker thread: a worker inside it is not waited
\* for by the thread that owns lifecycle_mutex.
SafeFromWorker ==
    ~(/\ todo["Curl"] # <<>> /\ Head(todo["Curl"]) = <<"closeCurl", "async">>
      /\ \E t \in Threads :
            lifecycle = t /\ todo[t] # <<>> /\ Head(todo[t]) = <<"joinCurl">>)

\* No transport joins the thread it runs on.
NeverJoinsItself == crash # "selfJoin"

\* The workers are joined before a transport is opened again.
JoinedBeforeOpen == crash # "overwritten"

\* A connection is worth having: at rest, with no reconnection to come, a primary
\* transport that is open, and that nobody closed, carries the session.  Else its
\* answers, which would feed the ping timeout, are dropped, and it stays like that.
OpenIsUsed ==
    Quiet /\ crash = "none" /\ past.wanted = "up" /\ ~past.told /\ ~retry.armed =>
        \A l \in Legs :
            l = race.primary_leg /\ Usable(sock[l]) /\ sock[l].notified => race.session_open

\* A disconnect is not forgotten: a handshake that completes after it is aborted, so
\* that at rest no session is open that the application has given up.
DisconnectIsFinal ==
    Quiet /\ past.wanted = "down" /\ ~leave.closing => ~race.session_open

-------------------------------------------------------------------------------
\* Two threads are in beginConnect: the second one to open finds the transport of
\* the first open, and leaves it there with session_open cleared.
Connecting(t) == \E i \in 1..Len(todo[t]) : todo[t][i] = <<"openPrimary">>
Overlap == \E t, u \in Threads : t # u /\ Connecting(t) /\ Connecting(u)

\* Every attempt comes to an end, unless two run at once (Overlap): a Signal that is
\* wanted gets its session, tells the application why not, waits to reconnect, or the
\* application disconnects.
\* The other exception is the deadlock that SafeFromWorker excludes, which never ends.
AttemptsSettle ==
    \/ <>Overlap
    \/ past.wanted = "up" ~>
           \/ race.session_open \/ past.told \/ past.wanted = "down" \/ crash # "none"
           \/ ~SafeFromWorker
           \/ retry.armed /\ past.attempts = scenario.maxAttempts

\* disconnect drains: whether or not the server answers the Leave, the transports
\* come down, unless the application connects again, a reconnection overtakes it, or
\* the threads that close them wait for each other (SafeFromWorker).
DisconnectDrains ==
    past.wanted = "down" ~>
        \/ \A l \in Legs : ~Usable(sock[l])
        \/ past.wanted = "up" \/ ~retry.user_closed \/ crash # "none"
        \/ ~SafeFromWorker
===============================================================================
